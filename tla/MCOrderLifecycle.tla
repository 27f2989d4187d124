-------------------------- MODULE MCOrderLifecycle --------------------------
(* OrderLifecycle on small instances, for TLC: the token mints are          *)
(* interchangeable in the safety run.                                       *)
EXTENDS OrderLifecycle, TLC

MintSymmetry == Permutations(Mints)
=============================================================================
