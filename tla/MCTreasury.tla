------------------------------ MODULE MCTreasury ------------------------------
(* Treasury on small instances, for TLC: the transfers are interchangeable.   *)
EXTENDS Treasury, TLC

TransferSymmetry == Permutations(Transfers)
=============================================================================
