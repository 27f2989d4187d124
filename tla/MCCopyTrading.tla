---------------------------- MODULE MCCopyTrading ----------------------------
(* CopyTrading on a small instance, for TLC: leader a is followed by wallet   *)
(* and on the board, b on the board; each buys the one token, and s3 of a is  *)
(* no swap.  A scoring may find the two to be one.                            *)
EXTENDS CopyTrading

CONSTANTS a, b, tok, s1, s2, s3

MCLeaderOf == [s \in Sigs |-> IF s = s2 THEN b ELSE a]
MCSideOf == [s \in Sigs |-> IF s = s3 THEN "other" ELSE "buy"]
MCMintOf == [s \in Sigs |-> tok]
MCClusterings ==
  {[k \in Feeds \X Leaders |-> 1], [k \in Feeds \X Leaders |-> IF k[2] = a THEN 1 ELSE 2]}
=============================================================================
