---------------------------- MODULE MCRebalancing ----------------------------
(* Rebalancing on a small instance, for TLC: the allocation of the example   *)
(* configuration in tenths, one token from a reconciliation.                 *)
EXTENDS Rebalancing

CONSTANTS trend, regime, sol, tok

MCBudget == [s \in Sleeves |-> IF s = trend THEN 4 ELSE 3]
MCWeights == [s \in Sleeves |-> IF s = trend THEN {0, 4} ELSE {0, 3}]
=============================================================================
