------------------------ MODULE OrderLifecycleProofs ------------------------
(***************************************************************************)
(* Proofs about OrderLifecycle, for any number of orders, mints, command   *)
(* line processes, resubmits and crashes.                                  *)
(*                                                                         *)
(* IInv is inductive: TypeStep .. PlanStep prove, conjunct by conjunct and *)
(* action by action, that a step keeps it.  The safety theorems, the       *)
(* never-requote property and the refinement of Settlement follow from it. *)
(*                                                                         *)
(* Two invariants speak of sums over orders, and have the facts about sums *)
(* from Sums: what the ledger holds and has pending covers what the wallet *)
(* holds, by comparing the two sums order by order; and the caps, without  *)
(* the command line, whose buys do not count what is pending.              *)
(***************************************************************************)
EXTENDS OrderLifecycle, Sums


(* The planner's intents are well-typed.                                   *)
LEMMA PlannedType ==
  ASSUME TypeOK, NEW m \in Mints
  PROVE  Exit(m) \cup Trim(m) \cup Entry(m) \subseteq Requests
<1>1. snap.held[m] \in Nat
  BY DEF TypeOK
<1>2. ASSUME NEW i \in Exit(m) PROVE i \in Requests
  <2>1. i = [mint |-> m, side |-> "sell", qty |-> snap.held[m], exit |-> TRUE]
    BY <1>2 DEF Exit
  <2>2. QED BY <1>1, <2>1 DEF Requests
<1>3. ASSUME NEW i \in Trim(m) PROVE i \in Requests
  <2>1. PICK q \in 1 .. (snap.held[m] - 1) :
          i = [mint |-> m, side |-> "sell", qty |-> q, exit |-> FALSE]
    BY <1>3 DEF Trim
  <2>2. QED BY <1>1, <2>1 DEF Requests
<1>4. ASSUME NEW i \in Entry(m) PROVE i \in Requests
  <2>1. PICK q \in Headroom(m) :
          i = [mint |-> m, side |-> "buy", qty |-> q, exit |-> FALSE]
    BY <1>4 DEF Entry
  <2>2. q \in Nat
    BY <1>1, <2>1, BoundsAssumption DEF Headroom
  <2>3. QED BY <2>1, <2>2 DEF Requests
<1>5. QED
  BY <1>2, <1>3, <1>4


(* What a signature status says of a transaction is true of the chain.     *)
LEMMA StatusSound ==
  ASSUME TypeOK, FatesKnown, NEW o \in Orders
  PROVE  /\ StatusOf(o) \in Statuses
         /\ StatusOf(o) = "dropped" => tx[o] = "expired"
         /\ StatusOf(o) = "err" => tx[o] = "erred"
         /\ StatusOf(o) = "confirmed" => tx[o] \in {"landed", "noshow"}
<1>1. tx[o] \in TxStates /\ (o \in aged => tx[o] \notin {"none", "inflight"})
  BY DEF TypeOK, FatesKnown
<1>2. CASE tx[o] \in {"landed", "noshow"}
  BY <1>2 DEF StatusOf, Unseen, Statuses
<1>3. CASE tx[o] = "erred"
  BY <1>3 DEF StatusOf, Unseen, Statuses
<1>4. CASE tx[o] \in {"none", "inflight"}
  BY <1>1, <1>4 DEF StatusOf, Unseen, Statuses
<1>5. CASE tx[o] = "expired"
  BY <1>5 DEF StatusOf, Unseen, Statuses
<1>6. QED
  BY <1>1, <1>2, <1>3, <1>4, <1>5 DEF TxStates


(* A step keeps the types.                                                 *)
LEMMA TypeStep == IInv /\ [Next]_vars => TypeOK'
<1> SUFFICES ASSUME IInv, [Next]_vars PROVE TypeOK'
  OBVIOUS
<1> USE DEF IInv, TypeOK, chain, ledger, resolver, planner, vars, Goto
<1>1. ASSUME NEW o \in Orders, Land(o) PROVE TypeOK'
  <2>1. tx[o] = "inflight" /\ req[o] \in Requests
    BY <1>1 DEF Land, FatesKnown
  <2>2. CASE req[o].side = "buy" \/ wallet[req[o].mint] >= req[o].qty
    <3> DEFINE left == IF req[o].side = "buy" THEN wallet[req[o].mint] + req[o].qty
                       ELSE wallet[req[o].mint] - req[o].qty
    <3>1. req[o].qty \in Nat /\ req[o].mint \in Mints /\ wallet[req[o].mint] \in Nat
      BY <2>1 DEF Requests
    <3>2. left \in Nat
      BY <2>2, <3>1
    <3>3. tx' = [tx EXCEPT ![o] = "landed"] /\ wallet' = [wallet EXCEPT ![req[o].mint] = left]
      BY <1>1, <2>2 DEF Land
    <3>4. tx' \in [Orders -> TxStates] /\ wallet' \in [Mints -> Nat]
      BY <3>2, <3>3 DEF TxStates
    <3>5. QED BY <1>1, <3>4 DEF Land
  <2>3. CASE ~(req[o].side = "buy" \/ wallet[req[o].mint] >= req[o].qty)
    BY <1>1, <2>3 DEF Land, TxStates
  <2>4. QED BY <2>2, <2>3
<1>2. ASSUME NEW o \in Orders, Die(o) PROVE TypeOK'
  BY <1>2 DEF Die, TxStates, Dead, AgentPcs
<1>3. ASSUME NEW o \in Orders, PassGrace(o) PROVE TypeOK'
  BY <1>3 DEF PassGrace, AgentPcs, Procs
<1>4. ASSUME NEW p \in Procs, ReadStatuses(p) PROVE TypeOK'
  <2>1. \A o \in Orders : StatusOf(o) \in Statuses /\ "unread" \in Statuses
    BY StatusSound DEF Statuses
  <2>2. seen' \in [Procs -> [Orders -> Statuses]]
    BY <1>4, <2>1 DEF ReadStatuses
  <2>3. pc' \in [Procs -> AgentPcs]
    BY <1>4 DEF ReadStatuses, AgentPcs
  <2>4. QED BY <1>4, <2>2, <2>3 DEF ReadStatuses, Submitted
<1>5. ASSUME NEW p \in Procs, NEW o \in Orders, KeepPending(p, o) PROVE TypeOK'
  BY <1>5 DEF KeepPending, AgentPcs, Procs
<1>6. ASSUME NEW p \in Procs, NEW o \in Orders, Decide(p, o) PROVE TypeOK'
  BY <1>6 DEF Decide, FirstOf, AgentPcs
<1>7. ASSUME NEW p \in Procs, EndPass(p) PROVE TypeOK'
  BY <1>7 DEF EndPass, Unread, Statuses, AgentPcs, Procs
<1>8. ASSUME NEW p \in Procs, Check(p) PROVE TypeOK'
  <2>1. pc' \in [Procs -> AgentPcs]
    <3>1. AfterFinalize(p) \in AgentPcs /\ {"commit", "swapcommit"} \subseteq AgentPcs
      BY DEF AfterFinalize, AgentPcs
    <3>2. QED BY <1>8, <3>1 DEF Check
  <2>2. /\ cur' \in [Procs -> Orders \cup {NoOrder}]
        /\ verdict' \in [Procs -> {"none", "filled", "failed"}]
    BY <1>8 DEF Check
  <2>3. QED BY <1>8, <2>1, <2>2 DEF Check
<1>9. ASSUME NEW p \in Procs, Commit(p) PROVE TypeOK'
  <2> DEFINE o == cur[p]
  <2>1. o \in Orders /\ order[o] # "none" /\ verdict[p] \in {"filled", "failed"}
    BY <1>9 DEF Commit, VerdictsTrue, FinalizePcs, SwapPcs
  <2>2. req[o].mint \in Mints /\ req[o].qty \in Nat
    BY <2>1 DEF Requests
  <2>3. fills' \subseteq Orders /\ position' \in [Mints -> Nat]
    <3> DEFINE left == IF req[o].side = "buy" THEN position[req[o].mint] + req[o].qty
                       ELSE IF position[req[o].mint] >= req[o].qty
                            THEN position[req[o].mint] - req[o].qty ELSE 0
    <3>1. left \in Nat
      BY <2>2
    <3>2. \/ UNCHANGED <<fills, position>>
          \/ fills' = fills \cup {o} /\ position' = [position EXCEPT ![req[o].mint] = left]
      BY <1>9 DEF Commit, RecordFill
    <3>3. QED
      BY <2>1, <3>1, <3>2
  <2>4. /\ order' \in [Orders -> {"none", "submitted", "filled", "failed"}]
        /\ \A q \in Orders : order'[q] # "none" => order[q] # "none"
    BY <1>9, <2>1 DEF Commit
  <2>5. pc' \in [Procs -> AgentPcs] /\ cur' \in [Procs -> Orders \cup {NoOrder}]
    BY <1>9 DEF Commit, AfterFinalize, AgentPcs
  <2>6. QED
    BY <1>9, <2>3, <2>4, <2>5 DEF Commit
<1>10. ASSUME NEW p \in Procs, Crash(p) PROVE TypeOK'
  <2>1. crashes' \in 0 .. MaxCrashes /\ sends' \in 0 .. MaxResubmits
    BY <1>10, BoundsAssumption DEF Crash
  <2>2. snap' \in [held : [Mints -> Nat], bought : SUBSET Orders] /\ todo' \subseteq Requests
    BY <1>10 DEF Crash, NoSnapshot
  <2>3. seen' \in [Procs -> [Orders -> Statuses]]
    BY <1>10 DEF Crash, Unread, Statuses
  <2>4. pc' \in [Procs -> AgentPcs] /\ cur' \in [Procs -> Orders \cup {NoOrder}]
    BY <1>10 DEF Crash, AgentPcs
  <2>5. QED
    BY <1>10, <2>1, <2>2, <2>3, <2>4 DEF Crash
<1>11. ASSUME SkipPending PROVE TypeOK'
  BY <1>11 DEF SkipPending, AgentPcs, Procs
<1>12. ASSUME Snapshot PROVE TypeOK'
  BY <1>12 DEF Snapshot, AgentPcs, Procs
<1>13. ASSUME SnapshotFails PROVE TypeOK'
  BY <1>13 DEF SnapshotFails, AgentPcs, Procs
<1>14. ASSUME Plan PROVE TypeOK'
  <2>1. PICK T \in SUBSET UNION {Exit(m) \cup Trim(m) \cup Entry(m) : m \in Mints} :
          todo' = T
    BY <1>14 DEF Plan
  <2>2. todo' \subseteq Requests
    BY <2>1, PlannedType
  <2>3. pc' \in [Procs -> AgentPcs]
    BY <1>14 DEF Plan, AgentPcs
  <2>4. QED BY <1>14, <2>2, <2>3 DEF Plan
<1>15. ASSUME NEW i \in todo, Refuse(i) PROVE TypeOK'
  BY <1>15 DEF Refuse, AgentPcs, Procs
<1>16. ASSUME NEW i \in todo, NEW o \in Orders, Sign(i, o) PROVE TypeOK'
  <2>1. i \in Requests
    OBVIOUS
  <2>2. order' \in [Orders -> {"none", "submitted", "filled", "failed"}]
    BY <1>16 DEF Sign
  <2>3. /\ req' \in [Orders -> Requests \cup {NoRequest}]
        /\ \A q \in Orders : order'[q] # "none" => req'[q] \in Requests
    BY <1>16, <2>1 DEF Sign
  <2>4. pc' \in [Procs -> AgentPcs] /\ cur' \in [Procs -> Orders \cup {NoOrder}]
    BY <1>16 DEF Sign, AgentPcs
  <2>5. todo' \subseteq Requests /\ sends' \in 0 .. MaxResubmits
    BY <1>16, BoundsAssumption DEF Sign
  <2>6. QED
    BY <1>16, <2>2, <2>3, <2>4, <2>5 DEF Sign
<1>17. ASSUME SendOk PROVE TypeOK'
  BY <1>17 DEF SendOk, Forward, TxStates, AgentPcs, Procs
<1>18. ASSUME SendRefused PROVE TypeOK'
  BY <1>18 DEF SendRefused, TxStates, AgentPcs, Procs
<1>19. ASSUME SendLost PROVE TypeOK'
  <2>1. tx' \in [Orders -> TxStates]
    BY <1>19 DEF SendLost, Forward, TxStates
  <2>2. sends' \in 0 .. MaxResubmits
    BY <1>19, BoundsAssumption DEF SendLost, MayResend
  <2>3. pc' \in [Procs -> AgentPcs] /\ cur' \in [Procs -> Orders \cup {NoOrder}]
    BY <1>19 DEF SendLost, AgentPcs
  <2>4. QED
    BY <1>19, <2>1, <2>2, <2>3 DEF SendLost
<1>20. ASSUME Confirm PROVE TypeOK'
  BY <1>20 DEF Confirm, AgentPcs, Procs
<1>21. ASSUME Fetch PROVE TypeOK'
  BY <1>21 DEF Fetch, AgentPcs, Procs
<1>22. ASSUME Uncertain PROVE TypeOK'
  BY <1>22 DEF Uncertain, AgentPcs, Procs
<1>23. ASSUME FollowUp PROVE TypeOK'
  BY <1>23 DEF FollowUp, VerdictsTrue, SwapPcs, AgentPcs, Procs
<1>24. ASSUME EndTick PROVE TypeOK'
  BY <1>24 DEF EndTick, AgentPcs, Procs
<1>25. CASE UNCHANGED vars
  BY <1>25 DEF vars
<1>26. QED
  BY <1>1, <1>2, <1>3, <1>4, <1>5, <1>6, <1>7, <1>8, <1>9, <1>10, <1>11, <1>12, <1>13,
     <1>14, <1>15, <1>16, <1>17, <1>18, <1>19, <1>20, <1>21, <1>22, <1>23, <1>24, <1>25
  DEF Next, Chain, Resolve, Tick

(* A step keeps what is known of the transactions' fates.                  *)
LEMMA FatesStep == IInv /\ [Next]_vars => FatesKnown'
<1> SUFFICES ASSUME IInv, [Next]_vars PROVE FatesKnown'
  OBVIOUS
<1> USE DEF IInv, TypeOK, chain, ledger, resolver, planner, vars, Goto, FatesKnown
<1>0. pc[Agent] = "send" => cur[Agent] \in Orders /\ order[cur[Agent]] # "none"
  BY DEF VerdictsTrue, SwapPcs, Procs
<1>1. ASSUME NEW o \in Orders, Land(o) PROVE FatesKnown'
  BY <1>1 DEF Land
<1>2. ASSUME NEW o \in Orders, Die(o) PROVE FatesKnown'
  BY <1>2 DEF Die
<1>3. ASSUME NEW o \in Orders, PassGrace(o) PROVE FatesKnown'
  BY <1>3 DEF PassGrace
<1>4. ASSUME NEW p \in Procs, ReadStatuses(p) PROVE FatesKnown'
  BY <1>4 DEF ReadStatuses
<1>5. ASSUME NEW p \in Procs, NEW o \in Orders, KeepPending(p, o) PROVE FatesKnown'
  BY <1>5 DEF KeepPending
<1>6. ASSUME NEW p \in Procs, NEW o \in Orders, Decide(p, o) PROVE FatesKnown'
  BY <1>6 DEF Decide
<1>7. ASSUME NEW p \in Procs, EndPass(p) PROVE FatesKnown'
  BY <1>7 DEF EndPass
<1>8. ASSUME NEW p \in Procs, Check(p) PROVE FatesKnown'
  BY <1>8 DEF Check
<1>9. ASSUME NEW p \in Procs, Commit(p) PROVE FatesKnown'
  BY <1>9 DEF Commit, VerdictsTrue, FinalizePcs
<1>10. ASSUME NEW p \in Procs, Crash(p) PROVE FatesKnown'
  BY <1>10 DEF Crash
<1>11. ASSUME SkipPending PROVE FatesKnown'
  BY <1>11 DEF SkipPending
<1>12. ASSUME Snapshot PROVE FatesKnown'
  BY <1>12 DEF Snapshot
<1>13. ASSUME SnapshotFails PROVE FatesKnown'
  BY <1>13 DEF SnapshotFails
<1>14. ASSUME Plan PROVE FatesKnown'
  BY <1>14 DEF Plan
<1>15. ASSUME NEW i \in todo, Refuse(i) PROVE FatesKnown'
  BY <1>15 DEF Refuse
<1>16. ASSUME NEW i \in todo, NEW o \in Orders, Sign(i, o) PROVE FatesKnown'
  BY <1>16 DEF Sign, FirstOf
<1>17. ASSUME SendOk PROVE FatesKnown'
  BY <1>0, <1>17 DEF SendOk, Forward
<1>18. ASSUME SendRefused PROVE FatesKnown'
  BY <1>0, <1>18 DEF SendRefused, Dead
<1>19. ASSUME SendLost PROVE FatesKnown'
  BY <1>0, <1>19 DEF SendLost, Forward
<1>20. ASSUME Confirm PROVE FatesKnown'
  BY <1>20 DEF Confirm
<1>21. ASSUME Fetch PROVE FatesKnown'
  BY <1>21 DEF Fetch
<1>22. ASSUME Uncertain PROVE FatesKnown'
  BY <1>22 DEF Uncertain
<1>23. ASSUME FollowUp PROVE FatesKnown'
  BY <1>23 DEF FollowUp
<1>24. ASSUME EndTick PROVE FatesKnown'
  BY <1>24 DEF EndTick
<1>25. CASE UNCHANGED vars
  BY <1>25 DEF vars
<1>26. QED
  BY <1>1, <1>2, <1>3, <1>4, <1>5, <1>6, <1>7, <1>8, <1>9, <1>10, <1>11, <1>12, <1>13,
     <1>14, <1>15, <1>16, <1>17, <1>18, <1>19, <1>20, <1>21, <1>22, <1>23, <1>24, <1>25
  DEF Next, Chain, Resolve, Tick

(* A step keeps every process's knowledge of the order in hand true.       *)
LEMMA VerdictsStep == IInv /\ [Next]_vars => VerdictsTrue'
<1> SUFFICES ASSUME IInv, [Next]_vars PROVE VerdictsTrue'
  OBVIOUS
<1> USE DEF IInv, TypeOK, chain, ledger, resolver, planner, vars, Goto, VerdictsTrue, FinalizePcs,
            SwapPcs, Dead, Procs, NoOrder
<1>1. ASSUME NEW o \in Orders, Land(o) PROVE VerdictsTrue'
  <2>1. tx[o] = "inflight" /\ \A q \in Orders \ {o} : tx'[q] = tx[q]
    BY <1>1 DEF Land
  <2>2. UNCHANGED <<order, pc, rows, seen, cur, verdict>>
    BY <1>1 DEF Land
  <2>3. ASSUME NEW p \in Procs, pc[p] \in FinalizePcs PROVE tx'[cur[p]] = tx[cur[p]]
    BY <2>1, <2>3
  <2>4. ASSUME NEW p \in Procs, NEW q \in Orders,
               seen[p][q] \in {"dropped", "err", "confirmed"}
        PROVE  tx'[q] = tx[q]
    <3>1. tx[q] # "inflight"
      BY <2>4 DEF VerdictsTrue
    <3>2. q # o
      BY <2>1, <3>1
    <3>3. QED BY <2>1, <3>2
  <2>5. QED BY <2>2, <2>3, <2>4
<1>2. ASSUME NEW o \in Orders, Die(o) PROVE VerdictsTrue'
  BY <1>2 DEF Die
<1>3. ASSUME NEW o \in Orders, PassGrace(o) PROVE VerdictsTrue'
  BY <1>3 DEF PassGrace
<1>4. ASSUME NEW p \in Procs, ReadStatuses(p) PROVE VerdictsTrue'
  <2>1. UNCHANGED <<tx, order, cur, verdict>>
    BY <1>4 DEF ReadStatuses
  <2>2. pc' = [pc EXCEPT ![p] = "resolve"] /\ rows' = [rows EXCEPT ![p] = Submitted]
    BY <1>4 DEF ReadStatuses
  <2>3. \A o \in Orders : seen'[p][o] \in {StatusOf(o), "unread"}
    BY <1>4 DEF ReadStatuses
  <2>4. \A q \in Procs \ {p} : seen'[q] = seen[q]
    BY <1>4 DEF ReadStatuses
  <2>5. \A o \in Orders :
         /\ seen'[p][o] = "dropped" => tx[o] = "expired"
         /\ seen'[p][o] = "err" => tx[o] = "erred"
         /\ seen'[p][o] = "confirmed" => tx[o] \in {"landed", "noshow"}
    BY <2>3, StatusSound
  <2>6. QED
    BY <2>1, <2>2, <2>4, <2>5 DEF Submitted
<1>5. ASSUME NEW p \in Procs, NEW o \in Orders, KeepPending(p, o) PROVE VerdictsTrue'
  BY <1>5 DEF KeepPending, FirstOf
<1>6. ASSUME NEW p \in Procs, NEW o \in Orders, Decide(p, o) PROVE VerdictsTrue'
  BY <1>6 DEF Decide, FirstOf, TxStates
<1>7. ASSUME NEW p \in Procs, EndPass(p) PROVE VerdictsTrue'
  BY <1>7 DEF EndPass, Unread
<1>8. ASSUME NEW p \in Procs, Check(p) PROVE VerdictsTrue'
  BY <1>8 DEF Check, AfterFinalize
<1>9. ASSUME NEW p \in Procs, Commit(p) PROVE VerdictsTrue'
  BY <1>9 DEF Commit, AfterFinalize
<1>10. ASSUME NEW p \in Procs, Crash(p) PROVE VerdictsTrue'
  BY <1>10 DEF Crash, Unread
<1>11. ASSUME SkipPending PROVE VerdictsTrue'
  BY <1>11 DEF SkipPending
<1>12. ASSUME Snapshot PROVE VerdictsTrue'
  BY <1>12 DEF Snapshot
<1>13. ASSUME SnapshotFails PROVE VerdictsTrue'
  BY <1>13 DEF SnapshotFails
<1>14. ASSUME Plan PROVE VerdictsTrue'
  BY <1>14 DEF Plan
<1>15. ASSUME NEW i \in todo, Refuse(i) PROVE VerdictsTrue'
  BY <1>15 DEF Refuse
<1>16. ASSUME NEW i \in todo, NEW o \in Orders, Sign(i, o) PROVE VerdictsTrue'
  BY <1>16 DEF Sign, FirstOf
<1>17. ASSUME SendOk PROVE VerdictsTrue'
  BY <1>17 DEF SendOk, Forward
<1>18. ASSUME SendRefused PROVE VerdictsTrue'
  BY <1>18 DEF SendRefused
<1>19. ASSUME SendLost PROVE VerdictsTrue'
  BY <1>19 DEF SendLost, Forward
<1>20. ASSUME Confirm PROVE VerdictsTrue'
  <2>1. cur[Agent] \in Orders
    BY <1>20 DEF Confirm
  <2>2. QED BY <1>20, <2>1, StatusSound DEF Confirm
<1>21. ASSUME Fetch PROVE VerdictsTrue'
  BY <1>21 DEF Fetch
<1>22. ASSUME Uncertain PROVE VerdictsTrue'
  BY <1>22 DEF Uncertain
<1>23. ASSUME FollowUp PROVE VerdictsTrue'
  BY <1>23 DEF FollowUp
<1>24. ASSUME EndTick PROVE VerdictsTrue'
  BY <1>24 DEF EndTick
<1>25. CASE UNCHANGED vars
  BY <1>25 DEF vars
<1>26. QED
  BY <1>1, <1>2, <1>3, <1>4, <1>5, <1>6, <1>7, <1>8, <1>9, <1>10, <1>11, <1>12, <1>13,
     <1>14, <1>15, <1>16, <1>17, <1>18, <1>19, <1>20, <1>21, <1>22, <1>23, <1>24, <1>25
  DEF Next, Chain, Resolve, Tick

(* A step keeps the ledger's rows in agreement with the chain.             *)
LEMMA BookingStep == IInv /\ [Next]_vars => BookingMatchesChain'
<1> SUFFICES ASSUME IInv, [Next]_vars PROVE BookingMatchesChain'
  OBVIOUS
<1> USE DEF IInv, TypeOK, chain, ledger, resolver, planner, vars, Goto, BookingMatchesChain
<1>1. ASSUME NEW o \in Orders, Land(o) PROVE BookingMatchesChain'
  BY <1>1 DEF Land, FatesKnown, Dead
<1>2. ASSUME NEW o \in Orders, Die(o) PROVE BookingMatchesChain'
  BY <1>2 DEF Die, FatesKnown, Dead
<1>3. ASSUME NEW o \in Orders, PassGrace(o) PROVE BookingMatchesChain'
  BY <1>3 DEF PassGrace
<1>4. ASSUME NEW p \in Procs, ReadStatuses(p) PROVE BookingMatchesChain'
  BY <1>4 DEF ReadStatuses
<1>5. ASSUME NEW p \in Procs, NEW o \in Orders, KeepPending(p, o) PROVE BookingMatchesChain'
  BY <1>5 DEF KeepPending
<1>6. ASSUME NEW p \in Procs, NEW o \in Orders, Decide(p, o) PROVE BookingMatchesChain'
  BY <1>6 DEF Decide
<1>7. ASSUME NEW p \in Procs, EndPass(p) PROVE BookingMatchesChain'
  BY <1>7 DEF EndPass
<1>8. ASSUME NEW p \in Procs, Check(p) PROVE BookingMatchesChain'
  BY <1>8 DEF Check
<1>9. ASSUME NEW p \in Procs, Commit(p) PROVE BookingMatchesChain'
  BY <1>9 DEF Commit, VerdictsTrue, SwapPcs, FinalizePcs, RecordFill, Dead
<1>10. ASSUME NEW p \in Procs, Crash(p) PROVE BookingMatchesChain'
  BY <1>10 DEF Crash
<1>11. ASSUME SkipPending PROVE BookingMatchesChain'
  BY <1>11 DEF SkipPending
<1>12. ASSUME Snapshot PROVE BookingMatchesChain'
  BY <1>12 DEF Snapshot
<1>13. ASSUME SnapshotFails PROVE BookingMatchesChain'
  BY <1>13 DEF SnapshotFails
<1>14. ASSUME Plan PROVE BookingMatchesChain'
  BY <1>14 DEF Plan
<1>15. ASSUME NEW i \in todo, Refuse(i) PROVE BookingMatchesChain'
  BY <1>15 DEF Refuse
<1>16. ASSUME NEW i \in todo, NEW o \in Orders, Sign(i, o) PROVE BookingMatchesChain'
  BY <1>16 DEF Sign, FirstOf
<1>17. ASSUME SendOk PROVE BookingMatchesChain'
  BY <1>17 DEF SendOk, Forward, VerdictsTrue, SwapPcs, Dead
<1>18. ASSUME SendRefused PROVE BookingMatchesChain'
  BY <1>18 DEF SendRefused, VerdictsTrue, SwapPcs, Dead
<1>19. ASSUME SendLost PROVE BookingMatchesChain'
  BY <1>19 DEF SendLost, Forward, VerdictsTrue, SwapPcs, Dead
<1>20. ASSUME Confirm PROVE BookingMatchesChain'
  BY <1>20 DEF Confirm
<1>21. ASSUME Fetch PROVE BookingMatchesChain'
  BY <1>21 DEF Fetch
<1>22. ASSUME Uncertain PROVE BookingMatchesChain'
  BY <1>22 DEF Uncertain
<1>23. ASSUME FollowUp PROVE BookingMatchesChain'
  BY <1>23 DEF FollowUp
<1>24. ASSUME EndTick PROVE BookingMatchesChain'
  BY <1>24 DEF EndTick
<1>25. CASE UNCHANGED vars
  BY <1>25 DEF vars
<1>26. QED
  BY <1>1, <1>2, <1>3, <1>4, <1>5, <1>6, <1>7, <1>8, <1>9, <1>10, <1>11, <1>12, <1>13,
     <1>14, <1>15, <1>16, <1>17, <1>18, <1>19, <1>20, <1>21, <1>22, <1>23, <1>24, <1>25
  DEF Next, Chain, Resolve, Tick

(* A step leaves no intent behind that a pending order should hold up.     *)
LEMMA PlanStep == IInv /\ [Next]_vars => PlanStillGated'
<1> SUFFICES ASSUME IInv, [Next]_vars PROVE PlanStillGated'
  OBVIOUS
<1> USE DEF IInv, TypeOK, chain, ledger, resolver, planner, vars, Goto, PlanStillGated, SubmittedOn,
            Submitted
<1>1. ASSUME NEW o \in Orders, Land(o) PROVE PlanStillGated'
  BY <1>1 DEF Land
<1>2. ASSUME NEW o \in Orders, Die(o) PROVE PlanStillGated'
  BY <1>2 DEF Die
<1>3. ASSUME NEW o \in Orders, PassGrace(o) PROVE PlanStillGated'
  BY <1>3 DEF PassGrace
<1>4. ASSUME NEW p \in Procs, ReadStatuses(p) PROVE PlanStillGated'
  BY <1>4 DEF ReadStatuses
<1>5. ASSUME NEW p \in Procs, NEW o \in Orders, KeepPending(p, o) PROVE PlanStillGated'
  BY <1>5 DEF KeepPending
<1>6. ASSUME NEW p \in Procs, NEW o \in Orders, Decide(p, o) PROVE PlanStillGated'
  BY <1>6 DEF Decide
<1>7. ASSUME NEW p \in Procs, EndPass(p) PROVE PlanStillGated'
  BY <1>7 DEF EndPass
<1>8. ASSUME NEW p \in Procs, Check(p) PROVE PlanStillGated'
  BY <1>8 DEF Check
<1>9. ASSUME NEW p \in Procs, Commit(p) PROVE PlanStillGated'
  BY <1>9 DEF Commit, VerdictsTrue, FinalizePcs
<1>10. ASSUME NEW p \in Procs, Crash(p) PROVE PlanStillGated'
  BY <1>10 DEF Crash
<1>11. ASSUME SkipPending PROVE PlanStillGated'
  BY <1>11 DEF SkipPending
<1>12. ASSUME Snapshot PROVE PlanStillGated'
  BY <1>12 DEF Snapshot
<1>13. ASSUME SnapshotFails PROVE PlanStillGated'
  BY <1>13 DEF SnapshotFails
<1>14. ASSUME Plan PROVE PlanStillGated'
  <2>1. \A i, j \in todo' : i.mint = j.mint => i = j
    BY <1>14 DEF Plan
  <2>2. UNCHANGED <<order, req>>
    BY <1>14 DEF Plan
  <2>3. ASSUME NEW i \in todo', ~i.exit PROVE SubmittedOn(i.mint) = {}
    <3>1. PICK m \in Mints : i \in Exit(m) \cup Trim(m) \cup Entry(m)
      BY <1>14 DEF Plan
    <3>2. i.mint = m /\ i \in Trim(m) \cup Entry(m)
      BY <2>3, <3>1 DEF Exit, Trim, Entry
    <3>3. QED BY <3>2 DEF Trim, Entry
  <2>4. QED BY <2>1, <2>2, <2>3
<1>15. ASSUME NEW i \in todo, Refuse(i) PROVE PlanStillGated'
  BY <1>15 DEF Refuse
<1>16. ASSUME NEW i \in todo, NEW o \in Orders, Sign(i, o) PROVE PlanStillGated'
  BY <1>16 DEF Sign, FirstOf
<1>17. ASSUME SendOk PROVE PlanStillGated'
  BY <1>17 DEF SendOk
<1>18. ASSUME SendRefused PROVE PlanStillGated'
  BY <1>18 DEF SendRefused
<1>19. ASSUME SendLost PROVE PlanStillGated'
  BY <1>19 DEF SendLost
<1>20. ASSUME Confirm PROVE PlanStillGated'
  BY <1>20 DEF Confirm
<1>21. ASSUME Fetch PROVE PlanStillGated'
  BY <1>21 DEF Fetch
<1>22. ASSUME Uncertain PROVE PlanStillGated'
  BY <1>22 DEF Uncertain
<1>23. ASSUME FollowUp PROVE PlanStillGated'
  BY <1>23 DEF FollowUp
<1>24. ASSUME EndTick PROVE PlanStillGated'
  BY <1>24 DEF EndTick
<1>25. CASE UNCHANGED vars
  BY <1>25 DEF vars
<1>26. QED
  BY <1>1, <1>2, <1>3, <1>4, <1>5, <1>6, <1>7, <1>8, <1>9, <1>10, <1>11, <1>12, <1>13,
     <1>14, <1>15, <1>16, <1>17, <1>18, <1>19, <1>20, <1>21, <1>22, <1>23, <1>24, <1>25
  DEF Next, Chain, Resolve, Tick

(* A step signs no second order on a mint, exits excepted.                 *)
LEMMA RequoteStep == IInv /\ [Next]_vars =>
  [\A o \in Orders :
       order[o] = "none" /\ order'[o] = "submitted" /\ ~req'[o].exit
         => \A q \in Orders : order[q] = "submitted" => req[q].mint # req'[o].mint]_vars
<1> SUFFICES ASSUME IInv, Next, NEW o \in Orders,
                    order[o] = "none", order'[o] = "submitted", ~req'[o].exit,
                    NEW q \in Orders, order[q] = "submitted"
             PROVE  req[q].mint # req'[o].mint
  OBVIOUS
<1> USE DEF IInv, TypeOK, chain, ledger, resolver, planner
<1>1. PICK i \in todo, n \in Orders : Sign(i, n)
  <2>1. order' # order
    OBVIOUS
  <2>2. ASSUME NEW p \in Procs, Commit(p) PROVE FALSE
    BY <2>2 DEF Commit, VerdictsTrue, FinalizePcs, SwapPcs
  <2>3. QED
    BY <2>1, <2>2 DEF Next, Chain, Resolve, Tick, Land, Die, PassGrace, ReadStatuses,
      KeepPending, Decide, EndPass, Check, Crash, SkipPending, Snapshot, SnapshotFails,
      Plan, Refuse, SendOk, SendRefused, SendLost, Confirm, Fetch, Uncertain, FollowUp,
      EndTick
<1>2. n = o /\ req'[o] = i
  BY <1>1 DEF Sign
<1>3. SubmittedOn(i.mint) = {}
  BY <1>2 DEF PlanStillGated
<1>4. QED
  BY <1>2, <1>3 DEF SubmittedOn, Submitted

(* Settlement's initial state is the ledger's.                             *)
LEMMA SettlementInit == Init => Book!Init
  BY DEF Init, Book!Init, Outcome

(* A step settles one order, opens one, or is a stutter of Settlement.     *)
LEMMA SettlementStep == IInv /\ [Next]_vars => [Book!Next]_(Book!vars)
<1> SUFFICES ASSUME IInv, [Next]_vars PROVE Book!Next \/ UNCHANGED Book!vars
  BY DEF Book!vars
<1> USE DEF IInv, TypeOK, chain, ledger, resolver, planner
<1>1. ASSUME NEW i \in todo, NEW o \in Orders, Sign(i, o) PROVE Book!Open(o)
  <2>1. order[o] = "none" /\ i \in Requests
    BY <1>1 DEF Sign, FirstOf
  <2>2. req' = [req EXCEPT ![o] = i] /\ order' = [order EXCEPT ![o] = "submitted"]
        /\ UNCHANGED position
    BY <1>1 DEF Sign
  <2>3. Outcome[o] = "new" /\ Outcome' = [Outcome EXCEPT ![o] = "open"]
    BY <2>1, <2>2 DEF Outcome
  <2>4. req'[o] = i
    BY <2>2
  <2>5. QED BY <2>1, <2>2, <2>3, <2>4 DEF Book!Open
<1>2. ASSUME NEW p \in Procs, Commit(p)
      PROVE  Book!Next \/ UNCHANGED Book!vars
  <2> DEFINE o == cur[p]
  <2>1. o \in Orders /\ order[o] # "none" /\ verdict[p] \in {"filled", "failed"}
    BY <1>2 DEF Commit, VerdictsTrue, FinalizePcs, SwapPcs
  <2>2. order' = [order EXCEPT ![o] = verdict[p]] /\ UNCHANGED req
    BY <1>2 DEF Commit
  <2>3. o \in fills <=> order[o] = "filled"
    BY <2>1 DEF BookingMatchesChain
  <2>4. order[o] = "filled" => verdict[p] = "filled"
    BY <1>2, <2>1 DEF Commit, VerdictsTrue, FinalizePcs, BookingMatchesChain, Dead
  <2>5. order[o] = "failed" => verdict[p] = "failed"
    BY <1>2, <2>1 DEF Commit, VerdictsTrue, FinalizePcs, BookingMatchesChain, Dead
  <2>6. CASE order[o] = "submitted" /\ verdict[p] = "filled"
    <3>1. position' = Book!Applied(position, req[o])
      BY <1>2, <2>3, <2>6 DEF Commit, RecordFill, Book!Applied
    <3>2. Outcome[o] = "open" /\ Outcome' = [Outcome EXCEPT ![o] = "booked"]
      BY <2>1, <2>2, <2>6 DEF Outcome
    <3>3. QED BY <2>1, <2>2, <3>1, <3>2 DEF Book!Next, Book!Book
  <2>7. CASE order[o] = "submitted" /\ verdict[p] = "failed"
    <3>1. UNCHANGED position
      BY <1>2, <2>7 DEF Commit
    <3>2. Outcome[o] = "open" /\ Outcome' = [Outcome EXCEPT ![o] = "void"]
      BY <2>1, <2>2, <2>7 DEF Outcome
    <3>3. QED BY <2>1, <2>2, <3>1, <3>2 DEF Book!Next, Book!Void
  <2>8. CASE order[o] # "submitted"
    <3>1. order[o] = verdict[p] /\ order' = order
      BY <2>1, <2>2, <2>4, <2>5, <2>8
    <3>2. UNCHANGED position
      BY <1>2, <2>3, <3>1 DEF Commit, RecordFill
    <3>3. QED BY <2>2, <3>1, <3>2 DEF Book!vars, Outcome
  <2>9. QED BY <2>1, <2>6, <2>7, <2>8
<1>3. CASE UNCHANGED <<order, req, position>>
  BY <1>3 DEF Book!vars, Outcome
<1>4. QED
  <2>1. UNCHANGED <<order, req, position>>
        \/ (\E p \in Procs : Commit(p)) \/ (\E i \in todo, o \in Orders : Sign(i, o))
    BY DEF vars, Next, Chain, Resolve, Tick, Land, Die, PassGrace, ReadStatuses,
      KeepPending, Decide, EndPass, Check, Crash, SkipPending, Snapshot, SnapshotFails,
      Plan, Refuse, SendOk, SendRefused, SendLost, Confirm, Fetch, Uncertain, FollowUp,
      EndTick
  <2>2. QED BY <1>1, <1>2, <1>3, <2>1 DEF Book!Next

-----------------------------------------------------------------------------
(***************************************************************************)
(* Sums of lots, and the ledger against the wallet.                        *)
(***************************************************************************)

(* Lots of the orders in S, as rows r of the orders table ask for them.    *)
LotsOf(r, S) == SumFunction([o \in S |-> r[o].qty])

(* Lots are counted in naturals, and more orders ask for no less.          *)
LEMMA LotsNat ==
  ASSUME NEW r, NEW S \in SUBSET Orders, \A o \in S : r[o].qty \in Nat
  PROVE  LotsOf(r, S) \in Nat /\ \A T \in SUBSET S : LotsOf(r, T) <= LotsOf(r, S)
<1> DEFINE f == [o \in S |-> r[o].qty]
<1>1. IsFiniteSet(S) /\ f \in [S -> Nat]
  <2>1. IsFiniteSet(Orders)
    BY BoundsAssumption, FS_Interval DEF Orders
  <2>2. QED BY <2>1, FS_Subset
<1>2. \A T \in SUBSET S : [o \in T |-> f[o]] = [o \in T |-> r[o].qty]
  OBVIOUS
<1>3. SumFunction(f) \in Nat /\ \A T \in SUBSET S : SumFunction([o \in T |-> f[o]]) <= SumFunction(f)
  <2> HIDE DEF f
  <2>1. QED BY <1>1, SumWithin
<1>4. QED
  BY <1>2, <1>3 DEF LotsOf

(* One more order adds its lots.                                           *)
LEMMA LotsAdd ==
  ASSUME NEW r, NEW S \in SUBSET Orders, NEW x \in Orders \ S,
         \A o \in S \cup {x} : r[o].qty \in Nat
  PROVE  LotsOf(r, S \cup {x}) = LotsOf(r, S) + r[x].qty
<1> DEFINE U == S \cup {x}
           f == [o \in U |-> r[o].qty]
<1>1. IsFiniteSet(U) /\ f \in [U -> Int] /\ x \in U /\ f[x] = r[x].qty
  <2>1. IsFiniteSet(Orders)
    BY BoundsAssumption, FS_Interval DEF Orders
  <2>2. QED BY <2>1, FS_Subset
<1>2. [o \in U \ {x} |-> f[o]] = [o \in S |-> r[o].qty]
  OBVIOUS
<1>3. SumFunction(f) = f[x] + SumFunction([o \in U \ {x} |-> f[o]])
  <2> HIDE DEF U, f
  <2>1. SplitAt(f, U, x)
    BY <1>1, SumSplit
  <2>2. QED BY <2>1 DEF SplitAt
<1>4. LotsOf(r, S) \in Nat /\ r[x].qty \in Nat
  BY LotsNat
<1>5. LotsOf(r, U) = r[x].qty + LotsOf(r, S)
  BY <1>1, <1>2, <1>3 DEF LotsOf
<1>6. QED
  BY <1>4, <1>5

(* The lots of two sets of orders are the lots of both.                    *)
LEMMA LotsUnion ==
  ASSUME NEW r, NEW S \in SUBSET Orders, NEW T \in SUBSET Orders, S \cap T = {},
         \A o \in S \cup T : r[o].qty \in Nat
  PROVE  LotsOf(r, S \cup T) = LotsOf(r, S) + LotsOf(r, T)
<1> DEFINE U == S \cup T
           f == [o \in U |-> r[o].qty]
<1>1. IsFiniteSet(U) /\ f \in [U -> Int] /\ S \in SUBSET U
  <2>1. IsFiniteSet(Orders)
    BY BoundsAssumption, FS_Interval DEF Orders
  <2>2. QED BY <2>1, FS_Subset
<1>2. [o \in S |-> f[o]] = [o \in S |-> r[o].qty] /\ [o \in U \ S |-> f[o]] = [o \in T |-> r[o].qty]
  OBVIOUS
<1>3. SumFunction(f) = SumFunction([o \in S |-> f[o]]) + SumFunction([o \in U \ S |-> f[o]])
  <2> HIDE DEF U, f
  <2>1. Divided(f, U, S)
    BY <1>1, SumUnion
  <2>2. QED BY <2>1 DEF Divided
<1>4. QED
  BY <1>2, <1>3 DEF LotsOf

(* The lots of a set of orders are those of its rows.                      *)
LEMMA LotsSame ==
  ASSUME NEW r, NEW q, NEW S, \A o \in S : q[o].qty = r[o].qty
  PROVE  LotsOf(q, S) = LotsOf(r, S)
<1>1. [o \in S |-> q[o].qty] = [o \in S |-> r[o].qty]
  OBVIOUS
<1>2. QED
  BY <1>1 DEF LotsOf

(* An order that landed, or is in flight, has a request.                   *)
LEMMA Requested ==
  ASSUME IInv, NEW o \in Orders, tx[o] # "none" \/ order[o] # "none"
  PROVE  /\ req[o] \in Requests /\ req[o].mint \in Mints /\ req[o].qty \in Nat
         /\ req[o].side \in {"buy", "sell"}
<1>1. req[o] \in Requests
  BY DEF IInv, TypeOK, FatesKnown
<1>2. QED
  BY <1>1 DEF Requests

(* Only a transaction that lands and a fill that is booked move the wallet,*)
(* the positions or what is between them.                                  *)
LEMMA HoldingsMove ==
  ASSUME IInv, [Next]_vars
  PROVE  \/ \E o \in Orders : Land(o)
         \/ \E p \in Procs : Commit(p)
         \/ /\ UNCHANGED <<wallet, position, fills>>
            /\ \A o \in Orders : /\ tx'[o] = "landed" <=> tx[o] = "landed"
                                 /\ tx[o] = "landed" => req'[o] = req[o]
<1> DEFINE Still == /\ UNCHANGED <<wallet, position, fills>>
                    /\ \A o \in Orders : /\ tx'[o] = "landed" <=> tx[o] = "landed"
                                         /\ tx[o] = "landed" => req'[o] = req[o]
<1> USE DEF IInv, TypeOK, chain, ledger, resolver, planner, vars
<1>1. ASSUME NEW o \in Orders, Die(o) PROVE Still
  BY <1>1 DEF Die, Dead
<1>2. ASSUME NEW i \in todo, NEW o \in Orders, Sign(i, o) PROVE Still
  <2>1. tx[o] = "none" /\ UNCHANGED <<wallet, position, fills, tx>>
    BY <1>2 DEF Sign, FirstOf, FatesKnown
  <2>2. req' = [req EXCEPT ![o] = i]
    BY <1>2 DEF Sign
  <2>3. QED BY <2>1, <2>2
<1>3. ASSUME pc[Agent] = "send" PROVE cur[Agent] \in Orders
  BY <1>3 DEF VerdictsTrue, SwapPcs, Procs
<1>4. CASE SendOk
  BY <1>3, <1>4 DEF SendOk, Forward
<1>5. CASE SendRefused
  BY <1>3, <1>5 DEF SendRefused
<1>6. CASE SendLost
  BY <1>3, <1>6 DEF SendLost, Forward
<1>7. CASE UNCHANGED <<tx, req, wallet, position, fills>>
  BY <1>7
<1>8. \/ UNCHANGED <<tx, req, wallet, position, fills>>
      \/ \E o \in Orders : Land(o) \/ Die(o)
      \/ \E p \in Procs : Commit(p)
      \/ \E i \in todo, o \in Orders : Sign(i, o)
      \/ SendOk \/ SendRefused \/ SendLost
  BY DEF Next, Chain, Resolve, Tick, PassGrace, ReadStatuses, KeepPending, Decide, EndPass,
     Check, Crash, SkipPending, Snapshot, SnapshotFails, Plan, Refuse, Confirm, Fetch,
     Uncertain, FollowUp, EndTick
<1>9. QED
  BY <1>1, <1>2, <1>4, <1>5, <1>6, <1>7, <1>8

(* A step keeps the positions, with the fills still to be booked, at or    *)
(* above the wallet.                                                       *)
LEMMA CoverStep == IInv /\ LedgerCoversWallet /\ [Next]_vars => LedgerCoversWallet'
<1> SUFFICES ASSUME IInv, LedgerCoversWallet, [Next]_vars, NEW m \in Mints
             PROVE  position'[m] + LotsOf(req', Unbooked(m, "buy")')
                      >= wallet'[m] + LotsOf(req', Unbooked(m, "sell")')
  BY DEF LedgerCoversWallet, Lots, LotsOf
<1> DEFINE B == Unbooked(m, "buy")
           S == Unbooked(m, "sell")
<1>1. position[m] + LotsOf(req, B) >= wallet[m] + LotsOf(req, S)
  BY DEF LedgerCoversWallet, Lots, LotsOf
<1>2. /\ B \in SUBSET Orders /\ \A o \in B : req[o].qty \in Nat
      /\ S \in SUBSET Orders /\ \A o \in S : req[o].qty \in Nat
  BY Requested DEF Unbooked
<1>3. /\ LotsOf(req, B) \in Nat /\ LotsOf(req, S) \in Nat
      /\ position[m] \in Nat /\ wallet[m] \in Nat
  BY <1>2, LotsNat DEF IInv, TypeOK
<1>4. ASSUME NEW o \in Orders, Land(o)
      PROVE  position'[m] + LotsOf(req', B') >= wallet'[m] + LotsOf(req', S')
  <2>1. tx[o] = "inflight" /\ UNCHANGED <<req, fills, position, order>>
    BY <1>4 DEF Land, ledger
  <2>2. /\ req[o].mint \in Mints /\ req[o].qty \in Nat /\ req[o].side \in {"buy", "sell"}
        /\ o \notin fills /\ o \in Orders \ B /\ o \in Orders \ S
    BY <2>1, Requested DEF IInv, BookingMatchesChain, Unbooked
  <2>3. CASE tx' = [tx EXCEPT ![o] = "landed"] /\ req[o].mint = m /\ req[o].side = "buy"
    <3>1. B' = B \cup {o} /\ S' = S
      BY <2>1, <2>2, <2>3 DEF Unbooked, IInv, TypeOK
    <3>2. LotsOf(req, B \cup {o}) = LotsOf(req, B) + req[o].qty
      BY <1>2, <2>2, LotsAdd
    <3>3. wallet'[m] = wallet[m] + req[o].qty
      BY <1>4, <2>3 DEF Land, IInv, TypeOK, TxStates
    <3> HIDE DEF B, S
    <3>4. position'[m] = position[m] /\ req' = req
      BY <2>1
    <3>5. QED BY <1>1, <1>3, <2>2, <3>1, <3>2, <3>3, <3>4
  <2>4. CASE tx' = [tx EXCEPT ![o] = "landed"] /\ req[o].mint = m /\ req[o].side = "sell"
    <3>1. S' = S \cup {o} /\ B' = B
      BY <2>1, <2>2, <2>4 DEF Unbooked, IInv, TypeOK
    <3>2. LotsOf(req, S \cup {o}) = LotsOf(req, S) + req[o].qty
      BY <1>2, <2>2, LotsAdd
    <3>3. wallet'[m] = wallet[m] - req[o].qty
      <4>1. tx' # [tx EXCEPT ![o] = "erred"]
        BY <2>4 DEF IInv, TypeOK
      <4>2. QED BY <1>4, <2>4, <4>1 DEF Land, IInv, TypeOK
    <3> HIDE DEF B, S
    <3>4. position'[m] = position[m] /\ req' = req
      BY <2>1
    <3>5. QED BY <1>1, <1>3, <2>2, <3>1, <3>2, <3>3, <3>4
  <2>5. CASE \/ tx' = [tx EXCEPT ![o] = "erred"] /\ UNCHANGED wallet
             \/ req[o].mint # m /\ wallet'[m] = wallet[m] /\ \A q \in Orders \ {o} : tx'[q] = tx[q]
    <3>1. B' = B /\ S' = S /\ wallet'[m] = wallet[m]
      BY <2>1, <2>5 DEF Unbooked, IInv, TypeOK
    <3>2. QED BY <1>1, <2>1, <3>1
  <2>6. \/ /\ tx' = [tx EXCEPT ![o] = "landed"]
           /\ req[o].mint # m => wallet'[m] = wallet[m]
           /\ \A q \in Orders \ {o} : tx'[q] = tx[q]
        \/ tx' = [tx EXCEPT ![o] = "erred"] /\ UNCHANGED wallet
    BY <1>4 DEF Land, IInv, TypeOK
  <2> HIDE DEF B, S
  <2>7. QED BY <2>2, <2>3, <2>4, <2>5, <2>6
<1>5. ASSUME NEW p \in Procs, Commit(p)
      PROVE  position'[m] + LotsOf(req', B') >= wallet'[m] + LotsOf(req', S')
  <2> DEFINE o == cur[p]
  <2>1. o \in Orders /\ order[o] # "none" /\ (verdict[p] = "filled" => tx[o] = "landed")
    BY <1>5 DEF Commit, IInv, VerdictsTrue, FinalizePcs, SwapPcs
  <2>2. UNCHANGED <<tx, req, wallet>>
    BY <1>5 DEF Commit, chain
  <2>3. req[o].mint \in Mints /\ req[o].qty \in Nat /\ req[o].side \in {"buy", "sell"}
    BY <2>1, Requested
  <2>4. CASE verdict[p] # "filled" \/ o \in fills
    <3>1. UNCHANGED <<fills, position>>
      BY <1>5, <2>4 DEF Commit, RecordFill
    <3>2. B' = B /\ S' = S
      BY <2>2, <3>1 DEF Unbooked
    <3>3. QED BY <1>1, <2>2, <3>1, <3>2
  <2>5. CASE verdict[p] = "filled" /\ o \notin fills
    <3> HIDE DEF o
    <3>0. o = cur[p]
      BY DEF o
    <3>1. /\ fills' = fills \cup {o}
          /\ position' = [position EXCEPT ![req[o].mint] =
               IF req[o].side = "buy" THEN @ + req[o].qty
               ELSE IF @ >= req[o].qty THEN @ - req[o].qty ELSE 0]
      BY <1>5, <2>5, <3>0 DEF Commit, RecordFill
    <3>2. CASE req[o].mint = m /\ req[o].side = "buy"
      <4>1. B = B' \cup {o} /\ o \notin B' /\ S' = S
        BY <2>1, <2>2, <2>5, <3>1, <3>2 DEF Unbooked
      <4>2. LotsOf(req, B) = LotsOf(req, B') + req[o].qty
        BY <1>2, <2>1, <4>1, LotsAdd
      <4>3. position'[m] = position[m] + req[o].qty
        BY <3>1, <3>2 DEF IInv, TypeOK
      <4>4. LotsOf(req, B') \in Nat
        BY <1>2, <4>1, LotsNat
      <4>5. QED BY <1>1, <1>3, <2>2, <2>3, <4>1, <4>2, <4>3, <4>4
    <3>3. CASE req[o].mint = m /\ req[o].side = "sell"
      <4>1. S = S' \cup {o} /\ o \notin S' /\ B' = B
        BY <2>1, <2>2, <2>5, <3>1, <3>3 DEF Unbooked
      <4>2. LotsOf(req, S) = LotsOf(req, S') + req[o].qty
        BY <1>2, <2>1, <4>1, LotsAdd
      <4>3. position'[m] + req[o].qty >= position[m] /\ position'[m] \in Nat
        BY <1>3, <2>3, <3>1, <3>3 DEF IInv, TypeOK
      <4>4. LotsOf(req, S') \in Nat
        BY <1>2, <4>1, LotsNat
      <4>5. QED BY <1>1, <1>3, <2>2, <2>3, <4>1, <4>2, <4>3, <4>4
    <3>4. CASE req[o].mint # m
      <4>1. B' = B /\ S' = S
        BY <2>2, <3>1, <3>4 DEF Unbooked
      <4>2. position'[m] = position[m]
        BY <3>1, <3>4 DEF IInv, TypeOK
      <4>3. QED BY <1>1, <2>2, <4>1, <4>2
    <3>5. QED BY <2>3, <3>2, <3>3, <3>4
  <2>6. QED BY <2>4, <2>5
<1>6. ASSUME UNCHANGED <<wallet, position, fills>>,
             \A o \in Orders : /\ tx'[o] = "landed" <=> tx[o] = "landed"
                               /\ tx[o] = "landed" => req'[o] = req[o]
      PROVE  position'[m] + LotsOf(req', B') >= wallet'[m] + LotsOf(req', S')
  <2>1. B' = B /\ S' = S
    BY <1>6 DEF Unbooked
  <2>2. LotsOf(req', B) = LotsOf(req, B) /\ LotsOf(req', S) = LotsOf(req, S)
    <3>1. (\A o \in B : req'[o].qty = req[o].qty) /\ (\A o \in S : req'[o].qty = req[o].qty)
      BY <1>6 DEF Unbooked
    <3>2. QED BY <3>1, LotsSame
  <2>3. QED BY <1>1, <1>6, <2>1, <2>2
<1>7. QED
  BY <1>4, <1>5, <1>6, HoldingsMove

-----------------------------------------------------------------------------
(***************************************************************************)
(* The owner's caps, while the agent alone finalises orders.               *)
(***************************************************************************)

(* CapsInv with the rows of the orders table made explicit.                *)
LEMMA CapsInvLots ==
  CapsInv <=>
  /\ LotsOf(req, BuysMade) <= DailyLimit
  /\ \A m \in Mints : wallet[m] + LotsOf(req, BuysAfloat(m)) <= MaxPosition
  /\ \A i, j \in todo : i.side = "buy" /\ j.side = "buy" => i = j
  /\ \A i \in todo : i.side = "buy" => /\ ~i.exit
                                      /\ i.qty + LotsOf(req, BuysMade) <= DailyLimit
                                      /\ i.qty + wallet[i.mint] <= MaxPosition
  /\ pc[Agent] = "plan" =>
       /\ snap.bought = {o \in fills : req[o].side = "buy"}
       /\ \A m \in Mints : SubmittedOn(m) = {} => wallet[m] <= snap.held[m]
BY DEF CapsInv, Lots, LotsOf

(* The buys are recorded orders, and their lots are naturals.              *)
LEMMA BuysTyped ==
  ASSUME IInv
  PROVE  /\ BuysMade \in SUBSET Orders /\ \A o \in BuysMade : req[o].qty \in Nat
         /\ \A m \in Mints : BuysAfloat(m) \in SUBSET BuysMade
         /\ LotsOf(req, BuysMade) \in Nat
         /\ \A m \in Mints : LotsOf(req, BuysAfloat(m)) \in Nat
<1>1. BuysMade \in SUBSET Orders /\ \A o \in BuysMade : req[o].qty \in Nat
  BY Requested DEF BuysMade
<1>2. ASSUME NEW m \in Mints PROVE BuysAfloat(m) \in SUBSET BuysMade
  BY DEF BuysAfloat, PendingBuys, Submitted, BuysMade
<1>3. QED
  BY <1>1, <1>2, LotsNat

(* A step that makes no buy, adds to no holding and takes no snapshot      *)
(* keeps CapsInv.                                                          *)
LEMMA CapsFrame ==
  ASSUME IInv, CapsInv, \A m \in Mints : wallet'[m] \in Nat /\ wallet'[m] <= wallet[m],
         BuysMade' \subseteq BuysMade, \A o \in BuysMade : req'[o] = req[o],
         \A m \in Mints : BuysAfloat(m)' \subseteq BuysAfloat(m),
         todo' \subseteq todo,
         pc'[Agent] = "plan" => pc[Agent] = "plan" /\ UNCHANGED <<snap, fills, order, req>>
  PROVE  CapsInv'
<1>1. LotsOf(req', BuysMade') <= LotsOf(req, BuysMade) /\ LotsOf(req', BuysMade') \in Nat
  <2>1. LotsOf(req', BuysMade') = LotsOf(req, BuysMade')
    BY LotsSame
  <2>2. QED BY <2>1, BuysTyped, LotsNat
<1>2. ASSUME NEW m \in Mints
      PROVE  /\ LotsOf(req', BuysAfloat(m)') <= LotsOf(req, BuysAfloat(m))
             /\ LotsOf(req', BuysAfloat(m)') \in Nat
  <2>1. BuysAfloat(m)' \in SUBSET BuysAfloat(m) /\ BuysAfloat(m)' \in SUBSET BuysMade
    BY BuysTyped
  <2>2. LotsOf(req', BuysAfloat(m)') = LotsOf(req, BuysAfloat(m)')
    BY <2>1, LotsSame
  <2>3. BuysAfloat(m) \in SUBSET Orders /\ \A o \in BuysAfloat(m) : req[o].qty \in Nat
    BY BuysTyped
  <2>4. QED BY <2>1, <2>2, <2>3, LotsNat
<1>3. /\ DailyLimit \in Nat /\ MaxPosition \in Nat /\ LotsOf(req, BuysMade) \in Nat
      /\ \A m \in Mints : wallet[m] \in Nat /\ LotsOf(req, BuysAfloat(m)) \in Nat
      /\ \A i \in todo : i.qty \in Nat /\ i.mint \in Mints
  BY BoundsAssumption, BuysTyped DEF IInv, TypeOK, Requests
<1>4. LotsOf(req', BuysMade') <= DailyLimit
  BY <1>1, <1>3, CapsInvLots
<1>5. \A m \in Mints : wallet'[m] + LotsOf(req', BuysAfloat(m)') <= MaxPosition
  BY <1>2, <1>3, CapsInvLots
<1>6. \A i \in todo' : i.side = "buy" => /\ ~i.exit
                                        /\ i.qty + LotsOf(req', BuysMade') <= DailyLimit
                                        /\ i.qty + wallet'[i.mint] <= MaxPosition
  BY <1>1, <1>3, CapsInvLots
<1>7. \A i, j \in todo' : i.side = "buy" /\ j.side = "buy" => i = j
  BY CapsInvLots
<1>8. pc'[Agent] = "plan" =>
        /\ snap'.bought = {o \in fills' : req'[o].side = "buy"}
        /\ \A m \in Mints : SubmittedOn(m)' = {} => wallet'[m] <= snap'.held[m]
  <2> SUFFICES ASSUME pc'[Agent] = "plan"
               PROVE  /\ snap.bought = {o \in fills : req[o].side = "buy"}
                      /\ \A m \in Mints : SubmittedOn(m) = {} => wallet'[m] <= snap.held[m]
    BY DEF SubmittedOn, Submitted
  <2>1. \A m \in Mints : snap.held[m] \in Nat
    BY DEF IInv, TypeOK
  <2>2. QED BY <1>3, <2>1, CapsInvLots
<1>9. QED
  BY <1>4, <1>5, <1>6, <1>7, <1>8 DEF CapsInv, Lots, LotsOf

(* Land: a buy that lands moves its lots from afloat to the wallet.        *)
LEMMA CapsLand ==
  ASSUME IInv, CapsInv, NEW o \in Orders, Land(o)
  PROVE  CapsInv'
<1> DEFINE m0 == req[o].mint
<1>1. tx[o] = "inflight" /\ UNCHANGED <<order, req, fills, snap, todo, pc>>
  BY DEF Land, ledger, planner
<1>2. order[o] = "submitted" /\ req[o].qty \in Nat /\ m0 \in Mints /\ req[o].side \in {"buy", "sell"}
  BY <1>1, Requested DEF IInv, TypeOK, FatesKnown, BookingMatchesChain, Dead
<1>3. \/ tx' = [tx EXCEPT ![o] = "landed"] /\ wallet' = [wallet EXCEPT ![m0] =
            IF req[o].side = "buy" THEN @ + req[o].qty ELSE @ - req[o].qty]
         /\ (req[o].side = "buy" \/ wallet[m0] >= req[o].qty)
      \/ tx' = [tx EXCEPT ![o] = "erred"] /\ UNCHANGED wallet
  BY DEF Land
<1>4. \A m \in Mints : wallet[m] \in Nat
  BY DEF IInv, TypeOK
<1>5. CASE req[o].side = "sell" \/ UNCHANGED wallet
  <2>1. \A m \in Mints : wallet'[m] \in Nat /\ wallet'[m] <= wallet[m]
    BY <1>2, <1>3, <1>4, <1>5 DEF IInv, TypeOK
  <2>2. BuysMade' = BuysMade
    BY <1>1 DEF BuysMade
  <2>3. \A m \in Mints : BuysAfloat(m)' \subseteq BuysAfloat(m)
    BY <1>1, <1>3 DEF BuysAfloat, PendingBuys, Submitted, IInv, TypeOK
  <2>4. QED BY <1>1, <2>1, <2>2, <2>3, CapsFrame
<1>6. CASE /\ req[o].side = "buy" /\ tx' = [tx EXCEPT ![o] = "landed"]
           /\ wallet' = [wallet EXCEPT ![m0] = @ + req[o].qty]
  <2>1. BuysMade' = BuysMade
    BY <1>1 DEF BuysMade
  <2>2. ASSUME NEW m \in Mints PROVE wallet'[m] + LotsOf(req, BuysAfloat(m)') <= MaxPosition
    <3>1. wallet[m] + LotsOf(req, BuysAfloat(m)) <= MaxPosition
      BY CapsInvLots
    <3>2. CASE m = m0
      <4>1. BuysAfloat(m) = BuysAfloat(m)' \cup {o} /\ o \notin BuysAfloat(m)'
        BY <1>1, <1>2, <1>6, <3>2 DEF BuysAfloat, PendingBuys, Submitted, IInv, TypeOK
      <4>2. BuysAfloat(m) \in SUBSET Orders /\ \A q \in BuysAfloat(m) : req[q].qty \in Nat
        BY BuysTyped
      <4>3. LotsOf(req, BuysAfloat(m)) = LotsOf(req, BuysAfloat(m)') + req[o].qty
        BY <4>1, <4>2, LotsAdd
      <4>4. LotsOf(req, BuysAfloat(m)') \in Nat
        BY <4>1, <4>2, LotsNat
      <4>5. wallet'[m] = wallet[m] + req[o].qty
        BY <1>6, <3>2 DEF IInv, TypeOK
      <4>6. QED BY <1>2, <1>4, <3>1, <4>3, <4>4, <4>5
    <3>3. CASE m # m0
      <4>1. BuysAfloat(m)' = BuysAfloat(m)
        BY <1>1, <1>6, <3>3 DEF BuysAfloat, PendingBuys, Submitted, IInv, TypeOK
      <4>2. wallet'[m] = wallet[m]
        BY <1>6, <3>3 DEF IInv, TypeOK
      <4>3. QED BY <3>1, <4>1, <4>2
    <3>4. QED BY <3>2, <3>3
  <2>3. o \in SubmittedOn(m0) /\ \A m \in Mints : SubmittedOn(m)' = SubmittedOn(m)
    BY <1>1, <1>2 DEF SubmittedOn, Submitted
  <2>4. \A m \in Mints : SubmittedOn(m) = {} => wallet'[m] = wallet[m]
    BY <1>6, <2>3 DEF IInv, TypeOK
  <2>5. \A i \in todo : i.side = "buy" => wallet'[i.mint] = wallet[i.mint]
    <3>1. ASSUME NEW i \in todo, i.side = "buy" PROVE wallet'[i.mint] = wallet[i.mint]
      <4>1. ~i.exit /\ i.mint \in Mints
        BY <3>1, CapsInvLots DEF IInv, TypeOK, Requests
      <4>2. SubmittedOn(i.mint) = {}
        BY <4>1 DEF IInv, PlanStillGated
      <4>3. QED BY <2>4, <4>1, <4>2
    <3>2. QED BY <3>1
  <2>6. LotsOf(req', BuysMade') = LotsOf(req, BuysMade)
    BY <1>1, <2>1
  <2>7. \A m \in Mints : wallet'[m] + LotsOf(req', BuysAfloat(m)') <= MaxPosition
    BY <1>1, <2>2
  <2>8. \A i \in todo' : i.side = "buy" => /\ ~i.exit
                                          /\ i.qty + LotsOf(req', BuysMade') <= DailyLimit
                                          /\ i.qty + wallet'[i.mint] <= MaxPosition
    BY <1>1, <2>5, <2>6, CapsInvLots
  <2>9. pc'[Agent] = "plan" =>
          /\ snap'.bought = {q \in fills' : req'[q].side = "buy"}
          /\ \A m \in Mints : SubmittedOn(m)' = {} => wallet'[m] <= snap'.held[m]
    BY <1>1, <2>3, <2>4, CapsInvLots
  <2>10. LotsOf(req', BuysMade') <= DailyLimit /\ \A i, j \in todo' : i.side = "buy" /\ j.side = "buy" => i = j
    BY <1>1, <2>6, CapsInvLots
  <2>11. QED
    BY <2>7, <2>8, <2>9, <2>10 DEF CapsInv, Lots, LotsOf
<1>7. QED
  BY <1>2, <1>3, <1>5, <1>6

(* Snapshot: what it reads is what the wallet and the ledger hold.         *)
LEMMA CapsSnapshot ==
  ASSUME IInv, CapsInv, Snapshot
  PROVE  CapsInv'
<1>1. /\ snap' = [held |-> wallet, bought |-> {o \in fills : req[o].side = "buy"}]
      /\ UNCHANGED <<tx, wallet, order, req, fills, todo>>
  BY DEF Snapshot, chain, ledger
<1>2. BuysMade' = BuysMade /\ \A m \in Mints : BuysAfloat(m)' = BuysAfloat(m)
  BY <1>1 DEF BuysMade, BuysAfloat, PendingBuys, Submitted
<1>3. \A m \in Mints : wallet[m] \in Nat
  BY DEF IInv, TypeOK
<1>4. /\ snap'.bought = {o \in fills' : req'[o].side = "buy"}
      /\ \A m \in Mints : wallet'[m] <= snap'.held[m]
  BY <1>1, <1>3
<1>5. QED
  BY <1>1, <1>2, <1>4 DEF CapsInv, Lots

(* Plan: an entry is sized under the day's limit less all buys made, and   *)
(* under its mint's cap less what the wallet holds, although the snapshot  *)
(* may be stale for other mints.                                           *)
LEMMA CapsPlan ==
  ASSUME IInv, CapsInv, Plan
  PROVE  CapsInv'
<1>1. /\ UNCHANGED <<tx, wallet, order, req, fills, snap>>
      /\ pc[Agent] = "plan" /\ pc'[Agent] # "plan"
  BY DEF Plan, chain, ledger, Goto, IInv, TypeOK, Procs
<1>2. /\ todo' \in SUBSET UNION {Exit(m) \cup Trim(m) \cup Entry(m) : m \in Mints}
      /\ \A i, j \in todo' : i.side = "buy" /\ j.side = "buy" => i = j
  BY DEF Plan
<1>3. BuysMade' = BuysMade /\ \A m \in Mints : BuysAfloat(m)' = BuysAfloat(m)
  BY <1>1 DEF BuysMade, BuysAfloat, PendingBuys, Submitted
<1>4. LotsOf(req, BuysMade) = LotsOf(req, snap.bought) + LotsOf(req, PendingBuys)
  <2>1. snap.bought = {o \in fills : req[o].side = "buy"}
    BY <1>1, CapsInvLots
  <2>2. fills = {o \in Orders : order[o] = "filled"}
    BY DEF IInv, TypeOK, BookingMatchesChain
  <2>3. BuysMade = snap.bought \cup PendingBuys /\ snap.bought \cap PendingBuys = {}
    BY <2>1, <2>2 DEF BuysMade, PendingBuys, Submitted
  <2>4. BuysMade \in SUBSET Orders /\ \A o \in BuysMade : req[o].qty \in Nat
    BY BuysTyped
  <2>5. snap.bought \in SUBSET Orders /\ PendingBuys \in SUBSET Orders
    BY <2>3, <2>4
  <2> HIDE DEF BuysMade, PendingBuys
  <2>6. QED BY <2>3, <2>4, <2>5, LotsUnion
<1>5. LotsOf(req, snap.bought) \in Nat /\ LotsOf(req, PendingBuys) \in Nat
  <2>1. \A o \in Orders : order[o] # "none" => req[o].qty \in Nat
    BY Requested
  <2>2. snap.bought \in SUBSET Orders /\ \A o \in snap.bought : order[o] # "none"
    BY <1>1, CapsInvLots DEF IInv, TypeOK, BookingMatchesChain
  <2>3. PendingBuys \in SUBSET Orders /\ \A o \in PendingBuys : order[o] # "none"
    BY DEF PendingBuys, Submitted
  <2>4. QED BY <2>1, <2>2, <2>3, LotsNat
<1>6. ASSUME NEW i \in todo', i.side = "buy"
      PROVE  /\ ~i.exit
             /\ i.qty + LotsOf(req, BuysMade) <= DailyLimit
             /\ i.qty + wallet[i.mint] <= MaxPosition
  <2>1. PICK m \in Mints : i \in Exit(m) \cup Trim(m) \cup Entry(m)
    BY <1>2
  <2>2. i \in Entry(m)
    BY <1>6, <2>1 DEF Exit, Trim
  <2>3. PICK q \in Headroom(m) : /\ SubmittedOn(m) = {}
                                 /\ i = [mint |-> m, side |-> "buy", qty |-> q, exit |-> FALSE]
    BY <2>2 DEF Entry
  <2>4. wallet[m] <= snap.held[m]
    BY <1>1, <2>3, CapsInvLots
  <2>5. wallet[m] \in Nat /\ snap.held[m] \in Nat /\ MaxPosition \in Nat /\ DailyLimit \in Nat
    BY BoundsAssumption DEF IInv, TypeOK
  <2>6. q \in 1 .. (MaxPosition - snap.held[m])
        /\ q <= DailyLimit - LotsOf(req, snap.bought) - LotsOf(req, PendingBuys)
    BY <2>3 DEF Headroom, Lots, LotsOf
  <2>7. q + LotsOf(req, BuysMade) <= DailyLimit /\ q + wallet[m] <= MaxPosition
    BY <1>4, <1>5, <2>4, <2>5, <2>6
  <2>8. QED BY <2>3, <2>7
<1>7. QED
  BY <1>1, <1>2, <1>3, <1>6, CapsInvLots DEF CapsInv, Lots, LotsOf

(* Sign: the buy that was planned joins the buys made and the buys afloat. *)
LEMMA CapsSign ==
  ASSUME IInv, CapsInv, NEW i \in todo, NEW o \in Orders, Sign(i, o)
  PROVE  CapsInv'
<1>1. /\ order[o] = "none" /\ order' = [order EXCEPT ![o] = "submitted"]
      /\ req' = [req EXCEPT ![o] = i] /\ todo' = todo \ {i}
      /\ UNCHANGED <<tx, wallet, fills, snap>> /\ pc'[Agent] # "plan"
  BY DEF Sign, FirstOf, chain, Goto, IInv, TypeOK, Procs
<1>2. /\ order'[o] = "submitted" /\ req'[o] = i /\ i \in Requests
      /\ \A q \in Orders \ {o} : order'[q] = order[q] /\ req'[q] = req[q]
  BY <1>1 DEF IInv, TypeOK
<1>3. \A m \in Mints : wallet'[m] \in Nat /\ wallet'[m] <= wallet[m]
  BY <1>1 DEF IInv, TypeOK
<1>4. o \notin BuysMade /\ \A q \in BuysMade : req'[q] = req[q]
  BY <1>1, <1>2 DEF BuysMade
<1>5. CASE i.side # "buy"
  <2>1. BuysMade' \subseteq BuysMade
    BY <1>2, <1>5 DEF BuysMade
  <2>2. \A m \in Mints : BuysAfloat(m)' \subseteq BuysAfloat(m)
    BY <1>1, <1>2, <1>5 DEF BuysAfloat, PendingBuys, Submitted
  <2>3. QED BY <1>1, <1>3, <1>4, <2>1, <2>2, CapsFrame
<1>6. CASE i.side = "buy"
  <2>1. BuysMade' = BuysMade \cup {o}
    BY <1>1, <1>2, <1>6 DEF BuysMade
  <2>2. BuysMade \in SUBSET Orders /\ \A q \in BuysMade : req'[q].qty \in Nat
    BY <1>4, BuysTyped
  <2>3. i.qty \in Nat /\ i.mint \in Mints
    BY <1>2 DEF Requests
  <2>4. LotsOf(req', BuysMade') = LotsOf(req, BuysMade) + i.qty
    <3>1. LotsOf(req', BuysMade \cup {o}) = LotsOf(req', BuysMade) + req'[o].qty
      BY <1>2, <1>4, <2>2, <2>3, LotsAdd
    <3>2. LotsOf(req', BuysMade) = LotsOf(req, BuysMade)
      BY <1>4, LotsSame
    <3>3. QED BY <1>2, <2>1, <3>1, <3>2
  <2>5. LotsOf(req', BuysMade') <= DailyLimit
    BY <1>6, <2>3, <2>4, BuysTyped, BoundsAssumption, CapsInvLots
  <2>6. ASSUME NEW m \in Mints PROVE wallet'[m] + LotsOf(req', BuysAfloat(m)') <= MaxPosition
    <3>1. CASE m = i.mint
      <4>1. SubmittedOn(m) = {}
        BY <1>6, <3>1, CapsInvLots DEF IInv, PlanStillGated
      <4>2. BuysAfloat(m)' = {} \cup {o}
        <5>1. tx[o] = "none"
          BY <1>1 DEF IInv, TypeOK, FatesKnown
        <5>2. QED
          BY <1>1, <1>2, <1>6, <3>1, <4>1, <5>1
          DEF BuysAfloat, PendingBuys, SubmittedOn, Submitted
      <4>3. LotsOf(req', {} \cup {o}) = LotsOf(req', {}) + req'[o].qty
        BY <1>2, <2>3, LotsAdd
      <4>4. LotsOf(req', {}) = 0
        BY SumEmpty DEF LotsOf
      <4>5. i.qty + wallet[m] <= MaxPosition
        BY <1>6, <3>1, CapsInvLots
      <4>6. wallet[m] \in Nat
        BY DEF IInv, TypeOK
      <4>7. QED BY <1>1, <1>2, <2>3, <4>2, <4>3, <4>4, <4>5, <4>6
    <3>2. CASE m # i.mint
      <4>1. BuysAfloat(m)' = BuysAfloat(m)
        BY <1>1, <1>2, <3>2 DEF BuysAfloat, PendingBuys, Submitted
      <4>2. LotsOf(req', BuysAfloat(m)) = LotsOf(req, BuysAfloat(m))
        BY <1>4, BuysTyped, LotsSame
      <4>3. wallet[m] + LotsOf(req, BuysAfloat(m)) <= MaxPosition
        BY CapsInvLots
      <4>4. QED BY <1>1, <4>1, <4>2, <4>3
    <3>3. QED BY <3>1, <3>2
  <2>7. \A j \in todo' : j.side # "buy"
    BY <1>1, <1>6, CapsInvLots
  <2>8. QED
    BY <1>1, <2>5, <2>6, <2>7 DEF CapsInv, Lots, LotsOf
<1>7. QED
  BY <1>5, <1>6

(* A step of the chain or of the agent keeps CapsInv; no other process     *)
(* takes one.                                                              *)
LEMMA CapsStep == Clis = {} /\ IInv /\ CapsInv /\ [Next]_vars => CapsInv'
<1> SUFFICES ASSUME Clis = {}, IInv, CapsInv, [Next]_vars PROVE CapsInv'
  OBVIOUS
<1> USE DEF chain, ledger, resolver, planner
<1>1. Procs = {Agent}
  BY DEF Procs
<1>2. \A m \in Mints : wallet[m] \in Nat /\ wallet[m] <= wallet[m]
  BY DEF IInv, TypeOK
<1> DEFINE Frame == /\ UNCHANGED wallet
                    /\ BuysMade' \subseteq BuysMade /\ \A o \in BuysMade : req'[o] = req[o]
                    /\ \A m \in Mints : BuysAfloat(m)' \subseteq BuysAfloat(m)
                    /\ todo' \subseteq todo
                    /\ pc'[Agent] = "plan" => pc[Agent] = "plan" /\ UNCHANGED <<snap, fills, order, req>>
<1>3. Frame => CapsInv'
  BY <1>2, CapsFrame
<1>4. ASSUME UNCHANGED <<tx, wallet, order, req, snap, fills>>, todo' \subseteq todo,
             pc' = pc \/ pc'[Agent] # "plan"
      PROVE  Frame
  BY <1>4 DEF BuysMade, BuysAfloat, PendingBuys, Submitted
<1>5. ASSUME NEW o \in Orders, Die(o) PROVE Frame
  BY <1>5 DEF Die, Dead, BuysMade, BuysAfloat, PendingBuys, Submitted, IInv, TypeOK
<1>6. ASSUME Commit(Agent) PROVE Frame
  <2>1. /\ cur[Agent] \in Orders /\ order[cur[Agent]] # "none"
        /\ verdict[Agent] \in {"filled", "failed"}
        /\ verdict[Agent] = "filled" => tx[cur[Agent]] = "landed"
    BY <1>1, <1>6 DEF Commit, IInv, VerdictsTrue, FinalizePcs, SwapPcs
  <2>2. order' = [order EXCEPT ![cur[Agent]] = verdict[Agent]] /\ UNCHANGED <<tx, req, wallet, todo>>
    BY <1>6 DEF Commit
  <2>3. order[cur[Agent]] = "failed" => verdict[Agent] = "failed"
    BY <2>1 DEF IInv, BookingMatchesChain, Dead
  <2>4. BuysMade' \subseteq BuysMade
    BY <2>1, <2>2, <2>3 DEF BuysMade, IInv, TypeOK
  <2>5. \A m \in Mints : BuysAfloat(m)' \subseteq BuysAfloat(m)
    BY <2>1, <2>2 DEF BuysAfloat, PendingBuys, Submitted, IInv, TypeOK
  <2>6. pc'[Agent] # "plan"
    BY <1>1, <1>6 DEF Commit, Goto, AfterFinalize, IInv, TypeOK
  <2>7. QED BY <2>2, <2>4, <2>5, <2>6
<1>7. ASSUME Crash(Agent) PROVE Frame
  <2>1. UNCHANGED <<tx, wallet, order, req, fills>> /\ todo' = {}
    BY <1>7 DEF Crash
  <2>2. pc'[Agent] # "plan"
    BY <1>1, <1>7 DEF Crash, Goto, IInv, TypeOK
  <2>3. QED BY <2>1, <2>2 DEF BuysMade, BuysAfloat, PendingBuys, Submitted
<1>8. ASSUME SendOk \/ SendRefused \/ SendLost PROVE Frame
  <2>1. cur[Agent] \in Orders
    BY <1>1, <1>8 DEF SendOk, SendRefused, SendLost, IInv, VerdictsTrue, SwapPcs
  <2>2. /\ UNCHANGED <<wallet, order, req, snap, fills, todo>>
        /\ \A o \in Orders : tx'[o] \in {"none", "inflight"} => tx[o] \in {"none", "inflight"}
    BY <1>8, <2>1 DEF SendOk, SendRefused, SendLost, Forward, IInv, TypeOK
  <2>3. pc' = pc \/ pc'[Agent] # "plan"
    BY <1>1, <1>8 DEF SendOk, SendRefused, SendLost, Goto, IInv, TypeOK
  <2>4. QED BY <2>2, <2>3 DEF BuysMade, BuysAfloat, PendingBuys, Submitted
<1>9. ASSUME NEW o \in Orders, PassGrace(o) PROVE Frame
  BY <1>4, <1>9 DEF PassGrace
<1>10. ASSUME NEW o \in Orders, KeepPending(Agent, o) \/ Decide(Agent, o) PROVE Frame
  <2>1. pc' = pc \/ pc'[Agent] # "plan"
    BY <1>1, <1>10 DEF KeepPending, Decide, Goto, IInv, TypeOK
  <2>2. QED BY <1>4, <1>10, <2>1 DEF KeepPending, Decide
<1>11. ASSUME ReadStatuses(Agent) \/ EndPass(Agent) \/ Check(Agent) PROVE Frame
  <2>1. pc'[Agent] # "plan"
    BY <1>1, <1>11 DEF ReadStatuses, EndPass, Check, AfterFinalize, Goto, IInv, TypeOK
  <2>2. QED BY <1>4, <1>11, <2>1 DEF ReadStatuses, EndPass, Check
<1>12. ASSUME \/ SkipPending \/ SnapshotFails \/ Confirm \/ Fetch \/ Uncertain
              \/ FollowUp \/ EndTick
       PROVE  Frame
  <2>1. pc'[Agent] # "plan"
    BY <1>1, <1>12
    DEF SkipPending, SnapshotFails, Confirm, Fetch, Uncertain, FollowUp, EndTick, Goto, IInv, TypeOK
  <2>2. QED
    BY <1>4, <1>12, <2>1
    DEF SkipPending, SnapshotFails, Confirm, Fetch, Uncertain, FollowUp, EndTick
<1>13. ASSUME NEW i \in todo, Refuse(i) PROVE Frame
  BY <1>4, <1>13 DEF Refuse
<1>14. CASE UNCHANGED vars
  BY <1>3, <1>4, <1>14 DEF vars
<1> HIDE DEF Frame
<1>15. QED
  BY <1>1, <1>3, <1>5, <1>6, <1>7, <1>8, <1>9, <1>10, <1>11, <1>12, <1>13, <1>14,
     CapsLand, CapsSnapshot, CapsPlan, CapsSign
  DEF Next, Chain, Resolve, Tick

(* The inductive invariant holds in every reachable state.                 *)
THEOREM Invariance == Spec => []IInv
<1>1. Init => IInv
  <2> SUFFICES ASSUME Init PROVE IInv
    OBVIOUS
  <2> USE DEF Init
  <2>1. TypeOK
    BY BoundsAssumption DEF TypeOK, NoSnapshot, Unread, TxStates, Statuses, Procs, AgentPcs
  <2>2. FatesKnown /\ BookingMatchesChain /\ PlanStillGated
    BY DEF FatesKnown, BookingMatchesChain, PlanStillGated
  <2>3. VerdictsTrue
    BY DEF VerdictsTrue, FinalizePcs, SwapPcs, Unread
  <2>4. QED
    BY <2>1, <2>2, <2>3 DEF IInv
<1>2. IInv /\ [Next]_vars => IInv'
  BY TypeStep, FatesStep, VerdictsStep, BookingStep, PlanStep DEF IInv
<1>3. QED
  BY <1>1, <1>2, PTL DEF Spec

(* Every variable keeps its type.                                          *)
THEOREM TypeCorrect == Spec => []TypeOK
<1>1. IInv => TypeOK
  BY DEF IInv
<1>2. QED
  BY <1>1, Invariance, PTL

(* finalize_order, from whatever process and whatever it read: a filled    *)
(* row's transaction landed and is booked, a failed row's never lands.     *)
THEOREM BookingCorrect == Spec => []BookingMatchesChain
<1>1. IInv => BookingMatchesChain
  BY DEF IInv
<1>2. QED
  BY <1>1, Invariance, PTL

(* plan_tick and _execute: a mint with an order outstanding gets no second *)
(* one unless it is an exit.                                               *)
THEOREM NeverRequotedHolds == Spec => NeverRequoted
<1>1. QED
  BY Invariance, RequoteStep, PTL DEF Spec, NeverRequoted

(* However many processes run finalize_order, the ledger settles every     *)
(* order at most once and moves its position once.                         *)
THEOREM SettlesOnceHolds == Spec => SettlesOnce
<1>1. QED
  BY Invariance, SettlementInit, SettlementStep, PTL DEF Spec, SettlesOnce, Book!Spec

(* _record_fill and finalize_order: no fill is lost and no sell is booked  *)
(* twice, so the positions the exit rules look at never show less than the *)
(* wallet holds, fills still to be booked allowed for.                     *)
THEOREM LedgerCovers == Spec => []LedgerCoversWallet
<1>1. Init => LedgerCoversWallet
  <2> SUFFICES ASSUME Init, NEW m \in Mints, NEW side \in {"buy", "sell"}
               PROVE  position[m] = 0 /\ wallet[m] = 0 /\ Lots(Unbooked(m, side)) = 0
    BY DEF LedgerCoversWallet
  <2>1. Unbooked(m, side) = {}
    BY DEF Init, Unbooked
  <2>2. QED BY <2>1, SumEmpty DEF Init, Lots
<1>2. QED
  BY <1>1, Invariance, CoverStep, PTL DEF Spec

(* plan_tick and size_order: without a second process that finalises       *)
(* orders, what landed in the day and what the wallet holds stay within    *)
(* the owner's caps, however many orders' outcomes are unknown.            *)
THEOREM CapsAlwaysHold == ASSUME Clis = {} PROVE Spec => []CapsHold
<1>1. Init => CapsInv
  <2> SUFFICES ASSUME Init PROVE CapsInv
    OBVIOUS
  <2>1. BuysMade = {} /\ \A m \in Mints : BuysAfloat(m) = {}
    BY DEF Init, BuysMade, BuysAfloat, PendingBuys, Submitted
  <2>2. Lots({}) = 0
    BY SumEmpty DEF Lots
  <2>3. 0 <= DailyLimit /\ 0 + 0 <= MaxPosition
    BY BoundsAssumption
  <2>4. /\ todo = {} /\ pc[Agent] # "plan" /\ \A m \in Mints : wallet[m] = 0
    BY DEF Init, Procs
  <2>5. QED
    BY <2>1, <2>2, <2>3, <2>4 DEF CapsInv
<1>2. Spec => []CapsInv
  BY <1>1, Invariance, CapsStep, PTL DEF Spec
<1>3. IInv /\ CapsInv => CapsHold
  <2> SUFFICES ASSUME IInv, CapsInv PROVE CapsHold
    OBVIOUS
  <2> DEFINE L == {o \in Orders : tx[o] = "landed" /\ req[o].side = "buy"}
  <2>1. L \in SUBSET BuysMade
    BY DEF BuysMade, IInv, TypeOK, FatesKnown, BookingMatchesChain, Dead
  <2>2. LotsOf(req, L) <= LotsOf(req, BuysMade) /\ LotsOf(req, L) \in Nat
    <3> HIDE DEF L
    <3>1. QED BY <2>1, BuysTyped, LotsNat
  <2>3. LotsOf(req, L) <= DailyLimit
    <3> HIDE DEF L
    <3>1. QED BY <2>2, BuysTyped, BoundsAssumption, CapsInvLots
  <2>4. ASSUME NEW m \in Mints PROVE wallet[m] <= MaxPosition
    <3>1. wallet[m] \in Nat
      BY DEF IInv, TypeOK
    <3>2. QED BY <3>1, BuysTyped, BoundsAssumption, CapsInvLots
  <2>5. QED
    BY <2>3, <2>4 DEF CapsHold, Lots, LotsOf
<1>4. QED
  BY <1>2, <1>3, Invariance, PTL
=============================================================================
