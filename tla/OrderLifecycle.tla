--------------------------- MODULE OrderLifecycle ---------------------------
(***************************************************************************)
(* The life of a live swap: the agent's tick plans orders from a snapshot  *)
(* of the wallet, signs and records each one in the ledger BEFORE it is    *)
(* sent, executes and confirms it, and books the realised fill.  An order  *)
(* whose outcome is unknown stays `submitted' and is resolved by signature *)
(* on a later tick, after a crash, or by a `tiller reconcile' run from the *)
(* command line, which takes no lock and may run at the same time.         *)
(*                                                                         *)
(* Prices are constant, so USD and token amounts are both counted in lots. *)
(* One UTC day is modelled.                                                *)
(***************************************************************************)
EXTENDS Integers, FiniteSets, Functions

CONSTANTS
  MaxOrders,     (* bound: how many orders are ever signed                     *)
  Mints,         (* tokens other than USDC                                     *)
  Clis,          (* processes that run `tiller reconcile' beside the agent     *)
  Agent,         (* the `tiller run' process                                   *)
  NoRequest,     (* the request of an order that does not exist                *)
  MaxPosition,   (* effective maxPositionUsd, in lots: cap on what a mint holds *)
  DailyLimit,    (* effective dailyLimitUsd, in lots                           *)
  MaxResubmits,  (* ExecCfg.execute_resubmits                                  *)
  MaxCrashes     (* bound: how often the agent process dies                    *)

(* An order is known by the id of its row, given out in ascending order;   *)
(* its signature stands and falls with it.                                 *)
Orders == 1 .. MaxOrders
NoOrder == 0
Procs == {Agent} \cup Clis

ASSUME ProcsAssumption == Agent \notin Clis
ASSUME BoundsAssumption ==
  /\ MaxOrders \in Nat
  /\ MaxPosition \in Nat
  /\ DailyLimit \in Nat
  /\ MaxResubmits \in Nat
  /\ MaxCrashes \in Nat

(* An intent of the planner, and the swap request made of it.              *)
Requests == [mint : Mints, side : {"buy", "sell"}, qty : Nat, exit : BOOLEAN]
ASSUME NoRequestAssumption == NoRequest \notin Requests

VARIABLES
  (* the chain and the wallet on it *)
  tx,        (* what became of each signed transaction                       *)
  wallet,    (* lots of each mint the wallet holds on chain                  *)
  aged,      (* orders submitted longer ago than the pending grace (5 min)   *)
  (* the ledger (SQLite) *)
  order,     (* state column of the orders table                             *)
  req,       (* req column of the orders table                               *)
  fills,     (* signatures in the fills table                                *)
  position,  (* lots per mint in the positions table                         *)
  queued,    (* signatures with a row in the posts table                     *)
  (* the processes *)
  pc,        (* where each process is                                        *)
  rows,      (* submitted rows a finalize_pending pass has still to handle   *)
  seen,      (* the signature statuses that pass read                        *)
  cur,       (* the order each process has in hand                           *)
  verdict,   (* how it is about to finalise it                               *)
  snap,      (* the agent's account snapshot                                 *)
  todo,      (* intents of this tick not yet executed                        *)
  sends,     (* sends of the transaction in hand                             *)
  crashes    (* crashes so far                                               *)

chain == <<tx, wallet, aged>>
ledger == <<order, req, fills, position, queued>>
resolver == <<rows, seen, cur, verdict>>
planner == <<snap, todo, sends, crashes>>
vars == <<tx, wallet, aged, order, req, fills, position, queued,
          pc, rows, seen, cur, verdict, snap, todo, sends, crashes>>

TxStates == {"none", "inflight", "landed", "noshow", "erred", "expired"}
(* A transaction that will never move a token: it failed on chain, landed  *)
(* without the swap, or its blockhash expired before it landed.            *)
Dead == {"noshow", "erred", "expired"}
Statuses == {"unread", "absent", "dropped", "err", "confirmed"}

Submitted == {o \in Orders : order[o] = "submitted"}
(* (A planner that looks for pending sells only, one that looks for none.) *)
SubmittedSellsOn(m) == {o \in Submitted : req[o].mint = m /\ req[o].side = "sell"}
NothingPending == {}
SubmittedOn(m) == {o \in Submitted : req[o].mint = m}
PendingBuys == {o \in Submitted : req[o].side = "buy"}

(* Lots asked for by a set of orders.                                      *)
Lots(S) == SumFunction([o \in S |-> req[o].qty])

NoSnapshot == [held |-> [m \in Mints |-> 0], bought |-> {}]
Unread == [o \in Orders |-> "unread"]

(* o is the member of S with the lowest id.                                *)
FirstOf(o, S) == o \in S /\ \A q \in S : o <= q

Goto(p, label) == pc' = [pc EXCEPT ![p] = label]

Init ==
  /\ tx = [o \in Orders |-> "none"]
  /\ wallet = [m \in Mints |-> 0]
  /\ aged = {}
  /\ order = [o \in Orders |-> "none"]
  /\ req = [o \in Orders |-> NoRequest]
  /\ fills = {}
  /\ position = [m \in Mints |-> 0]
  /\ queued = {}
  /\ pc = [p \in Procs |-> "idle"]
  /\ rows = [p \in Procs |-> {}]
  /\ seen = [p \in Procs |-> Unread]
  /\ cur = [p \in Procs |-> NoOrder]
  /\ verdict = [p \in Procs |-> "none"]
  /\ snap = NoSnapshot
  /\ todo = {}
  /\ sends = 0
  /\ crashes = 0

-----------------------------------------------------------------------------
(***************************************************************************)
(* The chain.                                                              *)
(***************************************************************************)

(* A transaction in flight executes: a buy adds to the wallet, a sell      *)
(* takes from it, or fails on chain when the wallet holds too little.      *)
Land(o) ==
  /\ tx[o] = "inflight"
  /\ LET r == req[o] IN
     IF r.side = "buy" \/ wallet[r.mint] >= r.qty
     THEN /\ tx' = [tx EXCEPT ![o] = "landed"]
          /\ wallet' = [wallet EXCEPT ![r.mint] =
                          IF r.side = "buy" THEN @ + r.qty ELSE @ - r.qty]
     ELSE /\ tx' = [tx EXCEPT ![o] = "erred"]
          /\ UNCHANGED wallet
  /\ UNCHANGED <<aged, ledger, pc, resolver, planner>>

(* It fails (slippage), lands without showing the swap's two legs, or its  *)
(* blockhash expires first; the last also befalls one that was never sent. *)
Die(o) ==
  /\ \/ /\ tx[o] = "inflight"
        /\ tx' \in {[tx EXCEPT ![o] = end] : end \in Dead}
     \/ /\ tx[o] = "none" /\ order[o] # "none"
        /\ tx' = [tx EXCEPT ![o] = "expired"]
  /\ UNCHANGED <<wallet, aged, ledger, pc, resolver, planner>>

(* The pending grace runs out.  A blockhash lives about a minute, the      *)
(* grace is five: by then the transaction's fate is sealed.                *)
PassGrace(o) ==
  /\ order[o] = "submitted" /\ tx[o] \notin {"none", "inflight"}
  /\ o \notin aged
  /\ aged' = aged \cup {o}
  /\ UNCHANGED <<tx, wallet, ledger, pc, resolver, planner>>

-----------------------------------------------------------------------------
(***************************************************************************)
(* finalize_pending: run by the agent at the start of a tick (at boot and  *)
(* every tenth tick inside reconcile) and by `tiller reconcile'.           *)
(***************************************************************************)

Unseen(o) == tx[o] \in {"none", "inflight", "expired"}
(* (A resolver without a grace, and one that never calls an order dropped.) *)
StatusWithoutGrace(o) ==
  CASE tx[o] \in {"landed", "noshow"} -> "confirmed"
    [] tx[o] = "erred"                -> "err"
    [] Unseen(o)                      -> "dropped"
StatusNeverDropped(o) ==
  CASE tx[o] \in {"landed", "noshow"} -> "confirmed"
    [] tx[o] = "erred"                -> "err"
    [] Unseen(o)                      -> "absent"
StatusOf(o) ==
  CASE tx[o] \in {"landed", "noshow"} -> "confirmed"
    [] tx[o] = "erred"                -> "err"
    [] Unseen(o) /\ o \in aged        -> "dropped"
    [] Unseen(o) /\ o \notin aged     -> "absent"

(* The submitted rows and their signature statuses are read once; the rows *)
(* are then taken in the order of their ids.                               *)
ReadStatuses(p) ==
  /\ pc[p] = "idle" /\ Submitted # {}
  /\ rows' = [rows EXCEPT ![p] = Submitted]
  /\ seen' = [seen EXCEPT ![p] =
                [o \in Orders |-> IF o \in Submitted THEN StatusOf(o) ELSE "unread"]]
  /\ Goto(p, "resolve")
  /\ UNCHANGED <<chain, ledger, cur, verdict, planner>>

(* No status yet and within the grace, or getTransaction returned nothing: *)
(* the row stays submitted.                                                *)
KeepPending(p, o) ==
  /\ pc[p] = "resolve" /\ FirstOf(o, rows[p])
  /\ seen[p][o] \in {"absent", "confirmed"}
  /\ rows' = [rows EXCEPT ![p] = @ \ {o}]
  /\ UNCHANGED <<chain, ledger, pc, seen, cur, verdict, planner>>

(* The row's fate is known: on to finalize_order.                          *)
Decide(p, o) ==
  /\ pc[p] = "resolve" /\ FirstOf(o, rows[p])
  /\ seen[p][o] \in {"dropped", "err", "confirmed"}
  /\ rows' = [rows EXCEPT ![p] = @ \ {o}]
  /\ cur' = [cur EXCEPT ![p] = o]
  /\ verdict' = [verdict EXCEPT ![p] =
       IF seen[p][o] = "confirmed" /\ tx[o] = "landed" THEN "filled" ELSE "failed"]
  /\ Goto(p, "check")
  /\ UNCHANGED <<chain, ledger, seen, planner>>

(* The pass ends, or an RPC error ends it early; the agent's tick goes on. *)
EndPass(p) ==
  /\ pc[p] = "resolve"
  /\ rows' = [rows EXCEPT ![p] = {}]
  /\ seen' = [seen EXCEPT ![p] = Unread]
  /\ Goto(p, IF p = Agent THEN "snapshot" ELSE "idle")
  /\ UNCHANGED <<chain, ledger, cur, verdict, planner>>

(* finalize_order, first half: a row no longer submitted is left alone.    *)
(* It is shared by finalize_pending and by the swap itself.                *)
AfterFinalize(p) ==
  IF pc[p] \in {"check", "commit"} THEN "resolve"
  ELSE IF verdict[p] = "filled" THEN "after" ELSE "work"

Check(p) ==
  /\ pc[p] \in {"check", "swapcheck"}
  /\ IF order[cur[p]] = "submitted"
     THEN /\ Goto(p, IF pc[p] = "check" THEN "commit" ELSE "swapcommit")
          /\ UNCHANGED <<cur, verdict>>
     ELSE /\ Goto(p, AfterFinalize(p))
          /\ cur' = [cur EXCEPT ![p] = IF AfterFinalize(p) = "after" THEN @ ELSE NoOrder]
          /\ verdict' = [verdict EXCEPT ![p] = "none"]
  /\ UNCHANGED <<chain, ledger, rows, seen, planner>>

(* (A booking that would not look whether the signature is booked.)        *)
RecordFillAgain(o) ==
  /\ fills' = fills \cup {o}
  /\ position' = [position EXCEPT ![req[o].mint] =
       IF req[o].side = "buy" THEN @ + req[o].qty
       ELSE IF @ >= req[o].qty THEN @ - req[o].qty ELSE 0]

(* _record_fill: once per signature; the out leg adds to the position, the *)
(* in leg takes from it, never below zero.                                 *)
RecordFill(o) ==
  IF o \in fills THEN UNCHANGED <<fills, position>>
  ELSE /\ fills' = fills \cup {o}
       /\ position' = [position EXCEPT ![req[o].mint] =
            IF req[o].side = "buy" THEN @ + req[o].qty
            ELSE IF @ >= req[o].qty THEN @ - req[o].qty ELSE 0]

(* finalize_order, second half: one transaction writes the fill and the    *)
(* state.  Another process may have finalised the row since the check.     *)
Commit(p) ==
  /\ pc[p] \in {"commit", "swapcommit"}
  /\ order' = [order EXCEPT ![cur[p]] = verdict[p]]
  /\ IF verdict[p] = "filled" THEN RecordFill(cur[p]) ELSE UNCHANGED <<fills, position>>
  /\ Goto(p, AfterFinalize(p))
  /\ cur' = [cur EXCEPT ![p] = IF AfterFinalize(p) = "after" THEN @ ELSE NoOrder]
  /\ verdict' = [verdict EXCEPT ![p] = "none"]
  /\ UNCHANGED <<chain, req, queued, rows, seen, planner>>

-----------------------------------------------------------------------------
(***************************************************************************)
(* The agent's tick: finalize pending rows (above), snapshot, plan, execute.*)
(***************************************************************************)

(* No row is submitted, or the status request itself failed.               *)
SkipPending ==
  /\ pc[Agent] = "idle"
  /\ Goto(Agent, "snapshot")
  /\ UNCHANGED <<chain, ledger, resolver, planner>>

(* Holdings come from the chain, the day's buys are those booked by now.   *)
Snapshot ==
  /\ pc[Agent] = "snapshot"
  /\ snap' = [held |-> wallet, bought |-> {o \in fills : req[o].side = "buy"}]
  /\ Goto(Agent, "plan")
  /\ UNCHANGED <<chain, ledger, resolver, todo, sends, crashes>>

(* Balances could not be read: the tick ends without planning.             *)
SnapshotFails ==
  /\ pc[Agent] = "snapshot"
  /\ Goto(Agent, "idle")
  /\ UNCHANGED <<chain, ledger, resolver, planner>>

(* What plan_tick may approve for a mint.  An exit (stop, time stop, zero  *)
(* target, flatten) sells the whole holding and is never blocked; any      *)
(* other order waits until no order on the mint is submitted.  An entry is *)
(* sized under the position cap and the day's limit, pending buys counted. *)
Exit(m) == {i \in {[mint |-> m, side |-> "sell", qty |-> snap.held[m], exit |-> TRUE]} :
              snap.held[m] > 0}
Trim(m) == {[mint |-> m, side |-> "sell", qty |-> q, exit |-> FALSE] :
              q \in {n \in 1 .. (snap.held[m] - 1) : SubmittedOn(m) = {}}}
Headroom(m) == {n \in 1 .. (MaxPosition - snap.held[m]) :
                  n <= DailyLimit - Lots(snap.bought) - Lots(PendingBuys)}
Entry(m) == {[mint |-> m, side |-> "buy", qty |-> q, exit |-> FALSE] :
               q \in {n \in Headroom(m) : SubmittedOn(m) = {}}}

(* At most one intent per mint and one entry per tick.                     *)
Plan ==
  /\ pc[Agent] = "plan"
  /\ \E T \in SUBSET UNION {Exit(m) \cup Trim(m) \cup Entry(m) : m \in Mints} :
       /\ \A i, j \in T : i.mint = j.mint => i = j
       /\ \A i, j \in T : i.side = "buy" /\ j.side = "buy" => i = j
       /\ todo' = T
  /\ Goto(Agent, "work")
  /\ UNCHANGED <<chain, ledger, resolver, snap, sends, crashes>>

(* Exits run first, then sells, then the entry.                            *)
Due(i) ==
  /\ i \in todo
  /\ \A j \in todo : j.exit => i.exit
  /\ \A j \in todo : j.side = "sell" => i.side = "sell"

(* No reference price, or a guard refused: nothing was signed.             *)
Refuse(i) ==
  /\ pc[Agent] = "work" /\ Due(i)
  /\ todo' = todo \ {i}
  /\ UNCHANGED <<chain, ledger, pc, resolver, snap, sends, crashes>>

(* The guards passed (the simulation saw the input balance): sign, and     *)
(* record the row with its signature before anything is sent.              *)
Sign(i, o) ==
  /\ pc[Agent] = "work" /\ Due(i)
  /\ FirstOf(o, {q \in Orders : order[q] = "none"})
  /\ i.side = "sell" => wallet[i.mint] >= i.qty
  /\ todo' = todo \ {i}
  /\ order' = [order EXCEPT ![o] = "submitted"]
  /\ req' = [req EXCEPT ![o] = i]
  /\ cur' = [cur EXCEPT ![Agent] = o]
  /\ sends' = 0
  /\ Goto(Agent, "send")
  /\ UNCHANGED <<chain, fills, position, queued, rows, seen, verdict, snap, crashes>>

(* The executor holds the bytes: an unseen transaction is now in flight.   *)
Forward(o) == tx' = [tx EXCEPT ![o] = IF @ = "none" THEN "inflight" ELSE @]

(* /execute answers Success.                                               *)
SendOk ==
  /\ pc[Agent] = "send"
  /\ tx[cur[Agent]] # "expired"
  /\ Forward(cur[Agent])
  /\ Goto(Agent, "confirm")
  /\ UNCHANGED <<wallet, aged, ledger, resolver, planner>>

(* /execute answers Failed, which it says only of a transaction that never *)
(* will land (one it had not forwarded is dropped).                        *)
SendRefused ==
  /\ pc[Agent] = "send"
  /\ LET o == cur[Agent] IN
       /\ tx[o] \in {"none"} \cup Dead
       /\ tx' = [tx EXCEPT ![o] = IF @ = "none" THEN "expired" ELSE @]
  /\ verdict' = [verdict EXCEPT ![Agent] = "failed"]
  /\ Goto(Agent, "swapcheck")
  /\ UNCHANGED <<wallet, aged, ledger, rows, seen, cur, planner>>

(* No answer: the request may or may not have arrived.  The same bytes are *)
(* sent again, or the outcome is uncertain and the row stays submitted.    *)
MayResend == sends < MaxResubmits

SendLost ==
  /\ pc[Agent] = "send"
  /\ \/ UNCHANGED tx
     \/ tx[cur[Agent]] = "none" /\ Forward(cur[Agent])
  /\ \/ /\ MayResend
        /\ sends' = sends + 1
        /\ UNCHANGED <<pc, cur>>
     \/ /\ Goto(Agent, "work")
        /\ cur' = [cur EXCEPT ![Agent] = NoOrder]
        /\ UNCHANGED sends
  /\ UNCHANGED <<wallet, aged, ledger, rows, seen, verdict, snap, todo, crashes>>

(* The poll sees the transaction confirmed, or failed on chain.            *)
Confirm ==
  /\ pc[Agent] = "confirm"
  /\ \/ /\ StatusOf(cur[Agent]) = "confirmed"
        /\ Goto(Agent, "fetch")
        /\ UNCHANGED verdict
     \/ /\ StatusOf(cur[Agent]) = "err"
        /\ verdict' = [verdict EXCEPT ![Agent] = "failed"]
        /\ Goto(Agent, "swapcheck")
  /\ UNCHANGED <<chain, ledger, rows, seen, cur, planner>>

(* getTransaction shows the realised fill.                                 *)
Fetch ==
  /\ pc[Agent] = "fetch" /\ tx[cur[Agent]] = "landed"
  /\ verdict' = [verdict EXCEPT ![Agent] = "filled"]
  /\ Goto(Agent, "swapcheck")
  /\ UNCHANGED <<chain, ledger, rows, seen, cur, planner>>

(* Time ran out, an RPC call failed, or the transaction did not show the   *)
(* swap: the row stays submitted.                                          *)
Uncertain ==
  /\ pc[Agent] \in {"confirm", "fetch"}
  /\ Goto(Agent, "work")
  /\ cur' = [cur EXCEPT ![Agent] = NoOrder]
  /\ UNCHANGED <<chain, ledger, rows, seen, verdict, planner>>

(* After a fill: the position's exit rule is set and the trade post queued. *)
FollowUp ==
  /\ pc[Agent] = "after"
  /\ queued' = queued \cup {cur[Agent]}
  /\ cur' = [cur EXCEPT ![Agent] = NoOrder]
  /\ Goto(Agent, "work")
  /\ UNCHANGED <<chain, order, req, fills, position, rows, seen, verdict, planner>>

EndTick ==
  /\ pc[Agent] = "work" /\ todo = {}
  /\ Goto(Agent, "idle")
  /\ UNCHANGED <<chain, ledger, resolver, planner>>

(* A process dies and is started again: only the ledger and the chain are  *)
(* left of what it was doing.                                              *)
Crash(p) ==
  /\ pc[p] # "idle" /\ crashes < MaxCrashes
  /\ crashes' = crashes + 1
  /\ Goto(p, "idle")
  /\ rows' = [rows EXCEPT ![p] = {}]
  /\ seen' = [seen EXCEPT ![p] = Unread]
  /\ cur' = [cur EXCEPT ![p] = NoOrder]
  /\ verdict' = [verdict EXCEPT ![p] = "none"]
  /\ IF p = Agent THEN snap' = NoSnapshot /\ todo' = {} /\ sends' = 0
                  ELSE UNCHANGED <<snap, todo, sends>>
  /\ UNCHANGED <<chain, ledger>>

-----------------------------------------------------------------------------
Chain == \E o \in Orders : Land(o) \/ Die(o) \/ PassGrace(o)

Resolve(p) ==
  \/ ReadStatuses(p)
  \/ \E o \in Orders : KeepPending(p, o) \/ Decide(p, o)
  \/ EndPass(p)
  \/ Check(p)
  \/ Commit(p)

Tick ==
  \/ SkipPending \/ Snapshot \/ SnapshotFails \/ Plan
  \/ \E i \in todo : Refuse(i)
  \/ \E i \in todo, o \in Orders : Sign(i, o)
  \/ SendOk \/ SendRefused \/ SendLost
  \/ Confirm \/ Fetch \/ Uncertain \/ FollowUp \/ EndTick

Next ==
  \/ Chain
  \/ \E p \in Procs : Resolve(p) \/ Crash(p)
  \/ Tick

Spec == Init /\ [][Next]_vars

-----------------------------------------------------------------------------
(***************************************************************************)
(* Properties.                                                             *)
(***************************************************************************)

AgentPcs == {"idle", "resolve", "check", "commit", "snapshot", "plan", "work",
             "send", "confirm", "fetch", "swapcheck", "swapcommit", "after"}

TypeOK ==
  /\ tx \in [Orders -> TxStates]
  /\ wallet \in [Mints -> Nat]
  /\ aged \subseteq Orders
  /\ order \in [Orders -> {"none", "submitted", "filled", "failed"}]
  /\ req \in [Orders -> Requests \cup {NoRequest}]
  /\ \A o \in Orders : order[o] # "none" => req[o] \in Requests
  /\ fills \subseteq Orders
  /\ position \in [Mints -> Nat]
  /\ queued \subseteq Orders
  /\ pc \in [Procs -> AgentPcs]
  /\ rows \in [Procs -> SUBSET Orders]
  /\ seen \in [Procs -> [Orders -> Statuses]]
  /\ cur \in [Procs -> Orders \cup {NoOrder}]
  /\ verdict \in [Procs -> {"none", "filled", "failed"}]
  /\ snap \in [held : [Mints -> Nat], bought : SUBSET Orders]
  /\ todo \subseteq Requests
  /\ sends \in 0 .. MaxResubmits
  /\ crashes \in 0 .. MaxCrashes

(* A row says filled exactly when its fill is booked, a filled row's       *)
(* transaction landed, and a failed row's transaction never will land:     *)
(* whichever process finalised the row, from whatever it read, before or   *)
(* after a crash (finalize_order, finalize_pending, LiveSolanaVenue.swap). *)
BookingMatchesChain ==
  \A o \in Orders :
    /\ o \in fills <=> order[o] = "filled"
    /\ order[o] = "filled" => tx[o] = "landed"
    /\ order[o] = "failed" => tx[o] \in Dead

(* A new order that is not an exit is never signed for a mint that has an  *)
(* order outstanding: a pending order is never re-quoted, although the     *)
(* check is made when the tick is planned and the order is signed later,   *)
(* after other orders of the tick were sent (plan_tick, _execute).         *)
NeverRequoted ==
  [][\A o \in Orders :
       order[o] = "none" /\ order'[o] = "submitted" /\ ~req'[o].exit
         => \A q \in Orders : order[q] = "submitted" => req[q].mint # req'[o].mint]_vars

(***************************************************************************)
(* What makes the above inductive: what every process holds between two of *)
(* its steps is still true of the chain and the ledger when it acts on it. *)
(***************************************************************************)
FinalizePcs == {"check", "commit", "swapcheck", "swapcommit"}
SwapPcs == {"send", "confirm", "fetch", "swapcheck", "swapcommit", "after"}

(* Only recorded orders have a fate, and grace never outlives the flight.  *)
FatesKnown ==
  /\ \A o \in Orders : tx[o] # "none" => order[o] # "none"
  /\ \A o \in aged : tx[o] \notin {"none", "inflight"}

(* A process about to act on an order has a recorded one, and its verdict  *)
(* and the statuses it read agree with the chain.                          *)
VerdictsTrue ==
  \A p \in Procs :
    /\ pc[p] \in {"check", "commit"} \cup SwapPcs =>
         cur[p] \in Orders /\ order[cur[p]] # "none"
    /\ pc[p] \in FinalizePcs => verdict[p] \in {"filled", "failed"}
    /\ pc[p] \in FinalizePcs /\ verdict[p] = "filled" => tx[cur[p]] = "landed"
    /\ pc[p] \in FinalizePcs /\ verdict[p] = "failed" => tx[cur[p]] \in Dead
    /\ \A o \in rows[p] : order[o] # "none"
    /\ \A o \in Orders :
         /\ seen[p][o] = "dropped" => tx[o] = "expired"
         /\ seen[p][o] = "err" => tx[o] = "erred"
         /\ seen[p][o] = "confirmed" => tx[o] \in {"landed", "noshow"}

(* The tick's plan names a mint once, and no order that is not an exit is  *)
(* left to sign on a mint with an order outstanding.                       *)
PlanStillGated ==
  /\ \A i, j \in todo : i.mint = j.mint => i = j
  /\ \A i \in todo : ~i.exit => SubmittedOn(i.mint) = {}

IInv == TypeOK /\ FatesKnown /\ VerdictsTrue /\ BookingMatchesChain /\ PlanStillGated

(* Landed but not yet booked orders of one side.                           *)
Unbooked(m, side) ==
  {o \in Orders : tx[o] = "landed" /\ o \notin fills /\ req[o].mint = m /\ req[o].side = side}

(* The positions table, with what is still to be booked, never shows less  *)
(* than the wallet holds: no fill is lost and no sell is booked twice, so  *)
(* no holding escapes the exit rules (_record_fill, finalize_order).       *)
LedgerCoversWallet ==
  \A m \in Mints : position[m] + Lots(Unbooked(m, "buy"))
                     >= wallet[m] + Lots(Unbooked(m, "sell"))

(* The owner's caps hold on chain, not only in the ledger: what landed in  *)
(* the day and what the wallet holds stay within them although an order's  *)
(* outcome may be unknown when the next one is sized (plan_tick,           *)
(* size_order).  True while no second process finalises orders.            *)
CapsHold ==
  /\ Lots({o \in Orders : tx[o] = "landed" /\ req[o].side = "buy"}) <= DailyLimit
  /\ \A m \in Mints : wallet[m] <= MaxPosition

(* What makes the caps inductive while the agent alone finalises orders:   *)
(* the day's limit also covers the buys that are recorded but unresolved,  *)
(* and the entry still to be signed; a mint's cap covers the buys afloat;  *)
(* and when the tick is planned its snapshot is stale only for mints that  *)
(* have an order outstanding, which get no entry.                          *)
BuysMade == {o \in Orders : order[o] \in {"submitted", "filled"} /\ req[o].side = "buy"}
BuysAfloat(m) == {o \in PendingBuys : tx[o] \in {"none", "inflight"} /\ req[o].mint = m}

CapsInv ==
  /\ Lots(BuysMade) <= DailyLimit
  /\ \A m \in Mints : wallet[m] + Lots(BuysAfloat(m)) <= MaxPosition
  /\ \A i, j \in todo : i.side = "buy" /\ j.side = "buy" => i = j
  /\ \A i \in todo : i.side = "buy" => /\ ~i.exit
                                      /\ i.qty + Lots(BuysMade) <= DailyLimit
                                      /\ i.qty + wallet[i.mint] <= MaxPosition
  /\ pc[Agent] = "plan" =>
       /\ snap.bought = {o \in fills : req[o].side = "buy"}
       /\ \A m \in Mints : SubmittedOn(m) = {} => wallet[m] <= snap.held[m]

(* Once nothing is pending the ledger shows no position the wallet does    *)
(* not hold: `a sell must never leave a phantom position behind'.          *)
NoPhantomPosition ==
  Submitted = {} => \A m \in Mints : position[m] <= wallet[m]

(* The ledger's rows as a settlement book: however many processes finalise *)
(* a row, each order is settled once and moves its position once.          *)
Outcome == [o \in Orders |-> CASE order[o] = "none"      -> "new"
                               [] order[o] = "submitted" -> "open"
                               [] order[o] = "filled"    -> "booked"
                               [] order[o] = "failed"    -> "void"]
Book == INSTANCE Settlement WITH outcome <- Outcome, request <- req, book <- position
SettlesOnce == Book!Spec

(***************************************************************************)
(* Fairness: the tick loop catches every exception and runs again, RPC     *)
(* outages end, a transaction's fate is sealed within its blockhash's life.*)
(***************************************************************************)
Fairness ==
  /\ WF_vars(Tick) /\ WF_vars(Resolve(Agent))
  /\ SF_vars(ReadStatuses(Agent))
  /\ \A o \in Orders : /\ SF_vars(Decide(Agent, o))
                       /\ WF_vars(Land(o) \/ Die(o))
                       /\ WF_vars(PassGrace(o))

FairSpec == Spec /\ Fairness

(* Every submitted order is eventually settled, crashes, lost answers and  *)
(* RPC errors notwithstanding, with no operator acting.                    *)
EveryOrderSettles ==
  \A o \in Orders : order[o] = "submitted" ~> order[o] \in {"filled", "failed"}

=============================================================================
