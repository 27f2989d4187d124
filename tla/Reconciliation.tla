--------------------------- MODULE Reconciliation ---------------------------
(***************************************************************************)
(* Comparing the positions table with the chain.  The agent compares every *)
(* tenth tick and blocks entries after two mismatches; the owner rewrites  *)
(* the table with `tiller reconcile --accept', from another process and    *)
(* without a lock, while orders land and are booked.  A running tick works *)
(* on its own copy of the counter of mismatches, and saves it at the end.  *)
(*                                                                         *)
(* Amounts are base units; wallets move by lots of Lot units, so that an   *)
(* error of rounding can be told from a missing lot.                       *)
(***************************************************************************)
EXTENDS Integers, FiniteSets, Functions

CONSTANTS
  Mints,       (* tokens other than USDC                                       *)
  HoldMints,   (* SOL: its positions get no time stop                          *)
  Strategies,  (* labels under which the agent books a position                *)
  Reconciled,  (* the label of a position taken over from the chain            *)
  NoOrder,     (* no order is open                                             *)
  NoRead,      (* nothing read yet                                             *)
  Lot,         (* base units of a lot                                          *)
  MaxLots,     (* bound: lots of a mint                                        *)
  MaxOrders,   (* bound: orders ever sent, one at a time                       *)
  MaxHand,     (* bound: swaps and transfers made by hand                      *)
  MaxAccepts,  (* bound: runs of --accept                                      *)
  MaxCrashes   (* bound: restarts of the agent                                 *)

Labels == Strategies \cup {Reconciled}
Units == 0 .. Lot * MaxLots
Row == [amount : Nat, exit : {"none", "rule", "time_stop"}]
(* What the table holds for a label without a row.                         *)
NoRow == [amount |-> 0, exit |-> "absent"]
Holdings == [Labels -> Row \cup {NoRow}]
Orders == [side : {"buy", "sell"}, mint : Mints, label : Labels, amount : Nat,
           fate : {"flying", "landed", "failed", "booked"}]

ASSUME ReconciliationAssumption ==
  /\ HoldMints \subseteq Mints /\ Reconciled \notin Strategies
  /\ IsFiniteSet(Strategies)
  /\ NoOrder \notin Orders
  /\ Lot \in Nat \ {0} /\ MaxLots \in Nat /\ MaxOrders \in Nat
  /\ MaxHand \in Nat /\ MaxAccepts \in Nat /\ MaxCrashes \in Nat

(* Lots are coarse: rounding every row of a mint loses less than one.      *)
ASSUME RoundingAssumption == Cardinality(Labels) < 2 * Lot

VARIABLES
  wallet,    (* base units of each mint on chain                               *)
  rows,      (* the positions table, by mint and label                         *)
  order,     (* the order that is open                                         *)
  tick,      (* where the agent's tick is                                      *)
  entered,   (* the booked buy whose exit rule the tick has still to set       *)
  checking,  (* the balances the tick's reconcile has read                     *)
  misses,    (* the tick's copy of reconcile_mismatch_ticks, counted to two    *)
  file,      (* the same in the state file                                     *)
  accept,    (* where the --accept command is                                  *)
  chain,     (* the balances it read                                           *)
  proposed,  (* the positions it is about to write                             *)
  settled,   (* history: nothing was open or moved since it read the balances  *)
  trusted,   (* history: mints whose table was last made to agree              *)
  orders, hands, accepts, crashes   (* how many of each so far                 *)

agent == <<tick, entered, checking, misses>>
command == <<accept, chain, proposed>>
counts == <<orders, hands, accepts, crashes>>
vars == <<wallet, rows, order, tick, entered, checking, misses, file, accept, chain,
          proposed, settled, trusted, orders, hands, accepts, crashes>>

(* The rows of a mint, and what they add up to.                            *)
RowsOf(held) == {l \in Labels : held[l] # NoRow}
SumOf(held, S) == SumFunction([l \in S |-> held[l].amount])
Total(held) == SumOf(held, Labels)

Init ==
  /\ wallet = [m \in Mints |-> 0]
  /\ rows = [m \in Mints |-> [l \in Labels |-> NoRow]]
  /\ order = NoOrder
  /\ tick = "idle" /\ entered = {} /\ checking = NoRead /\ misses = 0 /\ file = 0
  /\ accept = "idle" /\ chain = NoRead /\ proposed = NoRead
  /\ settled = FALSE /\ trusted = Mints
  /\ orders = 0 /\ hands = 0 /\ accepts = 0 /\ crashes = 0

-----------------------------------------------------------------------------
(***************************************************************************)
(* The chain.                                                              *)
(***************************************************************************)

(* A swap or a transfer made by hand.                                      *)
Hand(m, n) ==
  /\ hands < MaxHand /\ n # wallet[m]
  /\ hands' = hands + 1
  /\ wallet' = [wallet EXCEPT ![m] = n]
  /\ trusted' = trusted \ {m} /\ settled' = FALSE
  /\ UNCHANGED <<rows, order, agent, file, command, orders, accepts, crashes>>

Open(fate) == order # NoOrder /\ order.fate = fate

(* The open order executes, or fails.                                      *)
Land ==
  /\ Open("flying")
  /\ LET n == IF order.side = "buy" THEN wallet[order.mint] + order.amount
              ELSE wallet[order.mint] - order.amount
     IN /\ n \in Units
        /\ wallet' = [wallet EXCEPT ![order.mint] = n]
  /\ order' = [order EXCEPT !.fate = "landed"]
  /\ settled' = FALSE
  /\ UNCHANGED <<rows, agent, file, command, trusted, counts>>

Fail ==
  /\ Open("flying")
  /\ order' = [order EXCEPT !.fate = "failed"]
  /\ UNCHANGED <<wallet, rows, agent, file, command, settled, trusted, counts>>

-----------------------------------------------------------------------------
(***************************************************************************)
(* Booking.                                                                *)
(***************************************************************************)

(* _position_add: onto the label's row, or a new row without an exit rule. *)
More(row, n) == IF row = NoRow THEN [amount |-> n, exit |-> "none"]
                ELSE [row EXCEPT !.amount = @ + n]
Add(m, l, n) == rows' = [rows EXCEPT ![m][l] = More(rows[m][l], n)]

Less(row, n) == IF row.amount <= n THEN NoRow ELSE [row EXCEPT !.amount = @ - n]

(* (A sell that only looks at its own label.)                              *)
SubOwnRow(m, l, n) == rows' = [rows EXCEPT ![m][l] = Less(rows[m][l], n)]

Without(m, gone) ==
  [rows EXCEPT ![m] = [l \in Labels |-> IF l \in gone THEN NoRow ELSE rows[m][l]]]

(* _position_sub: the label's row first, and what is left from the mint's  *)
(* other rows in some order, whole rows as long as they last; a row        *)
(* reduced to nothing goes.                                                *)
Sub(m, l, n) ==
  LET left == n - rows[m][l].amount
      Others == RowsOf(rows[m]) \ {l}
      After(gone) == left - SumOf(rows[m], gone)
  IN \/ /\ left <= 0
        /\ rows' = [rows EXCEPT ![m][l] = Less(rows[m][l], n)]
     \/ /\ left > 0
        /\ \E gone \in SUBSET Others :
             /\ After(gone) = 0 \/ (After(gone) > 0 /\ gone = Others)
             /\ rows' = Without(m, gone \cup {l})
     \/ /\ left > 0
        /\ \E gone \in SUBSET Others, k \in Others :
             /\ k \notin gone /\ After(gone) > 0 /\ After(gone) < rows[m][k].amount
             /\ rows' = [Without(m, gone \cup {l}) EXCEPT ![m][k].amount = @ - After(gone)]

Apply == IF order.side = "buy" THEN Add(order.mint, order.label, order.amount)
         ELSE Sub(order.mint, order.label, order.amount)

(* finalize_pending, of the agent or of `tiller reconcile': an order that  *)
(* landed is booked, under the nose of the swap that waits for it or not.  *)
Finalize ==
  /\ Open("landed")
  /\ Apply
  /\ order' = IF tick = "sent" THEN [order EXCEPT !.fate = "booked"] ELSE NoOrder
  /\ settled' = FALSE
  /\ UNCHANGED <<wallet, agent, file, command, trusted, counts>>

Drop ==
  /\ Open("failed") /\ tick # "sent"
  /\ order' = NoOrder
  /\ UNCHANGED <<wallet, rows, agent, file, command, settled, trusted, counts>>

-----------------------------------------------------------------------------
(***************************************************************************)
(* The agent, one step of a tick at a time.                                *)
(***************************************************************************)
Begin ==
  /\ tick = "idle"
  /\ tick' = "begun" /\ misses' = file
  /\ UNCHANGED <<wallet, rows, order, entered, checking, file, command, settled,
                 trusted, counts>>

(* Nine ticks in ten go without a comparison.                              *)
Skip ==
  /\ tick = "begun" /\ tick' = "trade"
  /\ UNCHANGED <<wallet, rows, order, entered, checking, misses, file, command,
                 settled, trusted, counts>>

(* reconcile reads the balances, then the table.                           *)
ReadChain ==
  /\ tick = "begun" /\ tick' = "compare"
  /\ checking' = wallet
  /\ UNCHANGED <<wallet, rows, order, entered, misses, file, command, settled,
                 trusted, counts>>

(* A difference of less than a lot is below the half percent that counts.  *)
Mismatched(balances) ==
  {m \in Mints : balances[m] - Total(rows[m]) >= Lot \/ Total(rows[m]) - balances[m] >= Lot}

Missed == IF misses < 2 THEN misses + 1 ELSE 2

(* (A counter of mismatches that only a failure to read advances.)         *)
CompareLeniently ==
  /\ tick = "compare" /\ tick' = "trade"
  /\ misses' = IF Mismatched(checking) = {} THEN 0 ELSE misses
  /\ checking' = NoRead
  /\ UNCHANGED <<wallet, rows, order, entered, file, command, settled, trusted, counts>>

(* (A counter that only --accept resets.)                                  *)
CompareLatching ==
  /\ tick = "compare" /\ tick' = "trade"
  /\ misses' = IF Mismatched(checking) = {} THEN misses ELSE Missed
  /\ checking' = NoRead
  /\ UNCHANGED <<wallet, rows, order, entered, file, command, settled, trusted, counts>>

Compare ==
  /\ tick = "compare" /\ tick' = "trade"
  /\ misses' = IF Mismatched(checking) = {} THEN 0 ELSE Missed
  /\ checking' = NoRead
  /\ UNCHANGED <<wallet, rows, order, entered, file, command, settled, trusted, counts>>

(* It could not be done: counted as a mismatch.                            *)
CannotReconcile ==
  /\ tick = "begun" /\ tick' = "trade"
  /\ misses' = Missed
  /\ UNCHANGED <<wallet, rows, order, entered, checking, file, command, settled,
                 trusted, counts>>

Blocked == misses >= 2

Send(o) ==
  /\ tick = "trade" /\ order = NoOrder /\ orders < MaxOrders
  /\ tick' = "sent" /\ order' = o /\ orders' = orders + 1
  /\ settled' = FALSE
  /\ UNCHANGED <<wallet, rows, entered, checking, misses, file, command, trusted,
                 hands, accepts, crashes>>

Enter(m, l) ==
  /\ ~Blocked
  /\ Send([side |-> "buy", mint |-> m, label |-> l, amount |-> Lot, fate |-> "flying"])

(* An exit rule fires: the whole holding is sold.                          *)
Exit(m, l) ==
  /\ rows[m][l] # NoRow /\ rows[m][l].exit # "none" /\ wallet[m] > 0
  /\ Send([side |-> "sell", mint |-> m, label |-> l, amount |-> wallet[m], fate |-> "flying"])

(* The swap books its order, unless that was done, and returns.            *)
Book ==
  /\ tick = "sent" /\ (Open("landed") \/ Open("booked"))
  /\ IF order.fate = "landed" THEN Apply ELSE UNCHANGED rows
  /\ order' = NoOrder
  /\ IF order.side = "buy" THEN tick' = "rule" /\ entered' = {<<order.mint, order.label>>}
     ELSE tick' = "trade" /\ UNCHANGED entered
  /\ settled' = FALSE
  /\ UNCHANGED <<wallet, checking, misses, file, command, trusted, counts>>

(* set_position_exit: an UPDATE, lost when the row is gone.  SOL is held   *)
(* without a rule.                                                         *)
SetExit ==
  /\ tick = "rule" /\ tick' = "trade"
  /\ rows' = [m \in Mints |-> [l \in Labels |->
               IF <<m, l>> \in entered /\ m \notin HoldMints /\ rows[m][l] # NoRow
               THEN [rows[m][l] EXCEPT !.exit = "rule"] ELSE rows[m][l]]]
  /\ entered' = {} /\ settled' = FALSE
  /\ UNCHANGED <<wallet, order, checking, misses, file, command, trusted, counts>>

(* The swap gives up on its order: it failed, or was not seen in time.     *)
LoseSight ==
  /\ tick = "sent" /\ tick' = "trade"
  /\ order' = IF Open("booked") THEN NoOrder ELSE order
  /\ UNCHANGED <<wallet, rows, entered, checking, misses, file, command, settled,
                 trusted, counts>>

End ==
  /\ tick = "trade" /\ tick' = "idle"
  /\ file' = misses
  /\ UNCHANGED <<wallet, rows, order, entered, checking, misses, command, settled,
                 trusted, counts>>

(* The process dies; the next one reads the state file.                    *)
Crash ==
  /\ tick # "idle" /\ crashes < MaxCrashes
  /\ crashes' = crashes + 1
  /\ tick' = "idle" /\ entered' = {} /\ checking' = NoRead /\ misses' = file
  /\ order' = IF Open("booked") THEN NoOrder ELSE order
  /\ UNCHANGED <<wallet, rows, file, command, settled, trusted, orders, hands, accepts>>

-----------------------------------------------------------------------------
(***************************************************************************)
(* `tiller reconcile --accept'.                                            *)
(***************************************************************************)
HalfEven(n, d) ==
  LET q == n \div d  r == n % d IN
  IF 2 * r < d \/ (2 * r = d /\ q % 2 = 0) THEN q ELSE q + 1

(* Rows of a mint are scaled to its balance, in proportion.                *)
Scaled(m, l, balance) ==
  LET total == Total(rows[m]) IN
  [rows[m][l] EXCEPT !.amount =
     IF total > 0 THEN HalfEven(balance * @, total)
     ELSE HalfEven(balance, Cardinality(RowsOf(rows[m])))]

(* A reconciled row without a rule gets the time stop; SOL never does.     *)
TakenOver(m, row) ==
  IF m \notin HoldMints /\ row # NoRow /\ row.exit = "none"
  THEN [row EXCEPT !.exit = "time_stop"] ELSE row

(* (Taken over from the chain whatever strategy the rows had.)             *)
ProposeAfresh(balances, unknown) ==
  [m \in Mints |-> [l \in Labels |->
     IF l = Reconciled /\ balances[m] > 0
     THEN [amount |-> balances[m], exit |-> "none"] ELSE NoRow]]

(* The positions the chain's balances call for: attribution and exit rules *)
(* kept where the mint has rows, else one reconciled row, left out when    *)
(* the decimals of the mint are not known.                                 *)
Propose(balances, unknown) ==
  [m \in Mints |-> [l \in Labels |->
     CASE balances[m] > 0 /\ RowsOf(rows[m]) = {} /\ l = Reconciled /\ m \notin unknown ->
            TakenOver(m, [amount |-> balances[m], exit |-> "none"])
       [] balances[m] > 0 /\ rows[m][l] # NoRow ->
            LET row == IF Total(rows[m]) = balances[m] THEN rows[m][l]
                       ELSE Scaled(m, l, balances[m])
            IN IF l = Reconciled THEN TakenOver(m, row) ELSE row
       [] OTHER -> NoRow]]

(* finalize_pending may have left an order open: settled says whether the  *)
(* balances read now hold one the table lacks.                             *)
AcceptReads ==
  /\ accept = "idle" /\ accepts < MaxAccepts
  /\ accept' = "read" /\ accepts' = accepts + 1
  /\ chain' = wallet
  /\ settled' = ~Open("landed")
  /\ UNCHANGED <<wallet, rows, order, agent, file, proposed, trusted, orders, hands, crashes>>

AcceptProposes ==
  /\ accept = "read"
  /\ \E unknown \in SUBSET (Mints \ HoldMints) : proposed' = Propose(chain, unknown)
  /\ accept' = "write"
  /\ UNCHANGED <<wallet, rows, order, agent, file, chain, settled, trusted, counts>>

(* replace_positions: one transaction.                                     *)
AcceptWrites ==
  /\ accept = "write"
  /\ rows' = proposed
  /\ trusted' = IF settled THEN {m \in Mints : chain[m] = 0 \/ RowsOf(proposed[m]) # {}} ELSE {}
  /\ chain' = NoRead /\ proposed' = NoRead
  /\ accept' = "reset"
  /\ UNCHANGED <<wallet, order, agent, file, settled, counts>>

(* The counter is reset in the state file; a tick that runs has its own.   *)
AcceptResets ==
  /\ accept = "reset" /\ accept' = "idle"
  /\ file' = 0
  /\ UNCHANGED <<wallet, rows, order, agent, chain, proposed, settled, trusted, counts>>

(* The command dies, or the RPC fails it.                                  *)
AcceptFails ==
  /\ accept # "idle"
  /\ accept' = "idle" /\ chain' = NoRead /\ proposed' = NoRead
  /\ UNCHANGED <<wallet, rows, order, agent, file, settled, trusted, counts>>

Next ==
  \/ \E m \in Mints, n \in {Lot * i : i \in 0 .. MaxLots} : Hand(m, n)
  \/ Land \/ Fail \/ Finalize \/ Drop
  \/ Begin \/ Skip \/ ReadChain \/ Compare \/ CannotReconcile
  \/ \E m \in Mints, l \in Strategies : Enter(m, l)
  \/ \E m \in Mints, l \in Labels : Exit(m, l)
  \/ Book \/ SetExit \/ LoseSight \/ End \/ Crash
  \/ AcceptReads \/ AcceptProposes \/ AcceptWrites \/ AcceptResets \/ AcceptFails

(* The agent ticks for as long as it runs, every tenth tick reconciles,    *)
(* and the RPC answers one of these now and then.  The chain and the owner *)
(* owe nothing.                                                            *)
Fairness ==
  /\ WF_vars(Begin) /\ SF_vars(ReadChain) /\ WF_vars(Compare)
  /\ WF_vars(SetExit) /\ WF_vars(LoseSight) /\ WF_vars(End)

Spec == Init /\ [][Next]_vars /\ Fairness

-----------------------------------------------------------------------------
(***************************************************************************)
(* Properties.                                                             *)
(***************************************************************************)

(* The variables keep to their domains; the copies are there exactly while *)
(* they are needed.                                                        *)
TypeOK ==
  /\ wallet \in [Mints -> Units]
  /\ rows \in [Mints -> Holdings]
  /\ order \in Orders \cup {NoOrder}
  /\ tick \in {"idle", "begun", "compare", "trade", "sent", "rule"}
  /\ tick = "sent" => order # NoOrder
  /\ entered \in SUBSET (Mints \X Labels) /\ (entered # {} => tick = "rule")
  /\ misses \in 0 .. 2 /\ file \in 0 .. 2
  /\ accept \in {"idle", "read", "write", "reset"}
  /\ checking \in IF tick = "compare" THEN [Mints -> Units] ELSE {NoRead}
  /\ chain \in IF accept \in {"read", "write"} THEN [Mints -> Units] ELSE {NoRead}
  /\ proposed \in IF accept = "write" THEN [Mints -> Holdings] ELSE {NoRead}
  /\ settled \in BOOLEAN /\ trusted \subseteq Mints
  /\ orders \in 0 .. MaxOrders /\ hands \in 0 .. MaxHand
  /\ accepts \in 0 .. MaxAccepts /\ crashes \in 0 .. MaxCrashes

(* What the open order did on chain and the table lacks.                   *)
Owed(m) ==
  IF Open("landed") /\ order.mint = m
  THEN IF order.side = "buy" THEN order.amount ELSE 0 - order.amount
  ELSE 0

(* Orders booked by the swap or by either reconcile, in any order with     *)
(* crashes, keep the positions table within a rounding of the chain, for   *)
(* every mint nobody moved by hand since it last agreed; a settled         *)
(* --accept makes it agree.                                                *)
BooksFollowChain ==
  \A m \in trusted : Total(rows[m]) + Owed(m) - wallet[m] \in (1 - Lot) .. (Lot - 1)

(* An --accept no order was open to disturb drops the exit rule of no row  *)
(* whose mint is still in the wallet, and what it takes over itself, SOL   *)
(* excepted, gets a time stop: no position sits unmanaged.                 *)
AcceptKeepsExits ==
  [][accept = "write" /\ accept' = "reset" /\ settled =>
       \A m \in Mints, l \in Labels :
         /\ rows[m][l] # NoRow /\ wallet[m] > 0 =>
              /\ rows'[m][l] # NoRow
              /\ rows[m][l].exit # "none" => rows'[m][l].exit = rows[m][l].exit
         /\ l = Reconciled /\ m \notin HoldMints /\ rows'[m][l] # NoRow =>
              rows'[m][l].exit # "none"]_vars

(* What makes them inductive: while nothing has moved since --accept read  *)
(* the balances, they are still the wallet's, no order that landed is      *)
(* missing from the table, and what it is about to write is what it would  *)
(* propose for the rows of now.                                            *)
AcceptCurrent ==
  settled /\ accept \in {"read", "write"} =>
    /\ chain = wallet /\ ~Open("landed")
    /\ accept = "write" =>
         \E unknown \in SUBSET (Mints \ HoldMints) : proposed = Propose(chain, unknown)

IInv == TypeOK /\ AcceptCurrent

Diverged == Mismatched(wallet) # {}

(* A table that differs from the chain for good ends up blocking entries,  *)
(* whatever resets of --accept cross the ticks that count.                 *)
MismatchBlocksEntries == <>[]Diverged => <>[]Blocked

(* A table that agrees for good does not keep entries blocked: a reset of  *)
(* --accept lost to a running tick, which saves its own counter over it,   *)
(* is made good by a later comparison.                                     *)
AgreementUnblocks == <>[]~Diverged => []<>~Blocked
=============================================================================
