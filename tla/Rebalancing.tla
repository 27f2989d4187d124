----------------------------- MODULE Rebalancing -----------------------------
(***************************************************************************)
(* The planner in its loop: each tick nets the weights the two sleeves     *)
(* hold or carry, compares the target with the holding, and sends the      *)
(* sells and at most one buy it decides on to the venue, whose answer may  *)
(* stay unknown for a while.  The only mint that is bought is the hold     *)
(* mint; other tokens come from a reconciliation, with a time stop.        *)
(*                                                                         *)
(* Amounts are whole units of USD and whole lots, weights are parts of     *)
(* Whole; products are rounded down.                                       *)
(***************************************************************************)
EXTENDS Integers, FiniteSets, FiniteSetsExt, Functions

CONSTANTS
  Sleeves,        (* sol_trend_ensemble and sol_regime_switch                   *)
  Budget,         (* of each sleeve: its effective allocation                   *)
  Weights,        (* of each sleeve: the weights it may come to                 *)
  Whole,          (* parts of a weight of one                                   *)
  Caps,           (* values of the SOL beta cap, by volatility                  *)
  Band,           (* rebalance_band_pct                                         *)
  MinOrder,       (* min_order_usd                                              *)
  Reserve,        (* lots of SOL kept for gas                                   *)
  MaxPositions,   (* max_positions                                              *)
  MaxSwaps,       (* max_swaps_per_day                                          *)
  DailyLimit,     (* the owner's or the canary's limits on the buys of a day    *)
  MaxPosition,    (*   and on the position                                      *)
  Share,          (* the ramp: a buy is one part of Share of its size           *)
  Tokens,         (* mints held beside the hold mint                            *)
  Hold,           (* the hold mint                                              *)
  None,           (* no weight, no order                                        *)
  Prices,         (* of the hold mint; a token is worth MinOrder a lot          *)
  Usd0, Lots0,    (* the account at the start                                   *)
  Price0,         (*   and the price                                            *)
  MaxBars,        (* bound: bars                                                *)
  MaxMoves        (* bound: changes of the price and of the mood                *)

Mints == Tokens \cup {Hold}
Orders == [mint : Mints, side : {"buy", "sell"}, lots : Nat, usd : Nat, exit : BOOLEAN]

ASSUME RebalancingAssumption ==
  /\ IsFiniteSet(Sleeves) /\ IsFiniteSet(Tokens)
  /\ Budget \in [Sleeves -> Nat] /\ Whole \in Nat \ {0}
  /\ \A s \in Sleeves : Weights[s] \subseteq 0 .. Whole
  /\ SumFunction(Budget) <= Whole
  /\ Caps \subseteq 0 .. Whole /\ Band \in Nat /\ MinOrder \in Nat \ {0}
  /\ {Reserve, MaxPositions, MaxSwaps, DailyLimit, MaxPosition, Usd0, Lots0} \subseteq Nat
  /\ Share \in Nat \ {0} /\ Hold \notin Tokens
  /\ Prices \subseteq Nat \ {0} /\ Price0 \in Prices /\ Caps # {}
  /\ MaxBars \in Nat /\ MaxMoves \in Nat
  /\ None \notin Orders

VARIABLES
  usdc, lots,     (* the wallet                                                 *)
  booked,         (* mints the ledger has a position of                         *)
  price,          (* of the hold mint                                           *)
  weight,         (* of each sleeve: last_weight, or None before its first bar  *)
  cap,            (* the beta cap of the day                                    *)
  timeStop,       (* the time stops of the tokens have passed                   *)
  pending,        (* of each mint: the order whose outcome is unknown           *)
  buys, swaps,    (* of the day                                                 *)
  mood,           (* what holds the entries back, if anything                   *)
  bars, moves     (* how many so far                                            *)

vars == <<usdc, lots, booked, price, weight, cap, timeStop, pending, buys, swaps,
          mood, bars, moves>>

Init ==
  /\ usdc = Usd0
  /\ lots = [m \in Mints |-> IF m = Hold THEN Lots0 ELSE 1]
  /\ booked = Tokens /\ price = Price0
  /\ weight = [s \in Sleeves |-> None] /\ cap = (CHOOSE c \in Caps : TRUE)
  /\ timeStop = FALSE
  /\ pending = [m \in Mints |-> None]
  /\ buys = 0 /\ swaps = 0 /\ mood = "calm"
  /\ bars = 0 /\ moves = 0

-----------------------------------------------------------------------------
(***************************************************************************)
(* The allocator.                                                          *)
(***************************************************************************)
Less(a, b) == IF a < b THEN a ELSE b
More(a, b) == IF a > b THEN a ELSE b

PriceOf(m) == IF m = Hold THEN price ELSE MinOrder
Equity == usdc + SumFunction([m \in Mints |-> lots[m] * PriceOf(m)])

(* tradeable_base and current_value_usd: SOL net of the gas reserve.       *)
Tradeable(m) == IF m = Hold THEN More(0, lots[m] - Reserve) ELSE lots[m]
Current(m) == Tradeable(m) * PriceOf(m)

(* cash_floor_fraction: what the budgets of the enabled sleeves leave.     *)
CashFloor == ((Whole - SumFunction(Budget)) * Equity) \div Whole

(* rebalance_band_usd *)
BandUsd == More((Band * Equity) \div Whole, MinOrder)

(* The sleeves that have a weight to give; a missing volatility drops the  *)
(* targets that would hold SOL.                                            *)
Given == {s \in Sleeves : weight[s] # None /\ (mood = "no_sigma" => weight[s] = 0)}

(* net_targets: each weight within its sleeve's budget, the sum under the  *)
(* beta cap.  The budgets leave the cash floor, so its scaling never       *)
(* binds.                                                                  *)
Netted == Less(cap, SumFunction([s \in Given |-> Less(weight[s], Budget[s])]))
TargetUsd == (Netted * Equity) \div Whole

(* (A zero target within the band.)                                        *)
FullAboveBand == Netted = 0 /\ Current(Hold) >= BandUsd

(* A zero target closes the whole holding.                                 *)
Full ==
  /\ Netted = 0 /\ Current(Hold) > 0
  /\ Current(Hold) >= MinOrder \/ Hold \in booked

(* (Exits held back with the entries.)                                     *)
ExitsWhenCalm == {m \in Tokens : timeStop /\ mood = "calm" /\ m \in booked /\ Tradeable(m) > 0}

(* exit_intents: the tokens whose rule fired.                              *)
Exits == {m \in Tokens : timeStop /\ m \in booked /\ Tradeable(m) > 0}

Order(m, side, n, exit) ==
  [mint |-> m, side |-> side, lots |-> n, usd |-> n * PriceOf(m), exit |-> exit]

Sells ==
  LET over == Current(Hold) - TargetUsd IN
  {Order(m, "sell", Tradeable(m), TRUE) : m \in Exits} \cup
  (IF Given = {} THEN {}
   ELSE IF Full THEN {Order(Hold, "sell", Tradeable(Hold), TRUE)}
   ELSE IF over >= BandUsd
        THEN {Order(Hold, "sell", Less(Tradeable(Hold), over \div price), FALSE)}
   ELSE {})

(* What the allocator would buy: up to the headroom above the cash floor.  *)
Wanted ==
  LET under == TargetUsd - Current(Hold)
      band == BandUsd
      usd == Less(under, usdc - CashFloor)
  IN IF Given = {} \/ under < band \/ usd < band THEN 0 ELSE usd

-----------------------------------------------------------------------------
(***************************************************************************)
(* plan_tick: the refusals and the size of the entry.                      *)
(***************************************************************************)
Unresolved == {pending[m] : m \in {n \in Mints : pending[n] # None}}
UsdOf(orders, side) == SumFunction([o \in {p \in orders : p.side = side} |-> o.usd])
PendingBuys == UsdOf(Unresolved, "buy")

(* (A plan that forgets what it sent.)                                     *)
NeverHeldUp(m, exit) == TRUE

(* While an order of the mint is unresolved only an exit may be sent.      *)
MaySend(m, exit) == pending[m] = None \/ exit

(* check_entry *)
EntryAllowed(usd) ==
  /\ mood = "calm"
  /\ swaps + Cardinality(Unresolved) < MaxSwaps
  /\ Hold \in booked \/ Cardinality(booked) < MaxPositions
  /\ usdc - usd >= CashFloor
  /\ lots[Hold] >= Reserve
  /\ usd >= MinOrder

DayRoom == DailyLimit - (buys + PendingBuys)

(* size_order: the least of the caps, times the ramp's share.              *)
Sized(usd) ==
  LET n == Min({usd, MaxPosition - Current(Hold), DayRoom}) IN
  IF n < 0 THEN 0 ELSE n \div Share

Entry ==
  LET wanted == Wanted
      usd == Sized(wanted)
  IN IF wanted > 0 /\ MaySend(Hold, FALSE) /\ EntryAllowed(wanted) /\ usd >= MinOrder
     THEN {Order(Hold, "buy", usd \div price, FALSE)} ELSE {}

Approved == {o \in Sells : MaySend(o.mint, o.exit) /\ o.lots > 0} \cup Entry

-----------------------------------------------------------------------------
(***************************************************************************)
(* The venue.                                                              *)
(***************************************************************************)
Signed(o) == IF o.side = "buy" THEN o.lots ELSE -o.lots

(* Orders that landed; a position goes with the last of what is tradeable. *)
Land(orders) ==
  LET left == [m \in Mints |->
        lots[m] + SumFunction([o \in {p \in orders : p.mint = m} |-> Signed(o)])]
      closed == {o.mint : o \in {p \in orders : p.side = "sell" /\
                   left[p.mint] <= (IF p.mint = Hold THEN Reserve ELSE 0)}}
  IN /\ lots' = left
     /\ usdc' = usdc + UsdOf(orders, "sell") - UsdOf(orders, "buy")
     /\ booked' = (booked \ closed) \cup {o.mint : o \in {p \in orders : p.side = "buy"}}
     /\ buys' = buys + UsdOf(orders, "buy")
     /\ swaps' = swaps + Cardinality(orders)

(* A tick: some of what was approved is filled, some has no answer yet,   *)
(* the rest fails.  (Bound: one order of a mint has no answer.)                *)
Tick(filled, silent) ==
  /\ \A o \in silent : pending[o.mint] = None
  /\ Land(filled)
  /\ pending' = [m \in Mints |->
       IF \E o \in silent : o.mint = m THEN CHOOSE o \in silent : o.mint = m ELSE pending[m]]
  /\ UNCHANGED <<price, weight, cap, timeStop, mood, bars, moves>>

(* finalize_pending finds the order landed, or gone.                       *)
Resolve(m, landed) ==
  /\ pending[m] # None
  /\ landed => pending[m].side = "buy" \/ pending[m].lots <= Tradeable(m)
  /\ Land(IF landed THEN {pending[m]} ELSE {})
  /\ pending' = [pending EXCEPT ![m] = None]
  /\ UNCHANGED <<price, weight, cap, timeStop, mood, bars, moves>>

NewDay ==
  /\ buys' = 0 /\ swaps' = 0
  /\ UNCHANGED <<usdc, lots, booked, price, weight, cap, timeStop, pending, mood, bars, moves>>

(* A daily bar closed: each sleeve comes to a weight, or fails to.         *)
NewBar(weights, newCap) ==
  /\ bars < MaxBars
  /\ \A s \in Sleeves : weights[s] \in Weights[s] \cup {weight[s]}
  /\ weight' = weights /\ cap' = newCap
  /\ bars' = bars + 1
  /\ UNCHANGED <<usdc, lots, booked, price, timeStop, pending, buys, swaps, mood, moves>>

TimeStop ==
  /\ timeStop' = TRUE
  /\ UNCHANGED <<usdc, lots, booked, price, weight, cap, pending, buys, swaps, mood, bars, moves>>

(* The market moves; brakes, unreadable limits or a missing volatility     *)
(* hold the entries back for a while.                                      *)
Moods == {"calm", "blocked", "no_sigma"}
Move(newPrice, newMood) ==
  /\ moves < MaxMoves
  /\ price' = newPrice /\ mood' = newMood
  /\ moves' = moves + 1
  /\ UNCHANGED <<usdc, lots, booked, weight, cap, timeStop, pending, buys, swaps, bars>>

Next ==
  \/ \E sent \in {Approved} : \E filled \in SUBSET sent :
       \E silent \in SUBSET (sent \ filled) : Tick(filled, silent)
  \/ \E m \in Mints, landed \in BOOLEAN : Resolve(m, landed)
  \/ NewDay
  \/ \E weights \in [Sleeves -> (UNION {Weights[s] : s \in Sleeves}) \cup {None}], c \in Caps :
       NewBar(weights, c)
  \/ TimeStop
  \/ \E p \in Prices, m \in Moods : Move(p, m)

(* Days pass, orders are resolved, and now and then all that a tick sends  *)
(* is filled.                                                              *)
Fairness ==
  /\ WF_vars(NewDay) /\ WF_vars(TimeStop)
  /\ \A m \in Mints : WF_vars(\E landed \in BOOLEAN : Resolve(m, landed))
  /\ SF_vars(\E sent \in {Approved} : sent # {} /\ Tick(sent, {}))

Spec == Init /\ [][Next]_vars /\ Fairness

-----------------------------------------------------------------------------
(***************************************************************************)
(* Properties.                                                             *)
(***************************************************************************)

(* The variables keep to their domains: nothing is sold or spent that is   *)
(* not there, and the gas reserve is never sold.                           *)
TypeOK ==
  /\ usdc \in Nat /\ lots \in [Mints -> Nat]
  /\ Lots0 >= Reserve => lots[Hold] >= Reserve
  /\ booked \subseteq Mints /\ price \in Prices
  /\ weight \in [Sleeves -> 0 .. Whole \cup {None}] /\ cap \in Caps
  /\ timeStop \in BOOLEAN /\ mood \in Moods
  /\ pending \in [Mints -> Orders \cup {None}]
  /\ \A m \in Mints : pending[m] # None => pending[m].mint = m
  /\ buys \in Nat /\ swaps \in Nat
  /\ bars \in 0 .. MaxBars /\ moves \in 0 .. MaxMoves

(* What the wallet holds once every unresolved buy has landed.             *)
Committed == [usdc |-> usdc - PendingBuys, hold |-> Current(Hold) + PendingBuys,
              day |-> buys + PendingBuys]

(* A step that adds to what the day has bought, were every order without   *)
(* an answer to land, leaves the cash floor, and keeps the position under  *)
(* the beta cap and the owner's limit and the day under its limit.  (Not   *)
(* said of what the market, the day or a smaller cap do afterwards.)       *)
BuysStayInBounds ==
  [][Committed.day' > Committed.day =>
       /\ Committed.usdc' >= CashFloor
       /\ Committed.hold' <= Less((cap * Equity) \div Whole, MaxPosition)
       /\ Committed.day' <= DailyLimit]_vars

(* A position whose time stop passed is sold, whatever holds the entries   *)
(* back meanwhile.                                                         *)
ExitsDespiteBrakes == \A m \in Tokens : timeStop ~> lots[m] = 0

(* Within a band of the target, or as near as the floor, the limits and    *)
(* the minimum order let it come.                                          *)
OnTarget ==
  Given = {} \/
  /\ Current(Hold) < TargetUsd + BandUsd
  /\ Netted = 0 => Current(Hold) < MinOrder
  /\ \/ Current(Hold) > TargetUsd - BandUsd
     \/ usdc - CashFloor < BandUsd
     \/ MaxPosition - Current(Hold) < MinOrder * Share
     \/ TargetUsd - Current(Hold) < MinOrder * Share

(* Once nothing holds the entries back any more the holding comes to the   *)
(* target and the agent stops trading: the plan does not chase its own     *)
(* trades.                                                                 *)
Settles == <>[](mood = "calm") => <>[](OnTarget /\ Approved = {})
=============================================================================
