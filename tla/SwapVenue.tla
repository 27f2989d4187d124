------------------------------- MODULE SwapVenue -------------------------------
(***************************************************************************)
(* One swap of the live venue, from the reference price to the booked      *)
(* fill: the quote is held against the reference, the transaction is       *)
(* simulated and what the simulation shows is held against the quote; the  *)
(* fill is read from the balances of the transaction that landed.          *)
(*                                                                         *)
(* A request is [leg, side, mode, amount]: the leg that is not USDC, "sol" *)
(* or a token, bought or sold.  Prices are in hundredths of a USD a unit,  *)
(* 0 where there is none; limits in percent.  A wallet is [lamports, held], *)
(* held a function from the mints it has a token account of to amounts; it *)
(* has one account of a mint, and the one of SOL holds wrapped SOL.        *)
(***************************************************************************)
EXTENDS Integers, FiniteSets

Distance(a, b) == IF a > b THEN a - b ELSE b - a

InMint(req) == IF req.side = "buy" THEN "usdc" ELSE req.leg
OutMint(req) == IF req.side = "buy" THEN req.leg ELSE "usdc"
Emergency(req) == req.mode = "emergency"

-----------------------------------------------------------------------------
(***************************************************************************)
(* _reference_price and reference_price: twice the reference, or 0.        *)
(***************************************************************************)
SingleEnough(req) == Emergency(req) \/ req.leg # "sol"

(* Two sources must agree, and are averaged; one will do for a token,      *)
(* which has no other, or in an emergency.                                 *)
Reference2(req, jup, cex, tolerance) ==
  IF jup > 0 /\ cex > 0
  THEN IF 100 * Distance(jup, cex) > tolerance[req.mode] * cex THEN 0 ELSE jup + cex
  ELSE IF SingleEnough(req) THEN 2 * (jup + cex) ELSE 0

-----------------------------------------------------------------------------
(***************************************************************************)
(* The quote [in, out, fair]: fair says that its price impact, its fee and *)
(* its router are within their limits.                                     *)
(***************************************************************************)
Tier(req) == IF Emergency(req) THEN "emergency" ELSE req.leg

(* slippage_for, and what it leaves of the quoted output.                  *)
MinOut(req, quote, cfg) == (quote.out * (100 - cfg.slippage[Tier(req)])) \div 100

(* implied_price, as a quotient of hundredths.                             *)
Paid(req, quote) == 100 * (IF req.side = "buy" THEN quote.in ELSE quote.out)
Got(req, quote) == IF req.side = "buy" THEN quote.out ELSE quote.in

(* check_quote *)
QuoteFits(req, quote, ref2, cfg) ==
  /\ quote.in = req.amount /\ quote.out > 0 /\ ref2 > 0
  /\ 100 * Distance(2 * Paid(req, quote), ref2 * Got(req, quote))
       <= cfg.deviation[Tier(req)] * ref2 * Got(req, quote)
  /\ quote.fair

-----------------------------------------------------------------------------
(***************************************************************************)
(* Before it is signed.  A simulation is [ok, lamports, held, altered]:    *)
(* the accounts as they would be, and those whose owner, delegate, close   *)
(* authority or state is not what a plain account of ours has.             *)
(***************************************************************************)
Spend(req, quote) == IF InMint(req) = "sol" THEN quote.in ELSE 0

(* The gas reserve is never spent.                                         *)
ReserveKept(req, quote, pre, cfg) ==
  pre.lamports - Spend(req, quote) - cfg.allowance >= cfg.reserve

Held(w, m) == IF m \in DOMAIN w.held THEN w.held[m] ELSE 0

(* (The amount the account has, not the amount that came.)                 *)
AccountFitsByAmount(req, quote, pre, sim, m, cfg) ==
  IF m \notin DOMAIN sim.held THEN m = "sol" \/ (m \notin DOMAIN pre.held /\ m # OutMint(req))
  ELSE /\ m \notin sim.altered
       /\ \/ m = "sol"
          \/ m = InMint(req) /\ Held(pre, m) - sim.held[m] <= quote.in
          \/ m = OutMint(req) /\ sim.held[m] >= MinOut(req, quote, cfg)
          \/ m \notin {InMint(req), OutMint(req)} /\ sim.held[m] >= Held(pre, m)

(* A token account after the simulation: gone only if it held wrapped SOL, *)
(* or was not there; otherwise ours, the input down by no more than quoted, *)
(* the output up by the least to be had, any other not down.               *)
AccountFits(req, quote, pre, sim, m, cfg) ==
  IF m \notin DOMAIN sim.held THEN m = "sol" \/ (m \notin DOMAIN pre.held /\ m # OutMint(req))
  ELSE /\ m \notin sim.altered
       /\ \/ m = "sol"
          \/ m = InMint(req) /\ Held(pre, m) - sim.held[m] <= quote.in
          \/ m = OutMint(req) /\ sim.held[m] - Held(pre, m) >= MinOut(req, quote, cfg)
          \/ m \notin {InMint(req), OutMint(req)} /\ sim.held[m] >= Held(pre, m)

(* check_simulation over the wallet, its accounts and those of both legs.  *)
SimulationFits(req, quote, pre, sim, cfg) ==
  /\ sim.ok
  /\ pre.lamports - sim.lamports <= Spend(req, quote) + cfg.allowance
  /\ OutMint(req) = "sol" => sim.lamports - pre.lamports >= MinOut(req, quote, cfg) - cfg.allowance
  /\ \A m \in DOMAIN pre.held \cup {InMint(req), OutMint(req)} :
       AccountFits(req, quote, pre, sim, m, cfg)

(* swap, up to the signature; what it asks of the token, of the round trip *)
(* and of the transaction's bytes besides only refuses more.               *)
Signs(req, jup, cex, quote, pre, sim, cfg) ==
  /\ QuoteFits(req, quote, Reference2(req, jup, cex, cfg.tolerance), cfg)
  /\ ReserveKept(req, quote, pre, cfg)
  /\ SimulationFits(req, quote, pre, sim, cfg)

-----------------------------------------------------------------------------
(* realised_fill_from_tx: what both legs changed by, SOL in lamports with  *)
(* the network fee added back; no fill where a leg did not move.           *)
Change(pre, post, fee, m) ==
  IF m = "sol" THEN post.lamports - pre.lamports + fee ELSE Held(post, m) - Held(pre, m)
RealisedFill(req, pre, post, fee) ==
  [in |-> 0 - Change(pre, post, fee, InMint(req)), out |-> Change(pre, post, fee, OutMint(req))]
Booked(fill) == fill.in > 0 /\ fill.out > 0
=============================================================================
