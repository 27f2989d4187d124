------------------------------- MODULE Breakout -------------------------------
(***************************************************************************)
(* The 4h breakout simulator: one position at a time, orders decided at a  *)
(* bar's close and filled at the next bar's open, stops filled within the  *)
(* bar.                                                                    *)
(*                                                                         *)
(* A bar is [open, low, close, signal, weak, atr]: whether its close meets *)
(* the entry conditions and the external gate, whether it closes below the *)
(* slow average, and its range.  The stop distance is a number r of ticks; *)
(* sizes and costs decide nothing and are left out.                        *)
(***************************************************************************)
EXTENDS Integers, Sequences, FiniteSetsExt

Raise(a, b) == IF a > b THEN a ELSE b

Ready == [held |-> FALSE, at |-> 0, entry |-> 0, stop |-> 0, hit |-> FALSE,
          exit |-> "no", enter |-> FALSE, trades |-> <<>>, out |-> FALSE]

(* close_trade.                                                            *)
Close(s, i, price, reason) ==
  [s EXCEPT !.held = FALSE, !.out = TRUE,
            !.trades = Append(@, [entered |-> s.at, exited |-> i, entry |-> s.entry,
                                  exit |-> price, reason |-> reason])]

(* At the open: the exit the last close decided.                           *)
LeaveAtOpen(s, bars, i) ==
  LET fresh == [s EXCEPT !.out = FALSE] IN
  IF s.held /\ s.exit # "no" THEN [Close(fresh, i, bars[i].open, s.exit) EXCEPT !.exit = "no"]
  ELSE fresh

(* (The bar's own signal, at its own open.)                                *)
EnterOnSignal(s, bars, i, r) ==
  IF ~s.held /\ bars[i].signal /\ ~s.out
  THEN [s EXCEPT !.held = TRUE, !.at = i, !.entry = bars[i].open,
                 !.stop = bars[i].open - r, !.hit = FALSE, !.enter = FALSE]
  ELSE [s EXCEPT !.enter = FALSE]

(* The entry it decided, unless a position was just left.                  *)
EnterAtOpen(s, bars, i, r) ==
  IF ~s.held /\ s.enter /\ ~s.out
  THEN [s EXCEPT !.held = TRUE, !.at = i, !.entry = bars[i].open,
                 !.stop = bars[i].open - r, !.hit = FALSE, !.enter = FALSE]
  ELSE [s EXCEPT !.enter = FALSE]

(* The stop as the bars before left it, from the bar after the entry.      *)
StopWithin(s, bars, i) ==
  IF ~s.held \/ i = s.at THEN s
  ELSE IF bars[i].open <= s.stop THEN Close(s, i, bars[i].open, "stop_gap")
  ELSE IF bars[i].low <= s.stop THEN Close(s, i, s.stop, "stop")
  ELSE s

(* At the close: what the bar reached moves the stop up, never down, and   *)
(* decides an exit; without a position its signal decides an entry, if a   *)
(* bar is left to enter on.                                                *)
AtClose(s, bars, i, p) ==
  LET b == bars[i]
      reached(k) == b.close >= s.entry + k * p.r
      even == IF reached(p.evenFrom) THEN Raise(s.stop, s.entry) ELSE s.stop
      stop == IF reached(p.trailFrom) THEN Raise(even, b.close - p.trail * b.atr) ELSE even
      hit == s.hit \/ b.close >= s.entry + p.minGain
  IN IF ~s.held THEN [s EXCEPT !.enter = b.signal /\ i < Len(bars)]
     ELSE [s EXCEPT !.stop = stop, !.hit = hit,
                    !.exit = IF b.weak THEN "ema_slow"
                             ELSE IF i - s.at >= p.maxBars /\ ~hit THEN "time" ELSE "no"]

(* breakout_backtest from bar first on.                                    *)
Simulate(bars, p, first) ==
  LET after[i \in (first - 1) .. Len(bars)] ==
        IF i < first THEN Ready
        ELSE LET opened == EnterAtOpen(LeaveAtOpen(after[i - 1], bars, i), bars, i, p.r)
             IN AtClose(StopWithin(opened, bars, i), bars, i, p)
  IN after[Len(bars)]
=============================================================================
