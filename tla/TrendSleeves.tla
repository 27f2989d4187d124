----------------------------- MODULE TrendSleeves -----------------------------
(***************************************************************************)
(* The daily strategies: the vectorised rules the backtester runs over a   *)
(* whole history, and the live wrappers that step a saved state by one     *)
(* bar, or recompute it from the bars they are given when bars were        *)
(* missed.                                                                 *)
(*                                                                         *)
(* A bar is [high, low, close]; prices are whole numbers, a stop is twice  *)
(* a price so that a midpoint is one.  gate says for each bar whether new  *)
(* entries are confirmed by BTC.                                           *)
(***************************************************************************)
EXTENDS Integers, Sequences, FiniteSetsExt, Functions

Bars(bars, i, n) == {bars[j] : j \in (i - n + 1) .. i}
HighOf(bars, i, n) == Max({b.high : b \in Bars(bars, i, n)})
LowOf(bars, i, n) == Min({b.low : b \in Bars(bars, i, n)})

(* donchian_mid, over the n bars up to i; twice the midpoint.              *)
Mid2(bars, i, n) == HighOf(bars, i, n) + LowOf(bars, i, n)

Flat == [long |-> FALSE, stop |-> 0]
Higher(a, b) == IF a > b THEN a ELSE b

-----------------------------------------------------------------------------
(***************************************************************************)
(* The vectorised rules.                                                   *)
(***************************************************************************)

(* donchian_sleeve_state: the state after each bar; flat until n bars      *)
(* precede.                                                                *)
DonchianSleeveState(bars, n, gate) ==
  LET after[i \in 0 .. Len(bars)] ==
        IF i <= n THEN Flat
        ELSE LET mid == Mid2(bars, i, n)
                 stop == Higher(after[i - 1].stop, mid)
             IN IF ~after[i - 1].long
                THEN IF bars[i].close > HighOf(bars, i - 1, n) /\ gate[i]
                     THEN [long |-> TRUE, stop |-> mid] ELSE Flat
                ELSE IF 2 * bars[i].close < stop THEN Flat
                     ELSE [long |-> TRUE, stop |-> stop]
  IN after

(* The n closes up to i, against a reference of hyst hundredths.           *)
Closes(bars, i, n) == SumFunction([j \in 1 .. n |-> bars[i - n + j].close])
Above(bars, i, n, hyst) == 100 * n * bars[i].close > (100 + hyst) * Closes(bars, i, n)
Below(bars, i, n, hyst) == 100 * n * bars[i].close < (100 - hyst) * Closes(bars, i, n)

(* hysteresis_state over the simple average of n closes.                   *)
HysteresisState(bars, n, hyst, gate) ==
  LET on[i \in 0 .. Len(bars)] ==
        i >= n /\ i > 0 /\
        IF on[i - 1] THEN ~Below(bars, i, n, hyst)
        ELSE Above(bars, i, n, hyst) /\ gate[i]
  IN on

-----------------------------------------------------------------------------
(***************************************************************************)
(* The live wrappers.  A saved state is [at, donchian, regime]: the bar it *)
(* was evaluated on (0 for none), the sleeves by lookback, the regime.     *)
(***************************************************************************)
Unsaved(lookbacks) ==
  [at |-> 0, donchian |-> [n \in lookbacks |-> Flat], regime |-> FALSE]

(* (A stop that follows the midpoint down.)                                *)
StepLoose(prev, bars, n, ok) ==
  LET last == Len(bars)
      mid == Mid2(bars, last, n)
  IN IF last <= n THEN Flat
     ELSE IF ~prev.long
          THEN IF bars[last].close > HighOf(bars, last - 1, n) /\ ok
               THEN [long |-> TRUE, stop |-> mid] ELSE Flat
          ELSE IF 2 * bars[last].close < mid THEN Flat ELSE [long |-> TRUE, stop |-> mid]

(* _step_sleeve: one bar from a saved sleeve.                              *)
StepSleeve(prev, bars, n, ok) ==
  LET last == Len(bars)
      mid == Mid2(bars, last, n)
      stop == Higher(prev.stop, mid)
  IN IF last <= n THEN Flat
     ELSE IF ~prev.long
          THEN IF bars[last].close > HighOf(bars, last - 1, n) /\ ok
               THEN [long |-> TRUE, stop |-> mid] ELSE Flat
          ELSE IF 2 * bars[last].close < stop THEN Flat ELSE [long |-> TRUE, stop |-> stop]

(* The regime stepped by one bar.                                          *)
StepRegime(on, bars, n, hyst, ok) ==
  LET last == Len(bars) IN
  IF last < n THEN FALSE
  ELSE IF ~on /\ Above(bars, last, n, hyst) /\ ok THEN TRUE
  ELSE IF on /\ Below(bars, last, n, hyst) THEN FALSE
  ELSE on

(* targets of both strategies on the bars they are given, the last of      *)
(* which is bar t.                                                         *)
Evaluate(saved, bars, t, lookbacks, smaN, hyst, gate) ==
  IF saved.at = t THEN saved
  ELSE IF saved.at # 0 /\ saved.at = t - 1 /\ Len(bars) >= 2
  THEN [at |-> t,
        donchian |-> [n \in lookbacks |->
                        StepSleeve(saved.donchian[n], bars, n, gate[Len(bars)])],
        regime |-> StepRegime(saved.regime, bars, smaN, hyst, gate[Len(bars)])]
  ELSE [at |-> t,
        donchian |-> [n \in lookbacks |-> DonchianSleeveState(bars, n, gate)[Len(bars)]],
        regime |-> HysteresisState(bars, smaN, hyst, gate)[Len(bars)]]

(* The last window elements of the first t.                                *)
Recent(s, t, window) == SubSeq(s, Higher(1, t - window + 1), t)

(* The engine over a history: on each day of days its daily job runs, on   *)
(* the bars of its window, once there are minBars.                         *)
Live(bars, days, window, minBars, lookbacks, smaN, hyst, gate) ==
  LET saved[t \in 0 .. Len(bars)] ==
        IF t = 0 THEN Unsaved(lookbacks)
        ELSE IF t \in days /\ t >= minBars
        THEN Evaluate(saved[t - 1], Recent(bars, t, window), t, lookbacks, smaN, hyst,
                      Recent(gate, t, window))
        ELSE saved[t - 1]
  IN saved
=============================================================================
