------------------------------ MODULE MarketData ------------------------------
(***************************************************************************)
(* Daily candles: the store that merges its cache, the bundled file and    *)
(* the first network source that answers, and the engine's window of them. *)
(*                                                                         *)
(* Bars are a function from the days that have one to their closes; the    *)
(* bar of a day is closed once the day is over.                            *)
(***************************************************************************)
EXTENDS Integers, FiniteSets, FiniteSetsExt, Functions, Sequences

Closed(bars, now) == Restrict(bars, {d \in DOMAIN bars : d < now})

(* (What comes in replaces what is stored.)                                *)
MergeFresh(stored, incoming) ==
  [d \in DOMAIN stored \cup DOMAIN incoming |->
     IF d \in DOMAIN incoming THEN incoming[d] ELSE stored[d]]

(* setdefault: what is stored stays.                                       *)
Merge(stored, incoming) ==
  [d \in DOMAIN stored \cup DOMAIN incoming |->
     IF d \in DOMAIN stored THEN stored[d] ELSE incoming[d]]

(* The last n days of a set.                                               *)
LastDays(days, n) == {d \in days : Cardinality({e \in days : e > d}) < n}

(* disagreement over the last n bars the two have in common, against a     *)
(* limit in percent.                                                       *)
Disagree(stored, incoming, n, limit) ==
  \E d \in LastDays(DOMAIN stored \cap DOMAIN incoming, n) :
    LET gap == stored[d] - incoming[d]
    IN 100 * (IF gap < 0 THEN 0 - gap ELSE gap) > limit * incoming[d]

(* What the sources give: [bundled, answers, bars].  Only the first        *)
(* network source that answers counts.                                     *)
Network(sources) == {i \in DOMAIN sources : ~sources[i].bundled /\ sources[i].answers}
Incoming(sources, now) ==
  IF Network(sources) = {} THEN <<>> ELSE Closed(sources[Min(Network(sources))].bars, now)

(* The cache and, after it, the bundled files.                             *)
Stored(cache, sources, now) ==
  LET upto[i \in 0 .. Len(sources)] ==
        IF i = 0 THEN cache
        ELSE IF sources[i].bundled /\ sources[i].answers
        THEN Merge(upto[i - 1], Closed(sources[i].bars, now)) ELSE upto[i - 1]
  IN upto[Len(sources)]

(* closed_bars: the cache it leaves, and the bars or an error.             *)
ClosedBars(cache, sources, now, minBars, n, limit) ==
  LET stored == Stored(cache, sources, now)
      fresh == Incoming(sources, now)
      bars == Closed(Merge(stored, fresh), now)
  IN IF Disagree(stored, fresh, n, limit)
     THEN [cache |-> cache, ok |-> FALSE, bars |-> <<>>]
     ELSE [cache |-> IF DOMAIN bars = {} THEN cache ELSE bars,
           ok |-> Cardinality(DOMAIN bars) >= minBars, bars |-> bars]

(* The engine's refresh: its window of the store's bars, or of the bars it *)
(* had when the store has none for it.                                     *)
Refresh(agent, sources, now, minBars, window, n, limit) ==
  LET got == ClosedBars(agent.cache, sources, now, minBars, n, limit)
      bars == IF got.ok THEN got.bars ELSE agent.bars
  IN [cache |-> got.cache, bars |-> Restrict(bars, LastDays(DOMAIN bars, window))]
=============================================================================
