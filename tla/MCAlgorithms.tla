----------------------------- MODULE MCAlgorithms -----------------------------
(***************************************************************************)
(* The inputs that TLC gives to the algorithms.                            *)
(***************************************************************************)
EXTENDS Algorithms

(* Six daily bars, all or all but a few of them seen by the daily job, and *)
(* BTC confirming all of them or all but one.                              *)
MCHistories ==
  {[bars   |-> [d \in 1 .. 6 |-> [high |-> closes[d], low |-> closes[d], close |-> closes[d]]],
    gate   |-> [d \in 1 .. 6 |-> d \notin unconfirmed],
    missed |-> missed] :
     closes \in [1 .. 6 -> 1 .. 3], unconfirmed \in {{}, {3}, {5}},
     missed \in {s \in SUBSET (3 .. 6) : Cardinality(s) <= 2}}
MCDaily == [lookbacks |-> {1, 2}, sma |-> 2, hyst |-> 10, window |-> 4, minBars |-> 3]

(* Up to five trades of a mint, and up to four of two.                     *)
Trades(mints, n) ==
  UNION {[1 .. k -> [mint : mints, buy : BOOLEAN, amount : 1 .. 2, price : {1}]] : k \in 0 .. n}
Priced(trades) == [i \in DOMAIN trades |-> [trades[i] EXCEPT !.price = i * i]]
MCTradeInputs == {Priced(t) : t \in Trades({"a"}, 5) \cup Trades({"a", "b"}, 4)}

(* Five marks around an entry at time 1, the leader's price and sells.     *)
MCReplays ==
  {[series |-> [k \in 1 .. 5 |-> [ts |-> k - 1, price |-> prices[k]]], at |-> 1,
    leader |-> leader, sold |-> sold, tight |-> 15,
    rule |-> [stop |-> 20, trail |-> 25, armed |-> 30, until |-> 3]] :
     prices \in [1 .. 5 -> {7, 10, 12, 16}], leader \in {9, 11}, sold \in {{}, {1, 3}, {4}}}

(* Four leaders, the mints each bought.                                    *)
MCBuys == [1 .. 4 -> SUBSET {"a", "b", "c"}]

(* Two calls that are answered alike, one after the other, to two          *)
(* endpoints; and two reads of the board by what it answers.               *)
MCRate == [interval |-> 3, endpoints |-> 2, retries |-> 1, backoff |-> 1]
MCCalls ==
  {<<[replies |-> r, late |-> l, gap |-> 0], [replies |-> r, late |-> l, gap |-> g]>> :
     r \in [1 .. 4 -> Replies], l \in {[k \in 1 .. 4 |-> ((k + 1) % 2) * x] : x \in {0, 1}},
     g \in {0, 1, 5}}
MCReads ==
  {<<[replies |-> r, gap |-> 0], [replies |-> s, gap |-> g]>> :
     r \in [1 .. 2 -> {"ok", "429"}], s \in [1 .. 2 -> {"ok", "429"}], g \in {0, 1, 5}}

(* Five callers of the limiter, in the order they get its lock.            *)
MCArrivals ==
  {[at |-> [k \in 1 .. 5 |-> SumFunction([j \in 1 .. k |-> waits[j]])], lag |-> lag] :
     waits \in [1 .. 5 -> {0, 1, 4}], lag \in [1 .. 5 -> {0, 2}]}

(* What a source has of three days, before and after.                      *)
Series == UNION {[s -> {100, 102, 110}] : s \in SUBSET (1 .. 3)}
MCStore == [minBars |-> 1, window |-> 2, compared |-> 1, limit |-> 3]
MCFeeds ==
  LET bundle(bars) == [bundled |-> TRUE, answers |-> TRUE, bars |-> bars]
      source(answers, bars) == [bundled |-> FALSE, answers |-> answers, bars |-> bars]
  IN {[cache |-> <<>>,
       first |-> [sources |-> <<source(TRUE, f), bundle(b)>>, now |-> 3],
       later |-> [sources |-> <<source(FALSE, f), source(a, s), bundle(b)>>, now |-> 4]] :
        f \in Series, s \in Series, a \in BOOLEAN, b \in {<<>>, <<102>>}}

(* Three 4h bars, and versions of a fourth that share their open.          *)
Bar4h == {b \in [open : {4, 9}, low : {3, 8}, close : {4, 9}, signal : BOOLEAN,
                 weak : BOOLEAN, atr : {1}] :
            b.low <= b.open /\ b.low <= b.close /\ ~(b.signal /\ b.weak)}
MCPasts == [bars : [1 .. 3 -> Bar4h],
            p : [r : {3}, evenFrom : {1}, trailFrom : {1, 2}, trail : {2}, minGain : {1},
                 maxBars : {1}]]
MCLasts == {b \in Bar4h : ~b.weak}

(* Four leaders, a pool of two and who was in it.                          *)
Unqualified == [qualified |-> FALSE, pf |-> 3, sortino |-> 3, weekly |-> 3]
Measured == {[qualified |-> TRUE, pf |-> v[1], sortino |-> v[2], weekly |-> v[3]] :
               v \in {<<1, 1, 2>>, <<1, 2, 1>>, <<2, 1, 1>>, <<2, 2, 1>>}}
MCPools == [leaders : [1 .. 4 -> {Unqualified} \cup Measured],
            before : {s \in SUBSET (1 .. 4) : Cardinality(s) <= 3}]

(* Sixteen units to swap at about a USD each, with the allowance for fees  *)
(* and the gas reserve that the wallet has, or lacks by one; and, for each *)
(* account, the balances at the limit of what may be signed and beyond.    *)
Amount == 16
MCGuard == [tolerance |-> [normal |-> 5, emergency |-> 10],
            slippage |-> [sol |-> 10, tok |-> 20, emergency |-> 20],
            deviation |-> [sol |-> 10, tok |-> 15, emergency |-> 20],
            allowance |-> 3, reserve |-> 5]
Wallet(lamports, balances) ==
  LET held == {m \in DOMAIN balances : balances[m] # {}}
  IN [lamports |-> lamports, held |-> [m \in held |-> CHOOSE v \in balances[m] : TRUE]]
Outcome(req, quote, lamports, had) ==
  LET paid == InMint(req)
      got == OutMint(req)
      least == MinOut(req, quote, MCGuard)
      held == IF had = {} THEN 0 ELSE CHOOSE h \in had : TRUE
      wallet(l, p, g, o) ==
        Wallet(l, [m \in {paid, got, "other"} |-> CASE m = paid -> p [] m = got -> g [] OTHER -> o])
  IN [pre |-> wallet(lamports, {Amount + 1}, had, {3}),
      after |-> {wallet(lamports + d, p, g, o) :
                   d \in {-20, -19, -4, -3, 0, least - 4, least - 3, least - 1},
                   p \in {{}, {0}, {1}}, g \in {{}, {held}, {held + least - 1}, {held + least}},
                   o \in {{2}, {3}}}]
MCSwaps ==
  {LET req == [leg |-> l, side |-> s, mode |-> m, amount |-> Amount]
       quote == [in |-> Amount, out |-> o, fair |-> TRUE]
       outcome == Outcome(req, quote, w, h)
   IN [req |-> req, jup |-> j, cex |-> IF l = "sol" THEN c ELSE 0,   (* a token has one source *)
       quote |-> quote, pre |-> outcome.pre, after |-> outcome.after] :
     l \in {"sol", "tok"}, s \in {"buy", "sell"}, m \in {"normal", "emergency"},
     j \in {0, 100, 104}, c \in {0, 100}, o \in {14, 16, 19}, w \in {23, 24}, h \in {{}, {0}, {16}}}
=============================================================================
