------------------------------ MODULE Algorithms ------------------------------
(***************************************************************************)
(* The pure algorithms against reference definitions: each step picks an   *)
(* algorithm and an input for it, and the invariant of that algorithm      *)
(* holds of the input.  The inputs and the limits they are used with are   *)
(* constants.                                                              *)
(***************************************************************************)
EXTENDS TrendSleeves, Leaders, RateLimits, MarketData, Breakout, SwapVenue

CONSTANTS
  Histories,     (* [bars, gate, missed]: daily bars, which of them BTC       *)
                 (* confirms, and the days the daily job did not run          *)
  Daily,         (* its limits [lookbacks, sma, hyst, window, minBars]        *)
  TradeInputs,   (* logged trades, in order                                   *)
  Replays,       (* [series, at, leader, sold, rule, tight] of one buy        *)
  Buys,          (* the mints each leader bought                              *)
  Overlap,       (* percentage over which two leaders are alike               *)
  Calls,         (* RPC calls in order, each [replies, late, gap]             *)
  Arrivals,      (* [at, lag]: callers of the board's limiter in the order    *)
                 (* they get its lock, and how late their sleeps end          *)
  Reads,         (* reads of the board in order, each [replies, gap]          *)
  Rate,          (* the limits [interval, endpoints, retries, backoff]        *)
  Feeds,         (* [cache, first, later]: two refreshes [sources, now]       *)
  Store,         (* their limits [minBars, window, compared, limit]           *)
  Pasts,         (* [bars, p]: 4h bars, the parameters of the simulator       *)
  Lasts,         (* bars that may follow them                                 *)
  Pools,         (* [leaders, before]: who is measured, who was in the pool   *)
  PoolSize,
  Swaps,         (* [req, jup, cex, quote, pre, after]: after has the wallets *)
                 (* a swap may leave                                          *)
  Guard,         (* [tolerance, slippage, deviation, allowance, reserve]      *)
  Fee            (* the network's fee                                         *)

(* The window holds what every rule looks back to, and the daily job only  *)
(* runs on enough bars.                                                    *)
ASSUME DailyAssumption ==
  /\ Daily.window \in Nat \ {0, 1} /\ Daily.minBars \in 1 .. Daily.window
  /\ Daily.sma \in 1 .. Daily.window
  /\ \A n \in Daily.lookbacks : n \in 1 .. Daily.window - 1
  /\ \A i \in Histories :
       /\ Len(i.bars) \in Nat /\ DOMAIN i.bars = 1 .. Len(i.bars)
       /\ Len(i.gate) = Len(i.bars) /\ DOMAIN i.gate = DOMAIN i.bars

(* A trade is of some amount, or it is not logged.                         *)
ASSUME TradeAssumption ==
  \A i \in TradeInputs :
    /\ Len(i) \in Nat /\ DOMAIN i = 1 .. Len(i)
    /\ \A k \in DOMAIN i : i[k].buy \in BOOLEAN /\ i[k].amount \in Nat \ {0}

ASSUME BuysAssumption ==
  \A i \in Buys :
    /\ Len(i) \in Nat /\ DOMAIN i = 1 .. Len(i) /\ \A k \in DOMAIN i : IsFiniteSet(i[k])

(* Marks come in the order of their times.                                 *)
ASSUME ReplayAssumption ==
  \A i \in Replays :
    /\ i.series \in Seq([ts : Int, price : Int]) /\ i.at \in Int
    /\ \A j, k \in DOMAIN i.series : j < k => i.series[j].ts <= i.series[k].ts

(* Time does not run back, and no sleep ends early.                        *)
ASSUME RateAssumption ==
  /\ Rate \in [interval : Nat, endpoints : Nat, retries : Nat, backoff : Nat]
  /\ \A i \in Calls : \A k \in DOMAIN i :
       /\ i[k].gap \in Nat
       /\ \A j \in 1 .. Rate.endpoints * (Rate.retries + 1) : i[k].late[j] \in Nat
  /\ \A i \in Reads : \A k \in DOMAIN i : i[k].gap \in Nat
  /\ \A i \in Calls \cup Reads : Len(i) \in Nat /\ DOMAIN i = 1 .. Len(i)
  /\ \A i \in Arrivals :
       /\ Len(i.at) \in Nat /\ DOMAIN i.at = 1 .. Len(i.at)
       /\ \A k \in DOMAIN i.at : i.at[k] \in Int /\ i.lag[k] \in Nat

(* Days are numbers, a source has finitely many; what the cache has is     *)
(* closed, and time passes.                                                *)
ASSUME StoreAssumption ==
  /\ Store.window \in Nat \ {0}
  /\ \A i \in Feeds :
       /\ i.first.now \in Int /\ i.later.now \in Int /\ i.first.now <= i.later.now
       /\ IsFiniteSet(DOMAIN i.cache) /\ DOMAIN i.cache \subseteq Int
       /\ \A d \in DOMAIN i.cache : d < i.first.now
       /\ \A fetch \in {i.first, i.later} :
            /\ DOMAIN fetch.sources = 1 .. Len(fetch.sources) /\ Len(fetch.sources) \in Nat
            /\ \A s \in DOMAIN fetch.sources : LET bars == fetch.sources[s].bars IN
                 IsFiniteSet(DOMAIN bars) /\ DOMAIN bars \subseteq Int

ASSUME PastsAssumption ==
  LET bars == [open : Int, low : Int, close : Int, signal : BOOLEAN, weak : BOOLEAN, atr : Int] IN
  /\ Lasts \subseteq bars
  /\ \A i \in Pasts :
       /\ i.bars \in Seq(bars)
       /\ i.p \in [r : Int, evenFrom : Int, trailFrom : Int, trail : Int, minGain : Int, maxBars : Int]

ASSUME PoolAssumption ==
  /\ PoolSize \in Nat
  /\ \A i \in Pools :
       i.leaders \in Seq([qualified : BOOLEAN, pf : Int, sortino : Int, weekly : Int])

(* Amounts are whole numbers, limits percentages; USDC is never the leg.   *)
ASSUME SwapAssumption ==
  /\ Fee \in Int /\ Guard.allowance \in Int /\ Guard.reserve \in Int
  /\ \A i \in Swaps :
       /\ i.req.leg # "usdc" /\ i.req.amount \in Nat
       /\ i.jup \in Nat /\ i.cex \in Nat /\ i.quote.out \in Int
       /\ Guard.tolerance[i.req.mode] \in 0 .. 100
       /\ Guard.slippage[Tier(i.req)] \in 0 .. 100 /\ Guard.deviation[Tier(i.req)] \in 0 .. 100
       /\ \A w \in {i.pre} \cup i.after :
            w.lamports \in Int /\ \A m \in DOMAIN w.held : w.held[m] \in Int

VARIABLES
  topic,  (* the algorithm under test, or none                                *)
  input   (* what it is given                                                 *)

vars == <<topic, input>>

-----------------------------------------------------------------------------
Init == topic = "none" /\ input = <<>>

Ask(t, inputs) ==
  /\ topic = "none" /\ topic' = t
  /\ \E i \in inputs : input' = i

Answered == topic # "none" /\ topic' = "none" /\ input' = <<>>

Next ==
  \/ Ask("sleeves", Histories) \/ Ask("trips", TradeInputs) \/ Ask("replay", Replays)
  \/ Ask("clusters", Buys) \/ Ask("calls", Calls) \/ Ask("slots", Arrivals)
  \/ Ask("candles", Feeds) \/ Ask("breakout", Pasts)
  \/ Ask("reads", Reads) \/ Ask("pool", Pools) \/ Ask("swaps", Swaps)
  \/ Answered

Spec == Init /\ [][Next]_vars

-----------------------------------------------------------------------------
(***************************************************************************)
(* Properties.                                                             *)
(***************************************************************************)
(* The state the daily job steps from bar to bar is the state the          *)
(* backtested rules have on the whole history, whatever days were missed,  *)
(* as long as the last day missed was within the window of bars.           *)
SeenSince(missed, t) ==
  \E u \in Daily.minBars .. Daily.window : u <= t /\ (u .. t) \cap missed = {}
LiveIsMeasured ==
  topic = "sleeves" =>
    LET bars == input.bars
        live == Live(bars, (DOMAIN bars) \ input.missed, Daily.window, Daily.minBars,
                       Daily.lookbacks, Daily.sma, Daily.hyst, input.gate)
        regime == HysteresisState(bars, Daily.sma, Daily.hyst, input.gate)
    IN \A t \in (Daily.minBars .. Len(bars)) \ input.missed :
         t <= Daily.window \/ SeenSince(input.missed, t) =>
           /\ \A n \in Daily.lookbacks :
                live[t].donchian[n] = DonchianSleeveState(bars, n, input.gate)[t]
           /\ live[t].regime = regime[t]

(* Round trips are the overlaps of what was bought and what was sold of a  *)
(* mint, both laid end to end, a sell of more than is open cut to that.    *)
Bought(trades, m, i) ==
  SumFunction([j \in 1 .. i |->
                 IF trades[j].mint = m /\ trades[j].buy THEN trades[j].amount ELSE 0])
Sold(trades, m, i) ==
  LET sold[j \in 0 .. i] ==
        IF j = 0 THEN 0
        ELSE IF trades[j].mint # m \/ trades[j].buy THEN sold[j - 1]
        ELSE Smaller(sold[j - 1] + trades[j].amount, Bought(trades, m, j))
  IN sold[i]
Both(trades, m, b, s) ==
  LET from == Max({Bought(trades, m, b - 1), Sold(trades, m, s - 1)})
      to == Min({Bought(trades, m, b), Sold(trades, m, s)})
  IN IF to > from THEN to - from ELSE 0
TripsAreFifo ==
  topic = "trips" =>
    LET closed == RoundTrips(input, {input[i].mint : i \in DOMAIN input}).closed
        both(p) == Both(input, input[p[1]].mint, p[1], p[2])
        pairs == {p \in (DOMAIN input) \X (DOMAIN input) :
                    /\ p[1] < p[2] /\ input[p[1]].mint = input[p[2]].mint
                    /\ input[p[1]].buy /\ ~input[p[2]].buy /\ both(p) > 0}
    IN /\ Len(closed) = Cardinality(pairs)
       /\ \A p \in pairs : Trip(input, p[1], p[2], both(p)) \in Range(closed)

(* The exit of a replayed trade is decided by the marks up to it: a longer *)
(* history of the same marks replays to the same exit.                     *)
ReplayHasNoHindsight ==
  topic = "replay" =>
    LET replay(series) ==
          ReplayOne(series, input.at, input.leader, input.sold, input.rule, input.tight)
    IN \A k \in DOMAIN input.series :
         LET seen == replay(SubSeq(input.series, 1, k))
         IN seen.reason \notin {"none", "open"} => replay(input.series) = seen

(* Leaders are in one cluster exactly when a chain of leaders, each alike  *)
(* to the next, joins them, in whatever order the pairs are looked at; the *)
(* cluster is named after its first member.                                *)
Joined(bought) ==
  LET step[k \in 0 .. Len(bought)] ==
        IF k = 0 THEN [i \in DOMAIN bought |-> {i}]
        ELSE [i \in DOMAIN bought |-> step[k - 1][i] \cup
                {j \in DOMAIN bought :
                   \E h \in step[k - 1][i] : Alike(bought[h], bought[j], Overlap)}]
  IN step[Len(bought)]
ClustersAreComponents ==
  topic = "clusters" =>
    Cluster(input, Overlap) = [i \in DOMAIN input |-> Min(Joined(input)[i])]

(* The bucket, the clock and the requests sent after each of some calls.   *)
Made(calls) ==
  LET upto[n \in 0 .. Len(calls)] ==
        IF n = 0 THEN [bucket |-> FullBucket(Rate.interval), now |-> 0, sent |-> <<>>,
                       errors |-> <<>>, done |-> "no"]
        ELSE LET run == Call(upto[n - 1].bucket, upto[n - 1].now + calls[n].gap,
                               calls[n].replies, calls[n].late, Rate.backoff, Rate.retries,
                               Rate.endpoints, Rate.interval)
             IN [run EXCEPT !.sent = upto[n - 1].sent \o @]
  IN upto

(* Requests through the bucket, of whatever call, endpoint or retry, are   *)
(* at least the interval apart, however late the sleeps end; a call that   *)
(* fails has tried every endpoint, and counts each once in the error       *)
(* window.                                                                 *)
RequestsKeepRate ==
  topic = "calls" =>
    \A n \in DOMAIN input :
      LET run == Made(input)[n]
      IN /\ \A k \in 1 .. Len(run.sent) - 1 : run.sent[k + 1] - run.sent[k] >= Rate.interval
         /\ Len(run.errors) <= Rate.endpoints
         /\ run.done = "no" => Len(run.errors) = Rate.endpoints

(* The board's limiter: between two of its callers that are k apart in its *)
(* order at least k intervals pass, less the time a sleep ended late.      *)
SlotsKeepRate ==
  topic = "slots" =>
    LET slots == Slots(input.at, Rate.interval)
        released(k) == slots[k] + (IF slots[k] > input.at[k] THEN input.lag[k] ELSE 0)
    IN \A j, k \in DOMAIN input.at : j < k =>
         /\ slots[k] >= input.at[k]
         /\ released(k) - released(j) >= (k - j) * Rate.interval - input.lag[j]

(* The limiter's next slot, the clock and the requests after each of some  *)
(* reads.                                                                  *)
Fetched(reads) ==
  LET upto[n \in 0 .. Len(reads)] ==
        IF n = 0 THEN [next |-> 0, now |-> 0, sent |-> <<>>]
        ELSE LET run == Read(upto[n - 1].next, upto[n - 1].now + reads[n].gap,
                               reads[n].replies, Rate.backoff, Rate.retries, Rate.interval)
             IN [run EXCEPT !.sent = upto[n - 1].sent \o @]
  IN upto

(* The requests of reads that share the limiter are an interval apart, the *)
(* ones made again included; a read asks again on 429 alone.               *)
ReadsKeepRate ==
  topic = "reads" =>
    LET upto == Fetched(input) IN
    \A n \in DOMAIN input :
      LET sent == upto[n].sent
          asked == Len(sent) - Len(upto[n - 1].sent)
      IN /\ \A k \in 1 .. Len(sent) - 1 : sent[k + 1] - sent[k] >= Rate.interval
         /\ \A k \in 0 .. Rate.retries :
              asked > k <=> \A l \in 1 .. k : input[n].replies[l] = "429"

(* Whatever is called, answered or late, no limiter lets its calls come    *)
(* faster than its rate.                                                   *)
CallsKeepRate == RequestsKeepRate /\ SlotsKeepRate /\ ReadsKeepRate

(* The pool never passes over a qualified leader for one that is no better *)
(* in any measure, except to keep one it has; it stays within one and a    *)
(* half times its size, and the same log changes nothing.                  *)
NoWorse(j, k) ==
  /\ j.qualified /\ j.pf >= k.pf /\ j.sortino >= k.sortino /\ j.weekly >= k.weekly
PoolPrefersBetter ==
  topic = "pool" =>
    LET leaders == input.leaders
        pool == SelectPool(leaders, input.before, PoolSize)
    IN /\ \A k \in pool : leaders[k].qualified
       /\ 2 * Cardinality(pool) <= 3 * PoolSize
       /\ \A k \in pool \ input.before, j \in (DOMAIN leaders) \ pool :
            NoWorse(leaders[j], leaders[k]) => j > k /\ leaders[j] = leaders[k]
       /\ SelectPool(leaders, pool, PoolSize) = pool

(* A swap that is signed, and lands as it was simulated, leaves the gas    *)
(* reserve, takes from no other account, and is booked at a price no worse *)
(* than any source's by more than the limits of the sources' disagreement, *)
(* of the quote and of the slippage taken together; SOL is measured up to  *)
(* the allowance for fees.                                                 *)
GuardedFillsFit ==
  topic = "swaps" =>
    LET req == input.req
        tier == Tier(req)
        limits == (100 - Guard.tolerance[req.mode]) * (100 - Guard.slippage[tier])
        slack(mint) == IF mint = "sol" THEN Guard.allowance - Fee ELSE 0
    IN \A post \in input.after :
         Signs(req, input.jup, input.cex, input.quote, input.pre,
                 [ok |-> TRUE, altered |-> {}, lamports |-> post.lamports, held |-> post.held],
                 Guard) =>
         LET fill == RealisedFill(req, input.pre, post, Fee)
             in == fill.in - slack(InMint(req))
             out == 1 + fill.out + slack(OutMint(req))
         IN /\ post.lamports >= Guard.reserve
            /\ \A m \in (DOMAIN input.pre.held) \ {InMint(req), OutMint(req), "sol"} :
                 Held(post, m) >= Held(input.pre, m)
            /\ in <= req.amount
            /\ \A price \in {input.jup, input.cex} \ {0} :
                 IF req.side = "buy"
                 THEN in * limits <= price * (100 + Guard.deviation[tier]) * out
                 ELSE 100 * 1000 * 1000 * out
                        >= price * req.amount * limits * (100 - Guard.deviation[tier])

(* A daily bar the strategies were given is never changed or lost, whatever *)
(* the sources say later, and only closed bars are given.                  *)
StoreKeepsHistory ==
  topic = "candles" =>
    LET refresh(agent, fetch) == Refresh(agent, fetch.sources, fetch.now, Store.minBars,
                                           Store.window, Store.compared, Store.limit)
        one == refresh([cache |-> input.cache, bars |-> <<>>], input.first)
        two == refresh(one, input.later)
    IN /\ \A d \in DOMAIN one.bars : d < input.first.now
       /\ DOMAIN one.cache \subseteq DOMAIN two.cache
       /\ \A d \in DOMAIN one.bars \cap DOMAIN two.bars : one.bars[d] = two.bars[d]
       /\ \A d \in DOMAIN one.bars : \E e \in DOMAIN two.bars : e >= d

(* Nothing decided at a bar's open, and no stop in force within it, depends *)
(* on how the bar goes on: two histories that differ only in the rest of   *)
(* the last bar enter it alike, leave it alike at the open, and stop out   *)
(* at the same price.                                                      *)
TradesSeeNoFuture ==
  topic = "breakout" =>
    LET last == Len(input.bars) + 1
        run == [b \in Lasts |-> Simulate(Append(input.bars, b), input.p, 1)]
        left(s) == {x \in Range(s.trades) : x.exited = last}
    IN \A b, c \in Lasts : b.open = c.open =>
         LET s == run[b]
             u == run[c]
         IN /\ (s.held /\ s.at = last) = (u.held /\ u.at = last)
            /\ {x \in Range(s.trades) : x.exited < last} = {x \in Range(u.trades) : x.exited < last}
            /\ \A x \in left(s) : x.reason # "stop" => x \in left(u)
            /\ \A x \in left(s), y \in left(u) : x.exit = y.exit
=============================================================================
