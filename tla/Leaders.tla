-------------------------------- MODULE Leaders --------------------------------
(***************************************************************************)
(* What a leader is worth, from its logged trades: buys matched to sells,  *)
(* its buys replayed through our own exit rules, and leaders that buy the  *)
(* same mints put in one cluster.                                          *)
(*                                                                         *)
(* A trade is [mint, buy, amount, price], price in USD per unit; trades    *)
(* come in (ts, signature) order.                                          *)
(***************************************************************************)
EXTENDS Integers, Sequences, SequencesExt, FiniteSets, FiniteSetsExt

Smaller(a, b) == IF a < b THEN a ELSE b

-----------------------------------------------------------------------------
(***************************************************************************)
(* round_trips: lots of a mint are closed first in, first out.             *)
(***************************************************************************)
NoTrips(mints) == [lots |-> [m \in mints |-> <<>>], closed |-> <<>>]

(* A trip closes amount units of the buy with index b by the sell s.       *)
Trip(trades, b, s, amount) ==
  [mint |-> trades[s].mint, bought |-> b, sold |-> s, amount |-> amount,
   pnl |-> amount * (trades[s].price - trades[b].price)]

(* One turn of the loop over the open lots: left is what the sell has left. *)
Consume(trades, s, acc, lot) ==
  LET take == Smaller(acc.left, lot.amount) IN
  [left   |-> acc.left - take,
   closed |-> IF take = 0 THEN acc.closed
              ELSE Append(acc.closed, Trip(trades, lot.bought, s, take)),
   lots   |-> IF take = lot.amount THEN acc.lots
              ELSE Append(acc.lots, [lot EXCEPT !.amount = @ - take])]

NoneSold(trades, s) == [left |-> trades[s].amount, closed |-> <<>>, lots |-> <<>>]

(* (The last lot first.)                                                   *)
SellLastIn(trades, s, lots) ==
  LET acc[k \in 0 .. Len(lots)] ==
        IF k = 0 THEN NoneSold(trades, s)
        ELSE Consume(trades, s, acc[k - 1], Reverse(lots)[k])
  IN acc[Len(lots)]

(* A sell goes through the lots in order; what it sells beyond them is not *)
(* counted.                                                                *)
Sell(trades, s, lots) ==
  LET acc[k \in 0 .. Len(lots)] ==
        IF k = 0 THEN NoneSold(trades, s) ELSE Consume(trades, s, acc[k - 1], lots[k])
  IN acc[Len(lots)]

RoundTrips(trades, mints) ==
  LET after[i \in 0 .. Len(trades)] ==
        IF i = 0 THEN NoTrips(mints)
        ELSE LET acc == after[i - 1]
                 t == trades[i]
                 sale == Sell(trades, i, acc.lots[t.mint])
             IN IF t.buy
                THEN [acc EXCEPT !.lots[t.mint] = Append(@, [bought |-> i, amount |-> t.amount])]
                ELSE [lots |-> [acc.lots EXCEPT ![t.mint] = sale.lots],
                      closed |-> acc.closed \o sale.closed]
  IN after[Len(trades)]

-----------------------------------------------------------------------------
(***************************************************************************)
(* The replay of one buy over a series of marks [ts, price], in time order: *)
(* leader is the leader's price after the markup, sells are the times the  *)
(* leader sold the mint, rule is [stop, trail, armed, until] with whole    *)
(* percentages.                                                            *)
(***************************************************************************)
Upto(series, at) == {i \in DOMAIN series : series[i].ts <= at}
After(series, at) == {i \in DOMAIN series : series[i].ts > at}

(* price_at and worst_of_entry: the last quote at the entry, or the        *)
(* leader's price when that is worse, or there is no quote.                *)
Basis(series, at, leader) ==
  LET seen == Upto(series, at)
  IN Max({leader} \cup (IF seen = {} THEN {} ELSE {series[Max(seen)].price}))

(* tighten_for_leader_sell: a leader's sell never exits for us, it arms a  *)
(* tighter trail at once.                                                  *)
Tightened(rule, tight) == [rule EXCEPT !.trail = Smaller(@, tight), !.armed = 0]

(* exit_reason, liquidity apart (a replay has no pool to read): the first  *)
(* rule that fires, or hold.                                               *)
ExitReason(price, high, basis, rule, ts) ==
  IF 100 * price <= basis * (100 - rule.stop) THEN "stop"
  ELSE IF 100 * high >= basis * (100 + rule.armed) /\ 100 * price <= high * (100 - rule.trail)
  THEN "trail"
  ELSE IF ts >= rule.until THEN "time_stop"
  ELSE "hold"

(* (The running high taken from the whole series.)                         *)
HighInHindsight(series, at, basis, i) ==
  Max({basis} \cup {series[j].price : j \in After(series, at)})

HighSoFar(series, at, basis, i) ==
  Max({basis} \cup {series[j].price : j \in {k \in After(series, at) : k <= i}})

(* The rule in force at mark i.                                            *)
RuleAt(series, sells, rule, tight, i) ==
  IF \E s \in sells : s <= series[i].ts THEN Tightened(rule, tight) ELSE rule

NoReplay == [at |-> 0, price |-> 0, reason |-> "none"]

(* replay_one: the walk over the marks after the entry stops at the first  *)
(* where a rule fires; a series that ends before is closed at its last     *)
(* mark, and without a mark there is nothing to replay.                    *)
ReplayOne(series, at, leader, sold, template, tight) ==
  LET marks == After(series, at)
      basis == Basis(series, at, leader)
      sells == {s \in sold : s > at}
      rule == [template EXCEPT !.until = @ + at]
      why(i) == ExitReason(series[i].price, HighSoFar(series, at, basis, i), basis,
                           RuleAt(series, sells, rule, tight, i), series[i].ts)
      fired == {i \in marks : why(i) # "hold"}
      exit(i, reason) == [at |-> series[i].ts, price |-> series[i].price, reason |-> reason]
  IN IF marks = {} THEN NoReplay
     ELSE IF fired = {} THEN exit(Max(marks), "open") ELSE exit(Min(fired), why(Min(fired)))

-----------------------------------------------------------------------------
(***************************************************************************)
(* Clusters.  bought[i] is the set of mints the i-th leader bought; a share *)
(* is in percent.                                                          *)
(***************************************************************************)
(* mint_overlap is over the threshold: the share of the smaller set that   *)
(* is in the other.                                                        *)
Alike(a, b, overlap) ==
  /\ a # {} /\ b # {}
  /\ 100 * Cardinality(a \cap b) > overlap * Smaller(Cardinality(a), Cardinality(b))

(* find: up to the root.  (Path halving moves no root.)                    *)
Find(parent, i) ==
  LET up[k \in 0 .. Len(parent)] == IF k = 0 THEN i ELSE parent[up[k - 1]]
  IN up[Len(parent)]

(* (A union of the two leaders where their roots are meant.)               *)
UniteThemselves(parent, i, j) == [parent EXCEPT ![j] = Smaller(i, @)]

(* The larger of the two roots goes under the smaller.                     *)
Unite(parent, i, j) ==
  LET ri == Find(parent, i)
      rj == Find(parent, j)
  IN IF ri = rj THEN parent
     ELSE [parent EXCEPT ![IF ri > rj THEN ri ELSE rj] = Smaller(ri, rj)]

(* The inner loop: leader i and those after it.                            *)
UniteAlike(parent, bought, overlap, i) ==
  LET after[j \in 0 .. Len(bought)] ==
        IF j = 0 THEN parent
        ELSE IF i < j /\ Alike(bought[i], bought[j], overlap) THEN Unite(after[j - 1], i, j)
        ELSE after[j - 1]
  IN after[Len(bought)]

(* cluster: all pairs in order.                                            *)
Cluster(bought, overlap) ==
  LET n == Len(bought)
      parent[i \in 0 .. n] ==
        IF i = 0 THEN [k \in 1 .. n |-> k]
        ELSE UniteAlike(parent[i - 1], bought, overlap, i)
  IN [k \in 1 .. n |-> Find(parent[n], k)]

-----------------------------------------------------------------------------
(***************************************************************************)
(* The pool.  A leader is [qualified, pf, sortino, weekly]: whether it is  *)
(* eligible and its replay good enough, and three measures of the replay;  *)
(* leaders are numbered in the order of their keys.                        *)
(***************************************************************************)
(* (Of equal values the later ones rank higher.)                           *)
RankByPlace(values, k) ==
  2 * (1 + Cardinality({j \in DOMAIN values :
                          values[j] < values[k] \/ (values[j] = values[k] /\ j < k)}))

(* _ranks: twice the rank; equal values share the average of theirs.       *)
AverageRank(values, k) ==
  2 * Cardinality({j \in DOMAIN values : values[j] < values[k]})
    + Cardinality({j \in DOMAIN values : values[j] = values[k]}) + 1

Qualified(leaders) == {k \in DOMAIN leaders : leaders[k].qualified}

(* score_leaders: the ranks of the three measures, among the qualified.    *)
Score(leaders, k) ==
  AverageRank([j \in Qualified(leaders) |-> leaders[j].pf], k)
    + AverageRank([j \in Qualified(leaders) |-> leaders[j].sortino], k)
    + AverageRank([j \in Qualified(leaders) |-> leaders[j].weekly], k)

Place(leaders, k) ==
  1 + Cardinality({j \in Qualified(leaders) :
         \/ Score(leaders, j) > Score(leaders, k)
         \/ Score(leaders, j) = Score(leaders, k) /\ j < k})

(* select_pool: the first n, and of those before it who is still within    *)
(* one and a half times that.                                              *)
SelectPool(leaders, before, n) ==
  {k \in Qualified(leaders) :
     \/ Place(leaders, k) <= n
     \/ k \in before /\ Place(leaders, k) <= (3 * n) \div 2}
=============================================================================
