--------------------------- MODULE AlgorithmProofs ---------------------------
(***************************************************************************)
(* The pure algorithms, for all inputs and all limits.  A topic's          *)
(* invariant says what holds of any input it was asked with, so each       *)
(* theorem is a lemma about the algorithm, applied to that input.          *)
(*                                                                         *)
(* The inputs are what Algorithms assumes of them: types, marks and time   *)
(* in order, sleeps that end no sooner than asked, percentages, USDC not   *)
(* the leg of a swap, trades of a positive amount, lookbacks within the    *)
(* daily window.  What a recursion computes is unfolded turn by turn, and  *)
(* followed from turn to turn by induction over a set (AllNaturals).       *)
(***************************************************************************)
EXTENDS Algorithms, Sums

(* What is asked comes from the inputs of its topic.                       *)
AInv ==
  /\ topic = "sleeves" => input \in Histories
  /\ topic = "replay" => input \in Replays
  /\ topic = "calls" => input \in Calls
  /\ topic = "slots" => input \in Arrivals
  /\ topic = "reads" => input \in Reads
  /\ topic = "candles" => input \in Feeds
  /\ topic = "breakout" => input \in Pasts
  /\ topic = "pool" => input \in Pools
  /\ topic = "swaps" => input \in Swaps
  /\ topic = "trips" => input \in TradeInputs
  /\ topic = "clusters" => input \in Buys

(* Nothing is asked of an algorithm but an input of its own.               *)
LEMMA Asked == Spec => []AInv
<1>1. Init => AInv
  BY DEF Init, AInv
<1>2. AInv /\ [Next]_vars => AInv'
  <2> SUFFICES ASSUME AInv, [Next]_vars PROVE AInv'
    OBVIOUS
  <2>1. CASE UNCHANGED vars
    BY <2>1 DEF AInv, vars
  <2>2. CASE Answered
    BY <2>2 DEF Answered, AInv
  <2>3. CASE Next /\ ~Answered
    BY <2>3 DEF Next, Ask, AInv
  <2>4. QED
    BY <2>1, <2>2, <2>3
<1>3. QED
  BY <1>1, <1>2, PTL DEF Spec

-----------------------------------------------------------------------------
(***************************************************************************)
(* The pool.                                                               *)
(***************************************************************************)
Leader == [qualified : BOOLEAN, pf : Int, sortino : Int, weekly : Int]

(* A rank is larger for a larger value, and the same for the same.         *)
LEMMA RankFollowsValue ==
  ASSUME NEW D, IsFiniteSet(D), NEW v \in [D -> Int], NEW j \in D, NEW k \in D, v[j] >= v[k]
  PROVE  /\ AverageRank(v, j) \in Int /\ AverageRank(v, k) \in Int
         /\ AverageRank(v, j) >= AverageRank(v, k)
         /\ AverageRank(v, j) = AverageRank(v, k) => v[j] = v[k]
<1> DEFINE under(i) == {x \in D : v[x] < v[i]}
           same(i) == {x \in D : v[x] = v[i]}
<1>1. ASSUME NEW i \in D
      PROVE  /\ IsFiniteSet(under(i)) /\ IsFiniteSet(same(i)) /\ under(i) \cap same(i) = {}
             /\ Cardinality(under(i)) \in Nat /\ Cardinality(same(i)) \in Nat
             /\ Cardinality(same(i)) > 0
  <2>1. under(i) \subseteq D /\ same(i) \subseteq D /\ i \in same(i)
    OBVIOUS
  <2>2. under(i) \cap same(i) = {}
    OBVIOUS
  <2> HIDE DEF under, same
  <2>3. IsFiniteSet(under(i)) /\ IsFiniteSet(same(i))
    BY <2>1, FS_Subset
  <2>4. Cardinality(under(i)) \in Nat /\ Cardinality(same(i)) \in Nat
    BY <2>3, FS_CardinalityType
  <2>5. Cardinality(same(i)) # 0
    BY <2>1, <2>3, FS_EmptySet
  <2>6. QED
    BY <2>2, <2>3, <2>4, <2>5
<1>2. \A i \in D : AverageRank(v, i) = 2 * Cardinality(under(i)) + Cardinality(same(i)) + 1
  BY DEF AverageRank
<1>3. CASE v[j] = v[k]
  <2>1. under(j) = under(k) /\ same(j) = same(k)
    BY <1>3
  <2> HIDE DEF under, same
  <2>2. QED
    BY <1>1, <1>2, <1>3, <2>1
<1>4. CASE v[j] > v[k]
  <2>1. under(k) \cup same(k) \subseteq under(j)
    BY <1>4
  <2> HIDE DEF under, same
  <2>2. Cardinality(under(k) \cup same(k)) <= Cardinality(under(j))
    BY <1>1, <2>1, FS_Subset
  <2>3. Cardinality(under(k) \cup same(k)) = Cardinality(under(k)) + Cardinality(same(k))
    <3>1. Cardinality(under(k) \cap same(k)) = 0
      BY <1>1, FS_EmptySet
    <3>2. Cardinality(under(k) \cup same(k))
            = Cardinality(under(k)) + Cardinality(same(k)) - Cardinality(under(k) \cap same(k))
      BY <1>1, FS_Union
    <3>3. QED
      BY <1>1, <3>1, <3>2
  <2>4. QED
    BY <1>1, <1>2, <1>4, <2>2, <2>3
<1>5. QED
  BY <1>3, <1>4

(* The qualified are finitely many, and their scores are numbers.          *)
LEMMA PoolTypes ==
  ASSUME NEW leaders \in Seq(Leader)
  PROVE  /\ IsFiniteSet(Qualified(leaders))
         /\ \A k \in Qualified(leaders) : k \in Nat /\ k \in DOMAIN leaders /\ leaders[k] \in Leader
         /\ \A k \in Qualified(leaders) : Score(leaders, k) \in Int
<1> DEFINE Q == Qualified(leaders)
<1>1. \A k \in Q : k \in Nat /\ k \in DOMAIN leaders /\ leaders[k] \in Leader
  BY DEF Qualified
<1>2. IsFiniteSet(Q)
  <2>1. IsFiniteSet(1 .. Len(leaders))
    BY FS_Interval
  <2>2. Q \in SUBSET (1 .. Len(leaders))
    BY DEF Qualified
  <2> HIDE DEF Q
  <2>3. QED
    BY <2>1, <2>2, FS_Subset
<1>3. ASSUME NEW k \in Q PROVE Score(leaders, k) \in Int
  <2> DEFINE a == [j \in Q |-> leaders[j].pf]
             b == [j \in Q |-> leaders[j].sortino]
             c == [j \in Q |-> leaders[j].weekly]
  <2>1. a \in [Q -> Int] /\ b \in [Q -> Int] /\ c \in [Q -> Int]
    BY <1>1 DEF Leader
  <2>2. Score(leaders, k) = AverageRank(a, k) + AverageRank(b, k) + AverageRank(c, k)
    BY DEF Score
  <2> HIDE DEF a, b, c, Q
  <2>3. \A v \in [Q -> Int] : v[k] >= v[k]
    OBVIOUS
  <2>4. AverageRank(a, k) \in Int /\ AverageRank(b, k) \in Int /\ AverageRank(c, k) \in Int
    BY <1>2, <2>1, <2>3, RankFollowsValue
  <2>5. QED
    BY <2>2, <2>4
<1>4. QED
  BY <1>1, <1>2, <1>3

(* A leader no worse than another scores no less, and the same only if     *)
(* they are alike.                                                         *)
LEMMA ScoreFollowsMeasures ==
  ASSUME NEW leaders \in Seq(Leader), NEW j \in Qualified(leaders), NEW k \in Qualified(leaders),
         NoWorse(leaders[j], leaders[k])
  PROVE  /\ Score(leaders, j) >= Score(leaders, k)
         /\ Score(leaders, j) = Score(leaders, k) => leaders[j] = leaders[k]
<1> DEFINE Q == Qualified(leaders)
           a == [i \in Q |-> leaders[i].pf]
           b == [i \in Q |-> leaders[i].sortino]
           c == [i \in Q |-> leaders[i].weekly]
<1>1. a \in [Q -> Int] /\ b \in [Q -> Int] /\ c \in [Q -> Int]
  BY PoolTypes DEF Leader
<1>2. \A i \in Q : Score(leaders, i) = AverageRank(a, i) + AverageRank(b, i) + AverageRank(c, i)
  BY DEF Score
<1>3. a[j] >= a[k] /\ b[j] >= b[k] /\ c[j] >= c[k]
  BY DEF NoWorse
<1>4. a[j] = a[k] /\ b[j] = b[k] /\ c[j] = c[k] => leaders[j] = leaders[k]
  <2>1. leaders[j] \in Leader /\ leaders[k] \in Leader
    BY PoolTypes
  <2>2. leaders[j].qualified = TRUE /\ leaders[k].qualified = TRUE
    BY <2>1 DEF Qualified, Leader
  <2>3. \A x \in Leader : x = [qualified |-> x.qualified, pf |-> x.pf,
                             sortino |-> x.sortino, weekly |-> x.weekly]
    BY DEF Leader
  <2>4. QED
    BY <2>1, <2>2, <2>3
<1>5. IsFiniteSet(Q) /\ j \in Q /\ k \in Q
  BY PoolTypes
<1> HIDE DEF a, b, c, Q
<1>6. ASSUME NEW v \in [Q -> Int], v[j] >= v[k]
      PROVE  /\ AverageRank(v, j) \in Int /\ AverageRank(v, k) \in Int
             /\ AverageRank(v, j) >= AverageRank(v, k)
             /\ AverageRank(v, j) = AverageRank(v, k) => v[j] = v[k]
  BY <1>5, <1>6, RankFollowsValue
<1> DEFINE higher(v) == /\ AverageRank(v, j) \in Int /\ AverageRank(v, k) \in Int
                        /\ AverageRank(v, j) >= AverageRank(v, k)
                        /\ AverageRank(v, j) = AverageRank(v, k) => v[j] = v[k]
<1>7. higher(a) /\ higher(b) /\ higher(c)
  BY <1>1, <1>3, <1>6
<1>8. /\ Score(leaders, j) = AverageRank(a, j) + AverageRank(b, j) + AverageRank(c, j)
      /\ Score(leaders, k) = AverageRank(a, k) + AverageRank(b, k) + AverageRank(c, k)
  BY <1>2, <1>5
<1>9. QED
  BY <1>4, <1>7, <1>8

(* Those that come before a leader in the order of the scores.             *)
Before(leaders, k) ==
  {j \in Qualified(leaders) :
     \/ Score(leaders, j) > Score(leaders, k)
     \/ Score(leaders, j) = Score(leaders, k) /\ j < k}

(* Places count up along the order of the scores.                          *)
LEMMA PlacesFollowOrder ==
  ASSUME NEW leaders \in Seq(Leader), NEW j \in Qualified(leaders), NEW k \in Qualified(leaders)
  PROVE  /\ Place(leaders, j) \in Nat \ {0} /\ Place(leaders, k) \in Nat \ {0}
         /\ j \in Before(leaders, k) => Place(leaders, j) < Place(leaders, k)
         /\ j = k \/ j \in Before(leaders, k) \/ k \in Before(leaders, j)
<1> DEFINE Q == Qualified(leaders)
<1>1. IsFiniteSet(Q) /\ \A i \in Q : i \in Nat /\ Score(leaders, i) \in Int
  BY PoolTypes
<1>2. ASSUME NEW i \in Q
      PROVE  /\ IsFiniteSet(Before(leaders, i)) /\ Cardinality(Before(leaders, i)) \in Nat
             /\ Place(leaders, i) = 1 + Cardinality(Before(leaders, i))
  <2>1. Before(leaders, i) \in SUBSET Q
    BY DEF Before
  <2>2. IsFiniteSet(Before(leaders, i))
    BY <1>1, <2>1, FS_Subset
  <2>3. QED
    BY <2>2, FS_CardinalityType DEF Place, Before
<1>3. ASSUME j \in Before(leaders, k) PROVE Place(leaders, j) < Place(leaders, k)
  <2>1. Before(leaders, j) \subseteq Before(leaders, k) /\ j \notin Before(leaders, j)
    BY <1>1, <1>3 DEF Before
  <2>2. Before(leaders, j) # Before(leaders, k)
    BY <1>3, <2>1
  <2>3. /\ Cardinality(Before(leaders, j)) <= Cardinality(Before(leaders, k))
        /\ Cardinality(Before(leaders, j)) # Cardinality(Before(leaders, k))
    BY <1>2, <2>1, <2>2, FS_Subset
  <2>4. QED
    BY <1>2, <2>3
<1>4. j = k \/ j \in Before(leaders, k) \/ k \in Before(leaders, j)
  BY <1>1 DEF Before
<1>5. QED
  BY <1>2, <1>3, <1>4

(* Distinct leaders have distinct places, so there are at most m in the    *)
(* first m.                                                                *)
LEMMA PlacesBound ==
  ASSUME NEW leaders \in Seq(Leader), NEW m \in Nat,
         NEW P \in SUBSET Qualified(leaders), \A k \in P : Place(leaders, k) <= m
  PROVE  IsFiniteSet(P) /\ Cardinality(P) <= m
<1> DEFINE f == [k \in P |-> Place(leaders, k)]
<1>1. f \in [P -> 1 .. m]
  BY PlacesFollowOrder
<1>2. \A j, k \in P : f[j] = f[k] => j = k
  <2> SUFFICES ASSUME NEW j \in P, NEW k \in P, f[j] = f[k] PROVE j = k
    OBVIOUS
  <2>1. j \in Qualified(leaders) /\ k \in Qualified(leaders)
    OBVIOUS
  <2>2. Place(leaders, j) = Place(leaders, k) /\ Place(leaders, j) \in Nat
    BY <2>1, PlacesFollowOrder
  <2>3. QED
    BY <2>1, <2>2, PlacesFollowOrder
<1>3. f \in Injection(P, 1 .. m)
  <2> HIDE DEF f
  <2>1. QED
    BY <1>1, <1>2 DEF Injection, IsInjective
<1>4. IsFiniteSet(1 .. m) /\ Cardinality(1 .. m) = m
  BY FS_Interval
<1> HIDE DEF f
<1>5. QED
  BY <1>3, <1>4, FS_Injection

(* Whoever is in the new pool qualifies and ranks within half as much      *)
(* again as its size; a newcomer ranks within the size, and before whoever *)
(* qualifies and is left out.                                              *)
LEMMA PoolRule ==
  ASSUME NEW leaders \in Seq(Leader), NEW before, NEW n \in Nat
  PROVE  LET pool == SelectPool(leaders, before, n)
         IN /\ \A k \in pool : leaders[k].qualified
            /\ 2 * Cardinality(pool) <= 3 * n
            /\ \A k \in pool \ before, j \in (DOMAIN leaders) \ pool :
                 NoWorse(leaders[j], leaders[k]) => j > k /\ leaders[j] = leaders[k]
            /\ SelectPool(leaders, pool, n) = pool
<1> DEFINE Q == Qualified(leaders)
           pool == SelectPool(leaders, before, n)
           m == (3 * n) \div 2
<1>1. m \in Nat /\ n <= m /\ 2 * m <= 3 * n
  OBVIOUS
<1>2. \A k \in Q : Place(leaders, k) \in Nat
  BY PlacesFollowOrder
<1>3. pool \subseteq Q /\ \A k \in pool : Place(leaders, k) <= m
  BY <1>1, <1>2 DEF SelectPool
<1>4. \A k \in pool : leaders[k].qualified
  BY <1>3 DEF Qualified
<1>5. 2 * Cardinality(pool) <= 3 * n
  <2>1. IsFiniteSet(pool) /\ Cardinality(pool) <= m
    <3> HIDE DEF pool, m
    <3>1. QED
      BY <1>1, <1>3, PlacesBound
  <2>2. Cardinality(pool) \in Nat
    BY <2>1, FS_CardinalityType
  <2> HIDE DEF pool, m
  <2>3. QED
    BY <1>1, <2>1, <2>2
<1>6. ASSUME NEW k \in pool \ before, NEW j \in (DOMAIN leaders) \ pool, NoWorse(leaders[j], leaders[k])
      PROVE  j > k /\ leaders[j] = leaders[k]
  <2>1. j \in Q /\ k \in Q
    BY <1>3, <1>6 DEF NoWorse, Qualified
  <2>2. Place(leaders, k) <= n /\ ~(Place(leaders, j) <= n)
    BY <2>1 DEF SelectPool
  <2>3. j \notin Before(leaders, k) /\ j # k
    BY <1>2, <2>1, <2>2, PlacesFollowOrder
  <2>4. /\ Score(leaders, j) >= Score(leaders, k)
        /\ Score(leaders, j) = Score(leaders, k) => leaders[j] = leaders[k]
    BY <1>6, <2>1, ScoreFollowsMeasures
  <2>5. Score(leaders, j) \in Int /\ Score(leaders, k) \in Int /\ j \in Nat /\ k \in Nat
    BY <2>1, PoolTypes
  <2>6. Score(leaders, j) = Score(leaders, k) /\ ~(j < k)
    BY <2>1, <2>3, <2>4, <2>5 DEF Before
  <2>7. QED
    BY <2>3, <2>4, <2>5, <2>6
<1>7. SelectPool(leaders, pool, n) = pool
  BY <1>1, <1>2, <1>3 DEF SelectPool
<1>8. QED
  BY <1>4, <1>5, <1>6, <1>7

(* The pool prefers the better: PoolPrefersBetter, for any leaders, any    *)
(* pool before and any size.                                               *)
THEOREM PoolAlwaysPrefersBetter == Spec => []PoolPrefersBetter
<1>1. AInv => PoolPrefersBetter
  <2> SUFFICES ASSUME AInv, topic = "pool" PROVE PoolPrefersBetter
    BY DEF PoolPrefersBetter
  <2>1. input.leaders \in Seq(Leader) /\ PoolSize \in Nat
    BY PoolAssumption DEF AInv, Leader
  <2>2. QED
    BY <2>1, PoolRule DEF PoolPrefersBetter
<1>2. QED
  BY <1>1, Asked, PTL

-----------------------------------------------------------------------------
(***************************************************************************)
(* The replay.                                                             *)
(***************************************************************************)
(* A set of numbers and its part up to some bound have the same minimum.   *)
LEMMA MinOfPart ==
  ASSUME NEW A \in SUBSET Nat, NEW P \in SUBSET A, P # {},
         \A x \in P, y \in A \ P : x < y
  PROVE  Min(P) = Min(A) /\ Min(P) \in P
<1>1. PICK m \in P : \A x \in P : m <= x
  BY Smallest
<1>2. \A x \in A : m <= x
  BY <1>1
<1>3. \A n \in P : (\A x \in P : n <= x) => n = m
  BY <1>1
<1>4. \A n \in A : (\A x \in A : n <= x) => n = m
  BY <1>1, <1>2
<1>5. Min(P) = m
  BY <1>1, <1>3 DEF Min
<1>6. Min(A) = m
  BY <1>1, <1>2, <1>4 DEF Min
<1>7. QED
  BY <1>1, <1>5, <1>6

(* start has the first k marks of a series in the order of time.           *)
Begins(start, series, k) ==
  /\ k \in Nat /\ DOMAIN series \subseteq Nat \ {0}
  /\ DOMAIN start = 1 .. k /\ 1 .. k \subseteq DOMAIN series
  /\ \A i \in 1 .. k : start[i] = series[i]
  /\ \A i \in DOMAIN series : series[i].ts \in Int
  /\ \A i, j \in DOMAIN series : i < j => series[i].ts <= series[j].ts

(* An exit found in the first k marks is the exit found in all of them.    *)
LEMMA ReplayRule ==
  ASSUME NEW series, NEW start, NEW k, Begins(start, series, k),
         NEW at \in Int, NEW leader, NEW sold, NEW rule, NEW tight,
         ReplayOne(start, at, leader, sold, rule, tight).reason \notin {"none", "open"}
  PROVE  ReplayOne(series, at, leader, sold, rule, tight)
           = ReplayOne(start, at, leader, sold, rule, tight)
<1> DEFINE sells == {s \in sold : s > at}
           until == [rule EXCEPT !.until = @ + at]
           why(s, i) == ExitReason(s[i].price, HighSoFar(s, at, Basis(s, at, leader), i),
                                   Basis(s, at, leader), RuleAt(s, sells, until, tight, i), s[i].ts)
           fired(s) == {i \in After(s, at) : why(s, i) # "hold"}
           exit(s, i, reason) == [at |-> s[i].ts, price |-> s[i].price, reason |-> reason]
<1>1. \A s : ReplayOne(s, at, leader, sold, rule, tight)
                = IF After(s, at) = {} THEN NoReplay
                  ELSE IF fired(s) = {} THEN exit(s, Max(After(s, at)), "open")
                  ELSE exit(s, Min(fired(s)), why(s, Min(fired(s))))
  BY DEF ReplayOne
<1>2. /\ k \in Nat /\ DOMAIN series \subseteq Nat \ {0}
      /\ DOMAIN start = 1 .. k /\ 1 .. k \subseteq DOMAIN series
      /\ \A i \in 1 .. k : start[i] = series[i]
      /\ \A i \in DOMAIN series : series[i].ts \in Int
  BY DEF Begins
<1>3. fired(start) # {}
  <2>1. NoReplay.reason = "none" /\ \A i : exit(start, i, "open").reason = "open"
    BY DEF NoReplay
  <2> HIDE DEF fired, exit
  <2>2. QED
    BY <1>1, <2>1
<1>4. After(start, at) = {i \in After(series, at) : i <= k}
  BY <1>2 DEF After
<1>5. \A i \in DOMAIN series : i > k => series[i].ts > at
  <2>1. PICK i \in After(start, at) : TRUE
    <3> HIDE DEF why
    <3>1. QED
      BY <1>3
  <2>2. ASSUME NEW j \in DOMAIN series, j > k PROVE series[j].ts > at
    <3>1. i \in DOMAIN series /\ i < j /\ series[i].ts > at
      BY <1>2, <2>1, <2>2 DEF After
    <3>2. series[i].ts <= series[j].ts
      BY <3>1 DEF Begins
    <3>3. QED
      BY <1>2, <3>1, <3>2
  <2>3. QED
    BY <2>2
<1>6. Upto(start, at) = Upto(series, at)
  <2>1. ASSUME NEW i \in Upto(start, at) PROVE i \in Upto(series, at)
    BY <1>2 DEF Upto
  <2>2. ASSUME NEW i \in Upto(series, at) PROVE i \in Upto(start, at)
    <3>1. i \in DOMAIN series /\ series[i].ts <= at /\ series[i].ts \in Int
      BY <1>2 DEF Upto
    <3>2. ~(i > k)
      BY <1>5, <3>1
    <3>3. i \in 1 .. k /\ start[i] = series[i]
      BY <1>2, <3>1, <3>2
    <3>4. QED
      BY <1>2, <3>1, <3>3 DEF Upto
  <2>3. QED
    BY <2>1, <2>2
<1>7. Basis(start, at, leader) = Basis(series, at, leader)
  <2> DEFINE seen == Upto(start, at)
  <2>1. CASE seen = {}
    BY <1>6, <2>1 DEF Basis
  <2>2. CASE seen # {}
    <3>1. Max(seen) \in seen
      <4>1. IsFiniteSet(1 .. k) /\ seen \in SUBSET (1 .. k)
        <5>1. k \in Int
          BY <1>2
        <5>2. IsFiniteSet(1 .. k)
          BY <5>1, FS_Interval
        <5>3. QED
          BY <1>2, <5>2 DEF Upto
      <4> HIDE DEF seen
      <4>2. IsFiniteSet(seen)
        BY <4>1, FS_Subset
      <4>3. seen \subseteq Int
        BY <4>1
      <4>4. \E m \in seen : \A x \in seen : x <= m
        BY <2>2, <4>2, <4>3, Greatest
      <4>5. QED
        BY <4>3, <4>4 DEF Max
    <3>2. Max(seen) \in 1 .. k
      BY <1>2, <3>1 DEF Upto
    <3>3. start[Max(seen)] = series[Max(seen)]
      BY <1>2, <3>2
    <3>4. QED
      BY <1>6, <2>2, <3>3 DEF Basis
  <2>3. QED
    BY <2>1, <2>2
<1>8. ASSUME NEW i \in After(start, at) PROVE why(start, i) = why(series, i)
  <2>1. i \in 1 .. k /\ start[i] = series[i]
    BY <1>2, <1>8 DEF After
  <2> DEFINE high(s) == {j \in After(s, at) : j <= i}
  <2>2. high(start) = high(series) /\ \A j \in high(start) : start[j] = series[j]
    BY <1>2, <1>4, <2>1 DEF After
  <2>3. {start[j].price : j \in high(start)} = {series[j].price : j \in high(series)}
    <3> HIDE DEF high
    <3>1. QED
      BY <2>2
  <2>4. \A b : HighSoFar(start, at, b, i) = HighSoFar(series, at, b, i)
    BY <2>3 DEF HighSoFar
  <2>5. RuleAt(start, sells, until, tight, i) = RuleAt(series, sells, until, tight, i)
    <3> HIDE DEF until, sells
    <3>1. QED
      BY <2>1 DEF RuleAt
  <2> HIDE DEF until, sells
  <2>6. QED
    BY <1>7, <2>1, <2>4, <2>5
<1>9. fired(start) = {i \in fired(series) : i <= k}
  <2> HIDE DEF why
  <2>1. QED
    BY <1>4, <1>8
<1>10. Min(fired(start)) = Min(fired(series)) /\ Min(fired(start)) \in fired(start)
  <2>1. fired(series) \in SUBSET Nat
    BY <1>2 DEF After
  <2> HIDE DEF fired
  <2>2. fired(start) \in SUBSET fired(series)
    BY <1>9
  <2>3. \A x \in fired(start), y \in fired(series) \ fired(start) : x < y
    BY <1>2, <1>9, <2>1
  <2>4. QED
    BY <1>3, <2>1, <2>2, <2>3, MinOfPart
<1>11. exit(start, Min(fired(start)), why(start, Min(fired(start))))
         = exit(series, Min(fired(series)), why(series, Min(fired(series))))
  <2>1. Min(fired(start)) \in After(start, at)
    BY <1>10
  <2>2. start[Min(fired(start))] = series[Min(fired(start))]
    <3> HIDE DEF fired
    <3>1. QED
      BY <1>2, <2>1 DEF After
  <2>3. why(start, Min(fired(start))) = why(series, Min(fired(start)))
    BY <1>8, <2>1
  <2> HIDE DEF fired, why
  <2>4. QED
    BY <1>10, <2>2, <2>3
<1>12. After(start, at) # {} /\ After(series, at) # {} /\ fired(series) # {}
  <2> HIDE DEF why
  <2>1. QED
    BY <1>3, <1>4, <1>9
<1> HIDE DEF fired, exit, why
<1>13. QED
  BY <1>1, <1>3, <1>11, <1>12

Mark == [ts : Int, price : Int]

(* The replay has no hindsight: ReplayHasNoHindsight, for any marks in     *)
(* time order, any entry, any rule and any sells of the leader.            *)
THEOREM ReplayNeverHasHindsight == Spec => []ReplayHasNoHindsight
<1>1. AInv => ReplayHasNoHindsight
  <2> SUFFICES ASSUME AInv, topic = "replay" PROVE ReplayHasNoHindsight
    BY DEF ReplayHasNoHindsight
  <2> DEFINE series == input.series
             replay(s) == ReplayOne(s, input.at, input.leader, input.sold, input.rule, input.tight)
  <2>1. series \in Seq(Mark) /\ input.at \in Int
    BY ReplayAssumption DEF AInv, Mark
  <2>2. \A i, j \in DOMAIN series : i < j => series[i].ts <= series[j].ts
    BY ReplayAssumption DEF AInv
  <2>3. ASSUME NEW k \in DOMAIN series, replay(SubSeq(series, 1, k)).reason \notin {"none", "open"}
        PROVE  replay(series) = replay(SubSeq(series, 1, k))
    <3> HIDE DEF series
    <3>1. DOMAIN series = 1 .. Len(series) /\ Len(series) \in Nat
      BY <2>1
    <3>2. k \in Nat /\ DOMAIN series \subseteq Nat \ {0} /\ 1 .. k \subseteq DOMAIN series
      BY <3>1
    <3>3. DOMAIN SubSeq(series, 1, k) = 1 .. k /\ \A i \in 1 .. k : SubSeq(series, 1, k)[i] = series[i]
      BY <2>1, <3>1
    <3>4. \A i \in DOMAIN series : series[i].ts \in Int
      <4>1. \A i \in DOMAIN series : series[i] \in Mark
        BY <2>1
      <4>2. QED
        BY <4>1 DEF Mark
    <3>5. input.at \in Int
      BY <2>1
    <3> DEFINE start == SubSeq(series, 1, k)
    <3>6. replay(start).reason \notin {"none", "open"}
      BY <2>3
    <3> HIDE DEF start
    <3>7. /\ DOMAIN start = 1 .. k /\ \A i \in 1 .. k : start[i] = series[i]
      BY <3>3 DEF start
    <3>8. Begins(start, series, k)
      BY <2>2, <3>2, <3>4, <3>7 DEF Begins
    <3>9. replay(series) = replay(start)
      BY <3>5, <3>6, <3>8, ReplayRule
    <3>10. QED
      BY <3>9 DEF start
  <2>4. QED
    BY <2>3 DEF ReplayHasNoHindsight
<1>2. QED
  BY <1>1, Asked, PTL

-----------------------------------------------------------------------------
(***************************************************************************)
(* The candle store.                                                       *)
(***************************************************************************)
HasDays(bars) == IsFiniteSet(DOMAIN bars) /\ DOMAIN bars \subseteq Int

(* new has the bars of old, and maybe more.                                *)
Keeps(old, new) == DOMAIN old \subseteq DOMAIN new /\ \A d \in DOMAIN old : new[d] = old[d]

(* Merging and closing: what is stored stays, as far as it is closed.      *)
LEMMA MergeKeeps ==
  ASSUME NEW a, NEW b, HasDays(a), HasDays(b)
  PROVE  HasDays(Merge(a, b)) /\ Keeps(a, Merge(a, b))
<1>1. DOMAIN Merge(a, b) = DOMAIN a \cup DOMAIN b
  BY DEF Merge
<1>2. IsFiniteSet(DOMAIN a \cup DOMAIN b)
  BY FS_Union DEF HasDays
<1>3. Keeps(a, Merge(a, b))
  BY DEF Merge, Keeps
<1>4. QED
  BY <1>1, <1>2, <1>3 DEF HasDays

(* What is closed of a feed has finitely many days, all numbers.           *)
LEMMA ClosedHasDays ==
  ASSUME NEW a, HasDays(a), NEW now \in Int
  PROVE  /\ HasDays(Closed(a, now)) /\ Keeps(Closed(a, now), a)
         /\ DOMAIN Closed(a, now) = {d \in DOMAIN a : d < now}
<1>1. DOMAIN Closed(a, now) = {d \in DOMAIN a : d < now}
  BY DEF Closed, Restrict
<1>2. IsFiniteSet({d \in DOMAIN a : d < now})
  BY FS_Subset DEF HasDays
<1>3. Keeps(Closed(a, now), a)
  BY DEF Closed, Restrict, Keeps
<1>4. QED
  BY <1>1, <1>2, <1>3 DEF HasDays

(* The sources of a refresh, and the time it is made.                      *)
Fetch(sources, now) ==
  /\ Len(sources) \in Nat /\ DOMAIN sources = 1 .. Len(sources) /\ now \in Int
  /\ \A s \in DOMAIN sources : HasDays(sources[s].bars)

(* The bundled files add to the cache and change nothing of it.            *)
LEMMA StoredKeeps ==
  ASSUME NEW cache, HasDays(cache), NEW sources, NEW now, Fetch(sources, now)
  PROVE  HasDays(Stored(cache, sources, now)) /\ Keeps(cache, Stored(cache, sources, now))
<1> DEFINE turn(old, i) == IF sources[i].bundled /\ sources[i].answers
                           THEN Merge(old, Closed(sources[i].bars, now)) ELSE old
           IsUpto(u, m) == u = [i \in 0 .. m |-> IF i = 0 THEN cache ELSE turn(u[i - 1], i)]
           upto == CHOOSE u : IsUpto(u, Len(sources))
           all == {m \in Nat : \E u : IsUpto(u, m)}
<1>1. Len(sources) \in all
  <2> HIDE DEF turn
  <2>1. 0 \in all
    <3>1. IsUpto([i \in 0 .. 0 |-> cache], 0)
      OBVIOUS
    <3>2. QED
      BY <3>1
  <2>2. ASSUME NEW m \in Nat, m \in all PROVE m + 1 \in all
    <3>1. PICK u : IsUpto(u, m)
      BY <2>2
    <3> DEFINE v == [i \in 0 .. m + 1 |-> IF i = m + 1 THEN turn(u[m], m + 1) ELSE u[i]]
    <3>2. ASSUME NEW i \in 0 .. m + 1 PROVE v[i] = IF i = 0 THEN cache ELSE turn(v[i - 1], i)
      BY <3>1
    <3>3. IsUpto(v, m + 1)
      BY <3>2
    <3> HIDE DEF v, IsUpto
    <3>4. QED
      BY <3>3
  <2> HIDE DEF all
  <2>3. QED
    BY <2>1, <2>2, AllNaturals DEF Fetch
<1>2. IsUpto(upto, Len(sources)) /\ Stored(cache, sources, now) = upto[Len(sources)]
  BY <1>1, Zenon DEF Stored
<1> DEFINE kept == {m \in Nat : m <= Len(sources) => HasDays(upto[m]) /\ Keeps(cache, upto[m])}
<1>3. 0 \in kept
  <2>1. upto[0] = cache
    <3> HIDE DEF turn, upto
    <3>1. QED
      BY <1>2 DEF Fetch
  <2>2. QED
    BY <2>1 DEF Keeps
<1>4. ASSUME NEW m \in Nat, m \in kept PROVE m + 1 \in kept
  <2> SUFFICES ASSUME m + 1 <= Len(sources) PROVE HasDays(upto[m + 1]) /\ Keeps(cache, upto[m + 1])
    OBVIOUS
  <2>1. upto[m + 1] = turn(upto[m], m + 1)
    <3> HIDE DEF turn, upto
    <3>1. QED
      BY <1>2 DEF Fetch
  <2>2. HasDays(upto[m]) /\ Keeps(cache, upto[m])
    BY <1>4 DEF Fetch
  <2>3. HasDays(sources[m + 1].bars) /\ now \in Int
    BY DEF Fetch
  <2> DEFINE b == Closed(sources[m + 1].bars, now)
  <2>4. HasDays(b)
    BY <2>3, ClosedHasDays
  <2> HIDE DEF upto, b
  <2>5. HasDays(Merge(upto[m], b)) /\ Keeps(upto[m], Merge(upto[m], b))
    BY <2>2, <2>4, MergeKeeps
  <2>6. Keeps(cache, Merge(upto[m], b))
    BY <2>2, <2>5 DEF Keeps
  <2>7. QED
    BY <2>1, <2>2, <2>5, <2>6 DEF b
<1>5. Len(sources) \in kept
  <2> HIDE DEF kept
  <2>1. QED
    BY <1>3, <1>4, AllNaturals DEF Fetch
<1>6. QED
  <2> HIDE DEF upto
  <2>1. QED
    BY <1>2, <1>5 DEF Fetch

(* What the network gives has finitely many days.                          *)
LEMMA IncomingHasDays ==
  ASSUME NEW sources, NEW now, Fetch(sources, now)
  PROVE  HasDays(Incoming(sources, now))
<1>1. CASE Network(sources) = {}
  <2>1. Incoming(sources, now) = <<>>
    BY <1>1 DEF Incoming
  <2>2. DOMAIN Incoming(sources, now) = {}
    BY <2>1
  <2>3. QED
    BY <2>2, FS_EmptySet DEF HasDays
<1>2. CASE Network(sources) # {}
  <2>1. Network(sources) \in SUBSET Nat /\ Network(sources) \subseteq DOMAIN sources
    BY DEF Network, Fetch
  <2>2. Min(Network(sources)) \in DOMAIN sources
    BY <1>2, <2>1, MinOfPart
  <2>3. HasDays(sources[Min(Network(sources))].bars) /\ now \in Int
    BY <2>2 DEF Fetch
  <2>4. HasDays(Closed(sources[Min(Network(sources))].bars, now))
    BY <2>3, ClosedHasDays
  <2>5. QED
    BY <1>2, <2>4 DEF Incoming
<1>3. QED
  BY <1>1, <1>2

(* The window of the last days has the last one.                           *)
LEMMA WindowKeepsLast ==
  ASSUME NEW bars, HasDays(bars), NEW n \in Nat \ {0}
  PROVE  LET new == Restrict(bars, LastDays(DOMAIN bars, n))
         IN HasDays(new) /\ Keeps(new, bars) /\ \A d \in DOMAIN bars : \E e \in DOMAIN new : e >= d
<1> DEFINE new == Restrict(bars, LastDays(DOMAIN bars, n))
<1>1. DOMAIN new = LastDays(DOMAIN bars, n) /\ DOMAIN new \subseteq DOMAIN bars
  BY DEF Restrict, LastDays
<1>2. HasDays(new)
  BY <1>1, FS_Subset DEF HasDays
<1>3. Keeps(new, bars)
  BY <1>1 DEF Restrict, Keeps
<1>4. ASSUME NEW d \in DOMAIN bars PROVE \E e \in DOMAIN new : e >= d
  <2>1. PICK e \in DOMAIN bars : \A x \in DOMAIN bars : x <= e
    <3>1. DOMAIN bars # {}
      BY <1>4
    <3>2. QED
      BY <3>1, Greatest DEF HasDays
  <2>2. {x \in DOMAIN bars : x > e} = {}
    BY <2>1 DEF HasDays
  <2>3. e \in LastDays(DOMAIN bars, n)
    BY <2>2, FS_EmptySet DEF LastDays
  <2>4. e >= d
    BY <2>1 DEF HasDays
  <2>5. QED
    BY <1>1, <2>3, <2>4
<1>5. QED
  BY <1>2, <1>3, <1>4

(* What the engine has of the store, before and after a refresh.           *)
InStore(agent, now) ==
  /\ HasDays(agent.cache) /\ HasDays(agent.bars) /\ Keeps(agent.bars, agent.cache)
  /\ \A d \in DOMAIN agent.cache : d < now

(* A refresh adds to the cache, and its bars are of the cache and go as    *)
(* far as those before.                                                    *)
LEMMA RefreshRule ==
  ASSUME NEW agent, NEW sources, NEW now, Fetch(sources, now), InStore(agent, now),
         NEW minBars, NEW window \in Nat \ {0}, NEW n, NEW limit
  PROVE  LET new == Refresh(agent, sources, now, minBars, window, n, limit)
         IN /\ InStore(new, now) /\ Keeps(agent.cache, new.cache)
            /\ \A d \in DOMAIN agent.bars : \E e \in DOMAIN new.bars : e >= d
<1> DEFINE new == Refresh(agent, sources, now, minBars, window, n, limit)
           got == ClosedBars(agent.cache, sources, now, minBars, n, limit)
           stored == Stored(agent.cache, sources, now)
           fresh == Incoming(sources, now)
           bars == Closed(Merge(stored, fresh), now)
           chosen == IF got.ok THEN got.bars ELSE agent.bars
<1>1. HasDays(agent.cache) /\ HasDays(agent.bars) /\ Keeps(agent.bars, agent.cache) /\ now \in Int
  BY DEF InStore, Fetch
<1>2. HasDays(stored) /\ Keeps(agent.cache, stored)
  BY <1>1, StoredKeeps
<1>3. HasDays(fresh)
  BY IncomingHasDays
<1>4. HasDays(Merge(stored, fresh)) /\ Keeps(stored, Merge(stored, fresh))
  <2> HIDE DEF stored, fresh
  <2>1. QED
    BY <1>2, <1>3, MergeKeeps
<1>5. /\ HasDays(bars) /\ Keeps(bars, Merge(stored, fresh))
      /\ DOMAIN bars = {d \in DOMAIN Merge(stored, fresh) : d < now}
  <2> HIDE DEF stored, fresh
  <2>1. QED
    BY <1>1, <1>4, ClosedHasDays
<1>6. Keeps(agent.cache, bars)
  <2> HIDE DEF bars, stored, fresh
  <2>1. \A d \in DOMAIN agent.cache : d < now
    BY DEF InStore
  <2>2. QED
    BY <1>2, <1>4, <1>5, <2>1 DEF Keeps
<1>7. \/ got = [cache |-> agent.cache, ok |-> FALSE, bars |-> <<>>]
      \/ /\ got.cache = IF DOMAIN bars = {} THEN agent.cache ELSE bars
         /\ got.bars = bars
  BY DEF ClosedBars
<1>8. HasDays(got.cache) /\ Keeps(agent.cache, got.cache) /\ \A d \in DOMAIN got.cache : d < now
  <2>1. Keeps(agent.cache, agent.cache) /\ \A d \in DOMAIN agent.cache : d < now
    BY DEF Keeps, InStore
  <2>2. \A d \in DOMAIN bars : d < now
    BY <1>5
  <2> HIDE DEF got, bars
  <2>3. QED
    BY <1>1, <1>5, <1>6, <1>7, <2>1, <2>2
<1>9. got.ok => got.bars = bars /\ Keeps(bars, got.cache)
  <2>1. Keeps(bars, bars)
    BY DEF Keeps
  <2>2. DOMAIN bars = {} => Keeps(bars, agent.cache)
    BY DEF Keeps
  <2> HIDE DEF got, bars
  <2>3. QED
    BY <1>7, <2>1, <2>2
<1>10. HasDays(chosen) /\ Keeps(chosen, got.cache) /\ DOMAIN agent.bars \subseteq DOMAIN chosen
  <2> HIDE DEF got, bars
  <2>1. CASE got.ok
    BY <1>1, <1>5, <1>6, <1>9, <2>1 DEF Keeps
  <2>2. CASE ~got.ok
    BY <1>1, <1>8, <2>2 DEF Keeps
  <2>3. QED
    BY <2>1, <2>2
<1>11. new.cache = got.cache /\ new.bars = Restrict(chosen, LastDays(DOMAIN chosen, window))
  BY DEF Refresh
<1> HIDE DEF chosen, got, new
<1>12. /\ HasDays(new.bars) /\ Keeps(new.bars, chosen)
       /\ \A d \in DOMAIN chosen : \E e \in DOMAIN new.bars : e >= d
  BY <1>10, <1>11, WindowKeepsLast
<1>13. Keeps(new.bars, new.cache)
  BY <1>10, <1>11, <1>12 DEF Keeps
<1>14. InStore(new, now) /\ Keeps(agent.cache, new.cache)
  BY <1>8, <1>11, <1>12, <1>13 DEF InStore
<1>15. \A d \in DOMAIN agent.bars : \E e \in DOMAIN new.bars : e >= d
  BY <1>10, <1>12
<1>16. QED
  BY <1>14, <1>15 DEF new

(* The store keeps history: StoreKeepsHistory, for any cache, any sources  *)
(* and whatever they say the second time.                                  *)
THEOREM StoreAlwaysKeepsHistory == Spec => []StoreKeepsHistory
<1>1. AInv => StoreKeepsHistory
  <2> SUFFICES ASSUME AInv, topic = "candles" PROVE StoreKeepsHistory
    BY DEF StoreKeepsHistory
  <2> DEFINE refresh(agent, fetch) == Refresh(agent, fetch.sources, fetch.now, Store.minBars,
                                              Store.window, Store.compared, Store.limit)
             start == [cache |-> input.cache, bars |-> <<>>]
             one == refresh(start, input.first)
             two == refresh(one, input.later)
  <2>1. /\ Store.window \in Nat \ {0} /\ input.first.now \in Int /\ input.later.now \in Int
        /\ input.first.now <= input.later.now
        /\ HasDays(input.cache) /\ \A d \in DOMAIN input.cache : d < input.first.now
    BY StoreAssumption DEF AInv, HasDays
  <2>2. /\ Fetch(input.first.sources, input.first.now)
        /\ Fetch(input.later.sources, input.later.now)
    BY StoreAssumption DEF AInv, HasDays, Fetch
  <2>3. InStore(start, input.first.now)
    <3>1. start.cache = input.cache /\ DOMAIN start.bars = {}
      OBVIOUS
    <3> HIDE DEF start
    <3>2. QED
      BY <2>1, <3>1, FS_EmptySet DEF InStore, HasDays, Keeps
  <2>4. /\ InStore(one, input.first.now)
    <3> HIDE DEF start
    <3>1. QED
      BY <2>1, <2>2, <2>3, RefreshRule
  <2>5. InStore(one, input.later.now)
    <3> HIDE DEF one
    <3>1. QED
      BY <2>1, <2>4 DEF InStore, HasDays
  <2>6. /\ InStore(two, input.later.now) /\ Keeps(one.cache, two.cache)
        /\ \A d \in DOMAIN one.bars : \E e \in DOMAIN two.bars : e >= d
    <3> HIDE DEF one
    <3>1. QED
      BY <2>1, <2>2, <2>5, RefreshRule
  <2> HIDE DEF one, two
  <2>7. \A d \in DOMAIN one.bars : d < input.first.now
    BY <2>4 DEF InStore, Keeps
  <2>8. \A d \in DOMAIN one.bars \cap DOMAIN two.bars : one.bars[d] = two.bars[d]
    BY <2>4, <2>6 DEF InStore, Keeps
  <2>9. DOMAIN one.cache \subseteq DOMAIN two.cache
    BY <2>6 DEF Keeps
  <2>10. QED
    BY <2>6, <2>7, <2>8, <2>9 DEF StoreKeepsHistory, one, two
<1>2. QED
  BY <1>1, Asked, PTL

-----------------------------------------------------------------------------
(***************************************************************************)
(* The breakout simulator.                                                 *)
(***************************************************************************)
FourHours == [open : Int, low : Int, close : Int, signal : BOOLEAN, weak : BOOLEAN, atr : Int]
Parameters == [r : Int, evenFrom : Int, trailFrom : Int, trail : Int, minGain : Int, maxBars : Int]
Reasons == {"no", "ema_slow", "time", "stop_gap", "stop"}
Trades4h == [entered : Int, exited : Int, entry : Int, exit : Int, reason : Reasons]
Simulated == [held : BOOLEAN, at : Int, entry : Int, stop : Int, hit : BOOLEAN,
              exit : Reasons, enter : BOOLEAN, trades : Seq(Trades4h), out : BOOLEAN]

(* One bar of the simulator.                                               *)
Opened(bars, s, i, p) == EnterAtOpen(LeaveAtOpen(s, bars, i), bars, i, p.r)
Turn(bars, s, i, p) == AtClose(StopWithin(Opened(bars, s, i, p), bars, i), bars, i, p)

(* A simulation takes its turns one by one.                                *)
LEMMA SimulateTurns ==
  ASSUME NEW bars, Len(bars) \in Nat, NEW p
  PROVE  \E u : /\ Simulate(bars, p, 1) = u[Len(bars)] /\ u[0] = Ready
               /\ \A i \in 1 .. Len(bars) : u[i] = Turn(bars, u[i - 1], i, p)
<1> DEFINE IsAfter(u, m) == u = [i \in (1 - 1) .. m |->
                                   IF i < 1 THEN Ready ELSE Turn(bars, u[i - 1], i, p)]
           after == CHOOSE u : IsAfter(u, Len(bars))
           all == {m \in Nat : \E u : IsAfter(u, m)}
<1>1. 0 \in all
  <2>1. IsAfter([i \in (1 - 1) .. 0 |-> Ready], 0)
    OBVIOUS
  <2>2. QED
    BY <2>1
<1>2. ASSUME NEW m \in Nat, m \in all PROVE m + 1 \in all
  <2>1. PICK u : IsAfter(u, m)
    BY <1>2
  <2> DEFINE v == [i \in (1 - 1) .. m + 1 |-> IF i = m + 1 THEN Turn(bars, u[m], m + 1, p) ELSE u[i]]
  <2>2. ASSUME NEW i \in (1 - 1) .. m + 1
        PROVE  v[i] = IF i < 1 THEN Ready ELSE Turn(bars, v[i - 1], i, p)
    BY <2>1
  <2>3. IsAfter(v, m + 1)
    BY <2>2
  <2> HIDE DEF v, IsAfter
  <2>4. QED
    BY <2>3
<1>3. Len(bars) \in all
  <2> HIDE DEF all
  <2>1. QED
    BY <1>1, <1>2, AllNaturals
<1>4. IsAfter(after, Len(bars)) /\ Simulate(bars, p, 1) = after[Len(bars)]
  BY <1>3, Zenon DEF Simulate, Turn, Opened
<1> HIDE DEF after
<1>5. after[0] = Ready /\ \A i \in 1 .. Len(bars) : after[i] = Turn(bars, after[i - 1], i, p)
  BY <1>4
<1>6. QED
  BY <1>4, <1>5

(* A closed position is appended to the trades.                            *)
LEMMA RangeAppend ==
  ASSUME NEW T, NEW s \in Seq(T), NEW x \in T
  PROVE  Append(s, x) \in Seq(T) /\ Range(Append(s, x)) = Range(s) \cup {x}
<1> DEFINE t == Append(s, x)
<1>1. t \in Seq(T) /\ DOMAIN t = 1 .. Len(s) + 1 /\ DOMAIN s = 1 .. Len(s)
  OBVIOUS
<1>2. t[Len(s) + 1] = x /\ \A i \in 1 .. Len(s) : t[i] = s[i]
  OBVIOUS
<1>3. Len(s) \in Nat
  OBVIOUS
<1> HIDE DEF t
<1>4. ASSUME NEW y \in Range(t) PROVE y \in Range(s) \cup {x}
  <2>1. PICK i \in DOMAIN t : t[i] = y
    BY DEF Range
  <2>2. QED
    BY <1>1, <1>2, <1>3, <2>1 DEF Range
<1>5. ASSUME NEW y \in Range(s) \cup {x} PROVE y \in Range(t)
  BY <1>1, <1>2, <1>3 DEF Range
<1>6. QED
  BY <1>1, <1>4, <1>5 DEF t

(* A position closed at bar i: one trade more.                             *)
ClosedAt(c, s, i, price, reason) ==
  /\ c \in Simulated /\ c.held = FALSE /\ c.out = TRUE /\ c.at = s.at
  /\ Range(c.trades) = Range(s.trades) \cup
       {[entered |-> s.at, exited |-> i, entry |-> s.entry, exit |-> price, reason |-> reason]}

(* A trade that is closed enters the record once, at the price it is       *)
(* given.                                                                  *)
LEMMA CloseRule ==
  ASSUME NEW s \in Simulated, NEW i \in Int, NEW price \in Int, NEW reason \in Reasons
  PROVE  ClosedAt(Close(s, i, price, reason), s, i, price, reason)
<1> DEFINE x == [entered |-> s.at, exited |-> i, entry |-> s.entry, exit |-> price, reason |-> reason]
           c == Close(s, i, price, reason)
<1>1. x \in Trades4h /\ s.trades \in Seq(Trades4h)
  BY DEF Trades4h, Simulated
<1>2. Append(s.trades, x) \in Seq(Trades4h) /\ Range(Append(s.trades, x)) = Range(s.trades) \cup {x}
  <2> HIDE DEF x
  <2>1. QED
    BY <1>1, RangeAppend
<1>3. c = [s EXCEPT !.held = FALSE, !.out = TRUE, !.trades = Append(s.trades, x)]
  BY DEF Close
<1> HIDE DEF x, c
<1>4. /\ c \in Simulated /\ c.held = FALSE /\ c.out = TRUE /\ c.at = s.at
      /\ c.trades = Append(s.trades, x)
  BY <1>2, <1>3 DEF Simulated
<1>5. QED
  BY <1>2, <1>4 DEF x, c, ClosedAt

(* What happens at the open to a position that is to be left.              *)
Leaving(s) == s.held /\ s.exit # "no"

LeftAt(f, s, price, i) ==
  /\ f \in Simulated /\ f.at = s.at
  /\ Leaving(s) =>
       /\ f.held = FALSE /\ f.out = TRUE
       /\ Range(f.trades) = Range(s.trades) \cup
            {[entered |-> s.at, exited |-> i, entry |-> s.entry, exit |-> price, reason |-> s.exit]}
  /\ ~Leaving(s) => f.held = s.held /\ f.trades = s.trades

(* Leaving at the open closes the trade that is held; else it stays.       *)
LEMMA LeaveRule ==
  ASSUME NEW s \in Simulated, NEW bars, NEW i \in Int, bars[i] \in FourHours
  PROVE  LeftAt(LeaveAtOpen(s, bars, i), s, bars[i].open, i)
<1> DEFINE fresh == [s EXCEPT !.out = FALSE]
           f == LeaveAtOpen(s, bars, i)
<1>1. /\ fresh \in Simulated /\ fresh.at = s.at /\ fresh.held = s.held /\ fresh.entry = s.entry
      /\ fresh.exit = s.exit /\ fresh.trades = s.trades
  BY DEF Simulated
<1>2. bars[i].open \in Int /\ s.exit \in Reasons
  BY DEF FourHours, Simulated
<1>3. CASE Leaving(s)
  <2> DEFINE c == Close(fresh, i, bars[i].open, s.exit)
  <2>1. ClosedAt(c, fresh, i, bars[i].open, s.exit)
    <3> HIDE DEF fresh
    <3>1. QED
      BY <1>1, <1>2, CloseRule
  <2>2. f = [c EXCEPT !.exit = "no"] /\ "no" \in Reasons
    BY <1>3 DEF LeaveAtOpen, Leaving, Reasons
  <2> HIDE DEF c, f
  <2>3. /\ c \in Simulated /\ c.held = FALSE /\ c.out = TRUE /\ c.at = s.at
        /\ Range(c.trades) = Range(s.trades) \cup
             {[entered |-> s.at, exited |-> i, entry |-> s.entry,
               exit |-> bars[i].open, reason |-> s.exit]}
    <3> HIDE DEF fresh
    <3>1. QED
      BY <1>1, <2>1 DEF ClosedAt
  <2> HIDE DEF fresh
  <2>4. /\ f \in Simulated /\ f.at = c.at /\ f.held = c.held /\ f.out = c.out
        /\ f.trades = c.trades
    BY <2>2, <2>3, SMTT(20) DEF Simulated
  <2>5. QED
    BY <1>3, <2>3, <2>4 DEF f, LeftAt
<1>4. CASE ~Leaving(s)
  <2>1. f = fresh
    BY <1>4 DEF LeaveAtOpen, Leaving
  <2> HIDE DEF f, fresh
  <2>2. QED
    BY <1>1, <1>4, <2>1 DEF f, LeftAt
<1>5. QED
  BY <1>3, <1>4

(* What happens at the open without a position.                            *)
Entering(s) == ~s.held /\ s.enter /\ ~s.out

EnteredAt(e, s, i) ==
  /\ e \in Simulated /\ e.trades = s.trades
  /\ Entering(s) => e.held = TRUE /\ e.at = i
  /\ ~Entering(s) => e.held = s.held /\ e.at = s.at

(* Entering holds a trade from this bar on; else nothing changes.          *)
LEMMA EnterRule ==
  ASSUME NEW s \in Simulated, NEW bars, NEW i \in Int, bars[i] \in FourHours, NEW r \in Int
  PROVE  EnteredAt(EnterAtOpen(s, bars, i, r), s, i)
<1> DEFINE e == EnterAtOpen(s, bars, i, r)
<1>1. bars[i].open \in Int
  BY DEF FourHours
<1>2. CASE Entering(s)
  <2>1. e = [s EXCEPT !.held = TRUE, !.at = i, !.entry = bars[i].open,
                      !.stop = bars[i].open - r, !.hit = FALSE, !.enter = FALSE]
    BY <1>2 DEF EnterAtOpen, Entering
  <2> HIDE DEF e
  <2>2. e = [held |-> TRUE, at |-> i, entry |-> bars[i].open, stop |-> bars[i].open - r,
             hit |-> FALSE, exit |-> s.exit, enter |-> FALSE, trades |-> s.trades, out |-> s.out]
    BY <2>1 DEF Simulated
  <2>3. s.exit \in Reasons /\ s.trades \in Seq(Trades4h) /\ s.out \in BOOLEAN
    BY DEF Simulated
  <2>4. e \in Simulated /\ e.trades = s.trades /\ e.held = TRUE /\ e.at = i
    BY <1>1, <2>2, <2>3 DEF Simulated
  <2>5. QED
    BY <1>2, <2>4 DEF e, EnteredAt
<1>3. CASE ~Entering(s)
  <2>1. e = [s EXCEPT !.enter = FALSE]
    BY <1>3 DEF EnterAtOpen, Entering
  <2> HIDE DEF e
  <2>2. e \in Simulated /\ e.trades = s.trades /\ e.held = s.held /\ e.at = s.at
    BY <2>1 DEF Simulated
  <2>3. QED
    BY <1>3, <2>2 DEF e, EnteredAt
<1>4. QED
  BY <1>2, <1>3

(* The stop within the bar: a gap below it is filled at the open.          *)
StoppedAt(t, s, open, i) ==
  /\ t \in Simulated /\ t.at = s.at
  /\ \/ t = s /\ (~s.held \/ i = s.at \/ open > s.stop)
     \/ /\ s.held /\ i # s.at /\ open <= s.stop /\ t.held = FALSE
        /\ Range(t.trades) = Range(s.trades) \cup
             {[entered |-> s.at, exited |-> i, entry |-> s.entry, exit |-> open, reason |-> "stop_gap"]}
     \/ /\ s.held /\ i # s.at /\ open > s.stop /\ t.held = FALSE
        /\ Range(t.trades) = Range(s.trades) \cup
             {[entered |-> s.at, exited |-> i, entry |-> s.entry, exit |-> s.stop, reason |-> "stop"]}

(* A stop within the bar closes the trade, at the open when that is below  *)
(* it.                                                                     *)
LEMMA StopRule ==
  ASSUME NEW s \in Simulated, NEW bars, NEW i \in Int, bars[i] \in FourHours
  PROVE  StoppedAt(StopWithin(s, bars, i), s, bars[i].open, i)
<1> DEFINE t == StopWithin(s, bars, i)
           open == bars[i].open
<1>1. /\ open \in Int /\ s.stop \in Int /\ s.held \in BOOLEAN
      /\ "stop" \in Reasons /\ "stop_gap" \in Reasons
  BY DEF FourHours, Simulated, Reasons
<1>2. CASE ~s.held \/ i = s.at
  BY <1>2 DEF StopWithin, StoppedAt
<1>3. CASE ~(~s.held \/ i = s.at) /\ open <= s.stop
  <2> DEFINE reason == "stop_gap"
  <2>1. t = Close(s, i, open, reason) /\ reason \in Reasons
    BY <1>1, <1>3 DEF StopWithin
  <2> HIDE DEF open, t, reason
  <2>2. ClosedAt(t, s, i, open, reason)
    BY <1>1, <2>1, CloseRule
  <2>3. t \in Simulated /\ t.at = s.at /\ s.held /\ i # s.at /\ open <= s.stop /\ t.held = FALSE
    BY <1>3, <2>2 DEF ClosedAt
  <2>4. QED
    BY <2>2, <2>3 DEF ClosedAt, StoppedAt, t, open, reason
<1>4. CASE ~(~s.held \/ i = s.at) /\ ~(open <= s.stop) /\ bars[i].low <= s.stop
  <2> DEFINE price == s.stop
             reason == "stop"
  <2>1. t = Close(s, i, price, reason) /\ price \in Int /\ reason \in Reasons
    BY <1>1, <1>4 DEF StopWithin
  <2> HIDE DEF open, t, price, reason
  <2>2. ClosedAt(t, s, i, price, reason)
    BY <1>1, <2>1, CloseRule
  <2>3. t \in Simulated /\ t.at = s.at /\ s.held /\ i # s.at /\ open > s.stop /\ t.held = FALSE
    BY <1>1, <1>4, <2>2 DEF ClosedAt
  <2>4. QED
    BY <2>2, <2>3 DEF ClosedAt, StoppedAt, t, open, price, reason
<1>5. CASE ~(~s.held \/ i = s.at) /\ ~(open <= s.stop) /\ ~(bars[i].low <= s.stop)
  <2>1. t = s
    BY <1>5 DEF StopWithin
  <2>2. open > s.stop
    BY <1>1, <1>5
  <2>3. QED
    BY <2>1, <2>2 DEF StoppedAt
<1>6. QED
  BY <1>2, <1>3, <1>4, <1>5 DEF StoppedAt

(* The close decides, and changes neither the position nor the trades.     *)
LEMMA AtCloseRule ==
  ASSUME NEW s \in Simulated, NEW bars, NEW i \in Int, bars[i] \in FourHours, NEW p \in Parameters
  PROVE  LET c == AtClose(s, bars, i, p)
         IN c \in Simulated /\ c.trades = s.trades /\ c.held = s.held /\ c.at = s.at
<1> DEFINE c == AtClose(s, bars, i, p)
<1>1. CASE ~s.held
  <2>1. c = [s EXCEPT !.enter = bars[i].signal /\ i < Len(bars)]
    BY <1>1 DEF AtClose
  <2>2. (bars[i].signal /\ i < Len(bars)) \in BOOLEAN
    BY Zenon
  <2> HIDE DEF c
  <2>3. c \in Simulated /\ c.trades = s.trades /\ c.held = s.held /\ c.at = s.at
    BY <2>1, <2>2 DEF Simulated
  <2>4. QED
    BY <2>3 DEF c
<1>2. CASE s.held
  <2> DEFINE even == IF bars[i].close >= s.entry + p.evenFrom * p.r THEN Raise(s.stop, s.entry) ELSE s.stop
             stop == IF bars[i].close >= s.entry + p.trailFrom * p.r
                     THEN Raise(even, bars[i].close - p.trail * bars[i].atr) ELSE even
             hit == s.hit \/ bars[i].close >= s.entry + p.minGain
             exit == IF bars[i].weak THEN "ema_slow"
                     ELSE IF i - s.at >= p.maxBars /\ ~hit THEN "time" ELSE "no"
  <2>1. c = [s EXCEPT !.stop = stop, !.hit = hit, !.exit = exit]
    BY <1>2 DEF AtClose
  <2>2. stop \in Int
    <3>1. s.stop \in Int /\ s.entry \in Int
      BY DEF Simulated
    <3>2. bars[i].close \in Int /\ p.trail * bars[i].atr \in Int
      BY DEF FourHours, Parameters
    <3>3. even \in Int
      BY <3>1 DEF Raise
    <3> HIDE DEF even
    <3>4. Raise(even, bars[i].close - p.trail * bars[i].atr) \in Int
      BY <3>2, <3>3 DEF Raise
    <3>5. QED
      BY <3>3, <3>4
  <2>3. hit \in BOOLEAN
    <3>1. s.hit \in BOOLEAN
      BY DEF Simulated
    <3>2. QED
      BY <3>1, Zenon
  <2>4. exit \in Reasons
    BY DEF Reasons
  <2> HIDE DEF c, stop, hit, exit
  <2>5. c \in Simulated /\ c.trades = s.trades /\ c.held = s.held /\ c.at = s.at
    BY <2>1, <2>2, <2>3, <2>4 DEF Simulated
  <2>6. QED
    BY <2>5 DEF c
<1>3. QED
  BY <1>1, <1>2

(* Before bar i nothing has happened at it.                                *)
Until(s, i) ==
  s \in Simulated /\ s.at < i /\ \A x \in Range(s.trades) : x.exited < i

(* At its open at most one position is left, and then none is entered.     *)
AtTheOpen(o, i) ==
  /\ o \in Simulated /\ o.at <= i
  /\ \A x \in Range(o.trades) : x.exited <= i
  /\ \A x, y \in Range(o.trades) : x.exited = i /\ y.exited = i => x.exit = y.exit
  /\ o.held /\ o.at # i => \A x \in Range(o.trades) : x.exited < i

(* A trade has times and a price.                                          *)
LEMMA TradeTypes ==
  ASSUME NEW s \in Simulated, NEW x \in Range(s.trades)
  PROVE  x.exited \in Int /\ x.exit \in Int
<1>1. s.trades \in Seq(Trades4h)
  BY DEF Simulated
<1>2. PICK j \in DOMAIN s.trades : s.trades[j] = x
  BY DEF Range
<1>3. x \in Trades4h
  BY <1>1, <1>2
<1>4. QED
  BY <1>3 DEF Trades4h

(* The open of a bar leaves the simulator in that state.                   *)
LEMMA OpenRule ==
  ASSUME NEW i \in Int, NEW s, Until(s, i), NEW bars, bars[i] \in FourHours, NEW p \in Parameters
  PROVE  AtTheOpen(Opened(bars, s, i, p), i)
<1> DEFINE f == LeaveAtOpen(s, bars, i)
           o == Opened(bars, s, i, p)
           x0 == [entered |-> s.at, exited |-> i, entry |-> s.entry,
                  exit |-> bars[i].open, reason |-> s.exit]
<1>1. /\ s \in Simulated /\ s.at \in Int /\ s.at < i
      /\ \A x \in Range(s.trades) : x.exited < i /\ x.exited \in Int
  BY TradeTypes DEF Until, Simulated
<1>2. p.r \in Int
  BY DEF Parameters
<1>3. LeftAt(f, s, bars[i].open, i)
  BY <1>1, LeaveRule
<1>4. o = EnterAtOpen(f, bars, i, p.r)
  BY DEF Opened
<1>5. x0.exited = i
  OBVIOUS
<1> HIDE DEF f, o, x0
<1>6. EnteredAt(o, f, i)
  BY <1>2, <1>3, <1>4, EnterRule DEF LeftAt
<1>7. o \in Simulated /\ o.at <= i
  BY <1>1, <1>3, <1>6 DEF LeftAt, EnteredAt
<1>8. CASE Leaving(s)
  <2>1. ~Entering(f) /\ o.held = FALSE /\ Range(o.trades) = Range(s.trades) \cup {x0}
    BY <1>3, <1>6, <1>8 DEF Entering, LeftAt, EnteredAt, x0
  <2>2. \A x \in Range(o.trades) : x.exited <= i /\ (x.exited = i => x = x0)
    BY <1>1, <1>5, <2>1
  <2>3. QED
    BY <1>7, <2>1, <2>2 DEF AtTheOpen, o
<1>9. CASE ~Leaving(s)
  <2>1. Range(o.trades) = Range(s.trades)
    BY <1>3, <1>6, <1>9 DEF LeftAt, EnteredAt
  <2>2. \A x \in Range(o.trades) : x.exited <= i /\ x.exited < i /\ x.exited # i
    BY <1>1, <2>1
  <2>3. QED
    BY <1>7, <2>2 DEF AtTheOpen, o
<1>10. QED
  BY <1>8, <1>9

(* A whole bar does nothing beyond it.                                     *)
LEMMA TurnRule ==
  ASSUME NEW i \in Int, NEW s, Until(s, i), NEW bars, bars[i] \in FourHours, NEW p \in Parameters
  PROVE  Until(Turn(bars, s, i, p), i + 1)
<1> DEFINE o == Opened(bars, s, i, p)
           t == StopWithin(o, bars, i)
           c == AtClose(t, bars, i, p)
<1>1. AtTheOpen(o, i)
  BY OpenRule
<1>2. Turn(bars, s, i, p) = c
  BY DEF Turn
<1> HIDE DEF o
<1>3. /\ o \in Simulated /\ o.at <= i /\ o.at \in Int
      /\ \A x \in Range(o.trades) : x.exited <= i /\ x.exited \in Int
  BY <1>1, TradeTypes DEF AtTheOpen, Simulated
<1>4. StoppedAt(t, o, bars[i].open, i)
  BY <1>3, StopRule
<1> HIDE DEF t
<1>5. t \in Simulated /\ t.at = o.at /\ \A x \in Range(t.trades) : x \in Range(o.trades) \/ x.exited = i
  BY <1>4 DEF StoppedAt
<1>6. c \in Simulated /\ c.trades = t.trades /\ c.at = t.at
  BY <1>5, AtCloseRule
<1> HIDE DEF c
<1>7. c.at < i + 1 /\ \A x \in Range(c.trades) : x.exited < i + 1
  BY <1>3, <1>5, <1>6
<1>8. QED
  BY <1>2, <1>6, <1>7 DEF Until

(* Two histories that agree on a bar, and are as long, take it alike; two  *)
(* that agree on its open open it alike.                                   *)
LEMMA AlikeTurns ==
  ASSUME NEW i, NEW s, NEW bars, NEW other, bars[i] = other[i], Len(bars) = Len(other), NEW p
  PROVE  Turn(bars, s, i, p) = Turn(other, s, i, p)
<1>1. \A x : LeaveAtOpen(x, bars, i) = LeaveAtOpen(x, other, i)
  BY DEF LeaveAtOpen
<1>2. \A x : EnterAtOpen(x, bars, i, p.r) = EnterAtOpen(x, other, i, p.r)
  BY DEF EnterAtOpen
<1>3. \A x : StopWithin(x, bars, i) = StopWithin(x, other, i)
  BY DEF StopWithin
<1>4. \A x : AtClose(x, bars, i, p) = AtClose(x, other, i, p)
  BY DEF AtClose
<1>5. QED
  BY <1>1, <1>2, <1>3, <1>4 DEF Turn, Opened

(* Bars that open alike leave alike and enter alike.                       *)
LEMMA AlikeOpens ==
  ASSUME NEW i, NEW s, NEW bars, NEW other, bars[i].open = other[i].open, NEW p
  PROVE  Opened(bars, s, i, p) = Opened(other, s, i, p)
<1>1. \A x : LeaveAtOpen(x, bars, i) = LeaveAtOpen(x, other, i)
  BY DEF LeaveAtOpen
<1>2. \A x : EnterAtOpen(x, bars, i, p.r) = EnterAtOpen(x, other, i, p.r)
  BY DEF EnterAtOpen
<1>3. QED
  BY <1>1, <1>2 DEF Opened

(* From the same open of the last bar: the position entered, the trades of *)
(* the bars before, and the price of the trade the bar closes.             *)
LEMMA LastBar ==
  ASSUME NEW i \in Int, NEW o, AtTheOpen(o, i), NEW open \in Int, NEW t, StoppedAt(t, o, open, i),
         NEW u, StoppedAt(u, o, open, i)
  PROVE  /\ (t.held /\ t.at = i) = (u.held /\ u.at = i)
         /\ {x \in Range(t.trades) : x.exited < i} = {x \in Range(u.trades) : x.exited < i}
         /\ \A x \in {y \in Range(t.trades) : y.exited = i} : x.reason # "stop" =>
              x \in {y \in Range(u.trades) : y.exited = i}
         /\ \A x \in {z \in Range(t.trades) : z.exited = i}, y \in {z \in Range(u.trades) : z.exited = i} :
              x.exit = y.exit
<1> DEFINE gap == [entered |-> o.at, exited |-> i, entry |-> o.entry, exit |-> open,
                   reason |-> "stop_gap"]
           stop == [entered |-> o.at, exited |-> i, entry |-> o.entry, exit |-> o.stop,
                    reason |-> "stop"]
<1>1. /\ gap.exited = i /\ gap.exit = open /\ stop.exited = i /\ stop.exit = o.stop
      /\ stop.reason = "stop"
  OBVIOUS
<1>2. o.stop \in Int /\ o.at \in Int
  BY DEF AtTheOpen, Simulated
<1>3. /\ t.at = o.at /\ u.at = o.at
      /\ \/ t = o /\ (~o.held \/ i = o.at \/ open > o.stop)
         \/ /\ o.held /\ i # o.at /\ open <= o.stop /\ t.held = FALSE
            /\ Range(t.trades) = Range(o.trades) \cup {gap}
         \/ /\ o.held /\ i # o.at /\ open > o.stop /\ t.held = FALSE
            /\ Range(t.trades) = Range(o.trades) \cup {stop}
      /\ \/ u = o /\ (~o.held \/ i = o.at \/ open > o.stop)
         \/ /\ o.held /\ i # o.at /\ open <= o.stop /\ u.held = FALSE
            /\ Range(u.trades) = Range(o.trades) \cup {gap}
         \/ /\ o.held /\ i # o.at /\ open > o.stop /\ u.held = FALSE
            /\ Range(u.trades) = Range(o.trades) \cup {stop}
  BY DEF StoppedAt
<1> HIDE DEF gap, stop
<1>4. \A x, y \in Range(o.trades) : x.exited = i /\ y.exited = i => x.exit = y.exit
  BY DEF AtTheOpen
<1>5. CASE ~o.held \/ i = o.at
  <2>1. t = o /\ u = o
    BY <1>3, <1>5
  <2>2. QED
    BY <1>4, <2>1
<1>6. CASE o.held /\ i # o.at
  <2>1. \A x \in Range(o.trades) : x.exited < i /\ x.exited # i
    BY <1>6, TradeTypes DEF AtTheOpen
  <2>2. ~(t.held /\ t.at = i) /\ ~(u.held /\ u.at = i)
    BY <1>3, <1>6
  <2>3. CASE open <= o.stop
    <3>1. Range(t.trades) = Range(u.trades) /\ Range(t.trades) = Range(o.trades) \cup {gap}
      BY <1>2, <1>3, <1>6, <2>3
    <3>2. QED
      BY <1>1, <2>1, <2>2, <3>1
  <2>4. CASE open > o.stop
    <3>1. /\ Range(o.trades) \subseteq Range(t.trades)
          /\ Range(t.trades) \subseteq Range(o.trades) \cup {stop}
          /\ Range(o.trades) \subseteq Range(u.trades)
          /\ Range(u.trades) \subseteq Range(o.trades) \cup {stop}
      BY <1>2, <1>3, <1>6, <2>4
    <3>2. /\ {x \in Range(t.trades) : x.exited < i} = Range(o.trades)
          /\ {x \in Range(u.trades) : x.exited < i} = Range(o.trades)
          /\ {x \in Range(t.trades) : x.exited = i} \subseteq {stop}
          /\ {x \in Range(u.trades) : x.exited = i} \subseteq {stop}
      BY <1>1, <2>1, <3>1
    <3>3. QED
      BY <1>1, <2>2, <3>2
  <2>5. QED
    BY <1>2, <2>3, <2>4
<1>7. QED
  BY <1>5, <1>6

(* Two histories of n bars that agree but for the last, n + 1st, and its   *)
(* open: what the last bar starts from is the same.                        *)
LEMMA AlikeBefore ==
  ASSUME NEW bars \in Seq(FourHours), NEW p \in Parameters, NEW b \in FourHours, NEW c \in FourHours
  PROVE  \E s : /\ Until(s, Len(bars) + 1)
               /\ Simulate(Append(bars, b), p, 1) = Turn(Append(bars, b), s, Len(bars) + 1, p)
               /\ Simulate(Append(bars, c), p, 1) = Turn(Append(bars, c), s, Len(bars) + 1, p)
<1> DEFINE n == Len(bars)
           one == Append(bars, b)
           two == Append(bars, c)
<1>1. /\ n \in Nat /\ Len(one) = n + 1 /\ Len(two) = n + 1
      /\ \A i \in 1 .. n : one[i] = two[i] /\ one[i] \in FourHours
  OBVIOUS
<1> HIDE DEF n, one, two
<1>2. PICK u : /\ Simulate(one, p, 1) = u[n + 1] /\ u[0] = Ready
               /\ \A i \in 1 .. n + 1 : u[i] = Turn(one, u[i - 1], i, p)
  BY <1>1, SimulateTurns
<1>3. PICK v : /\ Simulate(two, p, 1) = v[n + 1] /\ v[0] = Ready
               /\ \A i \in 1 .. n + 1 : v[i] = Turn(two, v[i - 1], i, p)
  BY <1>1, SimulateTurns
<1> DEFINE all == {m \in Nat : m <= n => u[m] = v[m] /\ Until(u[m], m + 1)}
<1>4. 0 \in all
  <2>1. /\ Ready.at = 0 /\ Ready.trades = <<>> /\ Range(<<>>) = {}
    BY DEF Ready, Range
  <2>2. Ready \in Simulated
    BY DEF Ready, Simulated, Reasons
  <2>3. Until(Ready, 0 + 1)
    BY <2>1, <2>2 DEF Until
  <2>4. QED
    BY <1>2, <1>3, <2>3
<1>5. ASSUME NEW m \in Nat, m \in all PROVE m + 1 \in all
  <2> SUFFICES ASSUME m + 1 <= n PROVE u[m + 1] = v[m + 1] /\ Until(u[m + 1], m + 1 + 1)
    OBVIOUS
  <2>1. m <= n /\ m + 1 \in 1 .. n /\ m + 1 \in 1 .. n + 1 /\ m + 1 - 1 = m
    BY <1>1
  <2>2. u[m] = v[m] /\ Until(u[m], m + 1)
    BY <1>5, <2>1
  <2>3. u[m + 1] = Turn(one, u[m], m + 1, p) /\ v[m + 1] = Turn(two, u[m], m + 1, p)
    BY <1>2, <1>3, <2>1, <2>2
  <2>4. u[m + 1] = v[m + 1]
    BY <1>1, <2>1, <2>3, AlikeTurns
  <2>5. Until(u[m + 1], m + 1 + 1)
    BY <1>1, <2>1, <2>2, <2>3, TurnRule
  <2>6. QED
    BY <2>4, <2>5
<1>6. n \in all
  <2> HIDE DEF all
  <2>1. QED
    BY <1>1, <1>4, <1>5, AllNaturals
<1>7. /\ u[n] = v[n] /\ Until(u[n], n + 1)
      /\ u[n + 1] = Turn(one, u[n], n + 1, p) /\ v[n + 1] = Turn(two, v[n], n + 1, p)
  BY <1>1, <1>2, <1>3, <1>6
<1>8. QED
  BY <1>2, <1>3, <1>7 DEF n, one, two

(* The simulator decides nothing on the rest of a bar: TradesSeeNoFuture   *)
(* holds of every history of bars and all parameters.                      *)
THEOREM TradesNeverSeeFuture == Spec => []TradesSeeNoFuture
<1>1. AInv => TradesSeeNoFuture
  <2> SUFFICES ASSUME AInv, topic = "breakout", NEW b \in Lasts, NEW c \in Lasts, b.open = c.open
               PROVE  LET last == Len(input.bars) + 1
                          left(s) == {x \in Range(s.trades) : x.exited = last}
                          s == Simulate(Append(input.bars, b), input.p, 1)
                          u == Simulate(Append(input.bars, c), input.p, 1)
                      IN /\ (s.held /\ s.at = last) = (u.held /\ u.at = last)
                         /\ {x \in Range(s.trades) : x.exited < last}
                              = {x \in Range(u.trades) : x.exited < last}
                         /\ \A x \in left(s) : x.reason # "stop" => x \in left(u)
                         /\ \A x \in left(s), y \in left(u) : x.exit = y.exit
    BY DEF TradesSeeNoFuture
  <2> DEFINE bars == input.bars
             p == input.p
             last == Len(bars) + 1
             one == Append(bars, b)
             two == Append(bars, c)
             s == Simulate(one, p, 1)
             u == Simulate(two, p, 1)
  <2>1. bars \in Seq(FourHours) /\ p \in Parameters /\ b \in FourHours /\ c \in FourHours
    BY PastsAssumption DEF AInv, FourHours, Parameters
  <2>2. PICK before : Until(before, last) /\ s = Turn(one, before, last, p) /\ u = Turn(two, before, last, p)
    BY <2>1, AlikeBefore
  <2>3. last \in Int /\ one[last] = b /\ two[last] = c /\ b.open \in Int
    BY <2>1 DEF FourHours
  <2> HIDE DEF bars, p, last, one, two, s, u
  <2> DEFINE o == Opened(one, before, last, p)
             t == StopWithin(o, one, last)
             v == StopWithin(o, two, last)
  <2>4. AtTheOpen(o, last) /\ o \in Simulated
    <3>1. one[last] \in FourHours
      BY <2>1, <2>3
    <3>2. AtTheOpen(o, last)
      BY <2>1, <2>2, <2>3, <3>1, OpenRule
    <3>3. QED
      BY <3>2 DEF AtTheOpen
  <2>5. Opened(two, before, last, p) = o
    BY <2>3, AlikeOpens
  <2>6. s = AtClose(t, one, last, p) /\ u = AtClose(v, two, last, p)
    BY <2>2, <2>5 DEF Turn
  <2> HIDE DEF o
  <2>7. StoppedAt(t, o, b.open, last) /\ StoppedAt(v, o, b.open, last)
    BY <2>1, <2>3, <2>4, StopRule
  <2> HIDE DEF t, v
  <2>8. s.trades = t.trades /\ s.held = t.held /\ s.at = t.at
    BY <2>1, <2>3, <2>6, <2>7, AtCloseRule DEF StoppedAt
  <2>9. u.trades = v.trades /\ u.held = v.held /\ u.at = v.at
    BY <2>1, <2>3, <2>6, <2>7, AtCloseRule DEF StoppedAt
  <2>10. /\ (s.held /\ s.at = last) = (u.held /\ u.at = last)
         /\ {x \in Range(s.trades) : x.exited < last} = {x \in Range(u.trades) : x.exited < last}
         /\ \A x \in {y \in Range(s.trades) : y.exited = last} : x.reason # "stop" =>
              x \in {y \in Range(u.trades) : y.exited = last}
         /\ \A x \in {z \in Range(s.trades) : z.exited = last},
               y \in {z \in Range(u.trades) : z.exited = last} : x.exit = y.exit
    <3>1. /\ (t.held /\ t.at = last) = (v.held /\ v.at = last)
          /\ {x \in Range(t.trades) : x.exited < last} = {x \in Range(v.trades) : x.exited < last}
          /\ \A x \in {y \in Range(t.trades) : y.exited = last} : x.reason # "stop" =>
               x \in {y \in Range(v.trades) : y.exited = last}
          /\ \A x \in {z \in Range(t.trades) : z.exited = last},
                y \in {z \in Range(v.trades) : z.exited = last} : x.exit = y.exit
      BY <2>3, <2>4, <2>7, LastBar
    <3>2. QED
      BY <2>8, <2>9, <3>1
  <2>11. QED
    BY <2>10 DEF bars, p, last, one, two, s, u
<1>2. QED
  BY <1>1, Asked, PTL

-----------------------------------------------------------------------------
(***************************************************************************)
(* The swaps.                                                              *)
(***************************************************************************)
(* Multiplying both sides.                                                 *)
LEMMA Scale ==
  ASSUME NEW a \in Int, NEW b \in Int, NEW c \in Nat, a <= b
  PROVE  a * c <= b * c
<1>1. (b - a) * c >= 0
  OBVIOUS
<1>2. QED
  BY <1>1

(* Twice the reference is from 2 * price * t / 100 to 200 * price / t.     *)
Agrees(price, ref2, t) ==
  ref2 \in Nat /\ t * ref2 <= 200 * price /\ 2 * price * t <= 100 * ref2

(* The sources agree with the reference, each within what the tolerance    *)
(* leaves of a hundred.                                                    *)
LEMMA ReferenceRule ==
  ASSUME NEW req, NEW jup \in Nat, NEW cex \in Nat, NEW tolerance,
         tolerance[req.mode] \in 0 .. 100, Reference2(req, jup, cex, tolerance) > 0,
         NEW price \in {jup, cex} \ {0}
  PROVE  Agrees(price, Reference2(req, jup, cex, tolerance), 100 - tolerance[req.mode])
<1> DEFINE ref2 == Reference2(req, jup, cex, tolerance)
           k == tolerance[req.mode]
           t == 100 - k
<1>1. k \in 0 .. 100 /\ t \in 0 .. 100 /\ t = 100 - k
  OBVIOUS
<1>2. CASE jup > 0 /\ cex > 0
  <2>1. ref2 = jup + cex /\ 100 * Distance(jup, cex) <= k * cex
    BY <1>2 DEF Reference2, Distance
  <2>2. 100 * (jup - cex) <= k * cex /\ 100 * (cex - jup) <= k * cex
    BY <1>1, <2>1 DEF Distance
  <2> HIDE DEF ref2, k, t
  <2>3. k * cex \in Nat /\ k * jup \in Nat /\ t * jup = 100 * jup - k * jup /\ t * cex = 100 * cex - k * cex
    BY <1>1
  <2>4. 100 * jup <= 100 * cex + k * cex /\ 100 * jup >= t * cex
    BY <2>2, <2>3
  <2>5. t * ref2 = t * jup + t * cex
    BY <1>1, <2>1
  <2>6. t * jup <= 100 * cex
    <3>1. t * (100 * jup) <= t * (100 * cex + k * cex)
      BY <1>1, <2>3, <2>4, Scale
    <3>2. t * (100 * cex + k * cex) = cex * (10000 - k * k)
      BY <1>1
    <3>3. cex * (10000 - k * k) <= cex * 10000
      BY <1>1
    <3> DEFINE q == t * jup
               r == t * (100 * jup)
    <3>4. r = 100 * q /\ q \in Int
      BY <1>1
    <3>5. r <= cex * 10000
      BY <1>1, <3>1, <3>2, <3>3, <3>4
    <3> HIDE DEF q, r
    <3>6. q <= 100 * cex
      BY <3>4, <3>5
    <3>7. QED
      BY <3>6 DEF q
  <2>7. ref2 \in Nat /\ ref2 = jup + cex
    BY <2>1
  <2> DEFINE tj == t * jup
             tc == t * cex
             tr == t * ref2
             kj == k * jup
             kc == k * cex
  <2>8. /\ kc \in Nat /\ kj \in Nat /\ tj = 100 * jup - kj /\ tc = 100 * cex - kc
        /\ tr = tj + tc /\ tj <= 100 * cex /\ 100 * jup >= tc
    BY <2>3, <2>4, <2>5, <2>6
  <2>9. 2 * jup * t = 2 * tj /\ 2 * cex * t = 2 * tc
    BY <1>1
  <2>10. tr <= 200 * jup /\ tr <= 200 * cex /\ 2 * tj <= 100 * ref2 /\ 2 * tc <= 100 * ref2
    <3> HIDE DEF tj, tc, tr, kj, kc
    <3>1. QED
      BY <2>7, <2>8
  <2>11. t * ref2 <= 200 * price /\ 2 * price * t <= 100 * ref2
    <3>1. CASE price = jup
      BY <2>9, <2>10, <3>1
    <3>2. CASE price = cex
      BY <2>9, <2>10, <3>2
    <3>3. QED
      BY <3>1, <3>2
  <2>12. QED
    BY <2>7, <2>11 DEF ref2, k, t, Agrees
<1>3. CASE ~(jup > 0 /\ cex > 0)
  <2>1. ref2 = 2 * (jup + cex)
    BY <1>3 DEF Reference2
  <2>2. jup + cex = price
    BY <1>3
  <2> HIDE DEF ref2, k, t
  <2>3. t * price <= 100 * price /\ ref2 = 2 * price
    BY <1>1, <2>1, <2>2
  <2>4. QED
    BY <1>1, <2>3 DEF ref2, k, t, Agrees
<1>4. QED
  BY <1>2, <1>3

(* What a buyer paid is within d and the two tolerances of the price of    *)
(* what came out, and what a seller of a got is not below it.              *)
PaidWithin(in, t, l, price, d, out) == in * (t * l) <= price * d * out
GotWithin(out, price, a, t, l, d) == 100 * 1000 * 1000 * out >= price * a * (t * l) * d

(* The bounds on the quote, on the reference and on the output.            *)
BuyLimits(in, a, o, ref2, price, d, t, l, out) ==
  /\ in <= a /\ 20000 * a <= d * (ref2 * o)
  /\ t * ref2 <= 200 * price /\ o * l <= 100 * out
SellLimits(a, o, ref2, price, d, t, l, out) ==
  /\ d * (ref2 * a) <= 20000 * o
  /\ 2 * price * t <= 100 * ref2 /\ o * l <= 100 * out

(* The limits multiply: a bound on the quote's price, one on the reference *)
(* and one on the output give one on what was paid, and on what was got.   *)
LEMMA BuyBound ==
  ASSUME NEW a \in Nat, NEW o \in Nat, NEW ref2 \in Nat, NEW price \in Nat, NEW d \in Nat,
         NEW t \in Nat, NEW l \in Nat, NEW in \in Int, NEW out \in Nat,
         BuyLimits(in, a, o, ref2, price, d, t, l, out)
  PROVE  PaidWithin(in, t, l, price, d, out)
<1>0. /\ in <= a /\ 20000 * a <= d * (ref2 * o)
      /\ t * ref2 <= 200 * price /\ o * l <= 100 * out
  BY DEF BuyLimits
<1>1. t * l \in Nat /\ ref2 * o \in Nat /\ price * out \in Nat /\ t * ref2 \in Nat /\ o * l \in Nat
  OBVIOUS
<1>2. in * (t * l) <= a * (t * l)
  BY <1>0, <1>1, Scale
<1>3. (20000 * a) * (t * l) <= (d * (ref2 * o)) * (t * l)
  BY <1>0, <1>1, Scale
<1>4. (d * (ref2 * o)) * (t * l) = ((t * ref2) * (o * l)) * d
  OBVIOUS
<1>5. (t * ref2) * (o * l) <= (200 * price) * (o * l)
  BY <1>0, <1>1, Scale
<1>6. (o * l) * (200 * price) <= (100 * out) * (200 * price)
  BY <1>0, <1>1, Scale
<1> DEFINE x == (t * ref2) * (o * l)
           y == price * out
           z == a * (t * l)
<1>7. x \in Int /\ y \in Nat /\ z \in Nat /\ x <= 20000 * y
  BY <1>1, <1>5, <1>6
<1>8. 20000 * z <= x * d
  BY <1>3, <1>4
<1>9. z <= y * d
  <2> HIDE DEF x, y, z
  <2>1. x * d <= (20000 * y) * d
    BY <1>7, Scale
  <2>2. (20000 * y) * d = 20000 * (y * d) /\ y * d \in Nat
    BY <1>7
  <2>3. QED
    BY <1>7, <1>8, <2>1, <2>2
<1>10. y * d = price * d * out
  OBVIOUS
<1>11. in * (t * l) <= z
  BY <1>2
<1>12. QED
  BY <1>7, <1>9, <1>10, <1>11 DEF PaidWithin

(* The same for a sale, where more is better.                              *)
LEMMA SellBound ==
  ASSUME NEW a \in Nat, NEW o \in Nat, NEW ref2 \in Nat, NEW price \in Nat, NEW d \in Nat,
         NEW t \in Nat, NEW l \in Nat, NEW out \in Nat,
         SellLimits(a, o, ref2, price, d, t, l, out)
  PROVE  GotWithin(out, price, a, t, l, d)
<1> DEFINE e == d * a * l
           x == (2 * price * t) * e
           y == (100 * ref2) * e
           w == price * a * (t * l) * d
           v == (d * (ref2 * a)) * l
<1>0. d * (ref2 * a) <= 20000 * o /\ 2 * price * t <= 100 * ref2 /\ o * l <= 100 * out
  BY DEF SellLimits
<1>1. e \in Nat
  OBVIOUS
<1>2. x <= y
  <2>1. 2 * price * t \in Int /\ 100 * ref2 \in Int
    OBVIOUS
  <2> HIDE DEF e
  <2>2. QED
    BY <1>0, <1>1, <2>1, Scale
<1>3. x = 2 * w /\ y = 100 * v
  OBVIOUS
<1>4. v <= (20000 * o) * l /\ v \in Int
  BY <1>0, Scale
<1>5. (20000 * o) * l = 20000 * (o * l) /\ o * l \in Int
  OBVIOUS
<1>6. w \in Int
  OBVIOUS
<1>7. 100 * 1000 * 1000 * out >= w
  <2> DEFINE g == o * l
  <2>1. g <= 100 * out /\ v <= 20000 * g /\ g \in Int
    BY <1>0, <1>4, <1>5
  <2> HIDE DEF e, x, y, w, v, g
  <2>2. QED
    BY <1>2, <1>3, <1>4, <1>6, <2>1
<1>8. QED
  BY <1>7 DEF GotWithin

(* What check_quote leaves: a price within d percent of the reference.     *)
Within(req, quote, ref2, d) ==
  /\ quote.in = req.amount /\ quote.out \in Nat
  /\ req.side = "buy" => 20000 * req.amount <= (100 + d) * (ref2 * quote.out)
  /\ req.side # "buy" => (100 - d) * (ref2 * req.amount) <= 20000 * quote.out

(* A quote that passes check_quote is within its limit.                    *)
LEMMA QuoteRule ==
  ASSUME NEW req, NEW quote, NEW ref2 \in Nat, NEW cfg, QuoteFits(req, quote, ref2, cfg),
         req.amount \in Nat, quote.out \in Int, cfg.deviation[Tier(req)] \in 0 .. 100
  PROVE  Within(req, quote, ref2, cfg.deviation[Tier(req)])
<1> DEFINE d == cfg.deviation[Tier(req)]
           a == req.amount
           o == quote.out
<1>1. quote.in = a /\ o \in Nat /\ a \in Nat /\ d \in 0 .. 100
  BY DEF QuoteFits
<1>2. 100 * Distance(2 * Paid(req, quote), ref2 * Got(req, quote)) <= d * ref2 * Got(req, quote)
  BY DEF QuoteFits
<1> HIDE DEF d, a, o
<1>3. CASE req.side = "buy"
  <2>1. Paid(req, quote) = 100 * a /\ Got(req, quote) = o
    BY <1>1, <1>3 DEF Paid, Got, o
  <2> DEFINE q == ref2 * o
  <2>2. 100 * Distance(2 * (100 * a), q) <= d * q /\ q \in Nat
    BY <1>1, <1>2, <2>1
  <2>3. (100 + d) * q = 100 * q + d * q /\ d * q \in Int
    BY <1>1, <2>2
  <2> DEFINE dq == d * q
  <2>4. 20000 * a <= 100 * q + dq
    <3>1. 100 * Distance(2 * (100 * a), q) <= dq /\ dq \in Int
      BY <2>2, <2>3
    <3> HIDE DEF q, dq
    <3>2. QED
      BY <1>1, <2>2, <3>1 DEF Distance
  <2>5. 20000 * a <= (100 + d) * q
    BY <2>3, <2>4
  <2>6. QED
    BY <1>1, <1>3, <2>5 DEF d, a, o, Within
<1>4. CASE req.side # "buy"
  <2>1. Paid(req, quote) = 100 * o /\ Got(req, quote) = a
    BY <1>1, <1>4 DEF Paid, Got, o
  <2> DEFINE q == ref2 * a
  <2>2. 100 * Distance(2 * (100 * o), q) <= d * q /\ q \in Nat
    BY <1>1, <1>2, <2>1
  <2>3. (100 - d) * q = 100 * q - d * q /\ d * q \in Int
    BY <1>1, <2>2
  <2> DEFINE dq == d * q
  <2>4. 100 * q - dq <= 20000 * o
    <3>1. 100 * Distance(2 * (100 * o), q) <= dq /\ dq \in Int
      BY <2>2, <2>3
    <3> HIDE DEF q, dq
    <3>2. QED
      BY <1>1, <2>2, <3>1 DEF Distance
  <2>5. (100 - d) * q <= 20000 * o
    BY <2>3, <2>4
  <2>6. QED
    BY <1>1, <1>4, <2>5 DEF d, a, o, Within
<1>5. QED
  BY <1>3, <1>4

(* The least output is what the slippage leaves, rounded down.             *)
LEMMA MinOutRule ==
  ASSUME NEW req, NEW quote, NEW cfg, quote.out \in Nat, cfg.slippage[Tier(req)] \in 0 .. 100
  PROVE  /\ MinOut(req, quote, cfg) \in Nat
         /\ quote.out * (100 - cfg.slippage[Tier(req)]) <= 100 * (MinOut(req, quote, cfg) + 1)
<1> DEFINE q == quote.out * (100 - cfg.slippage[Tier(req)])
<1>1. q \in Nat /\ MinOut(req, quote, cfg) = q \div 100
  BY DEF MinOut
<1> HIDE DEF q
<1>2. q \div 100 \in Nat /\ q <= 100 * (q \div 100 + 1)
  BY <1>1
<1>3. QED
  BY <1>1, <1>2 DEF q

(* A wallet of whole amounts.                                              *)
Whole(w) == w.lamports \in Int /\ \A m \in DOMAIN w.held : w.held[m] \in Int

(* What the simulation check leaves: what is paid, what is got, the        *)
(* reserve and every other account.                                        *)
LEMMA FillRule ==
  ASSUME NEW req, NEW quote, NEW cfg, NEW pre, NEW post, NEW fee \in Int, NEW sim,
         sim = [ok |-> TRUE, altered |-> {}, lamports |-> post.lamports, held |-> post.held],
         Whole(pre), Whole(post), cfg.allowance \in Int, cfg.reserve \in Int,
         req.leg # "usdc", quote.in \in Nat, MinOut(req, quote, cfg) \in Nat,
         ReserveKept(req, quote, pre, cfg), SimulationFits(req, quote, pre, sim, cfg)
  PROVE  LET fill == RealisedFill(req, pre, post, fee)
             slack(mint) == IF mint = "sol" THEN cfg.allowance - fee ELSE 0
         IN /\ fill.in \in Int /\ fill.out \in Int /\ post.lamports \in Int
            /\ post.lamports >= cfg.reserve
            /\ \A m \in (DOMAIN pre.held) \ {InMint(req), OutMint(req), "sol"} :
                 Held(post, m) >= Held(pre, m)
            /\ fill.in - slack(InMint(req)) <= quote.in
            /\ fill.out + slack(OutMint(req)) >= MinOut(req, quote, cfg)
<1> DEFINE mo == MinOut(req, quote, cfg)
           in == InMint(req)
           out == OutMint(req)
           fill == RealisedFill(req, pre, post, fee)
<1>1. in # out /\ Spend(req, quote) = (IF in = "sol" THEN quote.in ELSE 0)
  BY DEF InMint, OutMint, Spend
<1>2. /\ sim.lamports = post.lamports /\ sim.held = post.held
      /\ pre.lamports \in Int /\ post.lamports \in Int
  BY DEF Whole
<1>3. \A m : Held(pre, m) \in Int /\ Held(post, m) \in Int
  BY DEF Whole, Held
<1>4. /\ pre.lamports - post.lamports <= Spend(req, quote) + cfg.allowance
      /\ out = "sol" => post.lamports - pre.lamports >= mo - cfg.allowance
      /\ \A m \in DOMAIN pre.held \cup {in, out} : AccountFits(req, quote, pre, sim, m, cfg)
  BY <1>2 DEF SimulationFits
<1>5. fill.in = 0 - Change(pre, post, fee, in) /\ fill.out = Change(pre, post, fee, out)
  BY DEF RealisedFill
<1>6. /\ Change(pre, post, fee, "sol") = post.lamports - pre.lamports + fee
      /\ \A m : m # "sol" => Change(pre, post, fee, m) = Held(post, m) - Held(pre, m)
  BY DEF Change
<1>7. post.lamports >= cfg.reserve
  <2>1. Spend(req, quote) \in Int
    BY <1>1
  <2>2. QED
    BY <1>2, <1>4, <2>1 DEF ReserveKept
<1>8. ASSUME NEW m \in (DOMAIN pre.held) \ {in, out, "sol"} PROVE Held(post, m) >= Held(pre, m)
  <2>1. AccountFits(req, quote, pre, sim, m, cfg)
    BY <1>4
  <2>2. m \in DOMAIN post.held /\ post.held[m] >= Held(pre, m)
    BY <1>2, <2>1 DEF AccountFits
  <2>3. QED
    BY <2>2 DEF Held
<1>9. ASSUME in # "sol" PROVE Held(pre, in) - Held(post, in) <= quote.in
  <2>1. AccountFits(req, quote, pre, sim, in, cfg)
    BY <1>4
  <2>2. CASE in \notin DOMAIN post.held
    <3>1. in \notin DOMAIN pre.held
      BY <1>2, <1>9, <2>1, <2>2 DEF AccountFits
    <3>2. QED
      BY <2>2, <3>1 DEF Held
  <2>3. CASE in \in DOMAIN post.held
    <3>1. Held(pre, in) - post.held[in] <= quote.in
      BY <1>1, <1>2, <1>9, <2>1, <2>3 DEF AccountFits
    <3>2. QED
      BY <2>3, <3>1 DEF Held
  <2>4. QED
    BY <2>2, <2>3
<1>10. ASSUME out # "sol" PROVE Held(post, out) - Held(pre, out) >= mo
  <2>1. AccountFits(req, quote, pre, sim, out, cfg)
    BY <1>4
  <2>2. out \in DOMAIN post.held /\ post.held[out] - Held(pre, out) >= mo
    BY <1>1, <1>2, <1>10, <2>1 DEF AccountFits
  <2>3. QED
    BY <2>2 DEF Held
<1> HIDE DEF mo, in, out, fill
<1>11. fill.in \in Int /\ fill.out \in Int
  BY <1>2, <1>3, <1>5, <1>6
<1>12. fill.in - (IF in = "sol" THEN cfg.allowance - fee ELSE 0) <= quote.in
  <2>1. CASE in = "sol"
    BY <1>1, <1>2, <1>4, <1>5, <1>6, <2>1
  <2>2. CASE in # "sol"
    BY <1>3, <1>5, <1>6, <1>9, <2>2
  <2>3. QED
    BY <2>1, <2>2
<1>13. fill.out + (IF out = "sol" THEN cfg.allowance - fee ELSE 0) >= mo
  <2>0. mo \in Nat
    BY DEF mo
  <2>1. CASE out = "sol"
    BY <2>0, <1>2, <1>4, <1>5, <1>6, <2>1
  <2>2. CASE out # "sol"
    BY <2>0, <1>3, <1>5, <1>6, <1>10, <2>2
  <2>3. QED
    BY <2>1, <2>2
<1>14. QED
  BY <1>2, <1>7, <1>8, <1>11, <1>12, <1>13 DEF mo, in, out, fill

(* GuardedFillsFit holds of every request, all prices, quotes, wallets and *)
(* limits: what check_quote and check_simulation let through is booked     *)
(* within their limits.                                                    *)
THEOREM GuardedFillsAlwaysFit == Spec => []GuardedFillsFit
<1>1. AInv => GuardedFillsFit
  <2> DEFINE req == input.req
             pre == input.pre
             quote == input.quote
             k == Guard.tolerance[req.mode]
             l == 100 - Guard.slippage[Tier(req)]
             d == Guard.deviation[Tier(req)]
             t == 100 - k
             ref2 == Reference2(req, input.jup, input.cex, Guard.tolerance)
             slack(mint) == IF mint = "sol" THEN Guard.allowance - Fee ELSE 0
             sim(post) == [ok |-> TRUE, altered |-> {}, lamports |-> post.lamports, held |-> post.held]
             fill(post) == RealisedFill(req, pre, post, Fee)
             in(post) == fill(post).in - slack(InMint(req))
             out(post) == 1 + fill(post).out + slack(OutMint(req))
  <2> SUFFICES ASSUME AInv, topic = "swaps", NEW post \in input.after,
                      Signs(req, input.jup, input.cex, quote, pre, sim(post), Guard)
               PROVE  /\ post.lamports >= Guard.reserve
                      /\ \A m \in (DOMAIN pre.held) \ {InMint(req), OutMint(req), "sol"} :
                           Held(post, m) >= Held(pre, m)
                      /\ in(post) <= req.amount
                      /\ \A price \in {input.jup, input.cex} \ {0} :
                           IF req.side = "buy"
                           THEN in(post) * (t * l) <= price * (100 + d) * out(post)
                           ELSE 100 * 1000 * 1000 * out(post) >= price * req.amount * (t * l) * (100 - d)
    BY DEF GuardedFillsFit
  <2>1. /\ Fee \in Int /\ Guard.allowance \in Int /\ Guard.reserve \in Int
        /\ req.leg # "usdc" /\ req.amount \in Nat /\ input.jup \in Nat /\ input.cex \in Nat
        /\ quote.out \in Int /\ k \in 0 .. 100
        /\ Guard.slippage[Tier(req)] \in 0 .. 100 /\ d \in 0 .. 100
        /\ Whole(pre) /\ Whole(post)
    BY SwapAssumption DEF AInv, Whole
  <2>2. /\ QuoteFits(req, quote, ref2, Guard) /\ ReserveKept(req, quote, pre, Guard)
        /\ SimulationFits(req, quote, pre, sim(post), Guard)
    BY DEF Signs
  <2>3. ref2 > 0
    BY <2>2 DEF QuoteFits
  <2>4. ASSUME NEW price \in {input.jup, input.cex} \ {0}
        PROVE  price \in Nat /\ Agrees(price, ref2, t)
    <3>1. /\ input.jup \in Nat /\ input.cex \in Nat /\ Guard.tolerance[req.mode] \in 0 .. 100
          /\ Reference2(req, input.jup, input.cex, Guard.tolerance) > 0
      BY <2>1, <2>3
    <3>2. price \in Nat
      BY <2>4, <3>1
    <3> HIDE DEF req
    <3>3. QED
      BY <2>4, <3>1, <3>2, ReferenceRule
  <2>5. t \in Nat /\ l \in Nat /\ 100 + d \in Nat /\ 100 - d \in Nat
    <3>1. k \in 0 .. 100 /\ Guard.slippage[Tier(req)] \in 0 .. 100 /\ d \in 0 .. 100
      BY <2>1
    <3> HIDE DEF k, d
    <3>2. QED
      BY <3>1
  <2>6. quote.in = req.amount /\ quote.out \in Nat
    <3>1. quote.in = req.amount /\ quote.out > 0
      BY <2>2, Zenon DEF QuoteFits
    <3>2. quote.out \in Int
      BY <2>1
    <3> HIDE DEF quote, req
    <3>3. QED
      BY ONLY <3>1, <3>2
  <2>7. /\ MinOut(req, quote, Guard) \in Nat
        /\ quote.out * l <= 100 * (MinOut(req, quote, Guard) + 1)
    BY <2>1, <2>6, MinOutRule
  <2> DEFINE sim0 == sim(post)
  <2>8. /\ fill(post).in \in Int /\ fill(post).out \in Int /\ post.lamports \in Int
        /\ post.lamports >= Guard.reserve
        /\ \A m \in (DOMAIN pre.held) \ {InMint(req), OutMint(req), "sol"} :
             Held(post, m) >= Held(pre, m)
        /\ fill(post).in - slack(InMint(req)) <= quote.in
        /\ fill(post).out + slack(OutMint(req)) >= MinOut(req, quote, Guard)
    <3>1. sim0 = [ok |-> TRUE, altered |-> {}, lamports |-> post.lamports, held |-> post.held]
      OBVIOUS
    <3>2. SimulationFits(req, quote, pre, sim0, Guard)
      BY <2>2
    <3> HIDE DEF sim0, req, quote, pre
    <3>3. QED
      BY <2>1, <2>2, <2>6, <2>7, <3>1, <3>2, FillRule
  <2>9. slack(InMint(req)) \in Int /\ slack(OutMint(req)) \in Int
    BY <2>1
  <2> DEFINE a == req.amount
             o == quote.out
             mo == MinOut(req, quote, Guard)
             i == in(post)
             u == out(post)
  <2>10. /\ i \in Int /\ i <= a /\ u \in Nat /\ o * l <= 100 * u
    <3>1. i \in Int /\ i <= a
      BY <2>1, <2>6, <2>8, <2>9
    <3>2. u \in Int /\ u >= mo + 1 /\ mo \in Nat
      BY <2>7, <2>8, <2>9
    <3>3. o * l <= 100 * (mo + 1)
      BY <2>7
    <3> DEFINE g == o * l
    <3>4. g \in Int
      BY <2>5, <2>6
    <3> HIDE DEF u, mo, g
    <3>5. g <= 100 * u
      BY <3>2, <3>3, <3>4 DEF g
    <3>6. QED
      BY <3>1, <3>2, <3>5 DEF g
  <2>11. ASSUME NEW price \in {input.jup, input.cex} \ {0}, req.side = "buy"
         PROVE  i * (t * l) <= price * (100 + d) * u
    <3>1. 20000 * a <= (100 + d) * (ref2 * o) /\ ref2 \in Nat
      <4>1. ref2 \in Nat
        BY <2>4, <2>11 DEF Agrees
      <4> HIDE DEF req, quote, ref2
      <4>2. Within(req, quote, ref2, d)
        BY <2>1, <2>2, <4>1, QuoteRule
      <4> HIDE DEF d
      <4>3. QED
        BY <2>11, <4>1, <4>2 DEF Within
    <3>2. price \in Nat /\ t * ref2 <= 200 * price
      BY <2>4, <2>11 DEF Agrees
    <3> DEFINE e == 100 + d
    <3>3. /\ a \in Nat /\ o \in Nat /\ e \in Nat /\ 20000 * a <= e * (ref2 * o)
      <4>1. a \in Nat /\ o \in Nat
        BY <2>1, <2>6
      <4>2. e \in Nat
        BY <2>5
      <4> HIDE DEF a, o, ref2
      <4>3. QED
        BY <3>1, <4>1, <4>2
    <3> HIDE DEF i, u, a, o, ref2, t, l, d, e
    <3>4. BuyLimits(i, a, o, ref2, price, e, t, l, u)
      BY <2>10, <3>2, <3>3 DEF BuyLimits
    <3>5. /\ a \in Nat /\ o \in Nat /\ ref2 \in Nat /\ price \in Nat /\ e \in Nat
          /\ t \in Nat /\ l \in Nat /\ i \in Int /\ u \in Nat
      BY <2>5, <2>10, <3>1, <3>2, <3>3
    <3>6. PaidWithin(i, t, l, price, e, u)
      BY ONLY <3>4, <3>5, BuyBound
    <3>7. QED
      BY <3>6 DEF e, PaidWithin
  <2>12. ASSUME NEW price \in {input.jup, input.cex} \ {0}, req.side # "buy"
         PROVE  100 * 1000 * 1000 * u >= price * a * (t * l) * (100 - d)
    <3>1. (100 - d) * (ref2 * a) <= 20000 * o /\ ref2 \in Nat
      <4>1. ref2 \in Nat
        BY <2>4, <2>12 DEF Agrees
      <4> HIDE DEF req, quote, ref2
      <4>2. Within(req, quote, ref2, d)
        BY <2>1, <2>2, <4>1, QuoteRule
      <4> HIDE DEF d
      <4>3. QED
        BY <2>12, <4>1, <4>2 DEF Within
    <3>2. price \in Nat /\ 2 * price * t <= 100 * ref2
      BY <2>4, <2>12 DEF Agrees
    <3> DEFINE e == 100 - d
    <3>3. /\ a \in Nat /\ o \in Nat /\ e \in Nat /\ e * (ref2 * a) <= 20000 * o
      BY <2>1, <2>5, <2>6, <3>1
    <3> HIDE DEF i, u, a, o, ref2, t, l, d, e
    <3>4. SellLimits(a, o, ref2, price, e, t, l, u)
      BY <2>10, <3>2, <3>3 DEF SellLimits
    <3>5. /\ a \in Nat /\ o \in Nat /\ ref2 \in Nat /\ price \in Nat /\ e \in Nat
          /\ t \in Nat /\ l \in Nat /\ u \in Nat
      BY <2>5, <2>10, <3>1, <3>2, <3>3
    <3>6. GotWithin(u, price, a, t, l, e)
      BY ONLY <3>4, <3>5, SellBound
    <3>7. QED
      BY <3>6 DEF e, GotWithin
  <2>13. QED
    BY <2>8, <2>10, <2>11, <2>12
<1>2. QED
  BY <1>1, Asked, PTL

-----------------------------------------------------------------------------
(***************************************************************************)
(* The limiters.                                                           *)
(***************************************************************************)
(* Times of calls an interval apart, none before from, and none to follow  *)
(* before next.                                                            *)
Spaced(sent, from, next, interval) ==
  /\ sent \in Seq(Int) /\ from \in Int /\ next \in Int /\ from <= next
  /\ \A k \in 1 .. Len(sent) - 1 : sent[k + 1] - sent[k] >= interval
  /\ sent # <<>> => from <= sent[1] /\ sent[Len(sent)] + interval <= next

(* A call at or after next keeps them so.                                  *)
LEMMA SpacedAppend ==
  ASSUME NEW interval \in Nat, NEW sent, NEW from, NEW next, Spaced(sent, from, next, interval),
         NEW at \in Int, next <= at
  PROVE  Spaced(Append(sent, at), from, at + interval, interval)
<1> DEFINE s == Append(sent, at)
           n == Len(sent)
<1>1. /\ s \in Seq(Int) /\ n \in Nat /\ Len(s) = n + 1 /\ s # <<>> /\ s[n + 1] = at
      /\ \A k \in 1 .. n : s[k] = sent[k] /\ sent[k] \in Int
      /\ from \in Int /\ next \in Int /\ from <= next
  <2>1. sent \in Seq(Int) /\ from \in Int /\ next \in Int /\ from <= next
    BY DEF Spaced
  <2>2. s \in Seq(Int) /\ n \in Nat /\ Len(s) = n + 1
    BY <2>1
  <2>3. s[n + 1] = at /\ \A k \in 1 .. n : s[k] = sent[k] /\ sent[k] \in Int
    BY <2>1
  <2> HIDE DEF s
  <2>4. s # <<>>
    BY <2>2
  <2>5. QED
    BY <2>1, <2>2, <2>3, <2>4
<1>2. n > 0 => sent # <<>>
  OBVIOUS
<1> HIDE DEF s
<1>3. ASSUME NEW k \in 1 .. Len(s) - 1 PROVE s[k + 1] - s[k] >= interval
  <2>1. CASE k = n
    BY <1>1, <1>2, <2>1 DEF Spaced
  <2>2. CASE k # n
    <3>1. k \in 1 .. n - 1 /\ k + 1 \in 1 .. n
      BY <1>1, <2>2
    <3>2. QED
      BY <1>1, <3>1 DEF Spaced
  <2>3. QED
    BY <2>1, <2>2
<1>4. from <= s[1]
  <2>1. CASE n = 0
    BY <1>1, <2>1
  <2>2. CASE n > 0
    BY <1>1, <1>2, <2>2 DEF Spaced
  <2>3. QED
    BY <1>1, <2>1, <2>2
<1>5. s[Len(s)] + interval <= at + interval /\ from <= at + interval
  BY <1>1
<1>6. QED
  BY <1>1, <1>3, <1>4, <1>5 DEF Spaced, s

(* Later calls that start from next go on where they ended.                *)
LEMMA SpacedConcat ==
  ASSUME NEW interval \in Nat, NEW sent, NEW from, NEW mid, Spaced(sent, from, mid, interval),
         NEW more, NEW next, Spaced(more, mid, next, interval)
  PROVE  Spaced(sent \o more, from, next, interval)
<1> DEFINE s == sent \o more
           n == Len(sent)
           m == Len(more)
<1>1. /\ sent \in Seq(Int) /\ more \in Seq(Int) /\ from \in Int /\ mid \in Int /\ next \in Int
      /\ from <= mid /\ mid <= next
  BY DEF Spaced
<1>2. /\ s \in Seq(Int) /\ n \in Nat /\ m \in Nat /\ Len(s) = n + m
      /\ \A k \in 1 .. n : s[k] = sent[k] /\ sent[k] \in Int
      /\ \A k \in n + 1 .. n + m : s[k] = more[k - n]
      /\ \A k \in 1 .. m : s[n + k] = more[k] /\ more[k] \in Int
  BY <1>1
<1>3. (n > 0 <=> sent # <<>>) /\ (m > 0 <=> more # <<>>)
  BY <1>1
<1> HIDE DEF s
<1>4. n > 0 => from <= sent[1] /\ sent[n] + interval <= mid
  BY <1>3 DEF Spaced
<1>5. m > 0 => mid <= more[1] /\ more[m] + interval <= next
  BY <1>3 DEF Spaced
<1>6. ASSUME NEW k \in 1 .. Len(s) - 1 PROVE s[k + 1] - s[k] >= interval
  <2>1. CASE k < n
    <3>1. k \in 1 .. n - 1 /\ k + 1 \in 1 .. n /\ k \in 1 .. n
      BY <1>2, <2>1
    <3>2. sent[k + 1] - sent[k] >= interval
      BY <3>1 DEF Spaced
    <3>3. QED
      BY <1>2, <3>1, <3>2
  <2>2. CASE k = n
    <3>1. /\ n > 0 /\ m > 0 /\ n \in 1 .. n /\ n + 1 \in n + 1 .. n + m /\ n + 1 - n = 1
          /\ 1 \in 1 .. m
      BY <1>2, <2>2
    <3>2. s[n + 1] = more[1] /\ s[n] = sent[n]
      BY <1>2, <3>1
    <3>3. s[k + 1] = more[1] /\ s[k] = sent[n] /\ more[1] \in Int /\ sent[n] \in Int
      BY <1>2, <2>2, <3>1, <3>2
    <3> DEFINE x == more[1]
               y == sent[n]
    <3>4. x \in Int /\ y \in Int /\ mid <= x /\ y + interval <= mid
      BY <1>4, <1>5, <3>1, <3>3
    <3> HIDE DEF x, y
    <3>5. x - y >= interval
      BY <1>1, <3>4
    <3>6. QED
      BY <3>3, <3>5 DEF x, y
  <2>3. CASE k > n
    <3>1. /\ k \in n + 1 .. n + m /\ k + 1 \in n + 1 .. n + m /\ k - n \in 1 .. m - 1
          /\ k + 1 - n = k - n + 1
      BY <1>2, <2>3
    <3>2. more[k - n + 1] - more[k - n] >= interval
      BY <3>1 DEF Spaced
    <3>3. s[k] = more[k - n] /\ s[k + 1] = more[k + 1 - n]
      <4>1. \A j \in n + 1 .. n + m : s[j] = more[j - n]
        BY <1>2
      <4>2. QED
        BY <3>1, <4>1
    <3>4. QED
      BY <3>1, <3>2, <3>3
  <2>4. QED
    BY <1>2, <2>1, <2>2, <2>3
<1>7. s # <<>> => from <= s[1] /\ s[Len(s)] + interval <= next
  <2>1. CASE n = 0
    <3>1. m = 0 => s = <<>>
      BY <1>2, <2>1
    <3>2. CASE m > 0
      <4>1. 1 \in n + 1 .. n + m /\ m \in n + 1 .. n + m /\ 1 - n = 1 /\ m - n = m /\ 1 \in 1 .. m
        BY <1>2, <2>1, <3>2
      <4>2. s[1] = more[1] /\ s[Len(s)] = more[m] /\ more[1] \in Int
        BY <1>2, <2>1, <4>1
      <4>3. QED
        BY <1>1, <1>5, <3>2, <4>2
    <3>3. QED
      BY <1>2, <3>1, <3>2
  <2>2. CASE n > 0
    <3>1. s[1] = sent[1] /\ 1 \in 1 .. n /\ n \in 1 .. n
      BY <1>2, <2>2
    <3>2. CASE m = 0
      <4>1. s[Len(s)] = sent[n] /\ sent[n] \in Int
        BY <1>2, <3>1, <3>2
      <4>2. QED
        BY <1>1, <1>4, <2>2, <3>1, <4>1
    <3>3. CASE m > 0
      <4>1. s[Len(s)] = more[m]
        BY <1>2, <3>3
      <4>2. QED
        BY <1>4, <1>5, <2>2, <3>1, <3>3, <4>1
    <3>4. QED
      BY <1>2, <3>2, <3>3
  <2>3. QED
    BY <1>2, <2>1, <2>2
<1>8. from <= next
  BY <1>1
<1>9. Spaced(s, from, next, interval)
  BY <1>1, <1>2, <1>6, <1>7, <1>8 DEF Spaced
<1>10. QED
  BY <1>9 DEF s

HandedOut(u, arrivals, interval) ==
  /\ Slots(arrivals, interval) = [k \in DOMAIN arrivals |-> u[k].slot]
  /\ u[0] = [slot |-> 0, next |-> 0]
  /\ \A k \in 1 .. Len(arrivals) : u[k] = Reserve(u[k - 1].next, arrivals[k], interval)

(* Slots are reserved in turn.                                             *)
LEMMA SlotsTurns ==
  ASSUME NEW arrivals, Len(arrivals) \in Nat, NEW interval
  PROVE  \E u : HandedOut(u, arrivals, interval)
<1> DEFINE turn(old, k) == Reserve(old.next, arrivals[k], interval)
           IsRes(u, m) == u = [k \in 0 .. m |-> IF k = 0 THEN [slot |-> 0, next |-> 0]
                                                ELSE turn(u[k - 1], k)]
           res == CHOOSE u : IsRes(u, Len(arrivals))
           all == {m \in Nat : \E u : IsRes(u, m)}
<1>1. 0 \in all
  <2>1. IsRes([k \in 0 .. 0 |-> [slot |-> 0, next |-> 0]], 0)
    OBVIOUS
  <2>2. QED
    BY <2>1
<1>2. ASSUME NEW m \in Nat, m \in all PROVE m + 1 \in all
  <2> HIDE DEF turn
  <2>1. PICK u : IsRes(u, m)
    BY <1>2
  <2> DEFINE v == [k \in 0 .. m + 1 |-> IF k = m + 1 THEN turn(u[m], m + 1) ELSE u[k]]
  <2>2. ASSUME NEW k \in 0 .. m + 1
        PROVE  v[k] = IF k = 0 THEN [slot |-> 0, next |-> 0] ELSE turn(v[k - 1], k)
    BY <2>1
  <2>3. IsRes(v, m + 1)
    BY <2>2
  <2> HIDE DEF v, IsRes
  <2>4. QED
    BY <2>3
<1>3. Len(arrivals) \in all
  <2> HIDE DEF all
  <2>1. QED
    BY <1>1, <1>2, AllNaturals
<1>4. IsRes(res, Len(arrivals)) /\ Slots(arrivals, interval) = [k \in DOMAIN arrivals |-> res[k].slot]
  BY <1>3, Zenon DEF Slots
<1> HIDE DEF res
<1>5. /\ res[0] = [slot |-> 0, next |-> 0]
      /\ \A k \in 1 .. Len(arrivals) : res[k] = Reserve(res[k - 1].next, arrivals[k], interval)
  BY <1>4
<1>6. HandedOut(res, arrivals, interval)
  BY <1>4, <1>5 DEF HandedOut
<1>7. QED
  BY <1>6

(* No slot is before its caller, and two that are k apart in the order are *)
(* k intervals apart in time.                                              *)
LEMMA SlotsRule ==
  ASSUME NEW interval \in Nat, NEW arrivals, Len(arrivals) \in Nat, DOMAIN arrivals = 1 .. Len(arrivals),
         \A k \in DOMAIN arrivals : arrivals[k] \in Int
  PROVE  LET slots == Slots(arrivals, interval) IN
         /\ \A k \in DOMAIN arrivals : slots[k] \in Int /\ slots[k] >= arrivals[k]
         /\ \A j, k \in DOMAIN arrivals : j < k => slots[k] - slots[j] >= (k - j) * interval
<1> DEFINE n == Len(arrivals)
<1>0. PICK u : HandedOut(u, arrivals, interval)
  BY SlotsTurns
<1>1. /\ Slots(arrivals, interval) = [k \in DOMAIN arrivals |-> u[k].slot]
      /\ u[0] = [slot |-> 0, next |-> 0]
      /\ \A k \in 1 .. n : u[k] = Reserve(u[k - 1].next, arrivals[k], interval)
  BY <1>0 DEF HandedOut
<1> DEFINE all == {m \in Nat : m <= n =>
                     /\ u[m].next \in Int
                     /\ m > 0 => /\ u[m].slot \in Int /\ u[m].slot >= arrivals[m]
                                 /\ u[m].next = u[m].slot + interval
                     /\ \A j \in 1 .. m - 1 :
                          u[j].slot \in Int /\ u[m].slot - u[j].slot >= (m - j) * interval}
<1>2. 0 \in all
  BY <1>1
<1>3. ASSUME NEW m \in Nat, m \in all PROVE m + 1 \in all
  <2> SUFFICES ASSUME m + 1 <= n
               PROVE  /\ u[m + 1].next \in Int
                      /\ u[m + 1].slot \in Int /\ u[m + 1].slot >= arrivals[m + 1]
                      /\ u[m + 1].next = u[m + 1].slot + interval
                      /\ \A j \in 1 .. m : u[j].slot \in Int /\
                           u[m + 1].slot - u[j].slot >= (m + 1 - j) * interval
    OBVIOUS
  <2>1. m <= n /\ m + 1 \in 1 .. n /\ m + 1 - 1 = m
    OBVIOUS
  <2>2. /\ u[m].next \in Int
        /\ m > 0 => u[m].slot \in Int /\ u[m].next = u[m].slot + interval
        /\ \A j \in 1 .. m - 1 : u[j].slot \in Int /\ u[m].slot - u[j].slot >= (m - j) * interval
    BY <1>3, <2>1
  <2>3. u[m + 1] = Reserve(u[m].next, arrivals[m + 1], interval) /\ arrivals[m + 1] \in Int
    BY <1>1, <2>1
  <2>4. /\ u[m + 1].slot \in Int /\ u[m + 1].slot >= u[m].next
        /\ u[m + 1].slot >= arrivals[m + 1] /\ u[m + 1].next = u[m + 1].slot + interval
    <3>1. ASSUME NEW next \in Int, NEW now \in Int, NEW r, r = Reserve(next, now, interval)
          PROVE  r.slot \in Int /\ r.slot >= next /\ r.slot >= now /\ r.next = r.slot + interval
      BY <3>1 DEF Reserve
    <3>2. QED
      BY <2>2, <2>3, <3>1
  <2>5. ASSUME NEW j \in 1 .. m
        PROVE  u[j].slot \in Int /\ u[m + 1].slot - u[j].slot >= (m + 1 - j) * interval
    <3>1. CASE j = m
      <4>1. (m + 1 - j) * interval = interval
        BY <3>1
      <4>2. QED
        BY <2>2, <2>4, <3>1, <4>1
    <3>2. CASE j # m
      <4>1. j \in 1 .. m - 1 /\ m > 0
        BY <3>2
      <4> DEFINE x == (m - j) * interval
      <4>2. (m + 1 - j) * interval = x + interval /\ x \in Int
        OBVIOUS
      <4>3. u[j].slot \in Int /\ u[m].slot - u[j].slot >= x
        BY <2>2, <4>1
      <4> DEFINE y == (m + 1 - j) * interval
      <4>4. y = x + interval /\ x \in Int
        BY <4>2
      <4> HIDE DEF x, y
      <4> DEFINE a == u[m + 1].slot
                 b == u[m].slot
                 c == u[j].slot
      <4>5. a \in Int /\ b \in Int /\ c \in Int /\ a >= b + interval /\ b - c >= x
        BY <2>2, <2>4, <4>1, <4>3
      <4> HIDE DEF a, b, c
      <4>6. a - c >= y
        BY <4>4, <4>5
      <4>7. QED
        BY <4>3, <4>6 DEF y, a, c
    <3>3. QED
      BY <3>1, <3>2
  <2>6. QED
    BY <2>4, <2>5
<1>4. \A m \in Nat : m \in all
  <2> HIDE DEF all
  <2>1. QED
    BY <1>2, <1>3, AllNaturals
<1>5. ASSUME NEW k \in DOMAIN arrivals
      PROVE  /\ Slots(arrivals, interval)[k] = u[k].slot
             /\ u[k].slot \in Int /\ u[k].slot >= arrivals[k]
             /\ \A j \in 1 .. k - 1 : u[k].slot - u[j].slot >= (k - j) * interval
  BY <1>1, <1>4
<1>6. ASSUME NEW j \in DOMAIN arrivals, NEW k \in DOMAIN arrivals, j < k
      PROVE  Slots(arrivals, interval)[k] - Slots(arrivals, interval)[j] >= (k - j) * interval
  <2>1. j \in 1 .. k - 1
    BY <1>6
  <2>2. QED
    BY <1>5, <2>1
<1>7. QED
  BY <1>5, <1>6

(* The requests of a read: spaced from the slot it starts at, and one more *)
(* for every 429 from the first on.                                        *)
Denied(replies, j) == \A l \in 1 .. j : replies[l] = "429"
Asks(run, from, replies, k, interval) ==
  /\ run = [next |-> run.next, now |-> run.now, sent |-> run.sent]
  /\ run.now \in Int /\ Spaced(run.sent, from, run.next, interval)
  /\ Denied(replies, k) => Len(run.sent) = k + 1
  /\ \A j \in 0 .. k : Len(run.sent) > j <=> Denied(replies, j)

(* The attempts of a read come one by one.                                 *)
Attempt(next, now, replies, backoff, interval, prev, k) ==
  LET from == IF k = 0 THEN [next |-> next, now |-> now, sent |-> <<>>] ELSE prev
      asked == IF k = 0 THEN now ELSE from.now + backoff
      got == Reserve(from.next, asked, interval)
  IN IF \E j \in 1 .. k : replies[j] # "429" THEN from
     ELSE [next |-> got.next, now |-> got.slot, sent |-> Append(from.sent, got.slot)]

(* What the recursion of a read stands for.                                *)
LEMMA ReadTurns ==
  ASSUME NEW next, NEW now, NEW replies, NEW backoff, NEW max429 \in Nat, NEW interval
  PROVE  \E u : /\ Read(next, now, replies, backoff, max429, interval) = u[max429]
               /\ \A k \in 0 .. max429 :
                    u[k] = Attempt(next, now, replies, backoff, interval, u[k - 1], k)
<1> DEFINE turn(old, k) == Attempt(next, now, replies, backoff, interval, old, k)
           IsTry(u, m) == u = [k \in 0 .. m |-> turn(u[k - 1], k)]
           try == CHOOSE u : IsTry(u, max429)
           all == {m \in Nat : \E u : IsTry(u, m)}
<1>1. 0 \in all
  <2> DEFINE v == [k \in 0 .. 0 |-> turn(0, 0)]
  <2>1. turn(v[0 - 1], 0) = turn(0, 0)
    BY DEF Attempt
  <2> HIDE DEF turn
  <2>2. IsTry(v, 0)
    BY <2>1
  <2> HIDE DEF v, IsTry
  <2>3. QED
    BY <2>2
<1>2. ASSUME NEW m \in Nat, m \in all PROVE m + 1 \in all
  <2>1. PICK u : IsTry(u, m)
    BY <1>2
  <2> DEFINE v == [k \in 0 .. m + 1 |-> IF k = m + 1 THEN turn(u[m], m + 1) ELSE u[k]]
  <2>2. turn(v[0 - 1], 0) = turn(u[0 - 1], 0)
    BY DEF Attempt
  <2> HIDE DEF turn
  <2>3. ASSUME NEW k \in 0 .. m + 1 PROVE v[k] = turn(v[k - 1], k)
    <3>1. CASE k = 0
      BY <2>1, <2>2, <3>1
    <3>2. CASE k # 0
      BY <2>1, <3>2
    <3>3. QED
      BY <3>1, <3>2
  <2>4. IsTry(v, m + 1)
    BY <2>3
  <2> HIDE DEF v, IsTry
  <2>5. QED
    BY <2>4
<1>3. max429 \in all
  <2> HIDE DEF all
  <2>1. QED
    BY <1>1, <1>2, AllNaturals
<1>4. IsTry(try, max429) /\ Read(next, now, replies, backoff, max429, interval) = try[max429]
  BY <1>3, Zenon DEF Read, Attempt
<1> HIDE DEF try
<1>5. \A k \in 0 .. max429 : try[k] = turn(try[k - 1], k)
  <2> HIDE DEF turn
  <2>1. QED
    BY <1>4
<1>6. QED
  BY <1>4, <1>5

(* Nothing was sent.                                                       *)
LEMMA SpacedNone ==
  ASSUME NEW from \in Int, NEW interval
  PROVE  Spaced(<<>>, from, from, interval)
<1>1. <<>> \in Seq(Int) /\ Len(<<>>) = 0
  OBVIOUS
<1>2. QED
  BY <1>1 DEF Spaced

(* An attempt waits for its slot.                                          *)
Waits(got, sent, from, interval) ==
  /\ got.slot \in Int /\ Spaced(Append(sent, got.slot), from, got.next, interval)
  /\ Len(Append(sent, got.slot)) = Len(sent) + 1 /\ Len(sent) \in Nat

(* A slot that is reserved keeps the requests spaced.                      *)
LEMMA ReservedAppend ==
  ASSUME NEW interval \in Nat, NEW sent, NEW from, NEW next, Spaced(sent, from, next, interval),
         NEW now \in Int, NEW got, got = Reserve(next, now, interval)
  PROVE  Waits(got, sent, from, interval)
<1>1. next \in Int /\ sent \in Seq(Int)
  BY DEF Spaced
<1>2. got.slot \in Int /\ got.slot >= next /\ got.next = got.slot + interval
  BY <1>1 DEF Reserve
<1>3. Spaced(Append(sent, got.slot), from, got.next, interval)
  BY <1>2, SpacedAppend
<1>4. QED
  BY <1>1, <1>2, <1>3 DEF Waits

(* A read keeps the limiter's rate, and asks again on 429 alone.           *)
LEMMA ReadRule ==
  ASSUME NEW next \in Int, NEW now \in Int, NEW replies, NEW backoff \in Nat, NEW max429 \in Nat,
         NEW interval \in Nat
  PROVE  Asks(Read(next, now, replies, backoff, max429, interval), next, replies, max429, interval)
<1>1. PICK u : /\ Read(next, now, replies, backoff, max429, interval) = u[max429]
               /\ \A k \in 0 .. max429 :
                    u[k] = Attempt(next, now, replies, backoff, interval, u[k - 1], k)
  BY ReadTurns
<1> DEFINE all == {m \in Nat : m <= max429 => Asks(u[m], next, replies, m, interval)}
<1>2. 0 \in all
  <2> DEFINE got == Reserve(next, now, interval)
  <2>1. u[0] = [next |-> got.next, now |-> got.slot, sent |-> Append(<<>>, got.slot)]
    <3>1. 0 \in 0 .. max429
      OBVIOUS
    <3>2. u[0] = Attempt(next, now, replies, backoff, interval, u[0 - 1], 0)
      BY <1>1, <3>1
    <3>3. QED
      BY <3>2 DEF Attempt
  <2>2. Waits(got, <<>>, next, interval)
    <3>1. got = Reserve(next, now, interval)
      OBVIOUS
    <3> HIDE DEF got
    <3>2. QED
      BY <3>1, SpacedNone, ReservedAppend
  <2> HIDE DEF got
  <2>3. Denied(replies, 0) /\ Len(<<>>) = 0
    BY DEF Denied
  <2>4. Asks(u[0], next, replies, 0, interval)
    <3> DEFINE run == u[0]
    <3>1. run = [next |-> run.next, now |-> run.now, sent |-> run.sent]
      BY <2>1
    <3>2. run.next = got.next /\ run.now = got.slot /\ run.sent = Append(<<>>, got.slot)
      BY <2>1
    <3> HIDE DEF run
    <3>3. Asks(run, next, replies, 0, interval)
      BY <2>2, <2>3, <3>1, <3>2 DEF Asks, Waits
    <3>4. QED
      BY <3>3 DEF run
  <2>5. QED
    BY <2>4
<1>3. ASSUME NEW m \in Nat, m \in all PROVE m + 1 \in all
  <2> SUFFICES ASSUME m + 1 <= max429 PROVE Asks(u[m + 1], next, replies, m + 1, interval)
    OBVIOUS
  <2> DEFINE prev == u[m]
             run == u[m + 1]
             got == Reserve(prev.next, prev.now + backoff, interval)
  <2>1. Asks(prev, next, replies, m, interval)
    BY <1>3
  <2>2. run = IF \E j \in 1 .. m + 1 : replies[j] # "429" THEN prev
              ELSE [next |-> got.next, now |-> got.slot, sent |-> Append(prev.sent, got.slot)]
    <3>1. m + 1 \in 0 .. max429 /\ m + 1 - 1 = m /\ m + 1 # 0
      OBVIOUS
    <3>2. u[m + 1] = Attempt(next, now, replies, backoff, interval, u[m], m + 1)
      BY <1>1, <3>1
    <3>3. QED
      BY <3>1, <3>2 DEF Attempt
  <2> HIDE DEF prev, run
  <2>3. /\ prev.now \in Int /\ Spaced(prev.sent, next, prev.next, interval)
        /\ prev.sent \in Seq(Int) /\ Len(prev.sent) \in Nat
    <3>1. prev.now \in Int /\ Spaced(prev.sent, next, prev.next, interval)
      BY <2>1 DEF Asks
    <3>2. prev.sent \in Seq(Int)
      BY <3>1 DEF Spaced
    <3>3. QED
      BY <3>1, <3>2
  <2>4. Denied(replies, m + 1) => \A j \in 0 .. m + 1 : Denied(replies, j)
    BY DEF Denied
  <2>5. CASE Denied(replies, m + 1)
    <3>1. run = [next |-> got.next, now |-> got.slot, sent |-> Append(prev.sent, got.slot)]
      BY <2>2, <2>5 DEF Denied
    <3>2. Waits(got, prev.sent, next, interval)
      <4>1. prev.now + backoff \in Int /\ got = Reserve(prev.next, prev.now + backoff, interval)
        BY <2>3
      <4> HIDE DEF got
      <4>2. QED
        BY <2>3, <4>1, ReservedAppend
    <3> HIDE DEF got
    <3>3. Len(prev.sent) = m + 1
      BY <2>1, <2>4, <2>5 DEF Asks
    <3>4. Len(run.sent) = m + 2
      BY <3>1, <3>2, <3>3 DEF Waits
    <3>5. \A j \in 0 .. m + 1 : Len(run.sent) > j <=> Denied(replies, j)
      BY <2>4, <2>5, <3>4
    <3>6. run = [next |-> run.next, now |-> run.now, sent |-> run.sent]
      BY <3>1
    <3>7. run.next = got.next /\ run.now = got.slot /\ run.sent = Append(prev.sent, got.slot)
      BY <3>1
    <3>8. Asks(run, next, replies, m + 1, interval)
      BY <3>2, <3>4, <3>5, <3>6, <3>7 DEF Asks, Waits
    <3>9. QED
      BY <3>8 DEF run
  <2>6. CASE ~Denied(replies, m + 1)
    <3>1. run = prev
      BY <2>2, <2>6 DEF Denied
    <3>2. Len(prev.sent) <= m + 1
      <4>1. Denied(replies, m) => Len(prev.sent) = m + 1
        BY <2>1 DEF Asks
      <4>2. ~Denied(replies, m) => ~(Len(prev.sent) > m)
        BY <2>1 DEF Asks
      <4>3. QED
        BY <2>3, <4>1, <4>2
    <3>3. ASSUME NEW j \in 0 .. m + 1 PROVE Len(prev.sent) > j <=> Denied(replies, j)
      <4>1. CASE j = m + 1
        BY <2>3, <2>6, <3>2, <4>1
      <4>2. CASE j # m + 1
        <5>1. j \in 0 .. m
          BY <4>2
        <5>2. QED
          BY <2>1, <5>1 DEF Asks
      <4>3. QED
        BY <4>1, <4>2
    <3>4. prev = [next |-> prev.next, now |-> prev.now, sent |-> prev.sent]
      BY <2>1 DEF Asks
    <3>5. Asks(run, next, replies, m + 1, interval)
      BY <2>3, <2>6, <3>1, <3>3, <3>4 DEF Asks
    <3>6. QED
      BY <3>5 DEF run
  <2>7. QED
    BY <2>5, <2>6
<1>4. max429 \in all
  <2> HIDE DEF all
  <2>1. QED
    BY <1>2, <1>3, AllNaturals
<1>5. QED
  BY <1>1, <1>4

(* The earliest time of the next request through a bucket.                 *)
Earliest(b, interval) == b.last + (interval - b.tokens)
Buckets(interval) == [last : Int, tokens : 0 .. interval]

(* A request takes the whole token, and none goes out before its time.     *)
LEMMA AcquireRule ==
  ASSUME NEW interval \in Nat, NEW b \in Buckets(interval), NEW at \in Int, b.last <= at,
         NEW late \in Nat, NEW c, c = Acquire(b, at, late, interval)
  PROVE  /\ c \in Buckets(interval) /\ c.last >= Earliest(b, interval)
         /\ Earliest(c, interval) = c.last + interval
<1> DEFINE r == Refilled(b, at, interval)
           awake == Refilled(r, at + (interval - r.tokens) + late, interval)
           w == at + (interval - r.tokens) + late
<1>1. b.last \in Int /\ b.tokens \in 0 .. interval
  BY DEF Buckets
<1>2. /\ r = [last |-> at, tokens |-> r.tokens]
      /\ r.tokens = IF interval < b.tokens + (at - b.last) THEN interval ELSE b.tokens + (at - b.last)
  BY DEF Refilled, Least
<1>3. r.last = at /\ r.tokens \in 0 .. interval
  BY <1>1, <1>2
<1> HIDE DEF r
<1>4. CASE r.tokens >= interval
  <2>1. c = [r EXCEPT !.tokens = r.tokens - interval]
    BY <1>4 DEF Acquire, r
  <2>2. c = [last |-> at, tokens |-> 0]
    BY <1>2, <1>3, <1>4, <2>1
  <2>3. at >= b.last + (interval - b.tokens)
    BY <1>1, <1>2, <1>4
  <2>4. QED
    BY <2>2, <2>3 DEF Buckets, Earliest
<1>5. CASE r.tokens < interval
  <2>1. c = [awake EXCEPT !.tokens = Later(awake.tokens, interval) - interval]
    BY <1>3, <1>5 DEF Acquire, r
  <2>2. awake = [last |-> w, tokens |-> Least(interval, r.tokens + (w - r.last))]
    BY DEF Refilled
  <2>3. r.tokens + (w - r.last) = interval + late
    BY <1>3
  <2>4. Least(interval, r.tokens + (w - r.last)) = interval
    BY <2>3 DEF Least
  <2> HIDE DEF w, awake
  <2>5. awake = [last |-> w, tokens |-> interval]
    BY <2>2, <2>4
  <2>6. c = [last |-> w, tokens |-> 0]
    BY <2>1, <2>5 DEF Later
  <2>7. w \in Int /\ w >= b.last + (interval - b.tokens)
    BY <1>1, <1>2, <1>3, <1>5 DEF w
  <2>8. QED
    BY <2>6, <2>7 DEF Buckets, Earliest
<1>6. QED
  BY <1>3, <1>4, <1>5

(* A run: its bucket is not ahead of its clock, its requests are spaced.   *)
Runs(interval) ==
  [bucket : Buckets(interval), now : Int, sent : Seq(Int), errors : Seq(BOOLEAN),
   done : {"no", "retry", "result", "refused"}]
Paced(run, from, interval) ==
  /\ run \in Runs(interval) /\ run.bucket.last <= run.now
  /\ Spaced(run.sent, from, Earliest(run.bucket, interval), interval)

(* One request more.                                                       *)
Sends(q, run, from, interval) ==
  /\ Paced(q, from, interval) /\ q.errors = run.errors /\ Len(q.sent) = Len(run.sent) + 1

(* A request takes the earliest token, and keeps them spaced.              *)
LEMMA RequestRule ==
  ASSUME NEW interval \in Nat, NEW from, NEW run, Paced(run, from, interval), NEW late \in Nat,
         NEW wait \in Nat
  PROVE  Sends(Request([run EXCEPT !.now = run.now + wait], late, interval), run, from, interval)
<1> DEFINE start == [run EXCEPT !.now = run.now + wait]
           b == Acquire(run.bucket, run.now + wait, late, interval)
           q == Request(start, late, interval)
<1>1. /\ run \in Runs(interval) /\ run.bucket \in Buckets(interval) /\ run.now \in Int
      /\ run.sent \in Seq(Int) /\ Len(run.sent) \in Nat
      /\ run.bucket.last \in Int /\ run.bucket.last <= run.now + wait
  <2>1. run \in Runs(interval) /\ run.bucket.last <= run.now
    BY DEF Paced
  <2>2. /\ run.bucket \in Buckets(interval) /\ run.now \in Int /\ run.sent \in Seq(Int)
    BY <2>1 DEF Runs
  <2>3. run.bucket.last \in Int
    BY <2>2 DEF Buckets
  <2>4. QED
    BY <2>1, <2>2, <2>3
<1>2. /\ b \in Buckets(interval) /\ b.last >= Earliest(run.bucket, interval)
      /\ Earliest(b, interval) = b.last + interval
  <2>1. b = Acquire(run.bucket, run.now + wait, late, interval) /\ run.now + wait \in Int
    BY <1>1
  <2> HIDE DEF b
  <2>2. QED
    BY <1>1, <2>1, AcquireRule
<1>3. start.bucket = run.bucket /\ start.now = run.now + wait /\ start.sent = run.sent
  BY <1>1 DEF Runs
<1>4. q = [start EXCEPT !.bucket = b, !.now = b.last, !.sent = Append(run.sent, b.last)]
  BY <1>3 DEF Request
<1> HIDE DEF b
<1>5. b.last \in Int
  BY <1>2 DEF Buckets
<1>6. Append(run.sent, b.last) \in Seq(Int) /\ Len(Append(run.sent, b.last)) = Len(run.sent) + 1
  BY <1>1, <1>5
<1>7. Spaced(Append(run.sent, b.last), from, b.last + interval, interval)
  BY <1>2, <1>5, SpacedAppend DEF Paced
<1> HIDE DEF q
<1>8. q = [run EXCEPT !.bucket = b, !.now = b.last, !.sent = Append(run.sent, b.last)]
  BY <1>1, <1>4 DEF Runs
<1> DEFINE s == Append(run.sent, b.last)
<1>9. /\ q \in Runs(interval) /\ q.bucket = b /\ q.now = b.last /\ q.sent = s /\ q.errors = run.errors
  <2>1. s \in Seq(Int)
    BY <1>6
  <2>2. q = [run EXCEPT !.bucket = b, !.now = b.last, !.sent = s]
    BY <1>8
  <2>3. run.errors \in Seq(BOOLEAN) /\ run.done \in {"no", "retry", "result", "refused"}
    BY <1>1 DEF Runs
  <2> HIDE DEF s
  <2>4. q = [bucket |-> b, now |-> b.last, sent |-> s, errors |-> run.errors, done |-> run.done]
    BY <1>1, <2>2 DEF Runs
  <2>5. QED
    BY <1>2, <1>5, <2>1, <2>3, <2>4 DEF Runs
<1>10. Sends(q, run, from, interval)
  BY <1>2, <1>5, <1>6, <1>7, <1>9 DEF Sends, Paced
<1>11. QED
  BY <1>10 DEF q

(* The answer to a request ends the endpoint's turn, and is counted, or    *)
(* asks for a retry.                                                       *)
Answer(asked, reply, k, max429) ==
  CASE reply = "429" /\ k < max429 -> [asked EXCEPT !.done = "retry"]
    [] reply = "ok" -> [asked EXCEPT !.errors = Append(@, FALSE), !.done = "result"]
    [] reply \in {"4xx", "error"} -> [asked EXCEPT !.errors = Append(@, TRUE), !.done = "refused"]
    [] reply = "shapeless" -> [asked EXCEPT !.errors = Append(@, FALSE), !.done = "no"]
    [] OTHER -> [asked EXCEPT !.errors = Append(@, TRUE), !.done = "no"]

Heard(t, asked, from, k, max429, interval) ==
  /\ Paced(t, from, interval) /\ t.sent = asked.sent
  /\ t.done = "retry" => k < max429 /\ t.errors = asked.errors
  /\ t.done # "retry" => Len(t.errors) = Len(asked.errors) + 1

(* An answer is counted once, or asks for a retry while one is left.       *)
LEMMA AnswerRule ==
  ASSUME NEW interval, NEW from, NEW asked, Paced(asked, from, interval), NEW reply, NEW k, NEW max429
  PROVE  Heard(Answer(asked, reply, k, max429), asked, from, k, max429, interval)
<1> DEFINE t == Answer(asked, reply, k, max429)
           counted(b, d) == [asked EXCEPT !.errors = Append(asked.errors, b), !.done = d]
<1>1. /\ asked \in Runs(interval) /\ asked.errors \in Seq(BOOLEAN) /\ asked.bucket.last <= asked.now
      /\ Spaced(asked.sent, from, Earliest(asked.bucket, interval), interval)
  BY DEF Paced, Runs
<1>2. \/ k < max429 /\ t = [asked EXCEPT !.done = "retry"]
      \/ t = counted(FALSE, "result") \/ t = counted(TRUE, "refused")
      \/ t = counted(FALSE, "no") \/ t = counted(TRUE, "no")
  BY DEF Answer
<1> HIDE DEF t
<1>3. CASE k < max429 /\ t = [asked EXCEPT !.done = "retry"]
  <2>1. /\ t \in Runs(interval) /\ t.bucket = asked.bucket /\ t.now = asked.now /\ t.sent = asked.sent
        /\ t.errors = asked.errors /\ t.done = "retry"
    BY <1>1, <1>3 DEF Runs
  <2>2. Heard(t, asked, from, k, max429, interval)
    BY <1>1, <1>3, <2>1 DEF Heard, Paced
  <2>3. QED
    BY <2>2 DEF t
<1>4. ASSUME NEW b \in BOOLEAN, NEW d \in {"no", "result", "refused"}, t = counted(b, d)
      PROVE  Heard(t, asked, from, k, max429, interval)
  <2> DEFINE e == Append(asked.errors, b)
  <2>1. e \in Seq(BOOLEAN) /\ Len(e) = Len(asked.errors) + 1
    BY <1>1
  <2>2. t = [asked EXCEPT !.errors = e, !.done = d]
    BY <1>4
  <2> HIDE DEF e
  <2>3. /\ t \in Runs(interval) /\ t.bucket = asked.bucket /\ t.now = asked.now /\ t.sent = asked.sent
        /\ t.errors = e /\ t.done = d
    BY <1>1, <2>1, <2>2 DEF Runs
  <2>4. QED
    BY <1>1, <2>1, <2>3 DEF Heard, Paced
<1>5. QED
  <2>1. CASE t = counted(FALSE, "result") \/ t = counted(TRUE, "refused")
    BY <1>4, <2>1 DEF t
  <2>2. CASE t = counted(FALSE, "no") \/ t = counted(TRUE, "no")
    BY <1>4, <2>2 DEF t
  <2>3. QED
    BY <1>2, <1>3, <2>1, <2>2

(* An endpoint is asked again and again.                                   *)
Knock(run, replies, late, backoff, max429, interval, prev, k) ==
  LET r == IF k = 0 THEN run ELSE prev
      reply == replies[Len(r.sent) + 1]
      asked == IF k = 0 THEN Request(r, late[Len(r.sent) + 1], interval)
               ELSE Request([r EXCEPT !.now = @ + backoff], late[Len(r.sent) + 1], interval)
  IN IF k > 0 /\ r.done # "retry" THEN r ELSE Answer(asked, reply, k, max429)

Knocks(u, run, replies, late, backoff, max429, interval) ==
  /\ Endpoint(run, replies, late, backoff, max429, interval) = u[max429]
  /\ \A k \in 0 .. max429 : u[k] = Knock(run, replies, late, backoff, max429, interval, u[k - 1], k)

(* What the recursion of an endpoint stands for.                           *)
LEMMA EndpointTurns ==
  ASSUME NEW run, NEW replies, NEW late, NEW backoff, NEW max429 \in Nat, NEW interval
  PROVE  \E u : Knocks(u, run, replies, late, backoff, max429, interval)
<1> DEFINE turn(old, k) == Knock(run, replies, late, backoff, max429, interval, old, k)
           IsTry(u, m) == u = [k \in 0 .. m |-> turn(u[k - 1], k)]
           try == CHOOSE u : IsTry(u, max429)
           all == {m \in Nat : \E u : IsTry(u, m)}
<1>1. 0 \in all
  <2> DEFINE v == [k \in 0 .. 0 |-> turn(0, 0)]
  <2>1. turn(v[0 - 1], 0) = turn(0, 0)
    BY DEF Knock
  <2> HIDE DEF turn
  <2>2. IsTry(v, 0)
    BY <2>1
  <2> HIDE DEF v, IsTry
  <2>3. QED
    BY <2>2
<1>2. ASSUME NEW m \in Nat, m \in all PROVE m + 1 \in all
  <2>1. PICK u : IsTry(u, m)
    BY <1>2
  <2> DEFINE v == [k \in 0 .. m + 1 |-> IF k = m + 1 THEN turn(u[m], m + 1) ELSE u[k]]
  <2>2. turn(v[0 - 1], 0) = turn(u[0 - 1], 0)
    BY DEF Knock
  <2> HIDE DEF turn
  <2>3. ASSUME NEW k \in 0 .. m + 1 PROVE v[k] = turn(v[k - 1], k)
    <3>1. CASE k = 0
      BY <2>1, <2>2, <3>1
    <3>2. CASE k # 0
      BY <2>1, <3>2
    <3>3. QED
      BY <3>1, <3>2
  <2>4. IsTry(v, m + 1)
    BY <2>3
  <2> HIDE DEF v, IsTry
  <2>5. QED
    BY <2>4
<1>3. max429 \in all
  <2> HIDE DEF all
  <2>1. QED
    BY <1>1, <1>2, AllNaturals
<1>4. IsTry(try, max429) /\ Endpoint(run, replies, late, backoff, max429, interval) = try[max429]
  BY <1>3, Zenon DEF Endpoint, Knock, Answer
<1> HIDE DEF try
<1>5. \A k \in 0 .. max429 : try[k] = turn(try[k - 1], k)
  <2> HIDE DEF turn
  <2>1. QED
    BY <1>4
<1>6. QED
  BY <1>4, <1>5 DEF Knocks

(* An endpoint is asked at most once more than it may be retried, and each *)
(* endpoint that is done with has one outcome.                             *)
Tried(t, run, from, k, max429, interval) ==
  /\ Paced(t, from, interval) /\ Len(t.sent) <= Len(run.sent) + k + 1
  /\ t.done = "retry" => k < max429 /\ t.errors = run.errors
  /\ t.done # "retry" => Len(t.errors) = Len(run.errors) + 1

(* The sleeps of the first n requests end on time or late.                 *)
Sleeps(late, n) == \A j \in 1 .. n : late[j] \in Nat

(* An endpoint keeps the requests spaced and counts once.                  *)
LEMMA EndpointRule ==
  ASSUME NEW interval \in Nat, NEW from, NEW run, Paced(run, from, interval), NEW replies, NEW late,
         NEW backoff \in Nat, NEW max429 \in Nat,
         Sleeps(late, Len(run.sent) + max429 + 1)
  PROVE  Tried(Endpoint(run, replies, late, backoff, max429, interval), run, from, max429, max429, interval)
<1>0. PICK u : Knocks(u, run, replies, late, backoff, max429, interval)
  BY EndpointTurns
<1>1. /\ Endpoint(run, replies, late, backoff, max429, interval) = u[max429]
      /\ \A k \in 0 .. max429 : u[k] = Knock(run, replies, late, backoff, max429, interval, u[k - 1], k)
  BY <1>0 DEF Knocks
<1>2. ASSUME NEW r, Paced(r, from, interval)
      PROVE  /\ r \in Runs(interval) /\ r.now \in Int /\ Len(r.sent) \in Nat
             /\ r.sent \in Seq(Int) /\ r.errors \in Seq(BOOLEAN) /\ Len(r.errors) \in Nat
  BY <1>2 DEF Paced, Runs
<1> DEFINE all == {m \in Nat : m <= max429 => Tried(u[m], run, from, m, max429, interval)}
<1>3. 0 \in all
  <2> DEFINE l == late[Len(run.sent) + 1]
             asked == Request(run, l, interval)
             reply == replies[Len(run.sent) + 1]
  <2>1. u[0] = Answer(asked, reply, 0, max429)
    <3>1. u[0] = Knock(run, replies, late, backoff, max429, interval, u[0 - 1], 0)
      BY <1>1
    <3>2. QED
      BY <3>1 DEF Knock
  <2>2. l \in Nat
    <3>1. Len(run.sent) + 1 \in 1 .. Len(run.sent) + max429 + 1
      BY <1>2
    <3>2. QED
      BY <3>1 DEF Sleeps
  <2>3. run = [run EXCEPT !.now = run.now + 0]
    BY <1>2 DEF Runs
  <2> HIDE DEF l, reply
  <2>4. Sends(asked, run, from, interval)
    <3>1. Sends(Request([run EXCEPT !.now = run.now + 0], l, interval), run, from, interval)
      BY <2>2, RequestRule
    <3>2. QED
      BY <2>3, <3>1
  <2> HIDE DEF asked
  <2>5. Heard(u[0], asked, from, 0, max429, interval)
    BY <2>1, <2>4, AnswerRule DEF Sends
  <2>6. Len(asked.sent) = Len(run.sent) + 1 /\ asked.errors = run.errors
    BY <2>4 DEF Sends
  <2>7. Tried(u[0], run, from, 0, max429, interval)
    BY <1>2, <2>5, <2>6 DEF Heard, Tried
  <2>8. QED
    BY <2>7
<1>4. ASSUME NEW m \in Nat, m \in all PROVE m + 1 \in all
  <2> SUFFICES ASSUME m + 1 <= max429 PROVE Tried(u[m + 1], run, from, m + 1, max429, interval)
    OBVIOUS
  <2> DEFINE r == u[m]
             t == u[m + 1]
             l == late[Len(r.sent) + 1]
             start == [r EXCEPT !.now = @ + backoff]
             asked == Request(start, l, interval)
             reply == replies[Len(r.sent) + 1]
  <2>1. Tried(r, run, from, m, max429, interval)
    BY <1>4
  <2>2. t = IF r.done # "retry" THEN r ELSE Answer(asked, reply, m + 1, max429)
    <3>1. m + 1 \in 0 .. max429 /\ m + 1 - 1 = m /\ m + 1 > 0 /\ m + 1 # 0
      OBVIOUS
    <3>2. u[m + 1] = Knock(run, replies, late, backoff, max429, interval, u[m], m + 1)
      BY <1>1, <3>1
    <3>3. QED
      BY <3>1, <3>2 DEF Knock
  <2>3. /\ Paced(r, from, interval) /\ Len(r.sent) <= Len(run.sent) + m + 1
        /\ Len(r.sent) <= Len(run.sent) + (m + 1) + 1 /\ Len(r.sent) + 1 <= Len(run.sent) + (m + 1) + 1
        /\ Len(r.sent) \in Nat /\ Len(run.sent) \in Nat /\ Len(run.errors) \in Nat
    <3> DEFINE a == Len(r.sent)
               b == Len(run.sent)
    <3>1. Paced(r, from, interval) /\ a <= b + m + 1
      BY <2>1 DEF Tried
    <3>2. a \in Nat /\ b \in Nat /\ Len(run.errors) \in Nat
      BY <1>2, <3>1
    <3> HIDE DEF a, b
    <3>3. a <= b + (m + 1) + 1 /\ a + 1 <= b + (m + 1) + 1
      BY <3>1, <3>2
    <3>4. QED
      BY <3>1, <3>2, <3>3 DEF a, b
  <2>4. CASE r.done # "retry"
    <3>1. t = r
      BY <2>2, <2>4
    <3> HIDE DEF r, t
    <3>2. Tried(t, run, from, m + 1, max429, interval)
      BY <2>1, <2>3, <2>4, <3>1 DEF Tried
    <3>3. QED
      BY <3>2 DEF t
  <2>5. CASE r.done = "retry"
    <3>1. t = Answer(asked, reply, m + 1, max429)
      BY <2>2, <2>5
    <3>2. l \in Nat
      <4>1. Len(r.sent) + 1 \in 1 .. Len(run.sent) + max429 + 1
        <5> DEFINE a == Len(r.sent)
                   b == Len(run.sent)
        <5>1. a \in Nat /\ b \in Nat /\ a <= b + m + 1 /\ m + 1 <= max429
          BY <2>3
        <5> HIDE DEF a, b
        <5>2. a + 1 \in 1 .. b + max429 + 1
          BY <5>1
        <5>3. QED
          BY <5>2 DEF a, b
      <4>2. QED
        BY <4>1 DEF Sleeps
    <3>3. start = [r EXCEPT !.now = r.now + backoff]
      OBVIOUS
    <3> HIDE DEF r, t, l, start, reply
    <3>4. Sends(asked, r, from, interval)
      <4>1. Sends(Request([r EXCEPT !.now = r.now + backoff], l, interval), r, from, interval)
        BY <2>3, <3>2, RequestRule
      <4>2. QED
        BY <3>3, <4>1
    <3> HIDE DEF asked
    <3>5. Heard(t, asked, from, m + 1, max429, interval)
      BY <3>1, <3>4, AnswerRule DEF Sends
    <3>6. Len(asked.sent) = Len(r.sent) + 1 /\ asked.errors = r.errors
      BY <3>4 DEF Sends
    <3>7. r.errors = run.errors
      BY <2>1, <2>5 DEF Tried
    <3>8. Len(asked.sent) <= Len(run.sent) + (m + 1) + 1
      BY <2>3, <3>6 DEF r
    <3>9. Tried(t, run, from, m + 1, max429, interval)
      BY <3>5, <3>6, <3>7, <3>8 DEF Heard, Tried
    <3>10. QED
      BY <3>9 DEF t
  <2>6. QED
    BY <2>4, <2>5
<1>5. max429 \in all
  <2> HIDE DEF all
  <2>1. QED
    BY <1>3, <1>4, AllNaturals
<1>6. QED
  BY <1>1, <1>5

(* The endpoints come in turn.                                             *)
Rounds(u, bucket, now, replies, late, backoff, max429, urls, interval) ==
  /\ Call(bucket, now, replies, late, backoff, max429, urls, interval) = u[urls]
  /\ u[0] = StartCall(bucket, now)
  /\ \A k \in 1 .. urls : u[k] = IF u[k - 1].done # "no" THEN u[k - 1]
                                  ELSE Endpoint(u[k - 1], replies, late, backoff, max429, interval)

(* What the recursion over the endpoints stands for.                       *)
LEMMA CallTurns ==
  ASSUME NEW bucket, NEW now, NEW replies, NEW late, NEW backoff, NEW max429, NEW urls \in Nat,
         NEW interval
  PROVE  \E u : Rounds(u, bucket, now, replies, late, backoff, max429, urls, interval)
<1> DEFINE turn(old, k) == IF old.done # "no" THEN old
                           ELSE Endpoint(old, replies, late, backoff, max429, interval)
           IsUpto(u, m) == u = [k \in 0 .. m |-> IF k = 0 THEN StartCall(bucket, now)
                                                 ELSE turn(u[k - 1], k)]
           upto == CHOOSE u : IsUpto(u, urls)
           all == {m \in Nat : \E u : IsUpto(u, m)}
<1>1. 0 \in all
  <2>1. IsUpto([k \in 0 .. 0 |-> StartCall(bucket, now)], 0)
    OBVIOUS
  <2>2. QED
    BY <2>1
<1>2. ASSUME NEW m \in Nat, m \in all PROVE m + 1 \in all
  <2> HIDE DEF turn
  <2>1. PICK u : IsUpto(u, m)
    BY <1>2
  <2> DEFINE v == [k \in 0 .. m + 1 |-> IF k = m + 1 THEN turn(u[m], m + 1) ELSE u[k]]
  <2>2. ASSUME NEW k \in 0 .. m + 1
        PROVE  v[k] = IF k = 0 THEN StartCall(bucket, now) ELSE turn(v[k - 1], k)
    BY <2>1
  <2>3. IsUpto(v, m + 1)
    BY <2>2
  <2> HIDE DEF v, IsUpto
  <2>4. QED
    BY <2>3
<1>3. urls \in all
  <2> HIDE DEF all
  <2>1. QED
    BY <1>1, <1>2, AllNaturals
<1>4. IsUpto(upto, urls) /\ Call(bucket, now, replies, late, backoff, max429, urls, interval) = upto[urls]
  BY <1>3, Zenon DEF Call
<1> HIDE DEF upto
<1>5. upto[0] = StartCall(bucket, now) /\ \A k \in 1 .. urls : upto[k] = turn(upto[k - 1], k)
  <2> HIDE DEF turn
  <2>1. QED
    BY <1>4
<1>6. QED
  BY <1>4, <1>5 DEF Rounds

(* A call that fails has asked every endpoint, and counts each once.       *)
Called(t, from, urls, interval) ==
  /\ Paced(t, from, interval)
  /\ Len(t.errors) <= urls /\ (t.done = "no" => Len(t.errors) = urls)

(* A call keeps the requests spaced, counts an endpoint at most once, and  *)
(* fails only after all of them.                                           *)
LEMMA CallRule ==
  ASSUME NEW interval \in Nat, NEW bucket \in Buckets(interval), NEW now \in Int, bucket.last <= now,
         NEW replies, NEW late, NEW backoff \in Nat, NEW max429 \in Nat, NEW urls \in Nat,
         Sleeps(late, urls * (max429 + 1))
  PROVE  Called(Call(bucket, now, replies, late, backoff, max429, urls, interval),
                Earliest(bucket, interval), urls, interval)
<1> DEFINE from == Earliest(bucket, interval)
           tries == max429 + 1
<1>1. PICK u : Rounds(u, bucket, now, replies, late, backoff, max429, urls, interval)
  BY CallTurns
<1>2. tries \in Nat /\ from \in Int
  BY DEF Earliest, Buckets
<1> DEFINE Reached(t, m) == Called(t, from, m, interval) /\ Len(t.sent) <= m * tries
           all == {m \in Nat : m <= urls => Reached(u[m], m)}
<1>3. 0 \in all
  <2>1. u[0] = StartCall(bucket, now)
    BY <1>1 DEF Rounds
  <2>2. /\ u[0].bucket = bucket /\ u[0].now = now /\ u[0].sent = <<>> /\ u[0].errors = <<>>
        /\ u[0] \in Runs(interval)
    BY <2>1 DEF StartCall, Runs
  <2>3. Spaced(<<>>, from, from, interval) /\ Len(<<>>) = 0 /\ 0 * tries = 0
    BY <1>2, SpacedNone
  <2> HIDE DEF tries
  <2>4. Reached(u[0], 0)
    BY <2>2, <2>3 DEF Called, Paced
  <2> HIDE DEF Reached
  <2>5. QED
    BY <2>4
<1>4. ASSUME NEW m \in Nat, m \in all PROVE m + 1 \in all
  <2> SUFFICES ASSUME m + 1 <= urls PROVE Reached(u[m + 1], m + 1)
    OBVIOUS
  <2> DEFINE r == u[m]
             t == u[m + 1]
             a == m * tries
             b == (m + 1) * tries
             c == urls * tries
  <2>1. Called(r, from, m, interval) /\ Len(r.sent) <= a
    BY <1>4
  <2>2. t = IF r.done # "no" THEN r ELSE Endpoint(r, replies, late, backoff, max429, interval)
    <3>1. m + 1 \in 1 .. urls /\ m + 1 - 1 = m
      OBVIOUS
    <3>2. QED
      BY <1>1, <3>1 DEF Rounds
  <2>3. b = a + tries /\ a \in Nat /\ b \in Nat /\ c \in Nat /\ b <= c
    <3>1. (m + 1) * tries <= urls * tries
      BY <1>2, Scale
    <3>2. QED
      BY <1>2, <3>1
  <2>4. /\ Paced(r, from, interval) /\ Len(r.sent) \in Nat
        /\ Len(r.errors) \in Nat /\ Len(r.errors) <= m
    <3>1. Paced(r, from, interval) /\ Len(r.errors) <= m
      BY <2>1 DEF Called
    <3>2. r.sent \in Seq(Int) /\ r.errors \in Seq(BOOLEAN)
      BY <3>1 DEF Paced, Runs
    <3>3. QED
      BY <3>1, <3>2
  <2>5. CASE r.done # "no"
    <3>1. t = r
      BY <2>2, <2>5
    <3>2. Len(r.sent) <= b /\ Len(r.errors) <= m + 1
      <4> DEFINE x == Len(r.sent)
      <4>1. x <= a /\ x \in Nat
        BY <2>1, <2>4
      <4> HIDE DEF a, b, x, tries
      <4>2. x <= b
        BY <1>2, <2>3, <4>1
      <4>3. QED
        BY <2>4, <4>2 DEF x
    <3> HIDE DEF tries
    <3>3. QED
      BY <2>4, <2>5, <3>1, <3>2 DEF Called
  <2>6. CASE r.done = "no"
    <3>1. t = Endpoint(r, replies, late, backoff, max429, interval)
      BY <2>2, <2>6
    <3> DEFINE x == Len(r.sent)
    <3>2. x \in Nat /\ x <= a /\ x + max429 + 1 <= b /\ x + max429 + 1 <= c
      <4>1. x <= a /\ x \in Nat /\ tries = max429 + 1
        BY <2>1, <2>4
      <4> HIDE DEF a, b, c, x, tries
      <4>2. QED
        BY <2>3, <4>1
    <3>3. Sleeps(late, x + max429 + 1)
      <4>1. Sleeps(late, c)
        OBVIOUS
      <4> HIDE DEF c, x
      <4>2. 1 .. (x + max429 + 1) \subseteq 1 .. c
        BY <2>3, <3>2
      <4>3. QED
        BY <4>1, <4>2 DEF Sleeps
    <3>4. Tried(t, r, from, max429, max429, interval)
      <4> HIDE DEF r, t, from
      <4>1. QED
        BY <2>4, <3>1, <3>3, EndpointRule
    <3>5. Paced(t, from, interval) /\ t.done # "retry" /\ Len(t.errors) = Len(r.errors) + 1
      BY <3>4 DEF Tried
    <3>6. Len(r.errors) = m
      BY <2>1, <2>6 DEF Called
    <3>7. Len(t.sent) <= b
      <4>1. Len(t.sent) <= x + max429 + 1
        BY <3>4 DEF Tried
      <4>2. Len(t.sent) \in Nat
        BY <3>5 DEF Paced, Runs
      <4> DEFINE y == Len(t.sent)
      <4> HIDE DEF b, x, y
      <4>3. y <= b
        BY <2>3, <3>2, <4>1, <4>2 DEF y
      <4>4. QED
        BY <4>3 DEF y
    <3> HIDE DEF tries
    <3>8. QED
      BY <3>5, <3>6, <3>7 DEF Called
  <2>7. QED
    BY <2>5, <2>6
<1>5. urls \in all
  <2> HIDE DEF all
  <2>1. QED
    BY <1>3, <1>4, AllNaturals
<1>6. QED
  BY <1>1, <1>5 DEF Rounds

(* Calls share the bucket and the clock, and go out one after the other.   *)
Idle == [bucket |-> FullBucket(Rate.interval), now |-> 0, sent |-> <<>>, errors |-> <<>>, done |-> "no"]
NextCall(old, call) ==
  Call(old.bucket, old.now + call.gap, call.replies, call.late, Rate.backoff, Rate.retries,
       Rate.endpoints, Rate.interval)

Continued(t, old, call) == LET run == NextCall(old, call) IN t = [run EXCEPT !.sent = old.sent \o @]

(* Each call starts where the one before it left the bucket.               *)
LEMMA MadeTurns ==
  ASSUME NEW calls, Len(calls) \in Nat
  PROVE  /\ Made(calls)[0] = Idle
         /\ \A n \in 1 .. Len(calls) : Continued(Made(calls)[n], Made(calls)[n - 1], calls[n])
<1> DEFINE turn(old, n) == LET run == NextCall(old, calls[n]) IN [run EXCEPT !.sent = old.sent \o @]
           IsUpto(u, m) == u = [n \in 0 .. m |-> IF n = 0 THEN Idle ELSE turn(u[n - 1], n)]
           upto == CHOOSE u : IsUpto(u, Len(calls))
           all == {m \in Nat : \E u : IsUpto(u, m)}
<1>1. 0 \in all
  <2>1. IsUpto([n \in 0 .. 0 |-> Idle], 0)
    OBVIOUS
  <2>2. QED
    BY <2>1
<1>2. ASSUME NEW m \in Nat, m \in all PROVE m + 1 \in all
  <2> HIDE DEF turn
  <2>1. PICK u : IsUpto(u, m)
    BY <1>2
  <2> DEFINE v == [n \in 0 .. m + 1 |-> IF n = m + 1 THEN turn(u[m], m + 1) ELSE u[n]]
  <2>2. ASSUME NEW n \in 0 .. m + 1 PROVE v[n] = IF n = 0 THEN Idle ELSE turn(v[n - 1], n)
    BY <2>1
  <2>3. IsUpto(v, m + 1)
    BY <2>2
  <2> HIDE DEF v, IsUpto
  <2>4. QED
    BY <2>3
<1>3. Len(calls) \in all
  <2> HIDE DEF all
  <2>1. QED
    BY <1>1, <1>2, AllNaturals
<1>4. IsUpto(upto, Len(calls)) /\ Made(calls) = upto
  BY <1>3, Zenon DEF Made, NextCall, Idle
<1> HIDE DEF upto
<1>5. upto[0] = Idle /\ \A n \in 1 .. Len(calls) : upto[n] = turn(upto[n - 1], n)
  <2> HIDE DEF turn
  <2>1. QED
    BY <1>4
<1>6. QED
  BY <1>4, <1>5 DEF Continued

(* However often calls are made, all their requests are an interval apart. *)
CallsInTime(calls) ==
  /\ Len(calls) \in Nat
  /\ \A n \in 1 .. Len(calls) :
       calls[n].gap \in Nat /\ Sleeps(calls[n].late, Rate.endpoints * (Rate.retries + 1))

(* After any of the calls all requests so far are an interval apart.       *)
LEMMA MadeRule ==
  ASSUME NEW calls, CallsInTime(calls), NEW n \in 1 .. Len(calls)
  PROVE  Called(Made(calls)[n], 0, Rate.endpoints, Rate.interval)
<1> DEFINE u == Made(calls)
           interval == Rate.interval
           Good(t) == Paced(t, 0, interval)
           all == {m \in Nat : m <= Len(calls) =>
                     /\ Paced(u[m], 0, interval)
                     /\ m > 0 => Called(u[m], 0, Rate.endpoints, interval)}
<1>1. /\ interval \in Nat /\ Rate.backoff \in Nat /\ Rate.retries \in Nat /\ Rate.endpoints \in Nat
      /\ Len(calls) \in Nat
  BY RateAssumption DEF CallsInTime
<1>2. /\ u[0] = Idle
      /\ \A m \in 1 .. Len(calls) :
           Continued(u[m], u[m - 1], calls[m])
  BY <1>1, MadeTurns
<1> HIDE DEF u, interval
<1>3. 0 \in all
  <2>1. /\ Idle \in Runs(interval) /\ Idle.bucket.last = 0 /\ Idle.now = 0 /\ Idle.sent = <<>>
        /\ Earliest(Idle.bucket, interval) = 0
    BY <1>1 DEF Idle, FullBucket, Runs, Buckets, Earliest, interval
  <2>2. Paced(Idle, 0, interval)
    BY <2>1, SpacedNone DEF Paced
  <2>3. QED
    BY <1>2, <2>2
<1>4. ASSUME NEW m \in Nat, m \in all PROVE m + 1 \in all
  <2> SUFFICES ASSUME m + 1 <= Len(calls)
               PROVE  Called(u[m + 1], 0, Rate.endpoints, interval)
    BY DEF Called
  <2> DEFINE old == u[m]
             c == calls[m + 1]
             now == old.now + c.gap
             from == Earliest(old.bucket, interval)
             run == NextCall(old, c)
             t == u[m + 1]
  <2>1. m + 1 \in 1 .. Len(calls) /\ m <= Len(calls) /\ m + 1 - 1 = m
    OBVIOUS
  <2>2. t = [run EXCEPT !.sent = old.sent \o run.sent]
    <3>1. Continued(u[m + 1], u[m], calls[m + 1])
      BY <1>2, <2>1
    <3>2. QED
      BY <3>1 DEF Continued
  <2>3. Paced(old, 0, interval)
    BY <1>4, <2>1
  <2>4. /\ old.bucket \in Buckets(interval) /\ old.bucket.last \in Int /\ old.now \in Int
        /\ old.bucket.last <= old.now /\ old.sent \in Seq(Int)
        /\ Spaced(old.sent, 0, from, interval)
    BY <2>3 DEF Paced, Runs, Buckets
  <2>5. c.gap \in Nat /\ Sleeps(c.late, Rate.endpoints * (Rate.retries + 1))
    BY <2>1 DEF CallsInTime
  <2> HIDE DEF old, c
  <2>6. now \in Int /\ old.bucket.last <= now
    BY <2>4, <2>5
  <2>7. run = Call(old.bucket, now, c.replies, c.late, Rate.backoff, Rate.retries, Rate.endpoints, interval)
    BY DEF NextCall, interval
  <2> HIDE DEF now, run
  <2>8. Called(run, from, Rate.endpoints, interval)
    BY <1>1, <2>4, <2>5, <2>6, <2>7, CallRule
  <2>9. /\ run \in Runs(interval) /\ run.bucket.last <= run.now /\ run.sent \in Seq(Int)
        /\ Spaced(run.sent, from, Earliest(run.bucket, interval), interval)
    BY <2>8 DEF Called, Paced, Runs
  <2> HIDE DEF from
  <2>10. Spaced(old.sent \o run.sent, 0, Earliest(run.bucket, interval), interval)
    BY <1>1, <2>4, <2>9, SpacedConcat
  <2> DEFINE s == old.sent \o run.sent
  <2>11. s \in Seq(Int) /\ t = [run EXCEPT !.sent = s]
    BY <2>2, <2>4, <2>9
  <2> HIDE DEF s, t
  <2>12. /\ t \in Runs(interval) /\ t.bucket = run.bucket /\ t.now = run.now /\ t.sent = s
         /\ t.errors = run.errors /\ t.done = run.done
    BY <2>9, <2>11 DEF Runs
  <2>13. Called(t, 0, Rate.endpoints, interval)
    BY <2>8, <2>9, <2>10, <2>12 DEF Called, Paced, s
  <2>14. QED
    BY <2>13 DEF t
<1>5. n \in all
  <2> HIDE DEF all
  <2>1. n \in Nat
    BY <1>1
  <2>2. QED
    BY <1>3, <1>4, <2>1, AllNaturals
<1>6. QED
  BY <1>1, <1>5 DEF u, interval

(* Reads share the limiter and go out one after the other too.             *)
NextRead(old, read) ==
  Read(old.next, old.now + read.gap, read.replies, Rate.backoff, Rate.retries, Rate.interval)
Refetched(t, old, read) == LET run == NextRead(old, read) IN t = [run EXCEPT !.sent = old.sent \o @]

(* Each read starts where the one before it left the limiter.              *)
LEMMA FetchedTurns ==
  ASSUME NEW reads, Len(reads) \in Nat
  PROVE  /\ Fetched(reads)[0] = [next |-> 0, now |-> 0, sent |-> <<>>]
         /\ \A n \in 1 .. Len(reads) : Refetched(Fetched(reads)[n], Fetched(reads)[n - 1], reads[n])
<1> DEFINE first == [next |-> 0, now |-> 0, sent |-> <<>>]
           turn(old, n) == LET run == NextRead(old, reads[n]) IN [run EXCEPT !.sent = old.sent \o @]
           IsUpto(u, m) == u = [n \in 0 .. m |-> IF n = 0 THEN first ELSE turn(u[n - 1], n)]
           upto == CHOOSE u : IsUpto(u, Len(reads))
           all == {m \in Nat : \E u : IsUpto(u, m)}
<1>1. 0 \in all
  <2>1. IsUpto([n \in 0 .. 0 |-> first], 0)
    OBVIOUS
  <2>2. QED
    BY <2>1
<1>2. ASSUME NEW m \in Nat, m \in all PROVE m + 1 \in all
  <2> HIDE DEF turn
  <2>1. PICK u : IsUpto(u, m)
    BY <1>2
  <2> DEFINE v == [n \in 0 .. m + 1 |-> IF n = m + 1 THEN turn(u[m], m + 1) ELSE u[n]]
  <2>2. ASSUME NEW n \in 0 .. m + 1 PROVE v[n] = IF n = 0 THEN first ELSE turn(v[n - 1], n)
    BY <2>1
  <2>3. IsUpto(v, m + 1)
    BY <2>2
  <2> HIDE DEF v, IsUpto
  <2>4. QED
    BY <2>3
<1>3. Len(reads) \in all
  <2> HIDE DEF all
  <2>1. QED
    BY <1>1, <1>2, AllNaturals
<1>4. IsUpto(upto, Len(reads)) /\ Fetched(reads) = upto
  BY <1>3, Zenon DEF Fetched, NextRead
<1> HIDE DEF upto
<1>5. upto[0] = first /\ \A n \in 1 .. Len(reads) : upto[n] = turn(upto[n - 1], n)
  <2> HIDE DEF turn, first
  <2>1. QED
    BY <1>4
<1>6. QED
  BY <1>4, <1>5 DEF Refetched

(* However often reads are made, all their requests are an interval apart, *)
(* and each asks again on 429 alone.                                       *)
ReadsInTime(reads) == Len(reads) \in Nat /\ \A n \in 1 .. Len(reads) : reads[n].gap \in Nat
Fetches(t, old, replies) ==
  /\ t.now \in Int /\ Spaced(t.sent, 0, t.next, Rate.interval)
  /\ Len(t.sent) \in Nat /\ Len(old.sent) \in Nat
  /\ \A k \in 0 .. Rate.retries : Len(t.sent) - Len(old.sent) > k <=> Denied(replies, k)

Fetching(t) == t.now \in Int /\ Spaced(t.sent, 0, t.next, Rate.interval)

(* After any of the reads all requests so far are an interval apart, and   *)
(* the last read asked again on 429 alone.                                 *)
LEMMA FetchedRule ==
  ASSUME NEW reads, ReadsInTime(reads), NEW n \in 1 .. Len(reads)
  PROVE  Fetches(Fetched(reads)[n], Fetched(reads)[n - 1], reads[n].replies)
<1> DEFINE u == Fetched(reads)
           all == {m \in Nat : m <= Len(reads) => Fetching(u[m])}
<1>1. /\ Rate.interval \in Nat /\ Rate.backoff \in Nat /\ Rate.retries \in Nat
      /\ Len(reads) \in Nat
  BY RateAssumption DEF ReadsInTime
<1>2. /\ u[0] = [next |-> 0, now |-> 0, sent |-> <<>>]
      /\ \A m \in 1 .. Len(reads) : Refetched(u[m], u[m - 1], reads[m])
  BY <1>1, FetchedTurns
<1> HIDE DEF u
<1>3. 0 \in all
  <2>1. Fetching(u[0])
    BY <1>2, SpacedNone DEF Fetching
  <2>2. QED
    BY <2>1
<1>4. ASSUME NEW m \in 1 .. Len(reads), Fetching(u[m - 1])
      PROVE  Fetching(u[m]) /\ Fetches(u[m], u[m - 1], reads[m].replies)
  <2> DEFINE old == u[m - 1]
             c == reads[m]
             now == old.now + c.gap
             run == NextRead(old, c)
             t == u[m]
             s == old.sent \o run.sent
  <2>1. t = [run EXCEPT !.sent = s]
    <3>1. Refetched(u[m], u[m - 1], reads[m])
      BY <1>2
    <3>2. QED
      BY <3>1 DEF Refetched
  <2>2. /\ old.now \in Int /\ Spaced(old.sent, 0, old.next, Rate.interval)
        /\ old.next \in Int /\ old.sent \in Seq(Int)
    <3>1. old.now \in Int /\ Spaced(old.sent, 0, old.next, Rate.interval)
      BY <1>4 DEF Fetching
    <3>2. QED
      BY <3>1 DEF Spaced
  <2>3. c.gap \in Nat
    BY DEF ReadsInTime
  <2> HIDE DEF old, c
  <2>4. now \in Int
    BY <2>2, <2>3
  <2>5. run = Read(old.next, now, c.replies, Rate.backoff, Rate.retries, Rate.interval)
    BY DEF NextRead
  <2> HIDE DEF now, run
  <2>6. Asks(run, old.next, c.replies, Rate.retries, Rate.interval)
    BY <1>1, <2>2, <2>4, <2>5, ReadRule
  <2>7. /\ run.now \in Int /\ Spaced(run.sent, old.next, run.next, Rate.interval)
        /\ run.sent \in Seq(Int) /\ run = [next |-> run.next, now |-> run.now, sent |-> run.sent]
    BY <2>6 DEF Asks, Spaced
  <2>8. Spaced(s, 0, run.next, Rate.interval)
    BY <1>1, <2>2, <2>7, SpacedConcat
  <2>9. Len(s) = Len(old.sent) + Len(run.sent) /\ Len(old.sent) \in Nat /\ Len(run.sent) \in Nat
    BY <2>2, <2>7
  <2> HIDE DEF s, t
  <2>10. t.next = run.next /\ t.now = run.now /\ t.sent = s
    BY <2>1, <2>7
  <2>11. \A k \in 0 .. Rate.retries : Len(run.sent) > k <=> Denied(c.replies, k)
    BY <2>6 DEF Asks
  <2>12. Len(t.sent) \in Nat /\ Len(t.sent) - Len(old.sent) = Len(run.sent)
    <3> DEFINE x == Len(old.sent)
               y == Len(run.sent)
    <3>1. x \in Nat /\ y \in Nat /\ Len(t.sent) = x + y
      BY <2>9, <2>10
    <3> HIDE DEF x, y
    <3>2. Len(t.sent) \in Nat /\ Len(t.sent) - x = y
      BY <3>1
    <3>3. QED
      BY <3>2 DEF x, y
  <2>13. Fetching(t)
    BY <2>7, <2>8, <2>10 DEF Fetching
  <2>14. Fetches(t, old, c.replies)
    BY <2>9, <2>11, <2>12, <2>13 DEF Fetches, Fetching
  <2>15. QED
    BY <2>13, <2>14 DEF t, old, c
<1>5. ASSUME NEW m \in Nat, m \in all PROVE m + 1 \in all
  <2> SUFFICES ASSUME m + 1 <= Len(reads) PROVE Fetching(u[m + 1])
    OBVIOUS
  <2>1. m + 1 \in 1 .. Len(reads) /\ m + 1 - 1 = m /\ m <= Len(reads)
    BY <1>1
  <2>2. Fetching(u[m])
    BY <1>5, <2>1
  <2>3. QED
    BY <1>4, <2>1, <2>2
<1>6. n - 1 \in all
  <2> HIDE DEF all
  <2>1. n - 1 \in Nat
    BY <1>1
  <2>2. QED
    BY <1>3, <1>5, <2>1, AllNaturals
<1>7. Fetching(u[n - 1])
  BY <1>1, <1>6
<1>8. QED
  BY <1>4, <1>7 DEF u

(* The calls, the callers and the reads are as assumed.                    *)
LEMMA RatesInTime ==
  /\ \A i \in Calls : CallsInTime(i) /\ DOMAIN i = 1 .. Len(i)
  /\ \A i \in Reads : ReadsInTime(i) /\ DOMAIN i = 1 .. Len(i)
  BY RateAssumption DEF CallsInTime, ReadsInTime, Sleeps

(* What the limiters hold of the board's callers.                          *)
SlotsInOrder(arrivals) ==
  LET slots == Slots(arrivals, Rate.interval) IN
  /\ \A k \in DOMAIN arrivals : slots[k] \in Int /\ slots[k] >= arrivals[k]
  /\ \A j, k \in DOMAIN arrivals : j < k => slots[k] - slots[j] >= (k - j) * Rate.interval

(* The slots of the callers keep the rate.                                 *)
LEMMA SlotsInTime == \A i \in Arrivals : SlotsInOrder(i.at)
<1> SUFFICES ASSUME NEW i \in Arrivals PROVE SlotsInOrder(i.at)
  OBVIOUS
<1> DEFINE arrivals == i.at
<1>1. /\ Rate.interval \in Nat /\ Len(arrivals) \in Nat /\ DOMAIN arrivals = 1 .. Len(arrivals)
      /\ \A k \in DOMAIN arrivals : arrivals[k] \in Int
  BY RateAssumption
<1> HIDE DEF arrivals
<1>2. SlotsInOrder(arrivals)
  BY <1>1, SlotsRule DEF SlotsInOrder
<1>3. QED
  BY <1>2 DEF arrivals

(* Whatever is called, answered or late, no limiter lets its calls come    *)
(* faster than its rate, no call fails before every endpoint was tried,    *)
(* and a read is made again on 429 alone (TokenBucket.acquire,             *)
(* HttpRpc.call, RateLimiter.acquire, _read).                              *)
THEOREM CallsAlwaysKeepRate == Spec => []CallsKeepRate
<1>1. AInv => RequestsKeepRate
  <2> SUFFICES ASSUME AInv, topic = "calls", NEW n \in DOMAIN input
               PROVE  LET run == Made(input)[n]
                      IN /\ \A k \in 1 .. Len(run.sent) - 1 :
                              run.sent[k + 1] - run.sent[k] >= Rate.interval
                         /\ Len(run.errors) <= Rate.endpoints
                         /\ run.done = "no" => Len(run.errors) = Rate.endpoints
    BY DEF RequestsKeepRate
  <2>1. CallsInTime(input) /\ n \in 1 .. Len(input)
    BY RatesInTime DEF AInv
  <2>2. Called(Made(input)[n], 0, Rate.endpoints, Rate.interval)
    BY <2>1, MadeRule
  <2>3. QED
    BY <2>2 DEF Called, Paced, Spaced
<1>2. AInv => SlotsKeepRate
  <2> DEFINE slots == Slots(input.at, Rate.interval)
             released(k) == slots[k] + (IF slots[k] > input.at[k] THEN input.lag[k] ELSE 0)
  <2> SUFFICES ASSUME AInv, topic = "slots", NEW j \in DOMAIN input.at, NEW k \in DOMAIN input.at,
                      j < k
               PROVE  /\ slots[k] >= input.at[k]
                      /\ released(k) - released(j) >= (k - j) * Rate.interval - input.lag[j]
    BY DEF SlotsKeepRate
  <2>1. input \in Arrivals
    BY DEF AInv
  <2>2. SlotsInOrder(input.at)
    BY <2>1, SlotsInTime
  <2>3. /\ slots[k] \in Int /\ slots[j] \in Int /\ slots[k] >= input.at[k]
        /\ slots[k] - slots[j] >= (k - j) * Rate.interval
    BY <2>2 DEF SlotsInOrder
  <2>4. /\ input.at[k] \in Int /\ input.at[j] \in Int /\ input.lag[k] \in Nat
        /\ input.lag[j] \in Nat /\ j \in Int /\ k \in Int /\ Rate.interval \in Nat
    BY <2>1, RateAssumption
  <2> DEFINE x == (k - j) * Rate.interval
             a == slots[k]
             b == slots[j]
             r == released(k)
             q == released(j)
             late == input.lag[j]
  <2>5. /\ x \in Int /\ a \in Int /\ b \in Int /\ late \in Nat /\ r \in Int /\ q \in Int
        /\ a - b >= x /\ r >= a /\ q <= b + late
    BY <2>3, <2>4
  <2> HIDE DEF x, a, b, r, q, late
  <2>6. r - q >= x - late
    BY <2>5
  <2>7. QED
    BY <2>3, <2>6 DEF x, r, q, late
<1>3. AInv => ReadsKeepRate
  <2> DEFINE upto == Fetched(input)
  <2> SUFFICES ASSUME AInv, topic = "reads", NEW n \in DOMAIN input
               PROVE  /\ \A k \in 1 .. Len(upto[n].sent) - 1 :
                           upto[n].sent[k + 1] - upto[n].sent[k] >= Rate.interval
                      /\ \A k \in 0 .. Rate.retries :
                           Len(upto[n].sent) - Len(upto[n - 1].sent) > k
                             <=> \A l \in 1 .. k : input[n].replies[l] = "429"
    BY DEF ReadsKeepRate
  <2>1. ReadsInTime(input) /\ n \in 1 .. Len(input)
    BY RatesInTime DEF AInv
  <2>2. Fetches(upto[n], upto[n - 1], input[n].replies)
    BY <2>1, FetchedRule
  <2> HIDE DEF upto
  <2>3. QED
    BY <2>2 DEF Fetches, Spaced, Denied
<1>4. AInv => CallsKeepRate
  BY <1>1, <1>2, <1>3 DEF CallsKeepRate
<1>5. QED
  BY <1>4, Asked, PTL

-----------------------------------------------------------------------------
(***************************************************************************)
(* Runs: what a recursion takes from turn to turn.                         *)
(***************************************************************************)
(* Where every turn takes a state to a state, there is a sequence of       *)
(* states, one for each turn.                                              *)
IsRun(u, n, b, turn) == u[0] = b /\ \A k \in 1 .. n : u[k] = turn[k][u[k - 1]]

(* Such a sequence exists, by induction on the number of turns.            *)
LEMMA RunExists ==
  ASSUME NEW n \in Nat, NEW T, NEW b \in T, NEW turn, \A k \in 1 .. n : turn[k] \in [T -> T]
  PROVE  \E u \in [0 .. n -> T] : IsRun(u, n, b, turn)
<1> DEFINE all == {m \in Nat : m <= n => \E u \in [0 .. m -> T] : IsRun(u, m, b, turn)}
<1>1. 0 \in all
  <2>1. [k \in 0 .. 0 |-> b] \in [0 .. 0 -> T] /\ IsRun([k \in 0 .. 0 |-> b], 0, b, turn)
    BY DEF IsRun
  <2>2. QED
    BY <2>1
<1>2. ASSUME NEW m \in Nat, m \in all PROVE m + 1 \in all
  <2> SUFFICES ASSUME m + 1 <= n PROVE \E u \in [0 .. m + 1 -> T] : IsRun(u, m + 1, b, turn)
    OBVIOUS
  <2>1. PICK u \in [0 .. m -> T] : IsRun(u, m, b, turn)
    BY <1>2
  <2> DEFINE v == [k \in 0 .. m + 1 |-> IF k = m + 1 THEN turn[m + 1][u[m]] ELSE u[k]]
  <2>2. turn[m + 1] \in [T -> T] /\ u[m] \in T
    OBVIOUS
  <2>3. v \in [0 .. m + 1 -> T]
    BY <2>2
  <2>4. v[0] = b
    BY <2>1 DEF IsRun
  <2>5. ASSUME NEW k \in 1 .. m + 1 PROVE v[k] = turn[k][v[k - 1]]
    <3>1. CASE k = m + 1
      BY <3>1
    <3>2. CASE k # m + 1
      BY <2>1, <3>2 DEF IsRun
    <3>3. QED
      BY <3>1, <3>2
  <2> HIDE DEF v
  <2>6. IsRun(v, m + 1, b, turn)
    BY <2>4, <2>5 DEF IsRun
  <2>7. QED
    BY <2>3, <2>6
<1>3. n \in all
  <2> HIDE DEF all
  <2>1. QED
    BY <1>1, <1>2, AllNaturals
<1>4. QED
  BY <1>3

-----------------------------------------------------------------------------
(***************************************************************************)
(* Clusters.  Every root found is joined to the leader it is found for,    *)
(* and what was joined stays so; when all pairs are done, who is alike has *)
(* one root, and so the leaders with a root are all that are joined to it. *)
(***************************************************************************)
(* Parents that are no later than their children.                          *)
Forests(n) == {p \in [1 .. n -> 1 .. n] : \A i \in 1 .. n : p[i] <= i}

(* The way up from i.                                                      *)
Climbs(u, p, n, i) ==
  /\ u \in [0 .. n -> 1 .. n] /\ u[0] = i /\ \A k \in 1 .. n : u[k] = p[u[k - 1]]
  /\ Find(p, i) = u[n]

(* Find goes up by one parent at a time.                                   *)
LEMMA FindTurns ==
  ASSUME NEW n \in Nat, NEW p \in Forests(n), NEW i \in 1 .. n
  PROVE  \E u : Climbs(u, p, n, i)
<1> DEFINE T == 1 .. n
           turn == [k \in 1 .. n |-> p]
           IsUp(u) == u = [k \in 0 .. n |-> IF k = 0 THEN i ELSE p[u[k - 1]]]
           up == CHOOSE u : IsUp(u)
<1>1. p \in [1 .. n -> 1 .. n] /\ Len(p) = n
  BY DEF Forests
<1>2. PICK w \in [0 .. n -> T] : IsRun(w, n, i, turn)
  <2>1. \A k \in 1 .. n : turn[k] \in [T -> T]
    BY <1>1
  <2> HIDE DEF turn, T
  <2>2. i \in T
    BY DEF T
  <2>3. QED
    BY <2>1, <2>2, RunExists
<1>3. IsUp(w)
  <2>1. ASSUME NEW k \in 0 .. n PROVE w[k] = IF k = 0 THEN i ELSE p[w[k - 1]]
    <3>1. CASE k = 0
      BY <1>2, <3>1 DEF IsRun
    <3>2. CASE k # 0
      <4>1. k \in 1 .. n /\ turn[k] = p
        BY <3>2
      <4> HIDE DEF turn
      <4>2. QED
        BY <1>2, <3>2, <4>1 DEF IsRun
    <3>3. QED
      BY <3>1, <3>2
  <2>2. w = [k \in 0 .. n |-> w[k]]
    BY <1>2
  <2>3. QED
    BY <2>1, <2>2
<1>4. IsUp(up) /\ Find(p, i) = up[n]
  <2>1. IsUp(up)
    BY <1>3
  <2>2. QED
    BY <1>1, <2>1, Zenon DEF Find
<1> HIDE DEF up
<1>5. \A u : IsUp(u) => u = w
  <2>1. SUFFICES ASSUME NEW u, IsUp(u) PROVE u = w
    OBVIOUS
  <2> DEFINE same == {m \in Nat : m <= n => u[m] = w[m]}
  <2>2. 0 \in same
    BY <1>3, <2>1
  <2>3. ASSUME NEW m \in Nat, m \in same PROVE m + 1 \in same
    <3> SUFFICES ASSUME m + 1 <= n PROVE u[m + 1] = w[m + 1]
      OBVIOUS
    <3>1. u[m] = w[m] /\ m + 1 \in 0 .. n /\ m + 1 # 0 /\ (m + 1) - 1 = m
      BY <2>3
    <3>2. u[m + 1] = p[u[m]]
      BY <2>1, <3>1
    <3>3. w[m + 1] = p[w[m]]
      BY <1>3, <3>1
    <3>4. QED
      BY <3>1, <3>2, <3>3
  <2>4. \A m \in Nat : m \in same
    <3> HIDE DEF same
    <3>1. QED
      BY <2>2, <2>3, AllNaturals
  <2>5. \A m \in 0 .. n : u[m] = w[m]
    BY <2>4
  <2>6. u = [k \in 0 .. n |-> u[k]] /\ w = [k \in 0 .. n |-> w[k]]
    BY <1>3, <2>1
  <2>7. QED
    BY <2>5, <2>6
<1>6. up = w
  BY <1>4, <1>5
<1>7. Climbs(w, p, n, i)
  BY <1>2, <1>4, <1>6 DEF Climbs, IsRun
<1>8. QED
  BY <1>7

(* Find ends at a root, no later than where it starts, and the same from   *)
(* the parent.                                                             *)
Rooted(p, n, i, r) ==
  /\ r \in 1 .. n /\ r <= i /\ p[r] = r
  /\ Find(p, p[i]) = r /\ (p[i] = i => r = i)

(* After n steps up there is nowhere left to go: a step that moves at all  *)
(* goes down in number.                                                    *)
LEMMA FindRule ==
  ASSUME NEW n \in Nat, NEW p \in Forests(n), NEW i \in 1 .. n
  PROVE  Rooted(p, n, i, Find(p, i))
<1>1. p \in [1 .. n -> 1 .. n] /\ \A k \in 1 .. n : p[k] <= k
  BY DEF Forests
<1>2. PICK u : Climbs(u, p, n, i)
  BY FindTurns
<1>3. PICK v : Climbs(v, p, n, p[i])
  BY <1>1, FindTurns
<1>4. /\ u \in [0 .. n -> 1 .. n] /\ u[0] = i /\ \A k \in 1 .. n : u[k] = p[u[k - 1]]
      /\ Find(p, i) = u[n]
  BY <1>2 DEF Climbs
<1>5. /\ v \in [0 .. n -> 1 .. n] /\ v[0] = p[i] /\ \A k \in 1 .. n : v[k] = p[v[k - 1]]
      /\ Find(p, p[i]) = v[n]
  BY <1>3 DEF Climbs
<1> DEFINE all == {m \in Nat : m <= n =>
                     /\ u[m] <= i /\ (p[u[m]] = u[m] \/ u[m] <= i - m)
                     /\ v[m] = p[u[m]] /\ (p[i] = i => u[m] = i)}
<1>6. 0 \in all
  BY <1>1, <1>4, <1>5
<1>7. ASSUME NEW m \in Nat, m \in all PROVE m + 1 \in all
  <2> SUFFICES ASSUME m + 1 <= n
               PROVE  /\ u[m + 1] <= i /\ (p[u[m + 1]] = u[m + 1] \/ u[m + 1] <= i - (m + 1))
                      /\ v[m + 1] = p[u[m + 1]] /\ (p[i] = i => u[m + 1] = i)
    OBVIOUS
  <2>1. /\ u[m] <= i /\ (p[u[m]] = u[m] \/ u[m] <= i - m)
        /\ v[m] = p[u[m]] /\ (p[i] = i => u[m] = i)
    BY <1>7
  <2>2. m + 1 \in 1 .. n /\ (m + 1) - 1 = m /\ m \in 0 .. n
    OBVIOUS
  <2>3. u[m + 1] = p[u[m]] /\ v[m + 1] = p[v[m]]
    BY <1>4, <1>5, <2>2
  <2>4. u[m] \in 1 .. n /\ p[u[m]] \in 1 .. n /\ p[u[m]] <= u[m]
    BY <1>1, <1>4, <2>2
  <2>5. QED
    BY <2>1, <2>3, <2>4
<1>8. n \in all
  <2> HIDE DEF all
  <2>1. QED
    BY <1>6, <1>7, AllNaturals
<1>9. /\ u[n] \in 1 .. n /\ u[n] <= i /\ (p[u[n]] = u[n] \/ u[n] <= i - n)
      /\ v[n] = p[u[n]] /\ (p[i] = i => u[n] = i)
  BY <1>4, <1>8
<1>10. p[u[n]] = u[n]
  BY <1>9
<1>11. QED
  BY <1>4, <1>5, <1>9, <1>10 DEF Rooted

(* Whatever is the root at a root, and the same at a child as at its       *)
(* parent, is what Find finds.                                             *)
LEMMA FindUnique ==
  ASSUME NEW n \in Nat, NEW p \in Forests(n), NEW f,
         \A k \in 1 .. n : (p[k] = k => f[k] = k) /\ f[p[k]] = f[k],
         NEW i \in 1 .. n
  PROVE  Find(p, i) = f[i]
<1>1. PICK u : Climbs(u, p, n, i)
  BY FindTurns
<1>2. /\ u \in [0 .. n -> 1 .. n] /\ u[0] = i /\ \A k \in 1 .. n : u[k] = p[u[k - 1]]
      /\ Find(p, i) = u[n]
  BY <1>1 DEF Climbs
<1> DEFINE all == {m \in Nat : m <= n => f[u[m]] = f[i]}
<1>3. 0 \in all
  BY <1>2
<1>4. ASSUME NEW m \in Nat, m \in all PROVE m + 1 \in all
  <2> SUFFICES ASSUME m + 1 <= n PROVE f[u[m + 1]] = f[i]
    OBVIOUS
  <2>1. m + 1 \in 1 .. n /\ (m + 1) - 1 = m /\ m \in 0 .. n
    OBVIOUS
  <2>2. f[u[m]] = f[i]
    BY <1>4
  <2>3. u[m + 1] = p[u[m]] /\ u[m] \in 1 .. n
    BY <1>2, <2>1
  <2>4. QED
    BY <2>2, <2>3
<1>5. f[u[n]] = f[i]
  <2>1. n \in all
    <3> HIDE DEF all
    <3>1. QED
      BY <1>3, <1>4, AllNaturals
  <2>2. QED
    BY <2>1
<1>6. u[n] \in 1 .. n /\ p[u[n]] = u[n]
  <2>1. Rooted(p, n, i, Find(p, i))
    BY FindRule
  <2>2. QED
    BY <1>2, <2>1 DEF Rooted
<1>7. QED
  BY <1>2, <1>5, <1>6

(* A union: the two trees get the smaller root, the others keep theirs.    *)
United(p, q, n, i, j) ==
  /\ q \in Forests(n)
  /\ \A k \in 1 .. n :
       Find(q, k) = IF Find(p, k) \in {Find(p, i), Find(p, j)}
                    THEN Smaller(Find(p, i), Find(p, j)) ELSE Find(p, k)

(* unite changes the root of one tree, and no path within it.              *)
LEMMA UniteRule ==
  ASSUME NEW n \in Nat, NEW p \in Forests(n), NEW i \in 1 .. n, NEW j \in 1 .. n
  PROVE  United(p, Unite(p, i, j), n, i, j)
<1> DEFINE ri == Find(p, i)
           rj == Find(p, j)
           lo == Smaller(ri, rj)
           hi == IF ri > rj THEN ri ELSE rj
           q == [p EXCEPT ![hi] = lo]
           f == [k \in 1 .. n |-> IF Find(p, k) \in {ri, rj} THEN lo ELSE Find(p, k)]
<1>1. \A k \in 1 .. n : Rooted(p, n, k, Find(p, k))
  BY FindRule
<1>2. /\ ri \in 1 .. n /\ rj \in 1 .. n /\ p[ri] = ri /\ p[rj] = rj
      /\ p \in [1 .. n -> 1 .. n] /\ \A k \in 1 .. n : p[k] <= k
  BY <1>1 DEF Rooted, Forests
<1>3. CASE ri = rj
  <2>1. Unite(p, i, j) = p /\ lo = ri
    BY <1>2, <1>3 DEF Unite, Smaller
  <2>2. QED
    BY <1>3, <2>1 DEF United
<1>4. CASE ri # rj
  <2>1. Unite(p, i, j) = q
    BY <1>4 DEF Unite
  <2>2. /\ lo \in 1 .. n /\ hi \in 1 .. n /\ lo < hi /\ {ri, rj} = {lo, hi}
        /\ p[lo] = lo /\ p[hi] = hi
    <3>1. lo = (IF ri < rj THEN ri ELSE rj) /\ ri \in 1 .. n /\ rj \in 1 .. n /\ ri # rj
          /\ hi = (IF ri > rj THEN ri ELSE rj) /\ p[ri] = ri /\ p[rj] = rj
      BY <1>2, <1>4 DEF Smaller
    <3> HIDE DEF ri, rj, lo, hi
    <3>2. CASE ri < rj
      <4>1. lo = ri /\ hi = rj
        BY ONLY <3>1, <3>2, n \in Nat
      <4>2. QED
        BY <3>1, <3>2, <4>1
    <3>3. CASE rj < ri
      <4>1. lo = rj /\ hi = ri
        BY ONLY <3>1, <3>3, n \in Nat
      <4>2. QED
        BY <3>1, <3>3, <4>1
    <3>4. QED
      BY ONLY <3>1, <3>2, <3>3, n \in Nat
  <2> HIDE DEF ri, rj, lo, hi
  <2>3. q \in Forests(n)
    BY <1>2, <2>2 DEF Forests
  <2>4. \A k \in 1 .. n : Find(p, k) \in 1 .. n /\ Find(p, p[k]) = Find(p, k) /\ (p[k] = k => Find(p, k) = k)
    BY <1>1 DEF Rooted
  <2>5. ASSUME NEW k \in 1 .. n PROVE (q[k] = k => f[k] = k) /\ f[q[k]] = f[k]
    <3>1. CASE k = hi
      <4>1. q[k] = lo /\ Find(p, lo) = lo /\ Find(p, hi) = hi
        BY <1>2, <2>2, <2>4, <3>1
      <4>2. f[lo] = lo /\ f[hi] = lo
        BY <2>2, <4>1
      <4>3. QED
        BY <2>2, <3>1, <4>1, <4>2
    <3>2. CASE k # hi
      <4>1. q[k] = p[k] /\ p[k] \in 1 .. n
        BY <1>2, <3>2
      <4>2. f[p[k]] = f[k]
        BY <2>4, <4>1
      <4>3. ASSUME p[k] = k PROVE f[k] = k
        BY <2>2, <2>4, <3>2, <4>3
      <4>4. QED
        BY <4>1, <4>2, <4>3
    <3>3. QED
      BY <3>1, <3>2
  <2>6. ASSUME NEW k \in 1 .. n PROVE Find(q, k) = f[k]
    <3> HIDE DEF q, f
    <3>1. QED
      BY <2>3, <2>5, FindUnique
  <2>7. United(p, q, n, i, j)
    BY <2>3, <2>6 DEF United, ri, rj, lo
  <2>8. QED
    BY <2>1, <2>7
<1>5. QED
  BY <1>3, <1>4

(* The leaders within k steps of each.                                     *)
Widened(bought, s, k) ==
  [i \in DOMAIN bought |-> s[i] \cup
     {j \in DOMAIN bought : \E h \in s[i] : Alike(bought[h], bought[j], Overlap)}]
Widens(u, bought, n) ==
  /\ Joined(bought) = u[n] /\ u[0] = [i \in 1 .. n |-> {i}]
  /\ \A k \in 1 .. n : u[k] = Widened(bought, u[k - 1], k)

(* Joined widens each set once for every leader.                           *)
LEMMA JoinedTurns ==
  ASSUME NEW n \in Nat, NEW bought, Len(bought) = n, DOMAIN bought = 1 .. n
  PROVE  \E u : Widens(u, bought, n)
<1> DEFINE T == [1 .. n -> SUBSET (1 .. n)]
           b == [i \in DOMAIN bought |-> {i}]
           turn == [k \in 1 .. n |-> [s \in T |-> Widened(bought, s, k)]]
           IsStep(u) == u = [k \in 0 .. n |-> IF k = 0 THEN b ELSE Widened(bought, u[k - 1], k)]
           step == CHOOSE u : IsStep(u)
<1>1. b \in T /\ \A k \in 1 .. n : turn[k] \in [T -> T]
  <2>1. \A s \in T, k \in 1 .. n : Widened(bought, s, k) \in T
    BY DEF Widened
  <2> HIDE DEF T
  <2>2. \A k \in 1 .. n : turn[k] \in [T -> T]
    BY <2>1
  <2>3. b \in T
    BY DEF T
  <2>4. QED
    BY <2>2, <2>3
<1>2. PICK w \in [0 .. n -> T] : IsRun(w, n, b, turn)
  <2> HIDE DEF T, b, turn
  <2>1. QED
    BY <1>1, RunExists
<1>3. IsStep(w)
  <2>1. ASSUME NEW k \in 0 .. n
        PROVE  w[k] = IF k = 0 THEN b ELSE Widened(bought, w[k - 1], k)
    <3> HIDE DEF T, b
    <3>1. CASE k = 0
      BY <1>2, <3>1 DEF IsRun
    <3>2. CASE k # 0
      <4>1. k \in 1 .. n /\ w[k - 1] \in T
        BY <3>2
      <4>2. turn[k][w[k - 1]] = Widened(bought, w[k - 1], k)
        BY <4>1
      <4> HIDE DEF turn
      <4>3. QED
        BY <1>2, <3>2, <4>1, <4>2 DEF IsRun
    <3>3. QED
      BY <3>1, <3>2
  <2>2. w = [k \in 0 .. n |-> w[k]]
    BY <1>2
  <2> HIDE DEF b
  <2>3. QED
    BY <2>1, <2>2
<1>4. IsStep(step) /\ Joined(bought) = step[n]
  <2>1. IsStep(step)
    BY <1>3
  <2>2. QED
    BY <2>1, Zenon DEF Joined, Widened
<1> HIDE DEF step
<1>5. Widens(step, bought, n)
  <2>1. \A k \in 0 .. n : step[k] = IF k = 0 THEN b ELSE Widened(bought, step[k - 1], k)
    <3> HIDE DEF b
    <3>1. QED
      BY <1>4
  <2>2. b = [i \in 1 .. n |-> {i}] /\ step[0] = b
    BY <2>1
  <2> HIDE DEF b
  <2>3. \A k \in 1 .. n : step[k] = Widened(bought, step[k - 1], k)
    BY <2>1
  <2>4. QED
    BY <1>4, <2>2, <2>3 DEF Widens
<1>6. QED
  BY <1>5

(* Likeness is mutual.                                                     *)
LEMMA AlikeBoth ==
  ASSUME NEW a, NEW b, IsFiniteSet(a), IsFiniteSet(b), NEW overlap, Alike(a, b, overlap)
  PROVE  Alike(b, a, overlap)
<1>1. Cardinality(a) \in Nat /\ Cardinality(b) \in Nat
  BY FS_CardinalityType
<1>2. a \cap b = b \cap a
  OBVIOUS
<1>3. Smaller(Cardinality(a), Cardinality(b)) = Smaller(Cardinality(b), Cardinality(a))
  BY <1>1 DEF Smaller
<1>4. QED
  BY <1>2, <1>3 DEF Alike

(* C has all that are alike to its members.                                *)
ClosedUnder(bought, n, C) ==
  /\ C \in SUBSET (1 .. n)
  /\ \A h \in C, j \in 1 .. n : Alike(bought[h], bought[j], Overlap) => j \in C

(* The leaders joined to i are the least such set it is in.                *)
IsLeast(bought, n, i, C) ==
  /\ i \in C /\ ClosedUnder(bought, n, C)
  /\ \A D : ClosedUnder(bought, n, D) /\ i \in D => C \subseteq D

(* As many widenings as there are leaders are enough: each one before the  *)
(* last adds a leader, or the set is closed.                               *)
LEMMA JoinedRule ==
  ASSUME NEW n \in Nat, NEW bought, Len(bought) = n, DOMAIN bought = 1 .. n, NEW i \in 1 .. n
  PROVE  IsLeast(bought, n, i, Joined(bought)[i])
<1>1. PICK u : Widens(u, bought, n)
  BY JoinedTurns
<1> DEFINE s(k) == u[k][i]
           wider(S) == S \cup {j \in 1 .. n : \E h \in S : Alike(bought[h], bought[j], Overlap)}
<1>2. s(0) = {i} /\ \A k \in Nat : k + 1 <= n => s(k + 1) = wider(s(k))
  <2>1. s(0) = {i}
    BY <1>1 DEF Widens
  <2>2. ASSUME NEW k \in Nat, k + 1 <= n PROVE s(k + 1) = wider(s(k))
    <3>1. k + 1 \in 1 .. n /\ (k + 1) - 1 = k
      BY <2>2
    <3>2. u[k + 1] = Widened(bought, u[k], k + 1)
      BY <1>1, <3>1 DEF Widens
    <3>3. QED
      BY <3>2 DEF Widened
  <2>3. QED
    BY <2>1, <2>2
<1>3. Joined(bought)[i] = s(n)
  BY <1>1 DEF Widens
<1> HIDE DEF s
<1> DEFINE all == {k \in Nat : k <= n =>
                     /\ i \in s(k) /\ s(k) \in SUBSET (1 .. n)
                     /\ ClosedUnder(bought, n, s(k)) \/ Cardinality(s(k)) >= k + 1
                     /\ \A D : ClosedUnder(bought, n, D) /\ i \in D => s(k) \subseteq D}
<1>4. 0 \in all
  <2>1. Cardinality({i}) = 1
    BY FS_Singleton
  <2>2. s(0) = {i}
    BY <1>2
  <2>3. \A D : ClosedUnder(bought, n, D) /\ i \in D => s(0) \subseteq D
    BY <2>2
  <2>4. i \in s(0) /\ s(0) \in SUBSET (1 .. n)
    BY <2>2
  <2>5. Cardinality(s(0)) = 1
    BY <2>1, <2>2
  <2>6. QED
    BY <2>3, <2>4, <2>5
<1>5. ASSUME NEW k \in Nat, k \in all PROVE k + 1 \in all
  <2> DEFINE S == s(k)
             R == s(k + 1)
  <2> SUFFICES ASSUME k + 1 <= n
               PROVE  /\ i \in R /\ R \in SUBSET (1 .. n)
                      /\ ClosedUnder(bought, n, R) \/ Cardinality(R) >= k + 2
                      /\ \A D : ClosedUnder(bought, n, D) /\ i \in D => R \subseteq D
    OBVIOUS
  <2>1. /\ i \in S /\ S \in SUBSET (1 .. n)
        /\ ClosedUnder(bought, n, S) \/ Cardinality(S) >= k + 1
        /\ \A D : ClosedUnder(bought, n, D) /\ i \in D => S \subseteq D
    BY <1>5
  <2>2. R = wider(S)
    BY <1>2
  <2> HIDE DEF S, R
  <2>3. i \in R /\ R \in SUBSET (1 .. n) /\ S \subseteq R
    BY <2>1, <2>2
  <2>4. ASSUME NEW D, ClosedUnder(bought, n, D), i \in D PROVE R \subseteq D
    BY <2>1, <2>2, <2>4 DEF ClosedUnder
  <2>5. CASE S = R
    <3>1. ClosedUnder(bought, n, R)
      BY <2>2, <2>3, <2>5 DEF ClosedUnder
    <3>2. QED
      BY <2>3, <2>4, <3>1
  <2>6. CASE S # R
    <3>1. ~ClosedUnder(bought, n, S)
      BY <2>1, <2>2, <2>6 DEF ClosedUnder
    <3>2. IsFiniteSet(R)
      <4>1. IsFiniteSet(1 .. n)
        BY FS_Interval
      <4>2. QED
        BY <2>3, <4>1, FS_Subset
    <3>3. Cardinality(S) <= Cardinality(R) /\ (S # R => Cardinality(S) # Cardinality(R))
      BY <2>3, <3>2, FS_Subset
    <3>4. Cardinality(R) \in Nat /\ Cardinality(S) \in Nat
      BY <2>3, <3>2, FS_Subset, FS_CardinalityType
    <3>5. Cardinality(R) >= k + 2
      BY <2>1, <2>6, <3>1, <3>3, <3>4
    <3>6. QED
      BY <2>3, <2>4, <3>5
  <2>7. QED
    BY <2>5, <2>6
<1>6. n \in all
  <2> HIDE DEF all
  <2>1. QED
    BY <1>4, <1>5, AllNaturals
<1>7. /\ i \in s(n) /\ s(n) \in SUBSET (1 .. n)
      /\ ClosedUnder(bought, n, s(n)) \/ Cardinality(s(n)) >= n + 1
      /\ \A D : ClosedUnder(bought, n, D) /\ i \in D => s(n) \subseteq D
  BY <1>6
<1>8. Cardinality(s(n)) <= n /\ Cardinality(s(n)) \in Nat
  <2>1. IsFiniteSet(1 .. n) /\ Cardinality(1 .. n) = n
    BY FS_Interval
  <2>2. IsFiniteSet(s(n)) /\ Cardinality(s(n)) <= Cardinality(1 .. n)
    BY <1>7, <2>1, FS_Subset
  <2>3. Cardinality(s(n)) \in Nat
    BY <2>2, FS_CardinalityType
  <2>4. QED
    BY <2>1, <2>2, <2>3
<1>9. ClosedUnder(bought, n, s(n))
  BY <1>7, <1>8
<1>10. IsLeast(bought, n, i, s(n))
  BY <1>7, <1>9 DEF IsLeast
<1>11. QED
  BY <1>3, <1>10

(* To be joined is reflexive, symmetric and transitive, and likeness joins.*)
JoinsAll(bought, n) ==
  LET J == Joined(bought) IN
  \A a, b, c \in 1 .. n :
    /\ a \in J[a] /\ (b \in J[a] => a \in J[b]) /\ (b \in J[a] /\ c \in J[b] => c \in J[a])
    /\ Alike(bought[a], bought[b], Overlap) => b \in J[a]

(* The sets closed under likeness give it: two leaders joined to one are   *)
(* joined to each other.                                                   *)
LEMMA JoinsRule ==
  ASSUME NEW n \in Nat, NEW bought, Len(bought) = n, DOMAIN bought = 1 .. n,
         \A k \in 1 .. n : IsFiniteSet(bought[k])
  PROVE  JoinsAll(bought, n)
<1> DEFINE J == Joined(bought)
<1>1. \A a \in 1 .. n : IsLeast(bought, n, a, J[a])
  BY JoinedRule
<1> HIDE DEF J
<1>2. ASSUME NEW a \in 1 .. n, NEW b \in J[a] PROVE J[b] \subseteq J[a]
  <2>1. ClosedUnder(bought, n, J[a]) /\ b \in 1 .. n
    BY <1>1 DEF IsLeast, ClosedUnder
  <2>2. QED
    BY <1>1, <2>1 DEF IsLeast
<1>3. ASSUME NEW a \in 1 .. n, NEW b \in J[a] PROVE a \in J[b]
  <2> DEFINE D == {x \in 1 .. n : a \in J[x]}
  <2>1. a \in D
    BY <1>1 DEF IsLeast
  <2>2. ASSUME NEW h \in D, NEW j \in 1 .. n, Alike(bought[h], bought[j], Overlap) PROVE j \in D
    <3>1. Alike(bought[j], bought[h], Overlap)
      BY <2>2, AlikeBoth
    <3>2. h \in J[j]
      BY <1>1, <3>1 DEF IsLeast, ClosedUnder
    <3>3. a \in J[j]
      BY <1>2, <3>2
    <3>4. QED
      BY <3>3
  <2>3. ClosedUnder(bought, n, D)
    BY <2>2 DEF ClosedUnder
  <2> HIDE DEF D
  <2>4. J[a] \subseteq D
    BY <1>1, <2>1, <2>3 DEF IsLeast
  <2>5. QED
    BY <2>4 DEF D
<1>4. ASSUME NEW a \in 1 .. n, NEW b \in 1 .. n, Alike(bought[a], bought[b], Overlap) PROVE b \in J[a]
  BY <1>1, <1>4 DEF IsLeast, ClosedUnder
<1>5. \A a \in 1 .. n : a \in J[a]
  BY <1>1 DEF IsLeast
<1>6. QED
  BY <1>2, <1>3, <1>4, <1>5 DEF JoinsAll, J

(* Two leaders have one root.                                              *)
Same(p, a, b) == Find(p, a) = Find(p, b)

(* What has the same root in p is joined; and keeps it in q.               *)
Sound(p, bought, n) == \A a, b \in 1 .. n : Same(p, a, b) => b \in Joined(bought)[a]
Coarser(p, q, n) == \A a, b \in 1 .. n : Same(p, a, b) => Same(q, a, b)

(* q is reached from p by unions of what is joined.                        *)
Leads(q, p, bought, n) == q \in Forests(n) /\ Sound(q, bought, n) /\ Coarser(p, q, n)

(* A union of two that are alike.                                          *)
LEMMA UniteSound ==
  ASSUME NEW n \in Nat, NEW bought, JoinsAll(bought, n),
         NEW p \in Forests(n), Sound(p, bought, n), NEW i \in 1 .. n, NEW j \in 1 .. n,
         Alike(bought[i], bought[j], Overlap)
  PROVE  Leads(Unite(p, i, j), p, bought, n) /\ Same(Unite(p, i, j), i, j)
<1> DEFINE q == Unite(p, i, j)
           J == Joined(bought)
           lo == Smaller(Find(p, i), Find(p, j))
<1>1. United(p, q, n, i, j)
  BY UniteRule
<1>2. lo \in {Find(p, i), Find(p, j)}
  BY DEF Smaller
<1> HIDE DEF q, J, lo
<1>3. /\ q \in Forests(n)
      /\ \A k \in 1 .. n : Find(q, k) = IF Find(p, k) \in {Find(p, i), Find(p, j)} THEN lo ELSE Find(p, k)
  BY <1>1 DEF United, lo
<1>4. Coarser(p, q, n) /\ Same(q, i, j)
  BY <1>3 DEF Coarser, Same
<1>5. /\ \A a, b \in 1 .. n : Find(p, a) = Find(p, b) => b \in J[a]
      /\ \A a, b, c \in 1 .. n : b \in J[a] /\ c \in J[b] => c \in J[a]
      /\ j \in J[i] /\ i \in J[j]
  BY DEF Sound, Same, JoinsAll, J
<1>6. ASSUME NEW a \in 1 .. n, NEW b \in 1 .. n, Find(q, a) = Find(q, b), Find(p, a) # Find(p, b)
      PROVE  b \in J[a]
  <2>1. Find(p, a) \in {Find(p, i), Find(p, j)} /\ Find(p, b) \in {Find(p, i), Find(p, j)}
    BY <1>2, <1>3, <1>6
  <2>2. CASE Find(p, a) = Find(p, i) /\ Find(p, b) = Find(p, j)
    <3>1. i \in J[a] /\ b \in J[j]
      BY <1>5, <2>2
    <3>2. QED
      BY <1>5, <3>1
  <2>3. CASE Find(p, a) = Find(p, j) /\ Find(p, b) = Find(p, i)
    <3>1. j \in J[a] /\ b \in J[i]
      BY <1>5, <2>3
    <3>2. QED
      BY <1>5, <3>1
  <2>4. QED
    BY <1>6, <2>1, <2>2, <2>3
<1>7. Sound(q, bought, n)
  BY <1>5, <1>6 DEF Sound, Same, J
<1>8. QED
  BY <1>3, <1>4, <1>7 DEF Leads, q

(* A parent array that leads on from one that led on from p leads on from  *)
(* p.                                                                      *)
LEMMA LeadsOn ==
  ASSUME NEW n, NEW bought, NEW p, NEW q, NEW r, Leads(q, p, bought, n), Leads(r, q, bought, n)
  PROVE  Leads(r, p, bought, n)
BY DEF Leads, Coarser

(* One turn of the inner loop, and all of it.                              *)
PairTurn(p, bought, i, j) ==
  IF i < j /\ Alike(bought[i], bought[j], Overlap) THEN Unite(p, i, j) ELSE p
Scans(u, p, bought, n, i) ==
  /\ UniteAlike(p, bought, Overlap, i) = u[n] /\ u[0] = p
  /\ \A j \in 1 .. n : u[j] = PairTurn(u[j - 1], bought, i, j)

(* The inner loop of cluster goes through the leaders in order.            *)
LEMMA ScanTurns ==
  ASSUME NEW n \in Nat, NEW bought, Len(bought) = n, NEW p \in Forests(n), NEW i \in 1 .. n
  PROVE  \E u : Scans(u, p, bought, n, i)
<1> DEFINE T == Forests(n)
           turn == [j \in 1 .. n |-> [q \in T |-> PairTurn(q, bought, i, j)]]
           IsAfter(u) == u = [j \in 0 .. n |-> IF j = 0 THEN p ELSE PairTurn(u[j - 1], bought, i, j)]
           after == CHOOSE u : IsAfter(u)
<1>1. \A j \in 1 .. n : turn[j] \in [T -> T]
  <2>1. ASSUME NEW q \in T, NEW j \in 1 .. n PROVE PairTurn(q, bought, i, j) \in T
    <3>1. United(q, Unite(q, i, j), n, i, j)
      BY UniteRule
    <3>2. QED
      BY <3>1 DEF PairTurn, United
  <2> HIDE DEF T
  <2>2. QED
    BY <2>1
<1>2. PICK w \in [0 .. n -> T] : IsRun(w, n, p, turn)
  <2> HIDE DEF turn
  <2>1. QED
    BY <1>1, RunExists
<1>3. IsAfter(w)
  <2>1. ASSUME NEW j \in 0 .. n
        PROVE  w[j] = IF j = 0 THEN p ELSE PairTurn(w[j - 1], bought, i, j)
    <3> HIDE DEF T
    <3>1. CASE j = 0
      BY <1>2, <3>1 DEF IsRun
    <3>2. CASE j # 0
      <4>1. j \in 1 .. n /\ w[j - 1] \in T
        BY <3>2
      <4>2. turn[j][w[j - 1]] = PairTurn(w[j - 1], bought, i, j)
        BY <4>1
      <4> HIDE DEF turn
      <4>3. QED
        BY <1>2, <3>2, <4>1, <4>2 DEF IsRun
    <3>3. QED
      BY <3>1, <3>2
  <2>2. w = [k \in 0 .. n |-> w[k]]
    BY <1>2
  <2>3. QED
    BY <2>1, <2>2
<1>4. IsAfter(after) /\ UniteAlike(p, bought, Overlap, i) = after[n]
  <2>1. IsAfter(after)
    BY <1>3
  <2>2. QED
    BY <2>1, Zenon DEF UniteAlike, PairTurn
<1> HIDE DEF after
<1>5. after[0] = p /\ \A j \in 1 .. n : after[j] = PairTurn(after[j - 1], bought, i, j)
  BY <1>4
<1>6. Scans(after, p, bought, n, i)
  BY <1>4, <1>5 DEF Scans
<1>7. QED
  BY <1>6

(* Those that are alike to i, and after it, end with its root.             *)
Gathered(q, bought, n, i) ==
  \A j \in 1 .. n : i < j /\ Alike(bought[i], bought[j], Overlap) => Same(q, i, j)

(* The inner loop keeps what was united sound, and unites i with all that  *)
(* are alike to it and come after it.                                      *)
LEMMA ScanRule ==
  ASSUME NEW n \in Nat, NEW bought, Len(bought) = n, JoinsAll(bought, n),
         NEW p \in Forests(n), Sound(p, bought, n), NEW i \in 1 .. n
  PROVE  /\ Leads(UniteAlike(p, bought, Overlap, i), p, bought, n)
         /\ Gathered(UniteAlike(p, bought, Overlap, i), bought, n, i)
<1>1. PICK u : Scans(u, p, bought, n, i)
  BY ScanTurns
<1>2. /\ UniteAlike(p, bought, Overlap, i) = u[n] /\ u[0] = p
      /\ \A j \in 1 .. n : u[j] = PairTurn(u[j - 1], bought, i, j)
  BY <1>1 DEF Scans
<1> DEFINE like(j) == i < j /\ Alike(bought[i], bought[j], Overlap)
           all == {m \in Nat : m <= n =>
                     /\ Leads(u[m], p, bought, n)
                     /\ \A j \in 1 .. m : like(j) => Same(u[m], i, j)}
<1>3. 0 \in all
  BY <1>2 DEF Leads, Coarser
<1>4. ASSUME NEW m \in Nat, m \in all PROVE m + 1 \in all
  <2> SUFFICES ASSUME m + 1 <= n
               PROVE  /\ Leads(u[m + 1], p, bought, n)
                      /\ \A j \in 1 .. m + 1 : like(j) => Same(u[m + 1], i, j)
    OBVIOUS
  <2>1. Leads(u[m], p, bought, n) /\ \A j \in 1 .. m : like(j) => Same(u[m], i, j)
    BY <1>4
  <2>2. u[m + 1] = PairTurn(u[m], bought, i, m + 1) /\ m + 1 \in 1 .. n
    <3>1. m + 1 \in 1 .. n /\ (m + 1) - 1 = m
      OBVIOUS
    <3>2. QED
      BY <1>2, <3>1
  <2>3. Leads(u[m + 1], u[m], bought, n) /\ (like(m + 1) => Same(u[m + 1], i, m + 1))
    <3>1. u[m] \in Forests(n) /\ Sound(u[m], bought, n)
      BY <2>1 DEF Leads
    <3>2. CASE like(m + 1)
      <4>1. u[m + 1] = Unite(u[m], i, m + 1)
        BY <2>2, <3>2 DEF PairTurn
      <4>2. QED
        BY <2>2, <3>1, <3>2, <4>1, UniteSound
    <3>3. CASE ~like(m + 1)
      <4>1. u[m + 1] = u[m]
        BY <2>2, <3>3 DEF PairTurn
      <4>2. QED
        BY <3>1, <3>3, <4>1 DEF Leads, Coarser
    <3>4. QED
      BY <3>2, <3>3
  <2>4. Leads(u[m + 1], p, bought, n)
    BY <2>1, <2>3, LeadsOn
  <2>5. ASSUME NEW j \in 1 .. m + 1, like(j) PROVE Same(u[m + 1], i, j)
    <3>1. CASE j = m + 1
      BY <2>3, <2>5, <3>1
    <3>2. CASE j # m + 1
      <4>1. j \in 1 .. m /\ j \in 1 .. n
        BY <3>2
      <4>2. Same(u[m], i, j)
        BY <2>1, <2>5, <4>1
      <4>3. QED
        BY <2>3, <4>1, <4>2 DEF Leads, Coarser
    <3>3. QED
      BY <3>1, <3>2
  <2>6. QED
    BY <2>4, <2>5
<1>5. n \in all
  <2> HIDE DEF all
  <2>1. QED
    BY <1>3, <1>4, AllNaturals
<1>6. QED
  BY <1>2, <1>5 DEF Gathered

(* One turn of the outer loop, and all of it.                              *)
Loops(u, bought, n) ==
  /\ Cluster(bought, Overlap) = [k \in 1 .. n |-> Find(u[n], k)]
  /\ u[0] = [k \in 1 .. n |-> k]
  /\ \A i \in 1 .. n : u[i] = UniteAlike(u[i - 1], bought, Overlap, i)

(* Every leader its own parent, as cluster starts.                         *)
Alone(n) == [k \in 1 .. n |-> k]

(* At first every leader is its own root, and joined to itself.            *)
LEMMA AloneSound ==
  ASSUME NEW n \in Nat, NEW bought, JoinsAll(bought, n)
  PROVE  Alone(n) \in Forests(n) /\ Sound(Alone(n), bought, n)
<1>1. Alone(n) \in Forests(n) /\ \A k \in 1 .. n : Alone(n)[k] = k
  BY DEF Alone, Forests
<1>2. ASSUME NEW k \in 1 .. n PROVE Find(Alone(n), k) = k
  <2>1. Rooted(Alone(n), n, k, Find(Alone(n), k))
    BY <1>1, FindRule
  <2>2. QED
    BY <1>1, <2>1 DEF Rooted
<1>3. \A a \in 1 .. n : a \in Joined(bought)[a]
  BY DEF JoinsAll
<1>4. QED
  BY <1>1, <1>2, <1>3 DEF Sound, Same

(* The outer loop of cluster goes through the leaders in order.            *)
LEMMA LoopTurns ==
  ASSUME NEW n \in Nat, NEW bought, Len(bought) = n, JoinsAll(bought, n)
  PROVE  \E u : Loops(u, bought, n)
<1> DEFINE T == {p \in Forests(n) : Sound(p, bought, n)}
           b == [k \in 1 .. Len(bought) |-> k]
           turn == [i \in 1 .. n |-> [p \in T |-> UniteAlike(p, bought, Overlap, i)]]
           IsParent(u) ==
             u = [i \in 0 .. Len(bought) |-> IF i = 0 THEN b ELSE UniteAlike(u[i - 1], bought, Overlap, i)]
           parent == CHOOSE u : IsParent(u)
<1>1. \A i \in 1 .. n : turn[i] \in [T -> T]
  <2>1. ASSUME NEW p \in T, NEW i \in 1 .. n PROVE UniteAlike(p, bought, Overlap, i) \in T
    BY ScanRule DEF Leads
  <2> HIDE DEF T
  <2>2. QED
    BY <2>1
<1>2. b \in T
  BY AloneSound DEF Alone
<1>3. PICK w \in [0 .. n -> T] : IsRun(w, n, b, turn)
  <2> HIDE DEF turn, T, b
  <2>1. QED
    BY <1>1, <1>2, RunExists
<1>4. IsParent(w)
  <2>1. ASSUME NEW i \in 0 .. n
        PROVE  w[i] = IF i = 0 THEN b ELSE UniteAlike(w[i - 1], bought, Overlap, i)
    <3> HIDE DEF T, b
    <3>1. CASE i = 0
      BY <1>3, <3>1 DEF IsRun
    <3>2. CASE i # 0
      <4>1. i \in 1 .. n /\ w[i - 1] \in T
        BY <3>2
      <4>2. turn[i][w[i - 1]] = UniteAlike(w[i - 1], bought, Overlap, i)
        BY <4>1
      <4> HIDE DEF turn
      <4>3. QED
        BY <1>3, <3>2, <4>1, <4>2 DEF IsRun
    <3>3. QED
      BY <3>1, <3>2
  <2>2. w = [i \in 0 .. n |-> w[i]]
    BY <1>3
  <2> HIDE DEF b
  <2>3. QED
    BY <2>1, <2>2
<1>5. IsParent(parent) /\ Cluster(bought, Overlap) = [k \in 1 .. n |-> Find(parent[n], k)]
  <2>1. IsParent(parent)
    BY <1>4
  <2>2. Cluster(bought, Overlap) = [k \in 1 .. Len(bought) |-> Find(parent[Len(bought)], k)]
    BY Zenon DEF Cluster
  <2> HIDE DEF parent, b
  <2>3. QED
    BY <2>1, <2>2
<1> HIDE DEF parent
<1>6. parent[0] = b /\ \A i \in 1 .. n : parent[i] = UniteAlike(parent[i - 1], bought, Overlap, i)
  <2> HIDE DEF b
  <2>1. QED
    BY <1>5
<1>7. Loops(parent, bought, n)
  BY <1>5, <1>6 DEF Loops
<1>8. QED
  BY <1>7

(* Whoever is alike ends with the same root, and only who is joined.       *)
LEMMA LoopRule ==
  ASSUME NEW n \in Nat, NEW bought, Len(bought) = n, JoinsAll(bought, n),
         NEW u, Loops(u, bought, n)
  PROVE  /\ u[n] \in Forests(n) /\ Sound(u[n], bought, n)
         /\ \A i \in 1 .. n : Gathered(u[n], bought, n, i)
<1>1. u[0] = Alone(n) /\ \A i \in 1 .. n : u[i] = UniteAlike(u[i - 1], bought, Overlap, i)
  BY DEF Loops, Alone
<1> DEFINE all == {m \in Nat : m <= n =>
                     /\ u[m] \in Forests(n) /\ Sound(u[m], bought, n)
                     /\ \A i \in 1 .. m : Gathered(u[m], bought, n, i)}
<1>2. 0 \in all
  BY <1>1, AloneSound
<1>3. ASSUME NEW m \in Nat, m \in all PROVE m + 1 \in all
  <2> SUFFICES ASSUME m + 1 <= n
               PROVE  /\ u[m + 1] \in Forests(n) /\ Sound(u[m + 1], bought, n)
                      /\ \A i \in 1 .. m + 1 : Gathered(u[m + 1], bought, n, i)
    OBVIOUS
  <2>1. /\ u[m] \in Forests(n) /\ Sound(u[m], bought, n)
        /\ \A i \in 1 .. m : Gathered(u[m], bought, n, i)
    BY <1>3
  <2>2. u[m + 1] = UniteAlike(u[m], bought, Overlap, m + 1) /\ m + 1 \in 1 .. n
    <3>1. m + 1 \in 1 .. n /\ (m + 1) - 1 = m
      OBVIOUS
    <3>2. QED
      BY <1>1, <3>1
  <2>3. Leads(u[m + 1], u[m], bought, n) /\ Gathered(u[m + 1], bought, n, m + 1)
    BY <2>1, <2>2, ScanRule
  <2>4. ASSUME NEW i \in 1 .. m + 1 PROVE Gathered(u[m + 1], bought, n, i)
    <3>1. CASE i = m + 1
      BY <2>3, <3>1
    <3>2. CASE i # m + 1
      <4>1. i \in 1 .. m /\ i \in 1 .. n
        BY <3>2
      <4>2. Gathered(u[m], bought, n, i)
        BY <2>1, <4>1
      <4>3. QED
        BY <2>3, <4>1, <4>2 DEF Gathered, Leads, Coarser
    <3>3. QED
      BY <3>1, <3>2
  <2>5. QED
    BY <2>3, <2>4 DEF Leads
<1>4. n \in all
  <2> HIDE DEF all
  <2>1. QED
    BY <1>2, <1>3, AllNaturals
<1>5. QED
  BY <1>4

(* A cluster is named after the first leader joined.                       *)
LEMMA ClusterRule ==
  ASSUME NEW n \in Nat, NEW bought, Len(bought) = n, DOMAIN bought = 1 .. n,
         \A k \in 1 .. n : IsFiniteSet(bought[k])
  PROVE  Cluster(bought, Overlap) = [i \in 1 .. n |-> Min(Joined(bought)[i])]
<1>1. JoinsAll(bought, n)
  BY JoinsRule
<1>2. PICK u : Loops(u, bought, n)
  BY <1>1, LoopTurns
<1> DEFINE p == u[n]
<1>3. /\ p \in Forests(n) /\ Sound(p, bought, n)
      /\ \A i \in 1 .. n : Gathered(p, bought, n, i)
  BY <1>1, <1>2, LoopRule
<1>4. Cluster(bought, Overlap) = [k \in 1 .. n |-> Find(p, k)]
  BY <1>2 DEF Loops
<1> HIDE DEF p
<1>5. \A k \in 1 .. n : Rooted(p, n, k, Find(p, k))
  BY <1>3, FindRule
<1>6. ASSUME NEW a \in 1 .. n, NEW b \in 1 .. n, Alike(bought[a], bought[b], Overlap)
      PROVE  Find(p, a) = Find(p, b)
  <2>1. Alike(bought[b], bought[a], Overlap)
    BY <1>6, AlikeBoth
  <2>2. CASE a < b
    BY <1>3, <1>6, <2>2 DEF Gathered, Same
  <2>3. CASE b < a
    BY <1>3, <2>1, <2>3 DEF Gathered, Same
  <2>4. CASE a = b
    BY <2>4
  <2>5. QED
    BY <2>2, <2>3, <2>4
<1>7. ASSUME NEW i \in 1 .. n PROVE Find(p, i) = Min(Joined(bought)[i])
  <2> DEFINE r == Find(p, i)
             C == Joined(bought)[i]
             D == {x \in 1 .. n : Find(p, x) = r}
  <2>1. IsLeast(bought, n, i, C)
    BY JoinedRule
  <2>2. ClosedUnder(bought, n, D) /\ i \in D
    BY <1>6 DEF ClosedUnder
  <2>3. C \subseteq D
    <3> HIDE DEF C, D
    <3>1. QED
      BY <2>1, <2>2 DEF IsLeast
  <2>4. r \in 1 .. n /\ Find(p, r) = r
    <3>1. r \in 1 .. n /\ p[r] = r
      BY <1>5 DEF Rooted
    <3>2. QED
      BY <1>5, <3>1 DEF Rooted
  <2>5. r \in C
    <3> HIDE DEF r, C
    <3>1. Same(p, i, r)
      BY <2>4 DEF Same, r
    <3>2. QED
      BY <1>3, <2>4, <3>1 DEF Sound, C
  <2>6. ASSUME NEW x \in C PROVE r <= x /\ x \in Int
    <3>1. x \in 1 .. n /\ Find(p, x) = r
      BY <2>3
    <3>2. Find(p, x) <= x
      BY <1>5, <3>1 DEF Rooted
    <3>3. QED
      BY <3>1, <3>2
  <2> HIDE DEF r, C
  <2>7. \A x \in C : (\A y \in C : x <= y) => x = r
    <3>1. r \in Int
      BY <2>4
    <3>2. QED
      BY <2>5, <2>6, <3>1
  <2>8. r = Min(C)
    BY <2>5, <2>6, <2>7 DEF Min
  <2>9. QED
    BY <2>8 DEF r, C
<1>8. QED
  BY <1>4, <1>7

(* Whatever the leaders bought, a cluster is what a chain of likeness       *)
(* joins, named after its first leader: cluster's unions in any order.     *)
THEOREM ClustersAlwaysComponents == Spec => []ClustersAreComponents
<1>1. AInv => ClustersAreComponents
  <2> SUFFICES ASSUME AInv, topic = "clusters"
               PROVE  Cluster(input, Overlap) = [i \in DOMAIN input |-> Min(Joined(input)[i])]
    BY DEF ClustersAreComponents
  <2>1. /\ Len(input) \in Nat /\ DOMAIN input = 1 .. Len(input)
        /\ \A k \in 1 .. Len(input) : IsFiniteSet(input[k])
    BY BuysAssumption DEF AInv
  <2>2. QED
    BY <2>1, ClusterRule
<1>2. QED
  BY <1>1, Asked, PTL

-----------------------------------------------------------------------------
(***************************************************************************)
(* The daily strategies.  A step on the bars of the window is the turn the *)
(* rules take over the whole history, since it looks back no further; so a *)
(* saved state stays that of the rules while no day is missed, and is made *)
(* again from scratch, and right, while the window has all bars there are. *)
(***************************************************************************)
(* One bar of the vectorised rules.                                        *)
SleeveTurn(prev, bars, n, i, ok) ==
  IF i <= n THEN Flat
  ELSE LET mid == Mid2(bars, i, n)
           stop == Higher(prev.stop, mid)
       IN IF ~prev.long
          THEN IF bars[i].close > HighOf(bars, i - 1, n) /\ ok
               THEN [long |-> TRUE, stop |-> mid] ELSE Flat
          ELSE IF 2 * bars[i].close < stop THEN Flat
               ELSE [long |-> TRUE, stop |-> stop]
RegimeTurn(on, bars, n, hyst, i, ok) ==
  i >= n /\ i > 0 /\
  IF on THEN ~Below(bars, i, n, hyst) ELSE Above(bars, i, n, hyst) /\ ok

(* u is a sleeve, or a regime, from bar to bar.                            *)
Sleeves(u, bars, n, gate) ==
  u[0] = Flat /\ \A i \in 1 .. Len(bars) : u[i] = SleeveTurn(u[i - 1], bars, n, i, gate[i])
Regimes(u, bars, n, hyst, gate) ==
  /\ u[0] = FALSE
  /\ \A i \in 1 .. Len(bars) : u[i] = RegimeTurn(u[i - 1], bars, n, hyst, i, gate[i])

(* The rules go from bar to bar.                                           *)
LEMMA SleeveTurns ==
  ASSUME NEW bars, Len(bars) \in Nat, NEW n \in Nat, NEW gate
  PROVE  Sleeves(DonchianSleeveState(bars, n, gate), bars, n, gate)
<1> DEFINE IsAfter(u, m) ==
             u = [i \in 0 .. m |->
                    IF i <= n THEN Flat
                    ELSE LET mid == Mid2(bars, i, n)
                             stop == Higher(u[i - 1].stop, mid)
                         IN IF ~u[i - 1].long
                            THEN IF bars[i].close > HighOf(bars, i - 1, n) /\ gate[i]
                                 THEN [long |-> TRUE, stop |-> mid] ELSE Flat
                            ELSE IF 2 * bars[i].close < stop THEN Flat
                                 ELSE [long |-> TRUE, stop |-> stop]]
           turn(old, i) == SleeveTurn(old, bars, n, i, gate[i])
           IsRes(u, m) == u = [i \in 0 .. m |-> turn(u[i - 1], i)]
           after == CHOOSE u : IsAfter(u, Len(bars))
           all == {m \in Nat : \E u : IsRes(u, m)}
<1>1. 0 \in all
  <2>1. \A x : turn(x, 0) = Flat
    BY DEF SleeveTurn
  <2>2. IsRes([i \in 0 .. 0 |-> Flat], 0)
    <3> HIDE DEF turn
    <3>1. QED
      BY <2>1
  <2>3. QED
    BY <2>2
<1>2. ASSUME NEW m \in Nat, m \in all PROVE m + 1 \in all
  <2> HIDE DEF turn
  <2>1. PICK u : IsRes(u, m)
    BY <1>2
  <2> DEFINE v == [i \in 0 .. m + 1 |-> IF i = m + 1 THEN turn(u[m], m + 1) ELSE u[i]]
  <2>2. ASSUME NEW i \in 0 .. m + 1 PROVE v[i] = turn(v[i - 1], i)
    <3>1. CASE i = 0
      <4>1. \A x : turn(x, 0) = Flat
        BY DEF turn, SleeveTurn
      <4>2. v[0] = u[0] /\ u[0] = turn(u[0 - 1], 0)
        BY <2>1
      <4>3. QED
        BY <3>1, <4>1, <4>2
    <3>2. CASE i # 0
      BY <2>1, <3>2
    <3>3. QED
      BY <3>1, <3>2
  <2>3. IsRes(v, m + 1)
    BY <2>2
  <2> HIDE DEF v, IsRes
  <2>4. QED
    BY <2>3
<1>3. \E u : IsRes(u, Len(bars))
  <2> HIDE DEF all
  <2>1. Len(bars) \in all
    BY <1>1, <1>2, AllNaturals
  <2> USE DEF all
  <2> HIDE DEF IsRes
  <2>2. QED
    BY <2>1
<1>4. \A u : IsRes(u, Len(bars)) => IsAfter(u, Len(bars))
  BY Zenon DEF SleeveTurn
<1>5. IsAfter(after, Len(bars)) /\ DonchianSleeveState(bars, n, gate) = after
  <2>1. \E u : IsAfter(u, Len(bars))
    <3> HIDE DEF IsAfter, IsRes
    <3>1. QED
      BY <1>3, <1>4
  <2>2. QED
    BY <2>1, Zenon DEF DonchianSleeveState
<1> HIDE DEF after
<1>6. IsRes(after, Len(bars))
  BY <1>5, Zenon DEF SleeveTurn
<1>7. Sleeves(after, bars, n, gate)
  <2>1. turn(after[0 - 1], 0) = Flat
    BY DEF SleeveTurn
  <2> HIDE DEF turn
  <2>2. after[0] = Flat
    BY <1>6, <2>1
  <2>3. \A i \in 1 .. Len(bars) : after[i] = turn(after[i - 1], i)
    BY <1>6
  <2>4. QED
    BY <2>2, <2>3 DEF Sleeves, turn
<1>8. QED
  BY <1>5, <1>7

(* hysteresis_state goes from bar to bar too.                              *)
LEMMA RegimeTurns ==
  ASSUME NEW bars, Len(bars) \in Nat, NEW n \in Nat, NEW hyst, NEW gate
  PROVE  Regimes(HysteresisState(bars, n, hyst, gate), bars, n, hyst, gate)
<1> DEFINE turn(old, i) == RegimeTurn(old, bars, n, hyst, i, gate[i])
           IsOn(u, m) == u = [i \in 0 .. m |->
                                i >= n /\ i > 0 /\
                                IF u[i - 1] THEN ~Below(bars, i, n, hyst)
                                ELSE Above(bars, i, n, hyst) /\ gate[i]]
           IsRes(u, m) == u = [i \in 0 .. m |-> turn(u[i - 1], i)]
           on == CHOOSE u : IsOn(u, Len(bars))
           all == {m \in Nat : \E u : IsRes(u, m)}
<1>0. \A x : turn(x, 0) = FALSE
  BY DEF RegimeTurn
<1>1. 0 \in all
  <2>1. IsRes([i \in 0 .. 0 |-> FALSE], 0)
    <3> HIDE DEF turn
    <3>1. QED
      BY <1>0
  <2>2. QED
    BY <2>1
<1>2. ASSUME NEW m \in Nat, m \in all PROVE m + 1 \in all
  <2> HIDE DEF turn
  <2>1. PICK u : IsRes(u, m)
    BY <1>2
  <2> DEFINE v == [i \in 0 .. m + 1 |-> IF i = m + 1 THEN turn(u[m], m + 1) ELSE u[i]]
  <2>2. ASSUME NEW i \in 0 .. m + 1 PROVE v[i] = turn(v[i - 1], i)
    <3>1. CASE i = 0
      <4>1. v[0] = u[0] /\ u[0] = turn(u[0 - 1], 0)
        BY <2>1
      <4>2. turn(u[0 - 1], 0) = turn(v[0 - 1], 0)
        BY <1>0, Zenon
      <4>3. QED
        BY <3>1, <4>1, <4>2
    <3>2. CASE i # 0
      BY <2>1, <3>2
    <3>3. QED
      BY <3>1, <3>2
  <2>3. IsRes(v, m + 1)
    BY <2>2
  <2> HIDE DEF v, IsRes
  <2>4. QED
    BY <2>3
<1>3. \E u : IsRes(u, Len(bars))
  <2> HIDE DEF all
  <2>1. Len(bars) \in all
    BY <1>1, <1>2, AllNaturals
  <2> USE DEF all
  <2> HIDE DEF IsRes
  <2>2. QED
    BY <2>1
<1>4. \A u : IsRes(u, Len(bars)) => IsOn(u, Len(bars))
  BY Zenon DEF RegimeTurn
<1>5. IsOn(on, Len(bars)) /\ HysteresisState(bars, n, hyst, gate) = on
  <2>1. \E u : IsOn(u, Len(bars))
    <3> HIDE DEF IsOn, IsRes
    <3>1. QED
      BY <1>3, <1>4
  <2>2. QED
    BY <2>1, Zenon DEF HysteresisState
<1> HIDE DEF on
<1>6. IsRes(on, Len(bars))
  BY <1>5, Zenon DEF RegimeTurn
<1>7. Regimes(on, bars, n, hyst, gate)
  <2> HIDE DEF turn
  <2>1. on[0] = FALSE
    BY <1>0, <1>6
  <2>2. \A i \in 1 .. Len(bars) : on[i] = turn(on[i - 1], i)
    BY <1>6
  <2>3. QED
    BY <2>1, <2>2 DEF Regimes, turn
<1>8. QED
  BY <1>5, <1>7

(* The n bars up to i of the one history are those up to k of the other.   *)
AlikeFor(bars, i, past, k, n) == \A j \in 0 .. n - 1 : bars[i - j] = past[k - j]

(* Then the bars looked back to are the same set.                          *)
LEMMA SameBars ==
  ASSUME NEW bars, NEW past, NEW i \in Int, NEW k \in Int, NEW n \in Nat, AlikeFor(bars, i, past, k, n)
  PROVE  Bars(bars, i, n) = Bars(past, k, n)
<1>1. \A j \in (i - n + 1) .. i : \E h \in (k - n + 1) .. k : bars[j] = past[h]
  <2>1. ASSUME NEW j \in (i - n + 1) .. i PROVE \E h \in (k - n + 1) .. k : bars[j] = past[h]
    <3>1. i - j \in 0 .. n - 1 /\ i - (i - j) = j /\ k - (i - j) \in (k - n + 1) .. k
      OBVIOUS
    <3>2. bars[j] = past[k - (i - j)]
      BY <3>1 DEF AlikeFor
    <3>3. QED
      BY <3>1, <3>2
  <2>2. QED
    BY <2>1
<1>2. \A h \in (k - n + 1) .. k : \E j \in (i - n + 1) .. i : past[h] = bars[j]
  <2>1. ASSUME NEW h \in (k - n + 1) .. k PROVE \E j \in (i - n + 1) .. i : past[h] = bars[j]
    <3>1. k - h \in 0 .. n - 1 /\ k - (k - h) = h /\ i - (k - h) \in (i - n + 1) .. i
      OBVIOUS
    <3>2. bars[i - (k - h)] = past[h]
      BY <3>1 DEF AlikeFor
    <3>3. QED
      BY <3>1, <3>2
  <2>2. QED
    BY <2>1
<1>3. QED
  BY <1>1, <1>2 DEF Bars

(* So a sleeve turns alike in both histories.                              *)
LEMMA SameSleeve ==
  ASSUME NEW bars, NEW past, NEW i \in Int, NEW k \in Int, NEW n \in Nat \ {0},
         i > n, k > n, AlikeFor(bars, i, past, k, n + 1), NEW prev, NEW ok
  PROVE  SleeveTurn(prev, bars, n, i, ok) = SleeveTurn(prev, past, n, k, ok)
<1>0. \A j \in 0 .. n : bars[i - j] = past[k - j]
  BY DEF AlikeFor
<1>1. Bars(bars, i, n) = Bars(past, k, n)
  <2>1. AlikeFor(bars, i, past, k, n)
    BY <1>0 DEF AlikeFor
  <2>2. QED
    BY <2>1, SameBars
<1>2. Bars(bars, i - 1, n) = Bars(past, k - 1, n)
  <2>1. AlikeFor(bars, i - 1, past, k - 1, n)
    <3>1. ASSUME NEW j \in 0 .. n - 1 PROVE bars[(i - 1) - j] = past[(k - 1) - j]
      <4>1. j + 1 \in 0 .. n /\ i - (j + 1) = (i - 1) - j /\ k - (j + 1) = (k - 1) - j
        OBVIOUS
      <4>2. bars[i - (j + 1)] = past[k - (j + 1)]
        BY <1>0, <4>1
      <4>3. QED
        BY <4>1, <4>2
    <3>2. QED
      BY <3>1 DEF AlikeFor
  <2>2. QED
    BY <2>1, SameBars
<1>3. bars[i] = past[k]
  <2>1. 0 \in 0 .. n /\ i - 0 = i /\ k - 0 = k
    OBVIOUS
  <2>2. QED
    BY <1>0, <2>1
<1>4. Mid2(bars, i, n) = Mid2(past, k, n) /\ HighOf(bars, i - 1, n) = HighOf(past, k - 1, n)
  BY <1>1, <1>2 DEF Mid2, HighOf, LowOf
<1>5. ~(i <= n) /\ ~(k <= n)
  OBVIOUS
<1>6. QED
  BY <1>3, <1>4, <1>5, Zenon DEF SleeveTurn

(* And so does the regime.                                                 *)
LEMMA SameRegime ==
  ASSUME NEW bars, NEW past, NEW i \in Int, NEW k \in Int, NEW n \in Nat \ {0},
         i >= n, k >= n, AlikeFor(bars, i, past, k, n), NEW on, NEW hyst, NEW ok
  PROVE  RegimeTurn(on, bars, n, hyst, i, ok) = RegimeTurn(on, past, n, hyst, k, ok)
<1>0. \A j \in 0 .. n - 1 : bars[i - j] = past[k - j]
  BY DEF AlikeFor
<1>1. Closes(bars, i, n) = Closes(past, k, n)
  <2>1. ASSUME NEW j \in 1 .. n PROVE bars[i - n + j].close = past[k - n + j].close
    <3>1. n - j \in 0 .. n - 1 /\ i - (n - j) = i - n + j /\ k - (n - j) = k - n + j
      OBVIOUS
    <3>2. bars[i - (n - j)] = past[k - (n - j)]
      BY <1>0, <3>1
    <3>3. QED
      BY <3>1, <3>2
  <2>2. [j \in 1 .. n |-> bars[i - n + j].close] = [j \in 1 .. n |-> past[k - n + j].close]
    BY <2>1
  <2>3. QED
    BY <2>2 DEF Closes
<1>2. bars[i] = past[k]
  <2>1. 0 \in 0 .. n - 1 /\ i - 0 = i /\ k - 0 = k
    OBVIOUS
  <2>2. QED
    BY <1>0, <2>1
<1>3. (i >= n /\ i > 0) /\ (k >= n /\ k > 0)
  OBVIOUS
<1>4. Above(bars, i, n, hyst) = Above(past, k, n, hyst) /\ Below(bars, i, n, hyst) = Below(past, k, n, hyst)
  BY <1>1, <1>2, Zenon DEF Above, Below
<1>5. QED
  BY <1>3, <1>4, Zenon DEF RegimeTurn

(* What the engine passes on day t: the last bars, up to t.                *)
Ends(r, s, t, w) ==
  /\ Len(r) = IF t <= w THEN t ELSE w
  /\ \A j \in 0 .. Len(r) - 1 : r[Len(r) - j] = s[t - j]

(* Recent is such an end of the history, as long as the window allows.     *)
LEMMA RecentRule ==
  ASSUME NEW s, Len(s) \in Nat, NEW t \in 1 .. Len(s), NEW w \in Nat \ {0}
  PROVE  Ends(Recent(s, t, w), s, t, w)
<1> DEFINE d == Higher(1, t - w + 1)
           r == SubSeq(s, d, t)
<1>1. d \in 1 .. t /\ t - d + 1 = IF t <= w THEN t ELSE w
  BY DEF Higher
<1> HIDE DEF d
<1>2. Len(r) = t - d + 1 /\ \A i \in 1 .. t - d + 1 : r[i] = s[d + i - 1]
  BY <1>1
<1> HIDE DEF r
<1>3. ASSUME NEW j \in 0 .. Len(r) - 1 PROVE r[Len(r) - j] = s[t - j]
  <2>1. Len(r) - j \in 1 .. t - d + 1 /\ d + (Len(r) - j) - 1 = t - j
    BY <1>1, <1>2
  <2>2. QED
    BY <1>2, <2>1
<1>4. Ends(r, s, t, w)
  BY <1>1, <1>2, <1>3 DEF Ends
<1>5. QED
  BY <1>4 DEF r, d, Recent

(* Two histories that start alike have the same states so far.             *)
StartAlike(s, r) == \A i \in 1 .. Len(r) : r[i] = s[i]

(* The sleeves so far are the same,                                        *)
LEMMA SleevesAlike ==
  ASSUME NEW bars, NEW past, Len(bars) \in Nat, Len(past) \in Nat, Len(past) <= Len(bars),
         StartAlike(bars, past), NEW gate, NEW old, Len(old) = Len(past), StartAlike(gate, old),
         NEW n \in Nat \ {0}, NEW u, Sleeves(u, bars, n, gate), NEW v, Sleeves(v, past, n, old),
         NEW t \in 0 .. Len(past)
  PROVE  u[t] = v[t]
<1> DEFINE all == {m \in Nat : m <= Len(past) => u[m] = v[m]}
<1>1. 0 \in all
  BY DEF Sleeves
<1>2. ASSUME NEW m \in Nat, m \in all PROVE m + 1 \in all
  <2> SUFFICES ASSUME m + 1 <= Len(past) PROVE u[m + 1] = v[m + 1]
    OBVIOUS
  <2>1. m + 1 \in 1 .. Len(past) /\ m + 1 \in 1 .. Len(bars) /\ (m + 1) - 1 = m /\ u[m] = v[m]
    BY <1>2
  <2>2. old[m + 1] = gate[m + 1]
    BY <2>1 DEF StartAlike
  <2>3. /\ u[m + 1] = SleeveTurn(u[m], bars, n, m + 1, gate[m + 1])
        /\ v[m + 1] = SleeveTurn(u[m], past, n, m + 1, gate[m + 1])
    BY <2>1, <2>2 DEF Sleeves
  <2>4. CASE m + 1 <= n
    BY <2>3, <2>4, Zenon DEF SleeveTurn
  <2>5. CASE m + 1 > n
    <3>1. AlikeFor(bars, m + 1, past, m + 1, n + 1)
      BY <2>1, <2>5 DEF StartAlike, AlikeFor
    <3>2. QED
      BY <2>3, <2>5, <3>1, SameSleeve
  <2>6. QED
    BY <2>4, <2>5
<1>3. t \in all
  <2> HIDE DEF all
  <2>1. QED
    BY <1>1, <1>2, AllNaturals
<1>4. QED
  BY <1>3

(* and so is the regime.                                                   *)
LEMMA RegimesAlike ==
  ASSUME NEW bars, NEW past, Len(bars) \in Nat, Len(past) \in Nat, Len(past) <= Len(bars),
         StartAlike(bars, past), NEW gate, NEW old, Len(old) = Len(past), StartAlike(gate, old),
         NEW n \in Nat \ {0}, NEW hyst,
         NEW u, Regimes(u, bars, n, hyst, gate), NEW v, Regimes(v, past, n, hyst, old),
         NEW t \in 0 .. Len(past)
  PROVE  u[t] = v[t]
<1> DEFINE all == {m \in Nat : m <= Len(past) => u[m] = v[m]}
<1>1. 0 \in all
  BY DEF Regimes
<1>2. ASSUME NEW m \in Nat, m \in all PROVE m + 1 \in all
  <2> SUFFICES ASSUME m + 1 <= Len(past) PROVE u[m + 1] = v[m + 1]
    OBVIOUS
  <2>1. m + 1 \in 1 .. Len(past) /\ m + 1 \in 1 .. Len(bars) /\ (m + 1) - 1 = m /\ u[m] = v[m]
    BY <1>2
  <2>2. old[m + 1] = gate[m + 1]
    BY <2>1 DEF StartAlike
  <2>3. /\ u[m + 1] = RegimeTurn(u[m], bars, n, hyst, m + 1, gate[m + 1])
        /\ v[m + 1] = RegimeTurn(u[m], past, n, hyst, m + 1, gate[m + 1])
    BY <2>1, <2>2 DEF Regimes
  <2>4. CASE m + 1 < n
    <3>1. ~(m + 1 >= n)
      BY <2>4
    <3>2. QED
      BY <2>3, <3>1, Zenon DEF RegimeTurn
  <2>5. CASE m + 1 >= n
    <3>1. AlikeFor(bars, m + 1, past, m + 1, n)
      BY <2>1, <2>5 DEF StartAlike, AlikeFor
    <3>2. QED
      BY <2>3, <2>5, <3>1, SameRegime
  <2>6. QED
    BY <2>4, <2>5
<1>3. t \in all
  <2> HIDE DEF all
  <2>1. QED
    BY <1>1, <1>2, AllNaturals
<1>4. QED
  BY <1>3

(* A saved state stepped on the bars of the day is what the rules, run     *)
(* over the whole history, have on that day.                               *)
LEMMA StepRule ==
  ASSUME NEW bars, Len(bars) \in Nat, NEW gate, Len(gate) = Len(bars),
         NEW t \in 1 .. Len(bars), NEW w \in Nat \ {0},
         NEW r, Ends(r, bars, t, w), NEW g, Ends(g, gate, t, w),
         NEW n \in 1 .. w - 1, NEW u, Sleeves(u, bars, n, gate)
  PROVE  StepSleeve(u[t - 1], r, n, g[Len(r)]) = u[t]
<1>1. /\ u[t] = SleeveTurn(u[t - 1], bars, n, t, gate[t])
      /\ StepSleeve(u[t - 1], r, n, g[Len(r)]) = SleeveTurn(u[t - 1], r, n, Len(r), g[Len(r)])
  BY DEF Sleeves, StepSleeve, SleeveTurn
<1>2. Len(r) \in Nat /\ Len(g) = Len(r) /\ Len(r) > 0
  BY DEF Ends
<1>3. g[Len(r)] = gate[t]
  <2>1. 0 \in 0 .. Len(g) - 1 /\ Len(g) - 0 = Len(r) /\ t - 0 = t
    BY <1>2
  <2>2. QED
    BY <2>1 DEF Ends
<1>4. CASE t <= n
  <2>1. Len(r) <= n
    BY <1>4 DEF Ends
  <2>2. QED
    BY <1>1, <1>4, <2>1, Zenon DEF SleeveTurn
<1>5. CASE t > n
  <2>1. Len(r) > n
    BY <1>5 DEF Ends
  <2>2. AlikeFor(bars, t, r, Len(r), n + 1)
    BY <1>2, <2>1 DEF Ends, AlikeFor
  <2>3. QED
    BY <1>1, <1>2, <1>3, <1>5, <2>1, <2>2, SameSleeve
<1>6. QED
  BY <1>4, <1>5

(* A regime is on or off.                                                  *)
LEMMA RegimeBoolean ==
  ASSUME NEW on, NEW bars, NEW n, NEW hyst, NEW i, NEW ok
  PROVE  RegimeTurn(on, bars, n, hyst, i, ok) \in BOOLEAN
<1>1. QED
  BY DEF RegimeTurn

(* The same of the regime: what is written as three cases in the live      *)
(* wrapper is the one formula of the vectorised rule.                      *)
LEMMA StepRegimeRule ==
  ASSUME NEW bars, Len(bars) \in Nat, NEW gate, Len(gate) = Len(bars),
         NEW t \in 1 .. Len(bars), NEW w \in Nat \ {0},
         NEW r, Ends(r, bars, t, w), NEW g, Ends(g, gate, t, w),
         NEW n \in 1 .. w, NEW hyst, NEW u, Regimes(u, bars, n, hyst, gate)
  PROVE  StepRegime(u[t - 1], r, n, hyst, g[Len(r)]) = u[t]
<1>2. Len(r) \in Nat /\ Len(g) = Len(r) /\ Len(r) > 0
  BY DEF Ends
<1>1. /\ u[t] = RegimeTurn(u[t - 1], bars, n, hyst, t, gate[t])
      /\ StepRegime(u[t - 1], r, n, hyst, g[Len(r)]) = RegimeTurn(u[t - 1], r, n, hyst, Len(r), g[Len(r)])
  <2>1. u[t] = RegimeTurn(u[t - 1], bars, n, hyst, t, gate[t])
    BY DEF Regimes
  <2>2. u[t - 1] \in BOOLEAN
    <3>1. CASE t = 1
      <4>1. t - 1 = 0 /\ u[0] = FALSE
        BY <3>1 DEF Regimes
      <4>2. QED
        BY <4>1, Zenon
    <3>2. CASE t # 1
      <4>1. u[t - 1] = RegimeTurn(u[t - 1 - 1], bars, n, hyst, t - 1, gate[t - 1])
        BY <3>2 DEF Regimes
      <4>2. RegimeTurn(u[t - 1 - 1], bars, n, hyst, t - 1, gate[t - 1]) \in BOOLEAN
        BY RegimeBoolean, Zenon
      <4>3. QED
        BY <4>1, <4>2, Zenon
    <3>3. QED
      BY <3>1, <3>2
  <2> DEFINE ok == g[Len(r)]
             on == u[t - 1]
             k == Len(r)
             below == Below(r, k, n, hyst)
             above == Above(r, k, n, hyst)
  <2>3. CASE k < n
    <3>1. ~(k >= n)
      BY <1>2, <2>3
    <3>2. QED
      BY <2>1, <2>3, <3>1, Zenon DEF RegimeTurn, StepRegime
  <2>4. CASE ~(k < n)
    <3>1. k >= n /\ k > 0
      BY <1>2, <2>4
    <3>2. RegimeTurn(on, r, n, hyst, k, ok) = IF on THEN ~below ELSE above /\ ok
      BY <3>1, Zenon DEF RegimeTurn
    <3>3. StepRegime(on, r, n, hyst, ok) =
            IF ~on /\ above /\ ok THEN TRUE ELSE IF on /\ below THEN FALSE ELSE on
      BY <2>4, Zenon DEF StepRegime
    <3> HIDE DEF k, ok, on, above, below
    <3>4. (IF on THEN ~below ELSE above /\ ok)
            = (IF ~on /\ above /\ ok THEN TRUE ELSE IF on /\ below THEN FALSE ELSE on)
      BY <2>2, Zenon DEF on
    <3>5. QED
      BY <2>1, <3>2, <3>3, <3>4 DEF k, ok, on
  <2>5. QED
    BY <2>3, <2>4
<1>3. g[Len(r)] = gate[t]
  <2>1. 0 \in 0 .. Len(g) - 1 /\ Len(g) - 0 = Len(r) /\ t - 0 = t
    BY <1>2
  <2>2. QED
    BY <2>1 DEF Ends
<1>4. CASE t < n
  <2>1. ~(t >= n) /\ ~(Len(r) >= n)
    BY <1>4 DEF Ends
  <2>2. QED
    BY <1>1, <2>1, Zenon DEF RegimeTurn
<1>5. CASE t >= n
  <2>1. Len(r) >= n
    BY <1>5 DEF Ends
  <2>2. AlikeFor(bars, t, r, Len(r), n)
    BY <1>2, <2>1 DEF Ends, AlikeFor
  <2>3. QED
    BY <1>1, <1>2, <1>3, <1>5, <2>1, <2>2, SameRegime
<1>6. QED
  BY <1>4, <1>5

(* Run from scratch on all there is, the rules have the state they have on *)
(* the whole history.                                                      *)
LEMMA ScratchRule ==
  ASSUME NEW bars, Len(bars) \in Nat, NEW gate, Len(gate) = Len(bars),
         NEW t \in 1 .. Len(bars), NEW w \in Nat \ {0}, t <= w,
         NEW r, Ends(r, bars, t, w), NEW g, Ends(g, gate, t, w)
  PROVE  /\ \A n \in Nat \ {0} :
              DonchianSleeveState(r, n, g)[Len(r)] = DonchianSleeveState(bars, n, gate)[t]
         /\ \A hyst : \A n \in Nat \ {0} :
              HysteresisState(r, n, hyst, g)[Len(r)] = HysteresisState(bars, n, hyst, gate)[t]
<1>1. Len(r) = t /\ Len(g) = t /\ Len(r) \in Nat /\ Len(r) <= Len(bars)
  BY DEF Ends
<1>2. StartAlike(bars, r)
  <2>1. ASSUME NEW i \in 1 .. t PROVE r[i] = bars[i]
    <3>1. t - i \in 0 .. Len(r) - 1 /\ Len(r) - (t - i) = i /\ t - (t - i) = i
      BY <1>1
    <3>2. QED
      BY <3>1 DEF Ends
  <2>2. QED
    BY <1>1, <2>1 DEF StartAlike
<1>3. StartAlike(gate, g)
  <2>1. ASSUME NEW i \in 1 .. t PROVE g[i] = gate[i]
    <3>1. t - i \in 0 .. Len(g) - 1 /\ Len(g) - (t - i) = i /\ t - (t - i) = i
      BY <1>1
    <3>2. QED
      BY <3>1 DEF Ends
  <2>2. QED
    BY <1>1, <2>1 DEF StartAlike
<1>4. ASSUME NEW n \in Nat \ {0}
      PROVE  DonchianSleeveState(r, n, g)[Len(r)] = DonchianSleeveState(bars, n, gate)[t]
  <2> DEFINE u == DonchianSleeveState(bars, n, gate)
             v == DonchianSleeveState(r, n, g)
  <2>1. Sleeves(u, bars, n, gate) /\ Sleeves(v, r, n, g)
    BY <1>1, SleeveTurns
  <2> HIDE DEF u, v
  <2>2. t \in 0 .. Len(r)
    BY <1>1
  <2>3. u[t] = v[t]
    BY <1>1, <1>2, <1>3, <2>1, <2>2, SleevesAlike
  <2>4. QED
    BY <1>1, <2>3 DEF u, v
<1>5. ASSUME NEW n \in Nat \ {0}, NEW hyst
      PROVE  HysteresisState(r, n, hyst, g)[Len(r)] = HysteresisState(bars, n, hyst, gate)[t]
  <2> DEFINE u == HysteresisState(bars, n, hyst, gate)
             v == HysteresisState(r, n, hyst, g)
  <2>1. Regimes(u, bars, n, hyst, gate) /\ Regimes(v, r, n, hyst, g)
    BY <1>1, RegimeTurns
  <2> HIDE DEF u, v
  <2>2. t \in 0 .. Len(r)
    BY <1>1
  <2>3. u[t] = v[t]
    BY <1>1, <1>2, <1>3, <2>1, <2>2, RegimesAlike
  <2>4. QED
    BY <1>1, <2>3 DEF u, v
<1>6. QED
  BY <1>4, <1>5

(* One day of the engine.                                                  *)
Evaluated(old, i, t) ==
  Evaluate(old, Recent(i.bars, t, Daily.window), t, Daily.lookbacks, Daily.sma, Daily.hyst,
           Recent(i.gate, t, Daily.window))
RunsOn(i, t) == t \in (DOMAIN i.bars) \ i.missed /\ t >= Daily.minBars
DayTurn(old, i, t) == IF RunsOn(i, t) THEN Evaluated(old, i, t) ELSE old
Days(u, i) ==
  /\ u = Live(i.bars, (DOMAIN i.bars) \ i.missed, Daily.window, Daily.minBars,
              Daily.lookbacks, Daily.sma, Daily.hyst, i.gate)
  /\ u[0] = Unsaved(Daily.lookbacks)
  /\ \A t \in 1 .. Len(i.bars) : u[t] = DayTurn(u[t - 1], i, t)

(* The engine goes from day to day.                                        *)
LEMMA LiveTurns ==
  ASSUME NEW i, Len(i.bars) \in Nat
  PROVE  \E u : Days(u, i)
<1> DEFINE bars == i.bars
           turn(old, t) == DayTurn(old, i, t)
           b == Unsaved(Daily.lookbacks)
           IsSaved(u, m) ==
             u = [t \in 0 .. m |->
                    IF t = 0 THEN Unsaved(Daily.lookbacks)
                    ELSE IF t \in (DOMAIN i.bars) \ i.missed /\ t >= Daily.minBars
                    THEN Evaluate(u[t - 1], Recent(i.bars, t, Daily.window), t, Daily.lookbacks,
                                  Daily.sma, Daily.hyst, Recent(i.gate, t, Daily.window))
                    ELSE u[t - 1]]
           IsRes(u, m) == u = [t \in 0 .. m |-> IF t = 0 THEN b ELSE turn(u[t - 1], t)]
           saved == CHOOSE u : IsSaved(u, Len(bars))
           live == Live(i.bars, (DOMAIN i.bars) \ i.missed, Daily.window, Daily.minBars,
                        Daily.lookbacks, Daily.sma, Daily.hyst, i.gate)
           all == {m \in Nat : \E u : IsRes(u, m)}
<1>1. 0 \in all
  <2>1. IsRes([t \in 0 .. 0 |-> b], 0)
    <3> HIDE DEF turn, b
    <3>1. QED
      OBVIOUS
  <2>2. QED
    BY <2>1
<1>2. ASSUME NEW m \in Nat, m \in all PROVE m + 1 \in all
  <2> HIDE DEF turn, b
  <2>1. PICK u : IsRes(u, m)
    BY <1>2
  <2> DEFINE v == [t \in 0 .. m + 1 |-> IF t = m + 1 THEN turn(u[m], m + 1) ELSE u[t]]
  <2>2. ASSUME NEW t \in 0 .. m + 1 PROVE v[t] = IF t = 0 THEN b ELSE turn(v[t - 1], t)
    BY <2>1
  <2>3. IsRes(v, m + 1)
    BY <2>2
  <2> HIDE DEF v, IsRes
  <2>4. QED
    BY <2>3
<1>3. \E u : IsRes(u, Len(bars))
  <2> HIDE DEF all
  <2>1. Len(bars) \in all
    BY <1>1, <1>2, AllNaturals
  <2> USE DEF all
  <2> HIDE DEF IsRes
  <2>2. QED
    BY <2>1
<1>4. \A u : IsRes(u, Len(bars)) => IsSaved(u, Len(bars))
  BY Zenon DEF DayTurn, RunsOn, Evaluated
<1>5. IsSaved(saved, Len(bars)) /\ live = saved
  <2>1. \E u : IsSaved(u, Len(bars))
    <3> HIDE DEF IsSaved, IsRes
    <3>1. QED
      BY <1>3, <1>4
  <2>2. QED
    BY <2>1, Zenon DEF Live
<1> HIDE DEF saved
<1>6. IsRes(saved, Len(bars))
  BY <1>5, Zenon DEF DayTurn, RunsOn, Evaluated
<1>7. Days(saved, i)
  <2> HIDE DEF turn, b, live
  <2>1. saved[0] = b
    BY <1>6
  <2>2. ASSUME NEW t \in 1 .. Len(bars) PROVE saved[t] = turn(saved[t - 1], t)
    <3>1. t \in 0 .. Len(bars) /\ t # 0
      BY ONLY Len(bars) \in Nat, t \in 1 .. Len(bars)
    <3> HIDE DEF bars, saved
    <3>2. QED
      BY ONLY <1>6, <3>1 DEF IsRes
  <2>3. QED
    BY <1>5, <2>1, <2>2, Zenon DEF Days, turn, b, live
<1>8. QED
  BY <1>7

(* s holds what the rules have on day t of the whole history.              *)
Measured(s, i, t) ==
  /\ \A n \in Daily.lookbacks : s.donchian[n] = DonchianSleeveState(i.bars, n, i.gate)[t]
  /\ s.regime = HysteresisState(i.bars, Daily.sma, Daily.hyst, i.gate)[t]

(* A day's run: from the state of the day before, or, while the window has *)
(* all there is, from scratch.                                             *)
LEMMA EvaluatedRule ==
  ASSUME NEW i \in Histories, NEW t \in 1 .. Len(i.bars), NEW s, s.at \in 0 .. t - 1,
         s.at = 0 \/ s.at # t - 1 => t <= Daily.window,
         s.at # 0 /\ s.at = t - 1 => Measured(s, i, t - 1)
  PROVE  Evaluated(s, i, t).at = t /\ Measured(Evaluated(s, i, t), i, t)
<1> DEFINE bars == i.bars
           gate == i.gate
           w == Daily.window
           r == Recent(bars, t, w)
           g == Recent(gate, t, w)
           e == Evaluated(s, i, t)
<1>1. /\ Len(bars) \in Nat /\ Len(gate) = Len(bars) /\ w \in Nat \ {0, 1}
      /\ Daily.sma \in 1 .. w /\ \A n \in Daily.lookbacks : n \in 1 .. w - 1
  BY DailyAssumption
<1>2. Ends(r, bars, t, w) /\ Ends(g, gate, t, w)
  <2> HIDE DEF bars, gate, w
  <2>1. QED
    BY <1>1, RecentRule DEF bars
<1>3. s.at # t
  OBVIOUS
<1>4. CASE s.at # 0 /\ s.at = t - 1
  <2>1. Len(r) >= 2
    BY <1>1, <1>2, <1>4 DEF Ends
  <2>2. e = [at |-> t,
             donchian |-> [n \in Daily.lookbacks |-> StepSleeve(s.donchian[n], r, n, g[Len(r)])],
             regime |-> StepRegime(s.regime, r, Daily.sma, Daily.hyst, g[Len(r)])]
    BY <1>3, <1>4, <2>1, Zenon DEF Evaluated, Evaluate
  <2>3. ASSUME NEW n \in Daily.lookbacks
        PROVE  StepSleeve(s.donchian[n], r, n, g[Len(r)]) = DonchianSleeveState(bars, n, gate)[t]
    <3> DEFINE u == DonchianSleeveState(bars, n, gate)
    <3>1. n \in 1 .. w - 1 /\ n \in Nat
      BY <1>1
    <3>2. Sleeves(u, bars, n, gate)
      BY <1>1, <3>1, SleeveTurns
    <3>3. s.donchian[n] = u[t - 1]
      BY <1>4 DEF Measured
    <3> HIDE DEF u, r, g, bars, gate, w
    <3>4. StepSleeve(u[t - 1], r, n, g[Len(r)]) = u[t]
      BY <1>1, <1>2, <3>1, <3>2, StepRule DEF bars
    <3>5. QED
      BY <3>3, <3>4 DEF u
  <2>4. StepRegime(s.regime, r, Daily.sma, Daily.hyst, g[Len(r)])
          = HysteresisState(bars, Daily.sma, Daily.hyst, gate)[t]
    <3> DEFINE u == HysteresisState(bars, Daily.sma, Daily.hyst, gate)
    <3>1. Regimes(u, bars, Daily.sma, Daily.hyst, gate)
      BY <1>1, RegimeTurns
    <3>2. s.regime = u[t - 1]
      BY <1>4 DEF Measured
    <3> HIDE DEF u, r, g, bars, gate, w
    <3>3. StepRegime(u[t - 1], r, Daily.sma, Daily.hyst, g[Len(r)]) = u[t]
      BY <1>1, <1>2, <3>1, StepRegimeRule DEF bars
    <3>4. QED
      BY <3>2, <3>3 DEF u
  <2> HIDE DEF e, r, g
  <2>5. QED
    BY <2>2, <2>3, <2>4 DEF Measured, e
<1>5. CASE ~(s.at # 0 /\ s.at = t - 1)
  <2>1. e = [at |-> t,
             donchian |-> [n \in Daily.lookbacks |-> DonchianSleeveState(r, n, g)[Len(r)]],
             regime |-> HysteresisState(r, Daily.sma, Daily.hyst, g)[Len(r)]]
    BY <1>3, <1>5, Zenon DEF Evaluated, Evaluate
  <2>2. t <= w
    BY <1>5
  <2> HIDE DEF e, r, g, bars, gate, w
  <2>3. /\ \A n \in Nat \ {0} :
             DonchianSleeveState(r, n, g)[Len(r)] = DonchianSleeveState(bars, n, gate)[t]
        /\ \A hyst : \A n \in Nat \ {0} :
             HysteresisState(r, n, hyst, g)[Len(r)] = HysteresisState(bars, n, hyst, gate)[t]
    <3>1. t \in 1 .. Len(bars)
      BY DEF bars
    <3>2. QED
      BY ONLY <1>1, <1>2, <2>2, <3>1, ScratchRule
  <2>4. /\ \A n \in Daily.lookbacks : n \in Nat \ {0}
        /\ Daily.sma \in Nat \ {0}
    BY <1>1
  <2>5. QED
    BY <2>1, <2>3, <2>4 DEF Measured, e, bars, gate
<1>6. QED
  BY <1>4, <1>5

(* What is saved is no later than the day, and of the day when it ran.     *)
SavedSince(u, i, t) ==
  /\ u[t].at \in 0 .. t
  /\ t <= Daily.window /\ u[t].at # 0 => Measured(u[t], i, u[t].at)
  /\ t > 0 /\ RunsOn(i, t) => u[t].at = t

(* The engine keeps to that, whatever days are missed.                     *)
LEMMA SavedRule ==
  ASSUME NEW i \in Histories, NEW u, Days(u, i), NEW t \in 0 .. Len(i.bars)
  PROVE  SavedSince(u, i, t)
<1> DEFINE all == {m \in Nat : m <= Len(i.bars) => SavedSince(u, i, m)}
<1>0. Len(i.bars) \in Nat /\ Daily.window \in Nat /\ Daily.minBars \in Nat
  BY DailyAssumption
<1>1. 0 \in all
  <2>1. u[0].at = 0
    BY DEF Days, Unsaved
  <2>2. QED
    BY <2>1 DEF SavedSince
<1>2. ASSUME NEW m \in Nat, m \in all PROVE m + 1 \in all
  <2> SUFFICES ASSUME m + 1 <= Len(i.bars) PROVE SavedSince(u, i, m + 1)
    OBVIOUS
  <2>1. SavedSince(u, i, m) /\ m + 1 \in 1 .. Len(i.bars) /\ (m + 1) - 1 = m
    BY <1>0, <1>2
  <2>2. u[m + 1] = DayTurn(u[m], i, m + 1)
    BY <2>1 DEF Days
  <2>3. CASE ~RunsOn(i, m + 1)
    <3>1. u[m + 1] = u[m]
      BY <2>2, <2>3, Zenon DEF DayTurn
    <3>2. QED
      BY <1>0, <2>1, <2>3, <3>1 DEF SavedSince
  <2>4. CASE RunsOn(i, m + 1)
    <3>1. u[m + 1] = Evaluated(u[m], i, m + 1)
      BY <2>2, <2>4, Zenon DEF DayTurn
    <3>2. u[m].at \in 0 .. m
      BY <2>1 DEF SavedSince
    <3>3. u[m + 1].at = m + 1
      <4>1. u[m].at # m + 1
        BY <3>2
      <4>2. Evaluated(u[m], i, m + 1).at = m + 1
        BY <4>1 DEF Evaluated, Evaluate
      <4>3. QED
        BY <3>1, <4>2
    <3>4. ASSUME m + 1 <= Daily.window PROVE Measured(u[m + 1], i, m + 1)
      <4>1. u[m].at # 0 => Measured(u[m], i, u[m].at)
        BY <1>0, <2>1, <3>4 DEF SavedSince
      <4>2. u[m].at \in 0 .. (m + 1) - 1
        BY <2>1, <3>2
      <4>3. u[m].at # 0 /\ u[m].at = (m + 1) - 1 => Measured(u[m], i, (m + 1) - 1)
        BY <2>1, <4>1
      <4>4. Measured(Evaluated(u[m], i, m + 1), i, m + 1)
        BY <2>1, <3>4, <4>2, <4>3, EvaluatedRule
      <4>5. QED
        BY <3>1, <4>4
    <3>5. QED
      BY <3>3, <3>4 DEF SavedSince
  <2>5. QED
    BY <2>3, <2>4
<1>3. t \in all
  <2> HIDE DEF all
  <2>1. QED
    BY <1>1, <1>2, AllNaturals
<1>4. QED
  BY <1>3

(* Where every day since one in the window ran, every day is measured.     *)
LEMMA SinceRule ==
  ASSUME NEW i \in Histories, NEW u, Days(u, i), NEW d \in Daily.minBars .. Daily.window,
         NEW t \in 1 .. Len(i.bars), d <= t, \A j \in d .. t : j \notin i.missed
  PROVE  Measured(u[t], i, t)
<1>0. /\ Len(i.bars) \in Nat /\ DOMAIN i.bars = 1 .. Len(i.bars)
      /\ Daily.window \in Nat /\ Daily.minBars \in Nat \ {0} /\ d \in Nat \ {0}
  BY DailyAssumption
<1>1. ASSUME NEW j \in d .. t
      PROVE  RunsOn(i, j) /\ j \in 1 .. Len(i.bars) /\ j \in 0 .. Len(i.bars) /\ u[j].at = j
  <2>1. RunsOn(i, j) /\ j \in 1 .. Len(i.bars) /\ j \in 0 .. Len(i.bars) /\ j > 0
    BY <1>0 DEF RunsOn
  <2>2. SavedSince(u, i, j)
    BY <2>1, SavedRule
  <2>3. QED
    BY <2>1, <2>2 DEF SavedSince
<1> DEFINE all == {m \in Nat : d + m <= t => Measured(u[d + m], i, d + m)}
<1>2. 0 \in all
  <2>1. d \in d .. t /\ d + 0 = d /\ d <= Daily.window
    BY <1>0
  <2>2. SavedSince(u, i, d) /\ u[d].at = d
    BY <1>1, <2>1, SavedRule
  <2>3. Measured(u[d], i, d)
    BY <1>0, <2>1, <2>2 DEF SavedSince
  <2>4. QED
    BY <2>1, <2>3
<1>3. ASSUME NEW m \in Nat, m \in all PROVE m + 1 \in all
  <2> DEFINE k == d + m
  <2> SUFFICES ASSUME k + 1 <= t PROVE Measured(u[k + 1], i, k + 1)
    BY <1>0
  <2>1. k \in d .. t /\ k + 1 \in d .. t /\ (k + 1) - 1 = k /\ Measured(u[k], i, k) /\ k # 0
    BY <1>0, <1>3
  <2> HIDE DEF k
  <2>2. u[k].at = k /\ RunsOn(i, k + 1) /\ k + 1 \in 1 .. Len(i.bars) /\ k \in Nat
    BY <1>0, <1>1, <2>1
  <2>3. u[k + 1] = Evaluated(u[k], i, k + 1)
    BY <2>1, <2>2 DEF Days, DayTurn
  <2>4. u[k].at \in 0 .. (k + 1) - 1 /\ u[k].at # 0 /\ u[k].at = (k + 1) - 1
    BY <2>1, <2>2
  <2>5. Measured(u[k], i, (k + 1) - 1)
    BY <2>1
  <2>6. Measured(Evaluated(u[k], i, k + 1), i, k + 1)
    BY <2>2, <2>4, <2>5, EvaluatedRule
  <2>7. QED
    BY <2>3, <2>6
<1>4. t - d \in all
  <2> HIDE DEF all
  <2>1. t - d \in Nat
    BY <1>0
  <2>2. QED
    BY <1>2, <1>3, <2>1, AllNaturals
<1>5. QED
  <2>1. d + (t - d) = t
    BY <1>0
  <2>2. QED
    BY <1>0, <1>4, <2>1

(* Whatever the bars, the limits and the days missed, the state the daily  *)
(* job saves is the one the backtested rules have, once it is within the   *)
(* window or has run every day since: _step_sleeve and the vectorised      *)
(* rules agree.                                                            *)
THEOREM LiveIsAlwaysMeasured == Spec => []LiveIsMeasured
<1>1. AInv => LiveIsMeasured
  <2> DEFINE live == Live(input.bars, (DOMAIN input.bars) \ input.missed, Daily.window,
                          Daily.minBars, Daily.lookbacks, Daily.sma, Daily.hyst, input.gate)
  <2> SUFFICES ASSUME AInv, topic = "sleeves",
                      NEW t \in (Daily.minBars .. Len(input.bars)) \ input.missed,
                      t <= Daily.window \/ SeenSince(input.missed, t)
               PROVE  /\ \A n \in Daily.lookbacks :
                           live[t].donchian[n] = DonchianSleeveState(input.bars, n, input.gate)[t]
                      /\ live[t].regime
                           = HysteresisState(input.bars, Daily.sma, Daily.hyst, input.gate)[t]
    BY DEF LiveIsMeasured
  <2>1. /\ input \in Histories /\ Len(input.bars) \in Nat /\ DOMAIN input.bars = 1 .. Len(input.bars)
        /\ Daily.window \in Nat /\ Daily.minBars \in Nat \ {0}
    BY DailyAssumption DEF AInv
  <2>2. PICK u : Days(u, input)
    BY <2>1, LiveTurns
  <2>3. u = live
    BY <2>2 DEF Days
  <2> HIDE DEF live
  <2>4. t \in 1 .. Len(input.bars) /\ t \in 0 .. Len(input.bars) /\ RunsOn(input, t)
    BY <2>1 DEF RunsOn
  <2>5. Measured(u[t], input, t)
    <3>1. CASE t <= Daily.window
      <4>1. SavedSince(u, input, t)
        BY <2>1, <2>2, <2>4, SavedRule
      <4>2. QED
        BY <2>1, <2>4, <3>1, <4>1 DEF SavedSince
    <3>2. CASE SeenSince(input.missed, t)
      <4>1. PICK d \in Daily.minBars .. Daily.window : d <= t /\ (d .. t) \cap input.missed = {}
        BY <3>2 DEF SeenSince
      <4>2. \A j \in d .. t : j \notin input.missed
        BY <4>1
      <4>3. QED
        BY <2>1, <2>2, <2>4, <4>1, <4>2, SinceRule
    <3>3. QED
      BY <3>1, <3>2
  <2>6. QED
    BY <2>3, <2>5 DEF Measured
<1>2. QED
  BY <1>1, Asked, PTL

-----------------------------------------------------------------------------
(***************************************************************************)
(* Round trips.  The lots open are the buys that reach beyond what was     *)
(* sold, in their order, each with what of it does.  A sell goes through   *)
(* them by its place between the buys: what it takes of each is where the  *)
(* two overlap, and what it leaves is what reaches beyond what is now      *)
(* sold.                                                                   *)
(***************************************************************************)
Logged(trades) ==
  /\ Len(trades) \in Nat /\ DOMAIN trades = 1 .. Len(trades)
  /\ \A k \in 1 .. Len(trades) : trades[k].buy \in BOOLEAN /\ trades[k].amount \in Nat \ {0}
IsBuy(trades, m, k) == trades[k].mint = m /\ trades[k].buy
IsSell(trades, m, k) == trades[k].mint = m /\ ~trades[k].buy

(* What was bought of a mint up to i: a trade at a time.                   *)
LEMMA BoughtTurns ==
  ASSUME NEW trades, Logged(trades), NEW m
  PROVE  /\ Bought(trades, m, 0) = 0
         /\ \A i \in 0 .. Len(trades) : Bought(trades, m, i) \in Int
         /\ \A i \in 1 .. Len(trades) :
              Bought(trades, m, i) = Bought(trades, m, i - 1)
                                       + (IF IsBuy(trades, m, i) THEN trades[i].amount ELSE 0)
<1> DEFINE a(j) == IF trades[j].mint = m /\ trades[j].buy THEN trades[j].amount ELSE 0
           f(i) == [j \in 1 .. i |-> a(j)]
<1>1. \A j \in 1 .. Len(trades) : a(j) \in Int
  BY DEF Logged
<1>2. ASSUME NEW i \in 0 .. Len(trades)
      PROVE  f(i) \in [1 .. i -> Int] /\ Bought(trades, m, i) = SumFunction(f(i)) /\ IsFiniteSet(1 .. i)
  <2>1. \A j \in 1 .. i : a(j) \in Int
    BY <1>1 DEF Logged
  <2>2. Bought(trades, m, i) = SumFunction(f(i))
    BY DEF Bought
  <2>3. i \in Int /\ 1 \in Int
    BY DEF Logged
  <2>4. IsFiniteSet(1 .. i)
    BY <2>3, FS_Interval
  <2> HIDE DEF a
  <2>5. QED
    BY <2>1, <2>2, <2>4
<1>3. Bought(trades, m, 0) = 0
  <2>1. 0 \in 0 .. Len(trades)
    BY DEF Logged
  <2>2. DOMAIN f(0) = {}
    OBVIOUS
  <2> HIDE DEF f
  <2>3. QED
    BY <1>2, <2>1, <2>2, SumEmpty
<1>4. ASSUME NEW i \in 0 .. Len(trades) PROVE Bought(trades, m, i) \in Int
  <2> HIDE DEF f
  <2>1. QED
    BY <1>2, SumInt
<1>5. ASSUME NEW i \in 1 .. Len(trades)
      PROVE  Bought(trades, m, i) = Bought(trades, m, i - 1)
                                      + (IF IsBuy(trades, m, i) THEN trades[i].amount ELSE 0)
  <2>1. i \in 0 .. Len(trades) /\ i - 1 \in 0 .. Len(trades) /\ i \in 1 .. i /\ i \in Int
        /\ (1 .. i) \ {i} = 1 .. i - 1
    BY DEF Logged
  <2>2. [j \in (1 .. i) \ {i} |-> f(i)[j]] = f(i - 1)
    <3> HIDE DEF a
    <3>1. QED
      BY <2>1
  <2>3. f(i)[i] = a(i)
    BY <2>1
  <2>4. f(i)[i] = IF IsBuy(trades, m, i) THEN trades[i].amount ELSE 0
    BY <2>3 DEF IsBuy
  <2> HIDE DEF f
  <2>5. SumFunction(f(i)) = f(i)[i] + SumFunction(f(i - 1))
    <3>1. SplitAt(f(i), 1 .. i, i)
      BY <1>2, <2>1, SumSplit
    <3>2. QED
      BY <2>2, <3>1 DEF SplitAt
  <2>6. f(i)[i] \in Int /\ Bought(trades, m, i - 1) \in Int
    BY <1>2, <1>4, <2>1
  <2>7. Bought(trades, m, i) = SumFunction(f(i)) /\ Bought(trades, m, i - 1) = SumFunction(f(i - 1))
    BY <1>2, <2>1
  <2>8. Bought(trades, m, i) = f(i)[i] + Bought(trades, m, i - 1)
    BY <2>5, <2>7
  <2>9. QED
    BY <2>4, <2>6, <2>8
<1>6. QED
  BY <1>3, <1>4, <1>5

(* And what was sold of it, not counting what is sold beyond what is open. *)
SoldTurn(trades, m, old, j) ==
  IF trades[j].mint # m \/ trades[j].buy THEN old
  ELSE Smaller(old + trades[j].amount, Bought(trades, m, j))

(* It goes on from trade to trade, however many there are.                 *)
LEMMA SoldTurns ==
  ASSUME NEW trades, NEW m, NEW n \in Nat
  PROVE  /\ Sold(trades, m, 0) = 0
         /\ \A i \in 1 .. n : Sold(trades, m, i) = SoldTurn(trades, m, Sold(trades, m, i - 1), i)
<1> DEFINE turn(old, j) == SoldTurn(trades, m, old, j)
           IsRes(u, k) == u = [j \in 0 .. k |-> IF j = 0 THEN 0 ELSE turn(u[j - 1], j)]
           IsSold(u, k) == u = [j \in 0 .. k |->
                              IF j = 0 THEN 0
                              ELSE IF trades[j].mint # m \/ trades[j].buy THEN u[j - 1]
                              ELSE Smaller(u[j - 1] + trades[j].amount, Bought(trades, m, j))]
           all == {k \in Nat : \E u : IsRes(u, k)}
<1>1. 0 \in all
  <2>1. IsRes([j \in 0 .. 0 |-> 0], 0)
    <3> HIDE DEF turn
    <3>1. QED
      OBVIOUS
  <2>2. QED
    BY <2>1
<1>2. ASSUME NEW k \in Nat, k \in all PROVE k + 1 \in all
  <2> HIDE DEF turn
  <2>1. PICK u : IsRes(u, k)
    BY <1>2
  <2> DEFINE v == [j \in 0 .. k + 1 |-> IF j = k + 1 THEN turn(u[k], k + 1) ELSE u[j]]
  <2>2. ASSUME NEW j \in 0 .. k + 1 PROVE v[j] = IF j = 0 THEN 0 ELSE turn(v[j - 1], j)
    BY <2>1
  <2>3. IsRes(v, k + 1)
    BY <2>2
  <2> HIDE DEF v, IsRes
  <2>4. QED
    BY <2>3
<1>3. \A k \in Nat : \E u : IsRes(u, k)
  <2> HIDE DEF all
  <2>1. \A k \in Nat : k \in all
    BY <1>1, <1>2, AllNaturals
  <2> USE DEF all
  <2> HIDE DEF IsRes
  <2>2. QED
    BY <2>1
<1>4. PICK u : IsRes(u, n)
  <2> HIDE DEF IsRes
  <2>1. QED
    BY <1>3
<1>5. ASSUME NEW i \in 0 .. n PROVE Sold(trades, m, i) = u[i]
  <2> DEFINE s == CHOOSE v : IsSold(v, i)
  <2>1. \E v : IsSold(v, i)
    <3>1. \A v : IsRes(v, i) => IsSold(v, i)
      BY Zenon DEF SoldTurn
    <3>2. i \in Nat
      OBVIOUS
    <3> HIDE DEF IsRes, IsSold
    <3>3. QED
      BY <1>3, <3>1, <3>2
  <2>2. IsSold(s, i) /\ Sold(trades, m, i) = s[i]
    BY <2>1, Zenon DEF Sold
  <2> HIDE DEF s
  <2>3. IsRes(s, i)
    BY <2>2, Zenon DEF SoldTurn
  <2> DEFINE same == {k \in Nat : k <= i => s[k] = u[k]}
  <2> HIDE DEF turn
  <2>4. 0 \in same
    BY <1>4, <2>3
  <2>5. ASSUME NEW k \in Nat, k \in same PROVE k + 1 \in same
    <3> SUFFICES ASSUME k + 1 <= i PROVE s[k + 1] = u[k + 1]
      OBVIOUS
    <3>1. k + 1 \in 0 .. i /\ k + 1 \in 0 .. n /\ k + 1 # 0 /\ (k + 1) - 1 = k /\ s[k] = u[k]
      BY <2>5
    <3>2. s[k + 1] = turn(s[k], k + 1)
      BY <2>3, <3>1
    <3>3. u[k + 1] = turn(u[k], k + 1)
      BY <1>4, <3>1
    <3>4. QED
      BY <3>1, <3>2, <3>3
  <2>6. i \in same
    <3> HIDE DEF same
    <3>1. i \in Nat
      OBVIOUS
    <3>2. QED
      BY <2>4, <2>5, <3>1, AllNaturals
  <2>7. QED
    BY <2>2, <2>6
<1>6. u[0] = 0 /\ \A i \in 1 .. n : u[i] = turn(u[i - 1], i)
  <2> HIDE DEF turn
  <2>1. QED
    BY <1>4
<1>7. ASSUME NEW i \in 1 .. n PROVE Sold(trades, m, i) = turn(Sold(trades, m, i - 1), i)
  <2>1. i \in 0 .. n /\ i - 1 \in 0 .. n
    OBVIOUS
  <2> HIDE DEF turn
  <2>2. QED
    BY <1>5, <1>6, <2>1
<1>8. Sold(trades, m, 0) = 0
  BY <1>5, <1>6
<1>9. QED
  BY <1>7, <1>8

(* How what was bought and sold of a mint goes on.                         *)
Books(trades, m) ==
  LET B(j) == Bought(trades, m, j)
      S(j) == Sold(trades, m, j)
  IN /\ \A j \in 0 .. Len(trades) : B(j) \in Nat /\ S(j) \in Nat /\ S(j) <= B(j)
     /\ \A h, j \in 0 .. Len(trades) : h <= j => B(h) <= B(j)
     /\ B(0) = 0 /\ S(0) = 0
     /\ \A j \in 1 .. Len(trades) :
          /\ S(j - 1) <= S(j)
          /\ IsBuy(trades, m, j) => B(j) = B(j - 1) + trades[j].amount
          /\ ~IsBuy(trades, m, j) => B(j) = B(j - 1)
          /\ IsSell(trades, m, j) => S(j) = Smaller(S(j - 1) + trades[j].amount, B(j))
          /\ ~IsSell(trades, m, j) => S(j) = S(j - 1)

(* What was bought and sold of a mint never shrinks, and no more is sold   *)
(* than was bought.                                                        *)
LEMMA BooksRule ==
  ASSUME NEW trades, Logged(trades), NEW m
  PROVE  Books(trades, m)
<1> DEFINE n == Len(trades)
           B(j) == Bought(trades, m, j)
           S(j) == Sold(trades, m, j)
<1>0. n \in Nat /\ \A k \in 1 .. n : trades[k].buy \in BOOLEAN /\ trades[k].amount \in Nat \ {0}
  BY DEF Logged
<1>1. /\ B(0) = 0
      /\ \A i \in 0 .. n : B(i) \in Int
      /\ \A i \in 1 .. n : B(i) = B(i - 1) + (IF IsBuy(trades, m, i) THEN trades[i].amount ELSE 0)
  BY BoughtTurns
<1>2. /\ S(0) = 0
      /\ \A i \in 1 .. n : S(i) = SoldTurn(trades, m, S(i - 1), i)
  BY <1>0, SoldTurns
<1> HIDE DEF B, S
<1>3. ASSUME NEW j \in 1 .. n
      PROVE  /\ IsBuy(trades, m, j) => B(j) = B(j - 1) + trades[j].amount
             /\ ~IsBuy(trades, m, j) => B(j) = B(j - 1)
             /\ IsSell(trades, m, j) => S(j) = Smaller(S(j - 1) + trades[j].amount, B(j))
             /\ ~IsSell(trades, m, j) => S(j) = S(j - 1)
  <2>1. j \in 0 .. n /\ j - 1 \in 0 .. n /\ B(j) \in Int /\ B(j - 1) \in Int
    BY <1>0, <1>1
  <2>2. B(j) = B(j - 1) + (IF IsBuy(trades, m, j) THEN trades[j].amount ELSE 0)
    BY <1>1
  <2>3. ~IsBuy(trades, m, j) => B(j) = B(j - 1)
    BY <2>1, <2>2
  <2>4. IsBuy(trades, m, j) => B(j) = B(j - 1) + trades[j].amount
    BY <2>2
  <2>5. S(j) = SoldTurn(trades, m, S(j - 1), j)
    BY <1>2
  <2>6. /\ IsSell(trades, m, j) => S(j) = Smaller(S(j - 1) + trades[j].amount, B(j))
        /\ ~IsSell(trades, m, j) => S(j) = S(j - 1)
    BY <2>5 DEF IsSell, SoldTurn, B
  <2>7. QED
    BY <2>3, <2>4, <2>6
<1>4. ASSUME NEW j \in 1 .. n, B(j - 1) \in Nat, S(j - 1) \in Nat, S(j - 1) <= B(j - 1)
      PROVE  B(j) \in Nat /\ S(j) \in Nat /\ S(j) <= B(j) /\ B(j - 1) <= B(j) /\ S(j - 1) <= S(j)
  <2>1. trades[j].amount \in Nat \ {0} /\ (IsBuy(trades, m, j) => ~IsSell(trades, m, j))
    BY <1>0 DEF IsBuy, IsSell
  <2>2. CASE IsBuy(trades, m, j)
    <3>1. B(j) = B(j - 1) + trades[j].amount /\ S(j) = S(j - 1)
      BY <1>3, <2>1, <2>2
    <3>2. QED
      BY <1>4, <2>1, <3>1
  <2>3. CASE IsSell(trades, m, j)
    <3>1. B(j) = B(j - 1) /\ S(j) = Smaller(S(j - 1) + trades[j].amount, B(j))
      BY <1>3, <2>1, <2>3
    <3>2. QED
      BY <1>4, <2>1, <3>1 DEF Smaller
  <2>4. CASE ~IsBuy(trades, m, j) /\ ~IsSell(trades, m, j)
    <3>1. B(j) = B(j - 1) /\ S(j) = S(j - 1)
      BY <1>3, <2>4
    <3>2. QED
      BY <1>4, <3>1
  <2>5. QED
    BY <2>2, <2>3, <2>4
<1> DEFINE all == {j \in Nat : j <= n => /\ B(j) \in Nat /\ S(j) \in Nat /\ S(j) <= B(j)
                                         /\ \A h \in 0 .. j : B(h) <= B(j)}
<1>5. \A j \in Nat : j \in all
  <2>1. 0 \in all
    BY <1>1, <1>2
  <2>2. ASSUME NEW j \in Nat, j \in all PROVE j + 1 \in all
    <3> SUFFICES ASSUME j + 1 <= n
                 PROVE  /\ B(j + 1) \in Nat /\ S(j + 1) \in Nat /\ S(j + 1) <= B(j + 1)
                        /\ \A h \in 0 .. j + 1 : B(h) <= B(j + 1)
      OBVIOUS
    <3>1. /\ j + 1 \in 1 .. n /\ (j + 1) - 1 = j /\ B(j) \in Nat /\ S(j) \in Nat /\ S(j) <= B(j)
          /\ \A h \in 0 .. j : B(h) <= B(j)
      BY <1>0, <2>2
    <3>2. B(j + 1) \in Nat /\ S(j + 1) \in Nat /\ S(j + 1) <= B(j + 1) /\ B(j) <= B(j + 1)
      BY <1>4, <3>1
    <3>3. ASSUME NEW h \in 0 .. j + 1 PROVE B(h) <= B(j + 1)
      <4>1. CASE h = j + 1
        BY <3>2, <4>1
      <4>2. CASE h # j + 1
        <5>1. h \in 0 .. j /\ h \in 0 .. n
          BY <1>0, <4>2
        <5>2. B(h) <= B(j) /\ B(h) \in Int
          BY <1>1, <3>1, <5>1
        <5>3. QED
          BY <3>1, <3>2, <5>2
      <4>3. QED
        BY <4>1, <4>2
    <3>4. QED
      BY <3>2, <3>3
  <2> HIDE DEF all
  <2>3. QED
    BY <2>1, <2>2, AllNaturals
<1>6. \A j \in 0 .. n : B(j) \in Nat /\ S(j) \in Nat /\ S(j) <= B(j) /\ \A h \in 0 .. j : B(h) <= B(j)
  BY <1>0, <1>5
<1>7. \A j \in 1 .. n : S(j - 1) <= S(j)
  <2>1. ASSUME NEW j \in 1 .. n PROVE S(j - 1) <= S(j)
    <3>1. j - 1 \in 0 .. n
      BY <1>0
    <3>2. B(j - 1) \in Nat /\ S(j - 1) \in Nat /\ S(j - 1) <= B(j - 1)
      BY <1>6, <3>1
    <3>3. QED
      BY <1>4, <3>2
  <2>2. QED
    BY <2>1
<1>8. \A h, j \in 0 .. n : h <= j => B(h) <= B(j)
  BY <1>0, <1>6
<1>9. QED
  BY <1>1, <1>2, <1>3, <1>6, <1>7, <1>8, Zenon DEF Books, B, S

(* L has the buys of D, in their order.                                    *)
Orders(L, D) ==
  /\ Len(L) \in Nat
  /\ \A k \in 1 .. Len(L) : L[k].bought \in D
  /\ \A j, k \in 1 .. Len(L) : j < k => L[j].bought < L[k].bought
  /\ \A d \in D : \E k \in 1 .. Len(L) : L[k].bought = d

(* The empty sequence has no buys.                                         *)
LEMMA OrdersNone == Orders(<<>>, {})
<1>1. QED
  BY DEF Orders

(* A later buy goes at the end.                                            *)
LEMMA OrdersAppend ==
  ASSUME NEW D, NEW L, Orders(L, D), NEW e, \A d \in D : d < e.bought
  PROVE  Orders(Append(L, e), D \cup {e.bought})
<1> DEFINE M == Append(L, e)
           n == Len(L)
           F == D \cup {e.bought}
<1>1. /\ n \in Nat /\ Len(M) = n + 1 /\ M[n + 1] = e
      /\ \A k \in 1 .. n : M[k] = L[k]
  BY DEF Orders
<1> HIDE DEF M
<1>2. /\ \A k \in 1 .. n : L[k].bought \in D
      /\ \A j, k \in 1 .. n : j < k => L[j].bought < L[k].bought
      /\ \A d \in D : \E k \in 1 .. n : L[k].bought = d
  BY DEF Orders
<1> HIDE DEF n
<1>3. ASSUME NEW k \in 1 .. n + 1 PROVE M[k].bought \in F
  BY <1>1, <1>2
<1>4. ASSUME NEW j \in 1 .. n + 1, NEW k \in 1 .. n + 1, j < k PROVE M[j].bought < M[k].bought
  <2>1. j \in 1 .. n /\ M[j] = L[j]
    BY <1>1, <1>4
  <2>2. CASE k = n + 1
    BY <1>1, <1>2, <2>1, <2>2
  <2>3. CASE k # n + 1
    BY <1>1, <1>2, <1>4, <2>1, <2>3
  <2>4. QED
    BY <2>2, <2>3
<1>5. ASSUME NEW d \in F PROVE \E k \in 1 .. n + 1 : M[k].bought = d
  <2>1. CASE d = e.bought
    <3>1. n + 1 \in 1 .. n + 1
      BY <1>1
    <3>2. QED
      BY <1>1, <2>1, <3>1
  <2>2. CASE d \in D
    <3>1. PICK k \in 1 .. n : L[k].bought = d
      BY <1>2, <2>2
    <3>2. k \in 1 .. n + 1 /\ M[k] = L[k]
      BY <1>1
    <3>3. QED
      BY <3>1, <3>2
  <2>3. QED
    BY <2>1, <2>2
<1>6. Orders(M, F)
  BY <1>1, <1>3, <1>4, <1>5 DEF Orders
<1>7. QED
  BY <1>6 DEF M, F

(* What is bought and sold of a mint overlaps in what a sell closes of a   *)
(* buy.                                                                    *)
Lap(b0, b1, s0, s1) == IF Smaller(b1, s1) > Higher(b0, s0) THEN Smaller(b1, s1) - Higher(b0, s0) ELSE 0

(* That is what Both says.                                                 *)
LEMMA BothRule ==
  ASSUME NEW trades, NEW m, NEW b, NEW s,
         Bought(trades, m, b - 1) \in Int, Bought(trades, m, b) \in Int,
         Sold(trades, m, s - 1) \in Int, Sold(trades, m, s) \in Int
  PROVE  Both(trades, m, b, s) = Lap(Bought(trades, m, b - 1), Bought(trades, m, b),
                                     Sold(trades, m, s - 1), Sold(trades, m, s))
<1>1. ASSUME NEW x \in Int, NEW y \in Int PROVE Max({x, y}) = Higher(x, y) /\ Min({x, y}) = Smaller(x, y)
  <2>1. CASE x < y
    <3>1. \A z \in {x, y} : (\A w \in {x, y} : w <= z) <=> z = y
      BY <2>1
    <3>2. \A z \in {x, y} : (\A w \in {x, y} : z <= w) <=> z = x
      BY <2>1
    <3>3. Max({x, y}) = y /\ Min({x, y}) = x
      BY <3>1, <3>2 DEF Max, Min
    <3>4. QED
      BY <2>1, <3>3 DEF Higher, Smaller
  <2>2. CASE x >= y
    <3>1. \A z \in {x, y} : (\A w \in {x, y} : w <= z) <=> z = x
      BY <2>2
    <3>2. \A z \in {x, y} : (\A w \in {x, y} : z <= w) <=> z = y
      BY <2>2
    <3>3. Max({x, y}) = x /\ Min({x, y}) = y
      BY <3>1, <3>2 DEF Max, Min
    <3>4. QED
      BY <2>2, <3>3 DEF Higher, Smaller
  <2>3. QED
    BY <2>1, <2>2
<1>2. QED
  BY <1>1 DEF Both, Lap

(* Where no buy between reaches beyond what was sold, none is passed over. *)
LEMMA NoneOpen ==
  ASSUME NEW trades, NEW m, Len(trades) \in Nat, Books(trades, m), NEW r \in Int,
         NEW h \in 0 .. Len(trades), NEW j \in h .. Len(trades),
         \A b \in h + 1 .. j : IsBuy(trades, m, b) => Bought(trades, m, b) <= r
  PROVE  Higher(r, Bought(trades, m, j)) = Higher(r, Bought(trades, m, h))
<1> DEFINE B(i) == Bought(trades, m, i)
           all == {k \in Nat : h + k <= j => Higher(r, B(h + k)) = Higher(r, B(h))}
<1>1. /\ \A i \in 0 .. Len(trades) : B(i) \in Int
      /\ \A i, k \in 0 .. Len(trades) : i <= k => B(i) <= B(k)
      /\ \A i \in 1 .. Len(trades) : ~IsBuy(trades, m, i) => B(i) = B(i - 1)
  BY DEF Books
<1>2. \A b \in h + 1 .. j : IsBuy(trades, m, b) => B(b) <= r
  OBVIOUS
<1> HIDE DEF B
<1>3. 0 \in all
  BY <1>1
<1>4. ASSUME NEW k \in Nat, k \in all PROVE k + 1 \in all
  <2> SUFFICES ASSUME h + (k + 1) <= j PROVE Higher(r, B(h + (k + 1))) = Higher(r, B(h))
    OBVIOUS
  <2> DEFINE i == h + (k + 1)
  <2>1. /\ i \in h + 1 .. j /\ i \in 1 .. Len(trades) /\ i \in 0 .. Len(trades)
        /\ h + k = i - 1 /\ i - 1 \in 0 .. Len(trades) /\ h <= i
    OBVIOUS
  <2>2. Higher(r, B(i - 1)) = Higher(r, B(h))
    BY <1>4, <2>1
  <2> HIDE DEF i
  <2>3. B(i) \in Int /\ B(h) \in Int /\ B(i - 1) \in Int /\ B(h) <= B(i)
    BY <1>1, <2>1
  <2>4. CASE IsBuy(trades, m, i)
    <3>1. B(i) <= r
      BY <1>2, <2>1, <2>4
    <3>2. Higher(r, B(i)) = r /\ Higher(r, B(h)) = r
      BY <2>3, <3>1 DEF Higher
    <3>3. QED
      BY <3>2 DEF i
  <2>5. CASE ~IsBuy(trades, m, i)
    <3>1. B(i) = B(i - 1)
      BY <1>1, <2>1, <2>5
    <3>2. QED
      BY <2>2, <3>1 DEF i
  <2>6. QED
    BY <2>4, <2>5
<1>5. j - h \in all
  <2> HIDE DEF all
  <2>1. j - h \in Nat
    OBVIOUS
  <2>2. QED
    BY <1>3, <1>4, <2>1, AllNaturals
<1>6. h + (j - h) = j
  OBVIOUS
<1>7. Higher(r, B(j)) = Higher(r, B(h))
  BY <1>5, <1>6
<1>8. QED
  BY <1>7 DEF B

(* The buys up to h that reach beyond r, and those the sell s closes some  *)
(* of; the lots left open at r, and the trips of s, that stand for them.   *)
OpenTo(trades, m, r, h) == {b \in 1 .. h : IsBuy(trades, m, b) /\ Bought(trades, m, b) > r}
Closable(trades, m, s, h) == {b \in 1 .. h : IsBuy(trades, m, b) /\ Both(trades, m, b, s) > 0}
LotAt(trades, m, r, b) ==
  [bought |-> b, amount |-> Bought(trades, m, b) - Higher(Bought(trades, m, b - 1), r)]
Lots(L, trades, m, r, h) ==
  /\ Orders(L, OpenTo(trades, m, r, h))
  /\ \A k \in 1 .. Len(L) : L[k] = LotAt(trades, m, r, L[k].bought)
Sales(C, trades, m, s, h) ==
  /\ Orders(C, Closable(trades, m, s, h))
  /\ \A k \in 1 .. Len(C) : C[k] = Trip(trades, C[k].bought, s, Both(trades, m, C[k].bought, s))

(* A sell that has gone through the buys up to h.                          *)
Rest(t, x) == IF t > x THEN t - x ELSE 0
Halfway(acc, trades, m, s, h) ==
  /\ acc.left = Rest(Sold(trades, m, s - 1) + trades[s].amount,
                     Higher(Sold(trades, m, s - 1), Bought(trades, m, h)))
  /\ Lots(acc.lots, trades, m, Sold(trades, m, s), h)
  /\ Sales(acc.closed, trades, m, s, h)

(* What a sell takes from a lot, what it has left then, and what the lot.  *)
Laps(take, left, a, b0, b1, s0, s1, t) ==
  /\ take \in Int /\ take >= 0
  /\ take = Lap(b0, b1, s0, s1)
  /\ left - take = Rest(t, Higher(s0, b1))
  /\ take = a <=> ~(b1 > s1)
  /\ take # a => a - take = b1 - Higher(b0, s1)

(* The four cases of a lot: left as it is, cut, closed, or beyond what the *)
(* sell has left.                                                          *)
LEMMA LapRule ==
  ASSUME NEW b0 \in Int, NEW b1 \in Int, NEW s0 \in Int, NEW t \in Int, NEW bs \in Int, NEW s1,
         b0 < b1, s0 < b1, s0 <= t, b1 <= bs, s1 = Smaller(t, bs),
         NEW left, left = Rest(t, Higher(s0, b0)), NEW a, a = b1 - Higher(b0, s0),
         NEW take, take = Smaller(left, a)
  PROVE  Laps(take, left, a, b0, b1, s0, s1, t)
<1>1. CASE t <= b0 \/ t = s0
  BY <1>1 DEF Laps, Smaller, Higher, Rest, Lap
<1>2. CASE ~(t <= b0 \/ t = s0) /\ t < b1
  BY <1>2 DEF Laps, Smaller, Higher, Rest, Lap
<1>3. CASE ~(t <= b0 \/ t = s0) /\ t >= b1
  BY <1>3 DEF Laps, Smaller, Higher, Rest, Lap
<1>4. QED
  BY <1>1, <1>2, <1>3

(* Buys that were sold before leave the sell as it is.                     *)
LEMMA SkipRule ==
  ASSUME NEW trades, NEW m, Len(trades) \in Nat, Books(trades, m), NEW s \in 1 .. Len(trades),
         NEW h \in 0 .. s - 1, NEW j \in h .. s - 1, NEW acc, Halfway(acc, trades, m, s, h),
         \A b \in h + 1 .. j : IsBuy(trades, m, b) => Bought(trades, m, b) <= Sold(trades, m, s - 1)
  PROVE  Halfway(acc, trades, m, s, j)
<1> DEFINE B(i) == Bought(trades, m, i)
           S(i) == Sold(trades, m, i)
<1>1. /\ \A i \in 0 .. Len(trades) : B(i) \in Nat /\ S(i) \in Nat
      /\ \A i \in 1 .. Len(trades) : S(i - 1) <= S(i)
  BY DEF Books
<1>2. s \in 0 .. Len(trades) /\ s - 1 \in 0 .. Len(trades) /\ h \in 0 .. Len(trades) /\ j \in h .. Len(trades)
  OBVIOUS
<1>3. S(s) \in Int /\ S(s - 1) \in Int /\ S(s - 1) <= S(s)
  BY <1>1, <1>2
<1>4. Higher(S(s - 1), B(j)) = Higher(S(s - 1), B(h))
  <2>1. S(s - 1) \in Int
    BY <1>3
  <2>2. QED
    BY <1>2, <2>1, NoneOpen
<1>5. \A b \in h + 1 .. j : IsBuy(trades, m, b) => B(b) <= S(s - 1)
  OBVIOUS
<1>6. ASSUME NEW b \in h + 1 .. j, IsBuy(trades, m, b)
      PROVE  ~(B(b) > S(s)) /\ ~(Both(trades, m, b, s) > 0)
  <2>1. b \in 0 .. Len(trades) /\ b - 1 \in 0 .. Len(trades)
    OBVIOUS
  <2>2. B(b) \in Int /\ B(b - 1) \in Int
    BY <1>1, <2>1
  <2>3. Both(trades, m, b, s) = Lap(B(b - 1), B(b), S(s - 1), S(s))
    BY <1>3, <2>2, BothRule
  <2>4. B(b) <= S(s - 1)
    BY <1>5, <1>6
  <2> HIDE DEF B, S
  <2>5. QED
    BY <1>3, <2>2, <2>3, <2>4 DEF Lap, Smaller, Higher
<1>7. OpenTo(trades, m, S(s), j) = OpenTo(trades, m, S(s), h)
  BY <1>6 DEF OpenTo
<1>8. Closable(trades, m, s, j) = Closable(trades, m, s, h)
  BY <1>6 DEF Closable
<1>9. QED
  BY <1>4, <1>7, <1>8 DEF Halfway, Lots, Sales

(* And one that was not is closed as far as the sell goes.                 *)
LEMMA TakeRule ==
  ASSUME NEW trades, NEW m, Logged(trades), Books(trades, m),
         NEW s \in 1 .. Len(trades), IsSell(trades, m, s),
         NEW b \in 1 .. s - 1, IsBuy(trades, m, b), Bought(trades, m, b) > Sold(trades, m, s - 1),
         NEW acc, Halfway(acc, trades, m, s, b - 1)
  PROVE  Halfway(Consume(trades, s, acc, LotAt(trades, m, Sold(trades, m, s - 1), b)), trades, m, s, b)
<1> DEFINE b0 == Bought(trades, m, b - 1)
           b1 == Bought(trades, m, b)
           s0 == Sold(trades, m, s - 1)
           s1 == Sold(trades, m, s)
           bs == Bought(trades, m, s)
           t == s0 + trades[s].amount
           lot == LotAt(trades, m, s0, b)
           take == Smaller(acc.left, lot.amount)
           new == Consume(trades, s, acc, lot)
<1>1. /\ b - 1 \in 0 .. Len(trades) /\ b \in 0 .. Len(trades) /\ b \in 1 .. Len(trades)
      /\ s - 1 \in 0 .. Len(trades) /\ s \in 0 .. Len(trades) /\ b <= s
      /\ trades[s].amount \in Nat \ {0} /\ trades[b].amount \in Nat \ {0}
  BY DEF Logged
<1>2. /\ b0 \in Int /\ b1 \in Int /\ s0 \in Int /\ s1 \in Int /\ bs \in Int
      /\ b1 = b0 + trades[b].amount /\ b1 <= bs /\ s1 = Smaller(t, bs)
  BY <1>1 DEF Books
<1>3. t \in Int /\ s0 <= t /\ b0 < b1 /\ s0 < b1
  <2>1. s0 < b1
    OBVIOUS
  <2> DEFINE x == trades[s].amount
             y == trades[b].amount
  <2>2. x \in Nat \ {0} /\ y \in Nat \ {0} /\ t = s0 + x /\ b1 = b0 + y /\ s0 \in Int /\ b0 \in Int
    BY <1>1, <1>2
  <2> HIDE DEF b0, b1, s0, t, x, y
  <2>3. QED
    BY ONLY <2>1, <2>2
<1>4. acc.left = Rest(t, Higher(s0, b0))
  BY DEF Halfway
<1>5. lot = [bought |-> b, amount |-> b1 - Higher(b0, s0)]
  BY DEF LotAt
<1>6. /\ take \in Int /\ take >= 0
      /\ take = Lap(b0, b1, s0, s1)
      /\ acc.left - take = Rest(t, Higher(s0, b1))
      /\ take = lot.amount <=> ~(b1 > s1)
      /\ take # lot.amount => lot.amount - take = b1 - Higher(b0, s1)
  <2>1. lot.amount = b1 - Higher(b0, s0)
    BY <1>5
  <2>2. take = Smaller(acc.left, lot.amount)
    OBVIOUS
  <2> HIDE DEF b0, b1, s0, s1, bs, t, lot, take
  <2>3. Laps(take, acc.left, lot.amount, b0, b1, s0, s1, t)
    BY ONLY <1>2, <1>3, <1>4, <2>1, <2>2, LapRule
  <2>4. QED
    BY <2>3 DEF Laps
<1>7. Both(trades, m, b, s) = take
  BY <1>2, <1>6, BothRule
<1>8. take \in Int /\ take >= 0
  BY <1>6
<1>9. new = [left |-> acc.left - take,
             closed |-> IF take = 0 THEN acc.closed ELSE Append(acc.closed, Trip(trades, b, s, take)),
             lots |-> IF take = lot.amount THEN acc.lots
                      ELSE Append(acc.lots, [lot EXCEPT !.amount = @ - take])]
  <2>1. lot.bought = b
    BY <1>5
  <2> HIDE DEF lot
  <2>2. QED
    BY <2>1, Zenon DEF Consume, take
<1>10. /\ Lots(acc.lots, trades, m, s1, b - 1)
       /\ Sales(acc.closed, trades, m, s, b - 1)
  BY DEF Halfway
<1>11. (1 .. b) = (1 .. b - 1) \cup {b} /\ \A d \in 1 .. b - 1 : d < b
  BY <1>1
<1>12. Lots(new.lots, trades, m, s1, b)
  <2>1. CASE take = lot.amount
    <3>1. ~(b1 > s1)
      BY <1>6, <2>1
    <3>2. OpenTo(trades, m, s1, b) = OpenTo(trades, m, s1, b - 1)
      BY <1>11, <3>1 DEF OpenTo
    <3>3. new.lots = acc.lots
      BY <1>9, <2>1
    <3>4. QED
      BY <1>10, <3>2, <3>3 DEF Lots
  <2>2. CASE take # lot.amount
    <3> DEFINE e == LotAt(trades, m, s1, b)
    <3>1. b1 > s1 /\ lot.amount - take = b1 - Higher(b0, s1)
      BY <1>6, <2>2
    <3>2. OpenTo(trades, m, s1, b) = OpenTo(trades, m, s1, b - 1) \cup {b}
      BY <1>11, <3>1 DEF OpenTo
    <3>3. [lot EXCEPT !.amount = @ - take] = e
      BY <1>5, <3>1 DEF LotAt
    <3>4. new.lots = Append(acc.lots, e)
      <4> HIDE DEF new, e, lot, take
      <4>1. QED
        BY <1>9, <2>2, <3>3
    <3>5. e.bought = b
      BY DEF LotAt
    <3>6. \A d \in OpenTo(trades, m, s1, b - 1) : d < b
      BY <1>11 DEF OpenTo
    <3> HIDE DEF e, new, s1
    <3>7. Orders(acc.lots, OpenTo(trades, m, s1, b - 1))
      BY <1>10 DEF Lots
    <3>8. Orders(new.lots, OpenTo(trades, m, s1, b))
      BY <3>2, <3>4, <3>5, <3>6, <3>7, OrdersAppend
    <3>9. ASSUME NEW k \in 1 .. Len(new.lots) PROVE new.lots[k] = LotAt(trades, m, s1, new.lots[k].bought)
      <4>1. Len(acc.lots) \in Nat
        BY <3>7 DEF Orders
      <4>2. CASE k = Len(acc.lots) + 1
        <5>1. new.lots[k] = e
          BY <3>4, <4>1, <4>2
        <5>2. QED
          BY <3>5, <5>1 DEF e
      <4>3. CASE k # Len(acc.lots) + 1
        <5>1. k \in 1 .. Len(acc.lots) /\ new.lots[k] = acc.lots[k]
          BY <3>4, <4>1, <4>3
        <5>2. QED
          BY <1>10, <5>1 DEF Lots
      <4>4. QED
        BY <4>2, <4>3
    <3>10. QED
      BY <3>8, <3>9 DEF Lots
  <2>3. QED
    BY <2>1, <2>2
<1>13. Sales(new.closed, trades, m, s, b)
  <2>1. CASE take = 0
    <3>1. Closable(trades, m, s, b) = Closable(trades, m, s, b - 1)
      BY <1>7, <1>11, <2>1 DEF Closable
    <3>2. new.closed = acc.closed
      BY <1>9, <2>1
    <3>3. QED
      BY <1>10, <3>1, <3>2 DEF Sales
  <2>2. CASE take # 0
    <3> DEFINE e == Trip(trades, b, s, take)
    <3>1. Both(trades, m, b, s) > 0
      BY <1>7, <1>8, <2>2
    <3>2. Closable(trades, m, s, b) = Closable(trades, m, s, b - 1) \cup {b}
      BY <1>11, <3>1 DEF Closable
    <3>4. new.closed = Append(acc.closed, e)
      BY <1>9, <2>2
    <3>5. e.bought = b
      BY DEF Trip
    <3>6. \A d \in Closable(trades, m, s, b - 1) : d < b
      BY <1>11 DEF Closable
    <3> HIDE DEF e, new, take
    <3>7. Orders(acc.closed, Closable(trades, m, s, b - 1))
      BY <1>10 DEF Sales
    <3>8. Orders(new.closed, Closable(trades, m, s, b))
      BY <3>2, <3>4, <3>5, <3>6, <3>7, OrdersAppend
    <3>9. ASSUME NEW k \in 1 .. Len(new.closed)
          PROVE  new.closed[k] =
                   Trip(trades, new.closed[k].bought, s, Both(trades, m, new.closed[k].bought, s))
      <4>1. Len(acc.closed) \in Nat
        BY <3>7 DEF Orders
      <4>2. CASE k = Len(acc.closed) + 1
        <5>1. new.closed[k] = e
          BY <3>4, <4>1, <4>2
        <5>2. QED
          BY <1>7, <3>5, <5>1 DEF e
      <4>3. CASE k # Len(acc.closed) + 1
        <5>1. k \in 1 .. Len(acc.closed) /\ new.closed[k] = acc.closed[k]
          BY <3>4, <4>1, <4>3
        <5>2. QED
          BY <1>10, <5>1 DEF Sales
      <4>4. QED
        BY <4>2, <4>3
    <3>10. QED
      BY <3>8, <3>9 DEF Sales
  <2>3. QED
    BY <2>1, <2>2
<1>14. new.left = Rest(t, Higher(s0, b1))
  BY <1>6, <1>9
<1> HIDE DEF new
<1>15. Halfway(new, trades, m, s, b)
  BY <1>12, <1>13, <1>14 DEF Halfway
<1>16. QED
  BY <1>15 DEF new

(* A sell goes through the lots in turn.                                   *)
Selling(u, trades, s, lots) ==
  /\ Sell(trades, s, lots) = u[Len(lots)]
  /\ u[0] = NoneSold(trades, s)
  /\ \A k \in 1 .. Len(lots) : u[k] = Consume(trades, s, u[k - 1], lots[k])

(* The lots are consumed one after another.                                *)
LEMMA SellTurns ==
  ASSUME NEW trades, NEW s, NEW lots, Len(lots) \in Nat
  PROVE  \E u : Selling(u, trades, s, lots)
<1> DEFINE turn(old, k) == Consume(trades, s, old, lots[k])
           b == NoneSold(trades, s)
           IsAcc(u, m) == u = [k \in 0 .. m |-> IF k = 0 THEN b ELSE turn(u[k - 1], k)]
           acc == CHOOSE u : IsAcc(u, Len(lots))
           all == {m \in Nat : \E u : IsAcc(u, m)}
<1>1. 0 \in all
  <2>1. IsAcc([k \in 0 .. 0 |-> b], 0)
    <3> HIDE DEF turn, b
    <3>1. QED
      OBVIOUS
  <2>2. QED
    BY <2>1
<1>2. ASSUME NEW m \in Nat, m \in all PROVE m + 1 \in all
  <2> HIDE DEF turn, b
  <2>1. PICK u : IsAcc(u, m)
    BY <1>2
  <2> DEFINE v == [k \in 0 .. m + 1 |-> IF k = m + 1 THEN turn(u[m], m + 1) ELSE u[k]]
  <2>2. ASSUME NEW k \in 0 .. m + 1 PROVE v[k] = IF k = 0 THEN b ELSE turn(v[k - 1], k)
    BY <2>1
  <2>3. IsAcc(v, m + 1)
    BY <2>2
  <2> HIDE DEF v, IsAcc
  <2>4. QED
    BY <2>3
<1>3. \E u : IsAcc(u, Len(lots))
  <2> HIDE DEF all
  <2>1. Len(lots) \in all
    BY <1>1, <1>2, AllNaturals
  <2> USE DEF all
  <2> HIDE DEF IsAcc
  <2>2. QED
    BY <2>1
<1>4. IsAcc(acc, Len(lots)) /\ Sell(trades, s, lots) = acc[Len(lots)]
  BY <1>3, Zenon DEF Sell
<1> HIDE DEF acc
<1>5. Selling(acc, trades, s, lots)
  <2> HIDE DEF turn, b
  <2>1. acc[0] = b
    BY <1>4
  <2>2. \A k \in 1 .. Len(lots) : acc[k] = turn(acc[k - 1], k)
    BY <1>4
  <2>3. QED
    BY <1>4, <2>1, <2>2 DEF Selling, turn, b
<1>6. QED
  BY <1>5

(* Between one and the next that L has there is none that it should have.  *)
At(L, k) == IF k = 0 THEN 0 ELSE L[k].bought

(* If d lies after the k-th and before the next, it is not one of them.    *)
LEMMA GapRule ==
  ASSUME NEW D \in SUBSET (Nat \ {0}), NEW L, Orders(L, D), NEW k \in 0 .. Len(L), NEW d \in Nat,
         At(L, k) < d, k = Len(L) \/ d < L[k + 1].bought
  PROVE  d \notin D
<1> SUFFICES ASSUME d \in D PROVE FALSE
  OBVIOUS
<1> DEFINE n == Len(L)
<1>1. PICK j \in 1 .. n : L[j].bought = d
  BY DEF Orders
<1>2. /\ n \in Nat
      /\ \A i \in 1 .. n : L[i].bought \in Int
      /\ \A h, i \in 1 .. n : h < i => L[h].bought < L[i].bought
  <2>1. \A e \in D : e \in Int
    OBVIOUS
  <2>2. /\ n \in Nat
        /\ \A i \in 1 .. n : L[i].bought \in D
        /\ \A h, i \in 1 .. n : h < i => L[h].bought < L[i].bought
    BY DEF Orders
  <2>3. QED
    BY <2>1, <2>2
<1> HIDE DEF n
<1>3. CASE j <= k
  <2>1. k \in 1 .. n /\ At(L, k) = L[k].bought
    BY <1>2, <1>3 DEF At, n
  <2>2. L[j].bought <= L[k].bought
    BY <1>2, <1>3, <2>1
  <2>3. QED
    BY <1>1, <1>2, <2>1, <2>2
<1>4. CASE j > k
  <2>1. k # n /\ k + 1 \in 1 .. n /\ d < L[k + 1].bought
    BY <1>2, <1>4 DEF n
  <2>2. L[k + 1].bought <= L[j].bought
    BY <1>2, <1>4, <2>1
  <2>3. QED
    BY <1>1, <1>2, <2>1, <2>2
<1>5. QED
  BY <1>2, <1>3, <1>4 DEF n

(* A sell closes its part of every buy it laps over, and leaves the rest.  *)
LEMMA SellRule ==
  ASSUME NEW trades, NEW m, Logged(trades), Books(trades, m),
         NEW s \in 1 .. Len(trades), IsSell(trades, m, s),
         NEW L, Lots(L, trades, m, Sold(trades, m, s - 1), s - 1)
  PROVE  /\ Lots(Sell(trades, s, L).lots, trades, m, Sold(trades, m, s), s)
         /\ Sales(Sell(trades, s, L).closed, trades, m, s, s - 1)
<1> DEFINE s0 == Sold(trades, m, s - 1)
           n == Len(L)
           D == OpenTo(trades, m, s0, s - 1)
<1>1. Orders(L, D) /\ n \in Nat /\ \A k \in 1 .. n : L[k] = LotAt(trades, m, s0, L[k].bought)
  BY DEF Lots, Orders
<1>2. /\ D \in SUBSET (Nat \ {0})
      /\ \A d \in D : d \in Int /\ d \in 1 .. s - 1 /\ IsBuy(trades, m, d) /\ Bought(trades, m, d) > s0
  BY DEF OpenTo
<1>3. /\ Len(trades) \in Nat /\ trades[s].amount \in Nat \ {0} /\ s \in Nat
      /\ s - 1 \in 0 .. Len(trades) /\ 0 \in 0 .. Len(trades) /\ s0 \in Nat
      /\ Bought(trades, m, 0) = 0
      /\ \A j \in 0 .. Len(trades) : Bought(trades, m, j) \in Int
  BY DEF Logged, Books
<1>4. PICK u : Selling(u, trades, s, L)
  BY <1>1, SellTurns
<1>5. /\ Sell(trades, s, L) = u[n] /\ u[0] = NoneSold(trades, s)
      /\ \A k \in 1 .. n : u[k] = Consume(trades, s, u[k - 1], L[k])
  BY <1>4 DEF Selling
<1> DEFINE all == {k \in Nat : k <= n => Halfway(u[k], trades, m, s, At(L, k))}
<1>6. 0 \in all
  <2>1. u[0] = [left |-> trades[s].amount, closed |-> <<>>, lots |-> <<>>]
    BY <1>5 DEF NoneSold
  <2>2. u[0].left = Rest(s0 + trades[s].amount, Higher(s0, 0))
    <3> DEFINE a == trades[s].amount
    <3>1. u[0].left = a /\ a \in Nat \ {0} /\ s0 \in Nat
      BY <1>3, <2>1
    <3> HIDE DEF a, s0
    <3>2. Rest(s0 + a, Higher(s0, 0)) = a
      BY <3>1 DEF Rest, Higher
    <3>3. QED
      BY <3>1, <3>2 DEF a
  <2>3. OpenTo(trades, m, Sold(trades, m, s), 0) = {} /\ Closable(trades, m, s, 0) = {}
    BY DEF OpenTo, Closable
  <2>4. Lots(u[0].lots, trades, m, Sold(trades, m, s), 0) /\ Sales(u[0].closed, trades, m, s, 0)
    <3>1. u[0].lots = <<>> /\ u[0].closed = <<>> /\ (1 .. Len(<<>>)) = {}
      BY <2>1
    <3>2. Orders(u[0].lots, {}) /\ Orders(u[0].closed, {})
      BY <3>1, OrdersNone
    <3>3. (1 .. Len(u[0].lots)) = {} /\ (1 .. Len(u[0].closed)) = {}
      BY <3>1
    <3>4. Lots(u[0].lots, trades, m, Sold(trades, m, s), 0)
      BY <2>3, <3>2, <3>3 DEF Lots
    <3>5. Sales(u[0].closed, trades, m, s, 0)
      BY <2>3, <3>2, <3>3 DEF Sales
    <3>6. QED
      BY <3>4, <3>5
  <2>5. Halfway(u[0], trades, m, s, 0)
    BY <1>3, <2>2, <2>4 DEF Halfway
  <2>6. QED
    BY <2>5 DEF At
<1> HIDE DEF n, D
<1>7. ASSUME NEW k \in 0 .. n, Halfway(u[k], trades, m, s, At(L, k)), NEW j \in At(L, k) .. s - 1,
             k = n \/ j < L[k + 1].bought
      PROVE  Halfway(u[k], trades, m, s, j)
  <2>1. At(L, k) \in 0 .. s - 1
    <3>1. CASE k = 0
      BY <1>3, <3>1 DEF At
    <3>2. CASE k # 0
      <4>1. k \in 1 .. n
        BY <3>2
      <4>2. L[k].bought \in D
        BY <1>1, <4>1 DEF Orders, n
      <4>3. L[k].bought \in 1 .. s - 1
        BY <1>2, <4>2
      <4>4. QED
        BY <1>3, <3>2, <4>3 DEF At
    <3>3. QED
      BY <3>1, <3>2
  <2>2. ASSUME NEW b \in At(L, k) + 1 .. j, IsBuy(trades, m, b) PROVE Bought(trades, m, b) <= s0
    <3>1. b \in Nat /\ b \in 1 .. s - 1 /\ At(L, k) < b /\ b <= j
      BY <1>3, <2>1
    <3>2. k = n \/ b < L[k + 1].bought
      <4>1. CASE k = n
        BY <4>1
      <4>2. CASE k # n
        <5>1. k + 1 \in 1 .. n /\ j < L[k + 1].bought
          BY <1>1, <1>7, <4>2
        <5>2. L[k + 1].bought \in D
          BY <1>1, <5>1 DEF Orders, n
        <5>3. L[k + 1].bought \in Int
          BY <1>2, <5>2
        <5>4. QED
          BY <2>1, <3>1, <5>1, <5>3
      <4>3. QED
        BY <4>1, <4>2
    <3>3. b \notin D
      BY <1>1, <1>2, <3>1, <3>2, GapRule DEF n
    <3>4. ~(Bought(trades, m, b) > s0)
      BY <2>2, <3>1, <3>3 DEF D, OpenTo
    <3>5. b \in 0 .. Len(trades)
      BY <1>3, <3>1
    <3>6. Bought(trades, m, b) \in Int /\ s0 \in Int
      BY <1>3, <3>5
    <3>7. QED
      BY <3>4, <3>6
  <2>3. QED
    BY <1>3, <1>7, <2>1, <2>2, SkipRule
<1>8. ASSUME NEW k \in Nat, k \in all PROVE k + 1 \in all
  <2> SUFFICES ASSUME k + 1 <= n PROVE Halfway(u[k + 1], trades, m, s, At(L, k + 1))
    OBVIOUS
  <2> DEFINE b == L[k + 1].bought
  <2>1. k \in 0 .. n /\ k + 1 \in 1 .. n /\ (k + 1) - 1 = k /\ Halfway(u[k], trades, m, s, At(L, k))
    BY <1>1, <1>8
  <2>2. b \in D /\ L[k + 1] = LotAt(trades, m, s0, b)
    BY <1>1, <2>1 DEF Orders, n
  <2>3. b \in 1 .. s - 1 /\ IsBuy(trades, m, b) /\ Bought(trades, m, b) > s0
    BY <1>2, <2>2
  <2>4. At(L, k) \in Nat /\ At(L, k) < b
    <3>1. CASE k = 0
      BY <2>3, <3>1 DEF At
    <3>2. CASE k # 0
      <4>1. k \in 1 .. n /\ k < k + 1
        BY <2>1, <3>2
      <4>2. L[k].bought \in D /\ L[k].bought < b
        BY <1>1, <2>1, <4>1 DEF Orders, n
      <4>3. QED
        BY <1>2, <3>2, <4>2 DEF At
    <3>3. QED
      BY <3>1, <3>2
  <2>5. b - 1 \in At(L, k) .. s - 1 /\ b - 1 < L[k + 1].bought
    <3>1. s \in Nat /\ b \in 1 .. s - 1 /\ At(L, k) \in Nat /\ At(L, k) < b /\ b = L[k + 1].bought
      BY <1>3, <2>3, <2>4
    <3> HIDE DEF b
    <3>2. QED
      BY ONLY <3>1
  <2>6. Halfway(u[k], trades, m, s, b - 1)
    BY <1>7, <2>1, <2>5
  <2>7. Halfway(Consume(trades, s, u[k], LotAt(trades, m, s0, b)), trades, m, s, b)
    BY <2>3, <2>6, TakeRule
  <2>8. u[k + 1] = Consume(trades, s, u[k], LotAt(trades, m, s0, b))
    BY <1>5, <2>1, <2>2
  <2>9. At(L, k + 1) = b
    BY <2>1 DEF At
  <2>10. QED
    BY <2>7, <2>8, <2>9
<1>9. n \in all
  <2> HIDE DEF all
  <2>1. QED
    BY <1>1, <1>6, <1>8, AllNaturals
<1>10. Halfway(u[n], trades, m, s, s - 1)
  <2>1. Halfway(u[n], trades, m, s, At(L, n)) /\ n \in 0 .. n
    BY <1>1, <1>9
  <2>2. s - 1 \in At(L, n) .. s - 1
    <3>1. CASE n = 0
      BY <1>3, <3>1 DEF At
    <3>2. CASE n # 0
      <4>1. L[n].bought \in D
        BY <1>1, <3>2 DEF Orders, n
      <4>2. L[n].bought \in 1 .. s - 1
        BY <1>2, <4>1
      <4>3. QED
        BY <1>3, <3>2, <4>2 DEF At
    <3>3. QED
      BY <3>1, <3>2
  <2>3. QED
    BY <1>7, <2>1, <2>2
<1>11. /\ Lots(u[n].lots, trades, m, Sold(trades, m, s), s - 1)
       /\ Sales(u[n].closed, trades, m, s, s - 1)
  BY <1>10 DEF Halfway
<1>12. OpenTo(trades, m, Sold(trades, m, s), s) = OpenTo(trades, m, Sold(trades, m, s), s - 1)
  <2>1. ~IsBuy(trades, m, s) /\ (1 .. s) = (1 .. s - 1) \cup {s}
    BY <1>3 DEF IsBuy, IsSell
  <2>2. QED
    BY <2>1 DEF OpenTo
<1>13. QED
  BY <1>5, <1>11, <1>12 DEF Lots

(* The sell s closes some of the buy b.                                    *)
Laid(trades, b, s) ==
  /\ b < s /\ trades[b].mint = trades[s].mint /\ trades[b].buy /\ ~trades[s].buy
  /\ Both(trades, trades[b].mint, b, s) > 0
TripOf(trades, b, s) == Trip(trades, b, s, Both(trades, trades[b].mint, b, s))

(* C has a trip for every such pair among the first i trades, and no other. *)
Matched(C, trades, i) ==
  /\ Len(C) \in Nat /\ DOMAIN C = 1 .. Len(C)
  /\ \A k \in 1 .. Len(C) :
       /\ C[k].bought \in 1 .. i /\ C[k].sold \in 1 .. i
       /\ Laid(trades, C[k].bought, C[k].sold)
       /\ C[k] = TripOf(trades, C[k].bought, C[k].sold)
  /\ \A j, k \in 1 .. Len(C) : C[j].bought = C[k].bought /\ C[j].sold = C[k].sold => j = k
  /\ \A b, s \in 1 .. i :
       Laid(trades, b, s) => \E k \in 1 .. Len(C) : C[k].bought = b /\ C[k].sold = s

(* A buy adds no pair.                                                     *)
LEMMA MatchedOn ==
  ASSUME NEW trades, Logged(trades), NEW s \in 1 .. Len(trades), trades[s].buy,
         NEW C, Matched(C, trades, s - 1)
  PROVE  Matched(C, trades, s)
<1>1. s \in Nat /\ \A x \in 1 .. s - 1 : x \in 1 .. s
  BY DEF Logged
<1>2. ASSUME NEW b \in 1 .. s, NEW t \in 1 .. s, Laid(trades, b, t)
      PROVE  b \in 1 .. s - 1 /\ t \in 1 .. s - 1
  BY <1>1, <1>2 DEF Laid
<1>3. QED
  BY <1>1, <1>2 DEF Matched

(* A sell adds its own pairs, and its own trips, and no other.             *)
LEMMA MatchedConcat ==
  ASSUME NEW trades, Logged(trades), NEW m, NEW s \in 1 .. Len(trades), IsSell(trades, m, s),
         NEW C, Matched(C, trades, s - 1), NEW E, Sales(E, trades, m, s, s - 1)
  PROVE  Matched(C \o E, trades, s)
<1> DEFINE F == C \o E
           c == Len(C)
           e == Len(E)
<1>0. s \in Nat /\ (\A x \in 1 .. s - 1 : x \in 1 .. s /\ x < s) /\ s \in 1 .. s
  BY DEF Logged
<1>1. /\ c \in Nat /\ e \in Nat /\ Len(F) = c + e
      /\ \A k \in 1 .. c : F[k] = C[k]
      /\ \A k \in 1 .. e : F[c + k] = E[k]
  BY DEF Matched, Sales, Orders
<1>2. /\ \A k \in 1 .. e : E[k].bought \in Closable(trades, m, s, s - 1)
      /\ \A j, k \in 1 .. e : j < k => E[j].bought < E[k].bought
      /\ \A d \in Closable(trades, m, s, s - 1) : \E k \in 1 .. e : E[k].bought = d
      /\ \A k \in 1 .. e : E[k] = Trip(trades, E[k].bought, s, Both(trades, m, E[k].bought, s))
  BY DEF Sales, Orders
<1>3. ASSUME NEW b \in 1 .. s - 1
      PROVE  Laid(trades, b, s) <=> b \in Closable(trades, m, s, s - 1)
  BY <1>0 DEF Laid, Closable, IsSell, IsBuy
<1>4. ASSUME NEW k \in 1 .. e
      PROVE  /\ E[k].bought \in 1 .. s - 1 /\ E[k].sold = s /\ Laid(trades, E[k].bought, s)
             /\ E[k] = TripOf(trades, E[k].bought, s)
  <2>1. E[k].bought \in Closable(trades, m, s, s - 1)
    BY <1>2
  <2>2. E[k].bought \in 1 .. s - 1 /\ trades[E[k].bought].mint = m
    BY <2>1 DEF Closable, IsBuy
  <2>3. E[k] = Trip(trades, E[k].bought, s, Both(trades, m, E[k].bought, s))
    BY <1>2
  <2>4. E[k].sold = s
    BY <2>3 DEF Trip
  <2>5. E[k] = TripOf(trades, E[k].bought, s)
    BY <2>2, <2>3, Zenon DEF TripOf
  <2>6. QED
    BY <1>3, <2>1, <2>2, <2>4, <2>5
<1>5. /\ \A k \in 1 .. c :
           /\ C[k].bought \in 1 .. s - 1 /\ C[k].sold \in 1 .. s - 1
           /\ Laid(trades, C[k].bought, C[k].sold)
           /\ C[k] = TripOf(trades, C[k].bought, C[k].sold)
      /\ \A j, k \in 1 .. c : C[j].bought = C[k].bought /\ C[j].sold = C[k].sold => j = k
      /\ \A b, t \in 1 .. s - 1 :
           Laid(trades, b, t) => \E k \in 1 .. c : C[k].bought = b /\ C[k].sold = t
  BY DEF Matched
<1> HIDE DEF F, c, e
<1>6. ASSUME NEW k \in 1 .. c + e
      PROVE  (k \in 1 .. c /\ F[k] = C[k]) \/ (k - c \in 1 .. e /\ F[k] = E[k - c])
  <2>1. CASE k <= c
    BY <1>1, <2>1
  <2>2. CASE k > c
    <3>1. k - c \in 1 .. e /\ c + (k - c) = k
      BY <1>1, <2>2
    <3>2. QED
      BY <1>1, <3>1
  <2>3. QED
    BY <1>1, <2>1, <2>2
<1>7. ASSUME NEW k \in 1 .. c + e
      PROVE  /\ F[k].bought \in 1 .. s /\ F[k].sold \in 1 .. s
             /\ Laid(trades, F[k].bought, F[k].sold)
             /\ F[k] = TripOf(trades, F[k].bought, F[k].sold)
  <2>1. CASE k \in 1 .. c /\ F[k] = C[k]
    BY <1>0, <1>5, <2>1
  <2>2. CASE k - c \in 1 .. e /\ F[k] = E[k - c]
    BY <1>0, <1>4, <2>2
  <2>3. QED
    BY <1>6, <2>1, <2>2
<1>8. ASSUME NEW j \in 1 .. c + e, NEW k \in 1 .. c + e, F[j].bought = F[k].bought, F[j].sold = F[k].sold
      PROVE  j = k
  <2>1. \A i \in 1 .. c : C[i].sold < s
    BY <1>0, <1>5
  <2>2. \A i \in 1 .. e : E[i].sold = s /\ E[i].bought \in Int
    BY <1>0, <1>4
  <2>3. \A h, i \in 1 .. e : E[h].bought = E[i].bought => h = i
    BY <1>2, <2>2
  <2>4. CASE j \in 1 .. c /\ F[j] = C[j]
    <3>1. k \in 1 .. c /\ F[k] = C[k]
      BY <1>0, <1>6, <1>8, <2>1, <2>2, <2>4
    <3>2. QED
      BY <1>5, <1>8, <2>4, <3>1
  <2>5. CASE j - c \in 1 .. e /\ F[j] = E[j - c]
    <3>1. k - c \in 1 .. e /\ F[k] = E[k - c]
      BY <1>0, <1>6, <1>8, <2>1, <2>2, <2>5
    <3>2. j - c = k - c
      BY <1>8, <2>3, <2>5, <3>1
    <3>3. QED
      BY <1>1, <3>2
  <2>6. QED
    BY <1>6, <2>4, <2>5
<1>9. ASSUME NEW b \in 1 .. s, NEW t \in 1 .. s, Laid(trades, b, t)
      PROVE  \E k \in 1 .. c + e : F[k].bought = b /\ F[k].sold = t
  <2>1. b \in 1 .. s - 1 /\ (t = s \/ t \in 1 .. s - 1)
    BY <1>0, <1>9 DEF Laid
  <2>2. CASE t = s
    <3>1. b \in Closable(trades, m, s, s - 1)
      BY <1>3, <1>9, <2>1, <2>2
    <3>2. PICK k \in 1 .. e : E[k].bought = b
      BY <1>2, <3>1
    <3>3. c + k \in 1 .. c + e /\ F[c + k] = E[k] /\ E[k].sold = s
      BY <1>1, <1>4
    <3>4. QED
      BY <2>2, <3>2, <3>3
  <2>3. CASE t \in 1 .. s - 1
    <3>1. PICK k \in 1 .. c : C[k].bought = b /\ C[k].sold = t
      BY <1>5, <1>9, <2>1, <2>3
    <3>2. k \in 1 .. c + e /\ F[k] = C[k]
      BY <1>1
    <3>3. QED
      BY <3>1, <3>2
  <2>4. QED
    BY <2>1, <2>2, <2>3
<1>10. Matched(F, trades, s)
  <2>1. Len(F) \in Nat /\ Len(F) = c + e
    BY <1>1
  <2>2. DOMAIN F = 1 .. c + e
    BY <1>1 DEF F, c, e
  <2>3. QED
    BY <1>7, <1>8, <1>9, <2>1, <2>2 DEF Matched
<1>11. QED
  BY <1>10 DEF F

(* So it has as many trips as there are pairs.                             *)
LEMMA MatchedCount ==
  ASSUME NEW trades, Logged(trades), NEW C, Matched(C, trades, Len(trades)),
         NEW P, P = {p \in (DOMAIN trades) \X (DOMAIN trades) : Laid(trades, p[1], p[2])}
  PROVE  /\ Len(C) = Cardinality(P)
         /\ \A p \in P : TripOf(trades, p[1], p[2]) \in Range(C)
<1> DEFINE c == Len(C)
           n == Len(trades)
           f == [k \in 1 .. c |-> <<C[k].bought, C[k].sold>>]
<1>1. /\ c \in Nat /\ DOMAIN trades = 1 .. n /\ DOMAIN C = 1 .. c
      /\ \A k \in 1 .. c : /\ C[k].bought \in 1 .. n /\ C[k].sold \in 1 .. n
                           /\ Laid(trades, C[k].bought, C[k].sold)
                           /\ C[k] = TripOf(trades, C[k].bought, C[k].sold)
      /\ \A j, k \in 1 .. c : C[j].bought = C[k].bought /\ C[j].sold = C[k].sold => j = k
      /\ \A b, s \in 1 .. n : Laid(trades, b, s) => \E k \in 1 .. c : C[k].bought = b /\ C[k].sold = s
  BY DEF Matched, Logged
<1>2. \A k \in 1 .. c : f[k] \in P
  BY <1>1
<1>3. ASSUME NEW p \in P PROVE \E k \in 1 .. c : C[k].bought = p[1] /\ C[k].sold = p[2] /\ f[k] = p
  <2>1. p[1] \in 1 .. n /\ p[2] \in 1 .. n /\ Laid(trades, p[1], p[2]) /\ p = <<p[1], p[2]>>
    BY <1>1
  <2>2. PICK k \in 1 .. c : C[k].bought = p[1] /\ C[k].sold = p[2]
    BY <1>1, <2>1
  <2>3. f[k] = p
    BY <2>1, <2>2
  <2>4. QED
    BY <2>2, <2>3
<1>4. \A j, k \in 1 .. c : f[j] = f[k] => j = k
  <2>1. ASSUME NEW j \in 1 .. c, NEW k \in 1 .. c, f[j] = f[k] PROVE j = k
    <3>1. C[j].bought = C[k].bought /\ C[j].sold = C[k].sold
      BY <2>1
    <3>2. QED
      BY <1>1, <3>1
  <2>2. QED
    BY <2>1
<1>5. f \in Surjection(1 .. c, P) /\ f \in Injection(1 .. c, P)
  <2>1. f \in [1 .. c -> P]
    <3>1. f = [k \in 1 .. c |-> f[k]]
      OBVIOUS
    <3> HIDE DEF f
    <3>2. QED
      BY <1>2, <3>1
  <2> HIDE DEF f, c
  <2>2. \A p \in P : \E k \in 1 .. c : f[k] = p
    BY <1>3
  <2>3. f \in Surjection(1 .. c, P)
    BY <2>1, <2>2 DEF Surjection
  <2>4. f \in Injection(1 .. c, P)
    BY <1>4, <2>1 DEF Injection, IsInjective
  <2>5. QED
    BY <2>3, <2>4
<1>6. IsFiniteSet(1 .. c) /\ Cardinality(1 .. c) = c
  <2>1. 1 \in Int /\ c \in Int
    BY <1>1
  <2> HIDE DEF c
  <2>2. IsFiniteSet(1 .. c) /\ Cardinality(1 .. c) = IF 1 > c THEN 0 ELSE c - 1 + 1
    BY <2>1, FS_Interval
  <2>3. QED
    BY <1>1, <2>2
<1>7. Cardinality(P) = c
  <2> HIDE DEF f, c
  <2>1. QED
    BY <1>5, <1>6, FS_Surjection
<1>8. ASSUME NEW p \in P PROVE TripOf(trades, p[1], p[2]) \in Range(C)
  <2>1. PICK k \in 1 .. c : C[k].bought = p[1] /\ C[k].sold = p[2]
    BY <1>3
  <2>2. C[k] = TripOf(trades, p[1], p[2])
    BY <1>1, <2>1
  <2>3. k \in DOMAIN C
    BY <1>1
  <2>4. QED
    BY <2>2, <2>3 DEF Range
<1>9. QED
  BY <1>7, <1>8

(* One trade booked, and all of them.                                      *)
BookTurn(acc, trades, i) ==
  LET t == trades[i]
      sale == Sell(trades, i, acc.lots[t.mint])
  IN IF t.buy
     THEN [acc EXCEPT !.lots[t.mint] = Append(@, [bought |-> i, amount |-> t.amount])]
     ELSE [lots |-> [acc.lots EXCEPT ![t.mint] = sale.lots],
           closed |-> acc.closed \o sale.closed]
Booking(u, trades, mints) ==
  /\ RoundTrips(trades, mints) = u[Len(trades)]
  /\ u[0] = NoTrips(mints)
  /\ \A i \in 1 .. Len(trades) : u[i] = BookTurn(u[i - 1], trades, i)

(* round_trips goes through the trades in order.                           *)
LEMMA BookTurns ==
  ASSUME NEW trades, Len(trades) \in Nat, NEW mints
  PROVE  \E u : Booking(u, trades, mints)
<1> DEFINE turn(old, i) == BookTurn(old, trades, i)
           b == NoTrips(mints)
           IsRes(u, m) == u = [i \in 0 .. m |-> IF i = 0 THEN b ELSE turn(u[i - 1], i)]
           IsAfter(u, m) ==
             u = [i \in 0 .. m |->
                    IF i = 0 THEN NoTrips(mints)
                    ELSE LET acc == u[i - 1]
                             t == trades[i]
                             sale == Sell(trades, i, acc.lots[t.mint])
                         IN IF t.buy
                            THEN [acc EXCEPT !.lots[t.mint] =
                                    Append(@, [bought |-> i, amount |-> t.amount])]
                            ELSE [lots |-> [acc.lots EXCEPT ![t.mint] = sale.lots],
                                  closed |-> acc.closed \o sale.closed]]
           after == CHOOSE u : IsAfter(u, Len(trades))
           all == {m \in Nat : \E u : IsRes(u, m)}
<1>1. 0 \in all
  <2>1. IsRes([i \in 0 .. 0 |-> b], 0)
    <3> HIDE DEF turn, b
    <3>1. QED
      OBVIOUS
  <2>2. QED
    BY <2>1
<1>2. ASSUME NEW m \in Nat, m \in all PROVE m + 1 \in all
  <2> HIDE DEF turn, b
  <2>1. PICK u : IsRes(u, m)
    BY <1>2
  <2> DEFINE v == [i \in 0 .. m + 1 |-> IF i = m + 1 THEN turn(u[m], m + 1) ELSE u[i]]
  <2>2. ASSUME NEW i \in 0 .. m + 1 PROVE v[i] = IF i = 0 THEN b ELSE turn(v[i - 1], i)
    BY <2>1
  <2>3. IsRes(v, m + 1)
    BY <2>2
  <2> HIDE DEF v, IsRes
  <2>4. QED
    BY <2>3
<1>3. \E u : IsRes(u, Len(trades))
  <2> HIDE DEF all
  <2>1. Len(trades) \in all
    BY <1>1, <1>2, AllNaturals
  <2> USE DEF all
  <2> HIDE DEF IsRes
  <2>2. QED
    BY <2>1
<1>4. \A u : IsRes(u, Len(trades)) => IsAfter(u, Len(trades))
  BY Zenon DEF BookTurn
<1>5. IsAfter(after, Len(trades)) /\ RoundTrips(trades, mints) = after[Len(trades)]
  <2>1. \E u : IsAfter(u, Len(trades))
    <3> HIDE DEF IsAfter, IsRes
    <3>1. QED
      BY <1>3, <1>4
  <2>2. QED
    BY <2>1, Zenon DEF RoundTrips
<1> HIDE DEF after
<1>6. IsRes(after, Len(trades))
  BY <1>5, Zenon DEF BookTurn
<1>7. Booking(after, trades, mints)
  <2> HIDE DEF turn, b
  <2>1. after[0] = b
    BY <1>6
  <2>2. \A i \in 1 .. Len(trades) : after[i] = turn(after[i - 1], i)
    BY <1>6
  <2>3. QED
    BY <1>5, <2>1, <2>2, Zenon DEF Booking, turn, b
<1>8. QED
  BY <1>7

(* What is booked after i trades.                                          *)
BookedSoFar(acc, trades, mints, i) ==
  /\ acc = [lots |-> acc.lots, closed |-> acc.closed]
  /\ acc.lots = [m \in mints |-> acc.lots[m]]
  /\ \A m \in mints : Lots(acc.lots[m], trades, m, Sold(trades, m, i), i)
  /\ Matched(acc.closed, trades, i)

(* The trade is of another mint.                                           *)
LEMMA LotsStay ==
  ASSUME NEW trades, Logged(trades), NEW m, Books(trades, m), NEW i \in 1 .. Len(trades),
         trades[i].mint # m, NEW L, Lots(L, trades, m, Sold(trades, m, i - 1), i - 1)
  PROVE  Lots(L, trades, m, Sold(trades, m, i), i)
<1>1. Sold(trades, m, i) = Sold(trades, m, i - 1)
  BY DEF Books, IsSell
<1>2. (1 .. i) = (1 .. i - 1) \cup {i} /\ ~IsBuy(trades, m, i)
  BY DEF IsBuy, Logged
<1>3. OpenTo(trades, m, Sold(trades, m, i), i) = OpenTo(trades, m, Sold(trades, m, i - 1), i - 1)
  BY <1>1, <1>2 DEF OpenTo
<1>4. QED
  BY <1>1, <1>3 DEF Lots

(* A buy opens a lot of all it bought.                                     *)
LEMMA LotsBuy ==
  ASSUME NEW trades, Logged(trades), NEW m, Books(trades, m), NEW i \in 1 .. Len(trades),
         IsBuy(trades, m, i), NEW L, Lots(L, trades, m, Sold(trades, m, i - 1), i - 1)
  PROVE  Lots(Append(L, [bought |-> i, amount |-> trades[i].amount]), trades, m, Sold(trades, m, i), i)
<1> DEFINE e == [bought |-> i, amount |-> trades[i].amount]
           M == Append(L, e)
           r == Sold(trades, m, i - 1)
           b0 == Bought(trades, m, i - 1)
           b1 == Bought(trades, m, i)
           a == trades[i].amount
<1>1. /\ i - 1 \in 0 .. Len(trades) /\ i \in 0 .. Len(trades) /\ ~IsSell(trades, m, i)
      /\ a \in Nat \ {0} /\ (1 .. i) = (1 .. i - 1) \cup {i} /\ \A d \in 1 .. i - 1 : d < i
  BY DEF Logged, IsBuy, IsSell
<1>2. Sold(trades, m, i) = r /\ r \in Nat /\ b0 \in Nat /\ r <= b0 /\ b1 = b0 + a
  BY <1>1 DEF Books
<1>3. b1 > r /\ b1 - Higher(b0, r) = a
  <2> HIDE DEF b0, b1, r, a
  <2>1. QED
    BY <1>1, <1>2 DEF Higher
<1>4. e = LotAt(trades, m, r, i)
  BY <1>3 DEF LotAt
<1>5. OpenTo(trades, m, r, i) = OpenTo(trades, m, r, i - 1) \cup {i}
  BY <1>1, <1>3 DEF OpenTo
<1>6. Orders(L, OpenTo(trades, m, r, i - 1)) /\ Len(L) \in Nat
  BY DEF Lots, Orders
<1>7. e.bought = i /\ \A d \in OpenTo(trades, m, r, i - 1) : d < i
  BY <1>1 DEF OpenTo
<1>8. \A k \in 1 .. Len(L) : L[k] = LotAt(trades, m, r, L[k].bought)
  BY DEF Lots
<1> HIDE DEF e, r
<1>9. Orders(M, OpenTo(trades, m, r, i))
  BY <1>5, <1>6, <1>7, OrdersAppend
<1>10. ASSUME NEW k \in 1 .. Len(M) PROVE M[k] = LotAt(trades, m, r, M[k].bought)
  <2>1. CASE k = Len(L) + 1
    <3>1. M[k] = e
      BY <1>6, <2>1
    <3>2. QED
      BY <1>4, <1>7, <3>1
  <2>2. CASE k # Len(L) + 1
    <3>1. k \in 1 .. Len(L) /\ M[k] = L[k]
      BY <1>6, <2>2
    <3>2. QED
      BY <1>8, <3>1
  <2>3. QED
    BY <2>1, <2>2
<1>11. Lots(M, trades, m, r, i)
  BY <1>9, <1>10 DEF Lots
<1>12. QED
  BY <1>2, <1>11 DEF e

(* Each trade is booked on what was booked before.                         *)
LEMMA BookedOn ==
  ASSUME NEW trades, Logged(trades), NEW mints, NEW i \in 1 .. Len(trades), trades[i].mint \in mints,
         \A m \in mints : Books(trades, m), NEW acc, BookedSoFar(acc, trades, mints, i - 1)
  PROVE  BookedSoFar(BookTurn(acc, trades, i), trades, mints, i)
<1> DEFINE m == trades[i].mint
           lot == [bought |-> i, amount |-> trades[i].amount]
           sale == Sell(trades, i, acc.lots[m])
           new == BookTurn(acc, trades, i)
<1>1. /\ acc = [lots |-> acc.lots, closed |-> acc.closed]
      /\ acc.lots = [x \in mints |-> acc.lots[x]]
      /\ \A x \in mints : Lots(acc.lots[x], trades, x, Sold(trades, x, i - 1), i - 1)
      /\ Matched(acc.closed, trades, i - 1)
  BY DEF BookedSoFar
<1>2. ASSUME NEW x \in mints, x # m PROVE Lots(acc.lots[x], trades, x, Sold(trades, x, i), i)
  BY <1>1, <1>2, LotsStay
<1>3. CASE trades[i].buy
  <2> DEFINE lots == [acc.lots EXCEPT ![m] = Append(@, lot)]
  <2>1. new = [acc EXCEPT !.lots[m] = Append(@, lot)]
    BY <1>3 DEF BookTurn
  <2>2. new = [lots |-> lots, closed |-> acc.closed]
    <3> HIDE DEF new, lot, m
    <3>1. QED
      BY <1>1, <2>1
  <2>3. Lots(Append(acc.lots[m], lot), trades, m, Sold(trades, m, i), i)
    <3>1. IsBuy(trades, m, i) /\ m \in mints
      BY <1>3 DEF IsBuy
    <3>2. Lots(acc.lots[m], trades, m, Sold(trades, m, i - 1), i - 1) /\ Books(trades, m)
      BY <1>1, <3>1
    <3> HIDE DEF m
    <3>3. QED
      BY <3>1, <3>2, LotsBuy
  <2>4. lots = [x \in mints |-> lots[x]] /\ lots[m] = Append(acc.lots[m], lot)
        /\ \A x \in mints : x # m => lots[x] = acc.lots[x]
    <3>1. m \in mints
      OBVIOUS
    <3> HIDE DEF m, lot
    <3>2. QED
      BY <1>1, <3>1
  <2>5. Matched(acc.closed, trades, i)
    BY <1>1, <1>3, MatchedOn
  <2>6. ASSUME NEW x \in mints PROVE Lots(lots[x], trades, x, Sold(trades, x, i), i)
    <3> HIDE DEF lots
    <3>1. QED
      BY <1>2, <2>3, <2>4
  <2>7. new.lots = lots /\ new.closed = acc.closed /\ new = [lots |-> new.lots, closed |-> new.closed]
    <3> HIDE DEF new, lots
    <3>1. QED
      BY <2>2
  <2> HIDE DEF new, lots
  <2>8. BookedSoFar(new, trades, mints, i)
    BY <2>4, <2>5, <2>6, <2>7 DEF BookedSoFar
  <2>9. QED
    BY <2>8 DEF new
<1>4. CASE ~trades[i].buy
  <2> DEFINE lots == [acc.lots EXCEPT ![m] = sale.lots]
             closed == acc.closed \o sale.closed
  <2>1. new = [lots |-> lots, closed |-> closed]
    BY <1>4 DEF BookTurn
  <2>2. IsSell(trades, m, i) /\ m \in mints
    BY <1>4 DEF IsSell
  <2>3. Lots(sale.lots, trades, m, Sold(trades, m, i), i) /\ Sales(sale.closed, trades, m, i, i - 1)
    <3>1. Lots(acc.lots[m], trades, m, Sold(trades, m, i - 1), i - 1) /\ Books(trades, m)
      BY <1>1, <2>2
    <3> HIDE DEF m
    <3>2. QED
      BY <2>2, <3>1, SellRule
  <2>4. lots = [x \in mints |-> lots[x]] /\ lots[m] = sale.lots
        /\ \A x \in mints : x # m => lots[x] = acc.lots[x]
    <3> HIDE DEF m, sale
    <3>1. QED
      BY <1>1, <2>2
  <2>5. Matched(closed, trades, i)
    <3> HIDE DEF m, sale
    <3>1. QED
      BY <1>1, <2>2, <2>3, MatchedConcat
  <2>6. ASSUME NEW x \in mints PROVE Lots(lots[x], trades, x, Sold(trades, x, i), i)
    <3> HIDE DEF lots, sale
    <3>1. QED
      BY <1>2, <2>3, <2>4
  <2>7. new.lots = lots /\ new.closed = closed /\ new = [lots |-> new.lots, closed |-> new.closed]
    <3> HIDE DEF new, lots, closed
    <3>1. QED
      BY <2>1
  <2> HIDE DEF new, lots, closed
  <2>8. BookedSoFar(new, trades, mints, i)
    BY <2>4, <2>5, <2>6, <2>7 DEF BookedSoFar
  <2>9. QED
    BY <2>8 DEF new
<1>5. QED
  BY <1>3, <1>4

(* All trades are.                                                         *)
LEMMA TripsRule ==
  ASSUME NEW trades, Logged(trades), NEW mints, \A k \in 1 .. Len(trades) : trades[k].mint \in mints
  PROVE  Matched(RoundTrips(trades, mints).closed, trades, Len(trades))
<1> DEFINE n == Len(trades)
<1>1. PICK u : Booking(u, trades, mints)
  BY BookTurns DEF Logged
<1>2. \A m \in mints : Books(trades, m)
  BY BooksRule
<1>3. /\ RoundTrips(trades, mints) = u[n] /\ u[0] = NoTrips(mints) /\ n \in Nat
      /\ \A i \in 1 .. n : u[i] = BookTurn(u[i - 1], trades, i)
  BY <1>1 DEF Booking, Logged
<1> DEFINE all == {i \in Nat : i <= n => BookedSoFar(u[i], trades, mints, i)}
<1>4. 0 \in all
  <2>1. u[0] = [lots |-> [m \in mints |-> <<>>], closed |-> <<>>]
    BY <1>3 DEF NoTrips
  <2>2. Matched(<<>>, trades, 0)
    BY DEF Matched
  <2>3. ASSUME NEW m \in mints PROVE Lots(<<>>, trades, m, Sold(trades, m, 0), 0)
    <3>1. OpenTo(trades, m, Sold(trades, m, 0), 0) = {} /\ (1 .. Len(<<>>)) = {}
      BY DEF OpenTo
    <3>2. QED
      BY <3>1, OrdersNone DEF Lots
  <2>4. BookedSoFar(u[0], trades, mints, 0)
    BY <2>1, <2>2, <2>3 DEF BookedSoFar
  <2>5. QED
    BY <2>4
<1>5. ASSUME NEW i \in Nat, i \in all PROVE i + 1 \in all
  <2> SUFFICES ASSUME i + 1 <= n PROVE BookedSoFar(u[i + 1], trades, mints, i + 1)
    OBVIOUS
  <2>1. i + 1 \in 1 .. n /\ (i + 1) - 1 = i /\ BookedSoFar(u[i], trades, mints, i) /\ trades[i + 1].mint \in mints
    BY <1>3, <1>5
  <2>2. u[i + 1] = BookTurn(u[i], trades, i + 1)
    BY <1>3, <2>1
  <2>3. BookedSoFar(BookTurn(u[i], trades, i + 1), trades, mints, i + 1)
    BY <1>2, <2>1, BookedOn
  <2>4. QED
    BY <2>2, <2>3
<1>6. n \in all
  <2> HIDE DEF all
  <2>1. QED
    BY <1>3, <1>4, <1>5, AllNaturals
<1>7. QED
  BY <1>3, <1>6 DEF BookedSoFar

(* Whatever was traded, each overlap of a buy with a sell is one trip, of  *)
(* its amount, and there is no other: round_trips matches first in, first  *)
(* out, a lot split over sells, a sell over lots.                          *)
THEOREM TripsAreAlwaysFifo == Spec => []TripsAreFifo
<1>1. AInv => TripsAreFifo
  <2> DEFINE mints == {input[i].mint : i \in DOMAIN input}
             closed == RoundTrips(input, mints).closed
             both(p) == Both(input, input[p[1]].mint, p[1], p[2])
             pairs == {p \in (DOMAIN input) \X (DOMAIN input) :
                         /\ p[1] < p[2] /\ input[p[1]].mint = input[p[2]].mint
                         /\ input[p[1]].buy /\ ~input[p[2]].buy /\ both(p) > 0}
  <2> SUFFICES ASSUME AInv, topic = "trips"
               PROVE  /\ Len(closed) = Cardinality(pairs)
                      /\ \A p \in pairs : Trip(input, p[1], p[2], both(p)) \in Range(closed)
    BY DEF TripsAreFifo
  <2>1. Logged(input)
    BY TradeAssumption DEF AInv, Logged
  <2>2. \A k \in 1 .. Len(input) : input[k].mint \in mints
    BY <2>1 DEF Logged
  <2> HIDE DEF mints
  <2>3. Matched(closed, input, Len(input))
    BY <2>1, <2>2, TripsRule
  <2>4. pairs = {p \in (DOMAIN input) \X (DOMAIN input) : Laid(input, p[1], p[2])}
    BY DEF Laid
  <2> HIDE DEF closed, pairs
  <2>5. /\ Len(closed) = Cardinality(pairs)
        /\ \A p \in pairs : TripOf(input, p[1], p[2]) \in Range(closed)
    BY <2>1, <2>3, <2>4, MatchedCount
  <2>6. QED
    BY <2>5 DEF TripOf
<1>2. QED
  BY <1>1, Asked, PTL

=============================================================================
