-------------------------- MODULE RebalancingProofs --------------------------
(***************************************************************************)
(* The limits on what is bought.  For any sleeves, budgets, weights, caps, *)
(* prices and limits: a buy, with every order before it that may yet land, *)
(* leaves the cash floor, and keeps the position and the day within their  *)
(* limits; and the wallet never owes more than it holds.                   *)
(*                                                                         *)
(* The argument: a tick approves at most one order of a mint, and the only *)
(* mint with unresolved buys is the hold mint, which is not bought again   *)
(* while it has one.  So the sums over orders have one term at most, and   *)
(* the entry's own refusals and caps bound it.                             *)
(***************************************************************************)
EXTENDS Rebalancing, Sums

(* What the constants are assumed to be, fact by fact.                     *)
LEMMA Assumed ==
  /\ \A s \in Sleeves : Budget[s] \in Nat
  /\ Whole \in Nat \ {0} /\ Whole - SumFunction(Budget) \in Nat
  /\ Caps \subseteq 0 .. Whole /\ Caps # {}
  /\ Band \in Nat /\ MinOrder \in Nat \ {0} /\ Share \in Nat \ {0}
  /\ Reserve \in Nat /\ MaxPositions \in Nat /\ MaxSwaps \in Nat /\ DailyLimit \in Nat
  /\ MaxPosition \in Nat /\ Usd0 \in Nat /\ Lots0 \in Nat
  /\ Prices \subseteq Nat \ {0} /\ Price0 \in Prices
  /\ Hold \in Mints /\ Hold \notin Tokens
<1>1. {Reserve, MaxPositions, MaxSwaps, DailyLimit, MaxPosition, Usd0, Lots0} \subseteq Nat
  BY RebalancingAssumption
<1>2. SumFunction(Budget) \in Int
  BY RebalancingAssumption, SumInt
<1>3. Whole - SumFunction(Budget) \in Nat
  BY <1>2, RebalancingAssumption
<1>4. QED
  BY <1>1, <1>3, RebalancingAssumption DEF Mints

(* The mints are finitely many.                                            *)
LEMMA MintsFinite == IsFiniteSet(Mints)
<1>1. IsFiniteSet({Hold})
  BY FS_Singleton
<1>2. QED
  BY <1>1, FS_Union, RebalancingAssumption DEF Mints

-----------------------------------------------------------------------------
(***************************************************************************)
(* Sums over orders.                                                       *)
(***************************************************************************)
LEMMA UsdOfNone ==
  ASSUME NEW S, NEW side, \A p \in S : p.side # side
  PROVE  UsdOf(S, side) = 0
<1> DEFINE f == [o \in {p \in S : p.side = side} |-> o.usd]
<1>1. DOMAIN f = {}
  OBVIOUS
<1>2. SumFunction(f) = 0
  BY <1>1, SumEmpty
<1>3. QED
  BY <1>2 DEF UsdOf

(* A side with one order comes to that order's amount.                     *)
LEMMA UsdOfOne ==
  ASSUME NEW S, NEW side, NEW o \in S, o.side = side, o.usd \in Nat,
         \A p \in S : p.side = side => p = o
  PROVE  UsdOf(S, side) = o.usd
<1> DEFINE f == [p \in {o} |-> p.usd]
<1>1. f \in [{o} -> Int] /\ f[o] = o.usd
  OBVIOUS
<1>2. SumFunction(f) = f[o]
  BY <1>1, SumOne
<1>3. {p \in S : p.side = side} = {o}
  OBVIOUS
<1>4. QED
  BY <1>1, <1>2, <1>3 DEF UsdOf

(* Finitely many orders come to a natural number.                          *)
LEMMA UsdOfNat ==
  ASSUME NEW S \in SUBSET Orders, IsFiniteSet(S), NEW side
  PROVE  UsdOf(S, side) \in Nat
<1> DEFINE T == {p \in S : p.side = side}
           f == [o \in T |-> o.usd]
<1>1. IsFiniteSet(T)
  BY FS_Subset
<1>2. f \in [T -> Nat]
  BY DEF Orders
<1> HIDE DEF f, T
<1>3. SumFunction(f) \in Nat
  BY <1>1, <1>2, SumWithin
<1>4. QED
  BY <1>3 DEF UsdOf, f, T

(* No two orders of a set are of one mint.                                 *)
Apart(S) == \A o, p \in S : o.mint = p.mint => o = p

(* Orders that are apart are as few as the mints.                          *)
LEMMA ApartFinite ==
  ASSUME NEW S \in SUBSET Orders, Apart(S)
  PROVE  IsFiniteSet(S)
<1> DEFINE f == [o \in S |-> o.mint]
<1>1. f \in Injection(S, Mints)
  <2>1. f \in [S -> Mints]
    BY DEF Orders
  <2>2. \A o, p \in S : f[o] = f[p] => o = p
    BY DEF Apart
  <2>3. QED
    BY <2>1, <2>2 DEF Injection, IsInjective
<1>2. QED
  BY <1>1, MintsFinite, FS_Injection

(* What orders, one of a mint at most, do to a holding.                    *)
Moved(S, m) == SumFunction([o \in {p \in S : p.mint = m} |-> Signed(o)])

(* No order of a mint, no change of its holding.                           *)
LEMMA MovedNone ==
  ASSUME NEW S, NEW m, \A p \in S : p.mint # m
  PROVE  Moved(S, m) = 0
<1> DEFINE f == [o \in {p \in S : p.mint = m} |-> Signed(o)]
<1>1. DOMAIN f = {}
  OBVIOUS
<1>2. SumFunction(f) = 0
  BY <1>1, SumEmpty
<1>3. QED
  BY <1>2 DEF Moved

(* One order of a mint, its signed lots.                                   *)
LEMMA MovedOne ==
  ASSUME NEW S \in SUBSET Orders, Apart(S), NEW o \in S
  PROVE  Moved(S, o.mint) = Signed(o) /\ Signed(o) \in Int
<1> DEFINE f == [p \in {o} |-> Signed(p)]
<1>1. Signed(o) \in Int
  BY DEF Signed, Orders
<1>2. f \in [{o} -> Int] /\ f[o] = Signed(o)
  BY <1>1
<1>3. SumFunction(f) = f[o]
  BY <1>2, SumOne
<1>4. {p \in S : p.mint = o.mint} = {o}
  BY DEF Apart
<1>5. QED
  BY <1>1, <1>2, <1>3, <1>4 DEF Moved

(* Orders that land leave no holding below zero if no sell is of more than *)
(* is there.                                                               *)
LEMMA MovedKeeps ==
  ASSUME NEW S \in SUBSET Orders, Apart(S), NEW m, NEW least \in Int, NEW n \in Int, n >= least,
         \A o \in S : o.mint = m /\ o.side = "sell" => n - o.lots >= least
  PROVE  n + Moved(S, m) \in Int /\ n + Moved(S, m) >= least
<1>1. CASE \A p \in S : p.mint # m
  BY <1>1, MovedNone
<1>2. CASE \E p \in S : p.mint = m
  <2>1. PICK o \in S : o.mint = m
    BY <1>2
  <2>2. Moved(S, m) = Signed(o) /\ Signed(o) \in Int
    BY <2>1, MovedOne
  <2>3. Signed(o) = o.lots \/ (o.side = "sell" /\ Signed(o) = 0 - o.lots)
    BY DEF Signed, Orders
  <2>4. o.lots \in Nat
    BY DEF Orders
  <2>5. o.side = "sell" => n - o.lots >= least
    BY <2>1
  <2>6. QED
    BY ONLY n \in Int, least \in Int, n >= least, <2>2, <2>3, <2>4, <2>5
<1>3. QED
  BY <1>1, <1>2

-----------------------------------------------------------------------------
(***************************************************************************)
(* The inductive invariant: the only mint with unresolved buys is the hold *)
(* mint, and the wallet has what they will cost.                           *)
(***************************************************************************)
OnlyHoldBought == \A m \in Mints : pending[m] # None /\ pending[m].side = "buy" => m = Hold
BuysCovered == usdc >= PendingBuys
RInv == TypeOK /\ OnlyHoldBought /\ BuysCovered

(* What P, a table like pending, has still to be paid for.                 *)
OrdersOf(P) == {P[m] : m \in {n \in Mints : P[n] # None}}
BuysOf(P) == UsdOf(OrdersOf(P), "buy")
LikePending(P) ==
  /\ P \in [Mints -> Orders \cup {None}]
  /\ \A m \in Mints : P[m] # None => P[m].mint = m
  /\ \A m \in Mints : P[m] # None /\ P[m].side = "buy" => m = Hold

(* What is owed is the unresolved buy of the hold mint, if there is one.   *)
LEMMA BuysOfLike ==
  ASSUME NEW P, LikePending(P)
  PROVE  BuysOf(P) = IF P[Hold] # None /\ P[Hold].side = "buy" THEN P[Hold].usd ELSE 0
<1>1. Hold \in Mints
  BY Assumed
<1>2. CASE P[Hold] # None /\ P[Hold].side = "buy"
  <2>1. P[Hold] \in OrdersOf(P) /\ P[Hold].usd \in Nat
    BY <1>1, <1>2 DEF OrdersOf, LikePending, Orders
  <2>2. \A p \in OrdersOf(P) : p.side = "buy" => p = P[Hold]
    BY DEF OrdersOf, LikePending
  <2>3. BuysOf(P) = P[Hold].usd
    BY <1>2, <2>1, <2>2, UsdOfOne DEF BuysOf
  <2>4. QED
    BY <1>2, <2>3
<1>3. CASE ~(P[Hold] # None /\ P[Hold].side = "buy")
  <2>1. \A p \in OrdersOf(P) : p.side # "buy"
    BY <1>3 DEF OrdersOf, LikePending
  <2>2. QED
    BY <1>3, <2>1, UsdOfNone DEF BuysOf
<1>4. QED
  BY <1>2, <1>3

(* What is owed is a natural number.                                       *)
LEMMA BuysOfNat ==
  ASSUME NEW P, LikePending(P)
  PROVE  BuysOf(P) \in Nat
<1>1. P[Hold] # None => P[Hold].usd \in Nat
  BY Assumed DEF LikePending, Orders
<1>2. QED
  BY <1>1, BuysOfLike

(* The table of the state is such a table, and owes PendingBuys.           *)
LEMMA PendingIsLike ==
  ASSUME TypeOK, OnlyHoldBought
  PROVE  LikePending(pending) /\ PendingBuys = BuysOf(pending)
BY DEF TypeOK, OnlyHoldBought, LikePending, PendingBuys, BuysOf, OrdersOf, Unresolved

-----------------------------------------------------------------------------
(***************************************************************************)
(* The allocator's numbers.                                                *)
(***************************************************************************)
LEMMA DivMonotone ==
  ASSUME NEW x \in Int, NEW y \in Int, x <= y, NEW d \in Nat \ {0}
  PROVE  x \div d \in Int /\ y \div d \in Int /\ x \div d <= y \div d
OBVIOUS

(* A quotient rounded down, multiplied out again, is no more than it was.  *)
LEMMA DivTimes ==
  ASSUME NEW x \in Nat, NEW d \in Nat \ {0}
  PROVE  x \div d \in Nat /\ (x \div d) * d \in Nat /\ (x \div d) * d <= x /\ x \div d <= x
<1>1. x \div d \in Nat /\ d * (x \div d) <= x
  OBVIOUS
<1>2. x \div d <= x
  OBVIOUS
<1>3. (x \div d) * d \in Nat /\ (x \div d) * d = d * (x \div d)
  BY <1>1
<1>4. QED
  BY <1>1, <1>2, <1>3

(* Multiplying by a natural number keeps the order.                        *)
LEMMA ProductOrder ==
  ASSUME NEW a \in Int, NEW b \in Int, a <= b, NEW e \in Nat
  PROVE  a * e \in Int /\ b * e \in Int /\ a * e <= b * e
<1>1. b * e - a * e = (b - a) * e
  OBVIOUS
<1>2. (b - a) \in Nat
  OBVIOUS
<1>3. (b - a) * e \in Nat
  BY <1>2
<1>4. QED
  BY <1>1, <1>3

(* The numbers the allocator computes are what they should be, and the     *)
(* target is under the beta cap.                                           *)
LEMMA NumbersTyped ==
  ASSUME TypeOK
  PROVE  /\ Equity \in Nat /\ CashFloor \in Nat
         /\ Netted \in Int /\ Netted <= cap /\ cap \in Nat
         /\ TargetUsd \in Int /\ TargetUsd <= (cap * Equity) \div Whole
         /\ price \in Nat \ {0}
         /\ \A m \in Mints : /\ PriceOf(m) \in Nat \ {0} /\ Tradeable(m) \in Nat
                             /\ Tradeable(m) <= lots[m] /\ Current(m) \in Nat
         /\ BandUsd \in Nat \ {0}
<1>1. price \in Nat \ {0} /\ cap \in Nat
  BY Assumed DEF TypeOK
<1>2. \A m \in Mints : PriceOf(m) \in Nat \ {0} /\ lots[m] \in Nat
  BY <1>1, Assumed DEF TypeOK, PriceOf
<1>3. Equity \in Nat
  <2> DEFINE f == [m \in Mints |-> lots[m] * PriceOf(m)]
  <2>1. \A m \in Mints : lots[m] * PriceOf(m) \in Nat
    BY <1>2
  <2>2. f \in [Mints -> Nat]
    BY <2>1
  <2> HIDE DEF f
  <2>3. SumFunction(f) \in Nat
    BY <2>2, MintsFinite, SumWithin
  <2>4. usdc \in Nat
    BY DEF TypeOK
  <2>5. Equity = usdc + SumFunction(f)
    BY DEF Equity, f
  <2>6. QED
    BY <2>3, <2>4, <2>5
<1>4. CashFloor \in Nat
  <2> DEFINE r == Whole - SumFunction(Budget)
             e == Equity
  <2>1. r \in Nat /\ e \in Nat /\ Whole \in Nat \ {0}
    BY <1>3, Assumed
  <2>2. CashFloor = (r * e) \div Whole
    BY DEF CashFloor
  <2> HIDE DEF r, e
  <2>3. r * e \in Nat
    BY <2>1
  <2>4. QED
    BY <2>1, <2>2, <2>3, DivTimes
<1>5. Netted \in Int /\ Netted <= cap
  <2> DEFINE f == [s \in Given |-> Less(weight[s], Budget[s])]
  <2>1. IsFiniteSet(Given)
    <3>1. Given \subseteq Sleeves
      BY DEF Given
    <3>2. QED
      BY <3>1, FS_Subset, RebalancingAssumption
  <2>2. \A s \in Given : Less(weight[s], Budget[s]) \in Int
    BY Assumed DEF Given, TypeOK, Less
  <2>3. f \in [Given -> Int]
    BY <2>2
  <2> HIDE DEF f
  <2>4. SumFunction(f) \in Int
    BY <2>1, <2>3, SumInt
  <2>5. Netted = Less(cap, SumFunction(f))
    BY DEF Netted, f
  <2>6. QED
    BY <1>1, <2>4, <2>5 DEF Less
<1>6. TargetUsd \in Int /\ TargetUsd <= (cap * Equity) \div Whole
  <2>1. Netted * Equity \in Int /\ cap * Equity \in Int /\ Netted * Equity <= cap * Equity
    BY <1>1, <1>3, <1>5, ProductOrder
  <2>2. QED
    BY <2>1, Assumed, DivMonotone DEF TargetUsd
<1>7. \A m \in Mints : Tradeable(m) \in Nat /\ Tradeable(m) <= lots[m]
  BY <1>2, Assumed DEF Tradeable, More
<1>8. \A m \in Mints : Current(m) \in Nat
  BY <1>2, <1>7 DEF Current
<1>9. BandUsd \in Nat \ {0}
  <2>1. Band * Equity \in Nat
    BY <1>3, Assumed
  <2>2. (Band * Equity) \div Whole \in Nat
    BY <2>1, Assumed, DivTimes
  <2>3. QED
    BY <2>2, Assumed DEF BandUsd, More
<1>10. QED
  BY <1>1, <1>2, <1>3, <1>4, <1>5, <1>6, <1>7, <1>8, <1>9

-----------------------------------------------------------------------------
(***************************************************************************)
(* What a tick approves.                                                   *)
(***************************************************************************)
LEMMA LeastOfThree ==
  ASSUME NEW a \in Int, NEW b \in Int, NEW c \in Int, NEW n, n = Min({a, b, c})
  PROVE  n \in Int /\ n <= a /\ n <= b /\ n <= c
<1>1. \E x \in {a, b, c} : \A y \in {a, b, c} : x <= y
  <2>1. CASE a <= b /\ a <= c
    BY <2>1
  <2>2. CASE b <= a /\ b <= c
    BY <2>2
  <2>3. CASE c <= a /\ c <= b
    BY <2>3
  <2>4. QED
    BY <2>1, <2>2, <2>3
<1>2. n \in {a, b, c} /\ \A y \in {a, b, c} : n <= y
  BY <1>1 DEF Min
<1>3. QED
  BY <1>2

(* An entry keeps every limit, were it and all that is unresolved to land. *)
LEMMA EntryBounded ==
  ASSUME RInv, NEW e \in Entry
  PROVE  /\ e \in Orders /\ e.mint = Hold /\ e.side = "buy" /\ e.usd = e.lots * price
         /\ pending[Hold] = None /\ PendingBuys = 0
         /\ lots[Hold] >= Reserve
         /\ usdc - e.usd >= CashFloor
         /\ Current(Hold) + e.usd <= TargetUsd /\ Current(Hold) + e.usd <= MaxPosition
         /\ buys + e.usd <= DailyLimit
         /\ Wanted > 0
<1> DEFINE w == Wanted
           u == Sized(w)
           n == Min({w, MaxPosition - Current(Hold), DayRoom})
<1>1. /\ e = Order(Hold, "buy", u \div price, FALSE)
      /\ w > 0 /\ MaySend(Hold, FALSE) /\ EntryAllowed(w) /\ u >= MinOrder
  BY DEF Entry
<1>2. pending[Hold] = None /\ lots[Hold] >= Reserve /\ usdc - w >= CashFloor
  BY <1>1 DEF MaySend, EntryAllowed
<1>3. PendingBuys = 0
  BY <1>2, PendingIsLike, BuysOfLike DEF RInv
<1>4. /\ price \in Nat \ {0} /\ Current(Hold) \in Nat /\ TargetUsd \in Int /\ CashFloor \in Nat
      /\ usdc \in Nat /\ buys \in Nat
  BY NumbersTyped, Assumed DEF RInv, TypeOK
<1>5. w \in Int /\ w <= TargetUsd - Current(Hold)
  <2>1. w = 0 \/ (w = Less(TargetUsd - Current(Hold), usdc - CashFloor))
    BY DEF Wanted
  <2>2. QED
    BY <1>1, <1>4, <2>1 DEF Less
<1>6. n \in Int /\ n <= w /\ n <= MaxPosition - Current(Hold) /\ n <= DayRoom
  <2>1. MaxPosition - Current(Hold) \in Int /\ DayRoom \in Int
    BY <1>3, <1>4, Assumed DEF DayRoom
  <2> HIDE DEF w
  <2>2. QED
    BY <1>5, <2>1, LeastOfThree
<1>7. u = IF n < 0 THEN 0 ELSE n \div Share
  BY DEF Sized
<1> HIDE DEF w, u, n
<1>8. u \in Nat /\ u <= n
  <2>1. n >= 0
    BY <1>1, <1>6, <1>7, Assumed
  <2>2. n \in Nat /\ u = n \div Share
    BY <1>6, <1>7, <2>1
  <2>3. QED
    BY <2>2, DivTimes, Assumed
<1>9. u \div price \in Nat /\ (u \div price) * price \in Nat /\ (u \div price) * price <= u
  BY <1>4, <1>8, DivTimes
<1>10. e.lots = u \div price /\ e.usd = (u \div price) * price /\ e.mint = Hold /\ e.side = "buy"
  BY <1>1 DEF Order, PriceOf
<1>11. e \in Orders
  <2>1. Hold \in Mints
    BY Assumed
  <2>2. QED
    BY <1>1, <1>9, <2>1 DEF Order, Orders, PriceOf
<1>12. DayRoom = DailyLimit - buys
  BY <1>3, <1>4, Assumed DEF DayRoom
<1> DEFINE x == e.usd
<1>13. x \in Nat /\ x <= n
  BY <1>6, <1>8, <1>9, <1>10
<1> HIDE DEF x
<1>14. /\ usdc - x >= CashFloor
       /\ Current(Hold) + x <= TargetUsd /\ Current(Hold) + x <= MaxPosition
       /\ buys + x <= DailyLimit
  BY <1>2, <1>4, <1>5, <1>6, <1>12, <1>13, Assumed
<1>15. QED
  BY <1>1, <1>2, <1>3, <1>10, <1>11, <1>14 DEF x, w

(* Sells are of no more than may be sold, and of a mint once.              *)
LEMMA SellsShape ==
  ASSUME RInv, NEW o \in Sells
  PROVE  /\ o \in Orders /\ o.side = "sell" /\ o.lots <= Tradeable(o.mint)
         /\ o.mint = Hold => TargetUsd - Current(Hold) < BandUsd
         /\ \A p \in Sells : p.mint = o.mint => p = o
<1> DEFINE over == Current(Hold) - TargetUsd
           trim == Order(Hold, "sell", Less(Tradeable(Hold), over \div price), FALSE)
           full == Order(Hold, "sell", Tradeable(Hold), TRUE)
<1>1. /\ price \in Nat \ {0} /\ TargetUsd \in Int /\ Current(Hold) \in Nat /\ BandUsd \in Nat \ {0}
      /\ \A m \in Mints : PriceOf(m) \in Nat \ {0} /\ Tradeable(m) \in Nat
      /\ Hold \in Mints /\ Hold \notin Tokens /\ Exits \subseteq Tokens /\ Tokens \subseteq Mints
  BY NumbersTyped, Assumed DEF RInv, Exits, Mints
<1>2. ASSUME NEW m \in Mints, NEW n \in Nat, NEW x \in BOOLEAN
      PROVE  Order(m, "sell", n, x) \in Orders
  <2>1. n * PriceOf(m) \in Nat
    BY <1>1
  <2>2. QED
    BY <2>1 DEF Order, Orders
<1>3. \A p \in Sells :
        \/ p.mint # Hold /\ p = Order(p.mint, "sell", Tradeable(p.mint), TRUE) /\ p.mint \in Exits
        \/ p = full /\ Full
        \/ p = trim /\ ~Full /\ over >= BandUsd
  <2>1. ASSUME NEW m \in Exits
        PROVE  Order(m, "sell", Tradeable(m), TRUE).mint = m /\ m # Hold
    BY <1>1 DEF Order
  <2>2. QED
    BY <2>1 DEF Sells
<1>4. full.mint = Hold /\ trim.mint = Hold /\ full.side = "sell" /\ trim.side = "sell"
  BY DEF Order
<1>5. CASE o.mint # Hold
  <2>1. o = Order(o.mint, "sell", Tradeable(o.mint), TRUE) /\ o.mint \in Mints
    BY <1>1, <1>3, <1>4, <1>5
  <2>2. o \in Orders
    BY <1>1, <1>2, <2>1
  <2>3. o.side = "sell" /\ o.lots = Tradeable(o.mint)
    BY <2>1 DEF Order
  <2>4. \A p \in Sells : p.mint = o.mint => p = o
    BY <1>3, <1>4, <1>5, <2>1
  <2>5. QED
    BY <1>1, <1>5, <2>1, <2>2, <2>3, <2>4
<1>6. CASE o = full /\ Full
  <2>1. o \in Orders
    BY <1>1, <1>2, <1>6
  <2>2. o.lots = Tradeable(Hold)
    BY <1>6 DEF Order
  <2>3. \A p \in Sells : p.mint = o.mint => p = o
    BY <1>3, <1>4, <1>6
  <2>4. TargetUsd - Current(Hold) < BandUsd
    <3>1. Netted = 0 /\ Equity \in Nat
      BY <1>6, NumbersTyped DEF Full, RInv
    <3>2. Netted * Equity = 0
      BY <3>1
    <3>3. TargetUsd = 0
      BY <3>2, Assumed DEF TargetUsd
    <3>4. QED
      BY <1>1, <3>3
  <2>5. o.mint = Hold /\ o.side = "sell"
    BY <1>4, <1>6
  <2>6. o.lots <= Tradeable(o.mint)
    BY <1>1, <2>2, <2>5
  <2>7. QED
    BY <2>1, <2>3, <2>4, <2>5, <2>6
<1>7. CASE o = trim /\ ~Full /\ over >= BandUsd
  <2>1. over \in Nat
    BY <1>1, <1>7
  <2>2. over \div price \in Nat
    BY <1>1, <2>1, DivTimes
  <2> DEFINE q == Less(Tradeable(Hold), over \div price)
  <2>3. q \in Nat /\ q <= Tradeable(Hold)
    BY <1>1, <2>2 DEF Less
  <2>4. o.lots = q
    BY <1>7 DEF Order
  <2> HIDE DEF q
  <2>5. o \in Orders
    BY <1>1, <1>2, <1>7, <2>3 DEF q
  <2>6. \A p \in Sells : p.mint = o.mint => p = o
    BY <1>3, <1>4, <1>7
  <2>7. TargetUsd - Current(Hold) < BandUsd
    BY <1>1, <1>7
  <2>8. QED
    BY <1>4, <1>7, <2>3, <2>4, <2>5, <2>6, <2>7
<1>8. QED
  BY <1>3, <1>5, <1>6, <1>7

(* A tick approves one order of a mint at most.                            *)
LEMMA ApprovedApart ==
  ASSUME RInv
  PROVE  /\ Approved \in SUBSET Orders /\ Apart(Approved)
         /\ \A o \in Approved : IF o.side = "sell" THEN o.lots <= Tradeable(o.mint) ELSE o \in Entry
<1>1. \A o \in Approved : o \in Sells \/ o \in Entry
  BY DEF Approved
<1>2. \A o \in Entry : o \in Orders /\ o.side = "buy" /\ o.mint = Hold
  BY EntryBounded
<1>3. \A o \in Sells : o \in Orders /\ o.side = "sell" /\ o.lots <= Tradeable(o.mint)
  BY SellsShape
<1>4. \A o, p \in Entry : o = p
  BY DEF Entry
<1>5. ASSUME NEW o \in Sells, NEW p \in Entry PROVE o.mint # p.mint
  <2>1. SUFFICES ASSUME o.mint = Hold PROVE FALSE
    BY <1>2
  <2>2. TargetUsd - Current(Hold) < BandUsd
    <3>1. TargetUsd \in Int /\ Current(Hold) \in Nat /\ BandUsd \in Nat \ {0}
      BY NumbersTyped, Assumed DEF RInv
    <3>2. QED
      BY <2>1, <3>1, SellsShape
  <2>3. Wanted = 0
    BY <2>2 DEF Wanted
  <2>4. QED
    BY <2>3, EntryBounded
<1>6. \A o, p \in Sells : o.mint = p.mint => o = p
  BY SellsShape
<1>7. Apart(Approved)
  BY <1>1, <1>4, <1>5, <1>6 DEF Apart
<1>8. QED
  BY <1>1, <1>2, <1>3, <1>7

-----------------------------------------------------------------------------
(***************************************************************************)
(* What landing orders do.                                                 *)
(***************************************************************************)
LEMMA Landed ==
  ASSUME TypeOK, NEW S \in SUBSET Orders, Apart(S), Land(S),
         \A o \in S : o.side = "sell" => o.lots <= Tradeable(o.mint)
  PROVE  /\ lots' \in [Mints -> Nat] /\ lots'[Hold] = lots[Hold] + Moved(S, Hold)
         /\ Lots0 >= Reserve => lots'[Hold] >= Reserve
         /\ booked' \subseteq Mints
         /\ UsdOf(S, "sell") \in Nat /\ UsdOf(S, "buy") \in Nat
         /\ usdc' = usdc + UsdOf(S, "sell") - UsdOf(S, "buy")
         /\ buys' = buys + UsdOf(S, "buy") /\ buys' \in Nat /\ swaps' \in Nat
<1>1. IsFiniteSet(S)
  BY ApartFinite
<1>2. UsdOf(S, "sell") \in Nat /\ UsdOf(S, "buy") \in Nat /\ Cardinality(S) \in Nat
  BY <1>1, UsdOfNat, FS_CardinalityType
<1>3. /\ lots' = [m \in Mints |-> lots[m] + Moved(S, m)]
      /\ usdc' = usdc + UsdOf(S, "sell") - UsdOf(S, "buy")
      /\ buys' = buys + UsdOf(S, "buy") /\ swaps' = swaps + Cardinality(S)
  BY DEF Land, Moved
<1>4. buys' \in Nat /\ swaps' \in Nat
  BY <1>2, <1>3 DEF TypeOK
<1>5. booked' \subseteq Mints
  <2>1. \A o \in S : o.mint \in Mints
    BY DEF Orders
  <2>2. booked \subseteq Mints
    BY DEF TypeOK
  <2>3. QED
    BY <2>1, <2>2 DEF Land
<1>6. ASSUME NEW m \in Mints PROVE lots[m] + Moved(S, m) \in Nat
  <2>1. lots[m] \in Int /\ lots[m] >= 0
    BY DEF TypeOK
  <2>2. ASSUME NEW o \in S, o.mint = m, o.side = "sell" PROVE lots[m] - o.lots >= 0
    <3>1. o.lots <= Tradeable(m) /\ Tradeable(m) <= lots[m] /\ Tradeable(m) \in Nat
      BY <2>2, NumbersTyped
    <3>2. o.lots \in Nat
      BY DEF Orders
    <3>3. QED
      BY <2>1, <3>1, <3>2
  <2>3. lots[m] + Moved(S, m) \in Int /\ lots[m] + Moved(S, m) >= 0
    BY <2>1, <2>2, MovedKeeps
  <2>4. QED
    BY <2>3
<1>7. ASSUME Lots0 >= Reserve PROVE lots[Hold] + Moved(S, Hold) >= Reserve
  <2>1. lots[Hold] \in Int /\ Reserve \in Int /\ lots[Hold] >= Reserve
    BY <1>7, Assumed DEF TypeOK
  <2>2. ASSUME NEW o \in S, o.mint = Hold, o.side = "sell" PROVE lots[Hold] - o.lots >= Reserve
    <3>1. o.lots <= Tradeable(Hold) /\ Tradeable(Hold) = lots[Hold] - Reserve
      BY <2>1, <2>2 DEF Tradeable, More
    <3>2. o.lots \in Nat
      BY DEF Orders
    <3>3. QED
      BY <2>1, <3>1, <3>2
  <2>3. QED
    BY <2>1, <2>2, MovedKeeps
<1>8. Hold \in Mints
  BY Assumed
<1>9. lots' \in [Mints -> Nat] /\ lots'[Hold] = lots[Hold] + Moved(S, Hold)
  BY <1>3, <1>6, <1>8
<1>10. QED
  BY <1>2, <1>3, <1>4, <1>5, <1>7, <1>9

(* An order found gone changes neither wallet nor day.                     *)
LEMMA LandNothing == ASSUME TypeOK, Land({}) PROVE UNCHANGED <<lots, usdc, buys>>
<1>1. {} \in SUBSET Orders /\ Apart({})
  BY DEF Apart
<1>2. UsdOf({}, "sell") = 0 /\ UsdOf({}, "buy") = 0
  BY UsdOfNone
<1>3. \A m \in Mints : Moved({}, m) = 0
  BY MovedNone
<1>4. lots' = [m \in Mints |-> lots[m] + Moved({}, m)]
  BY DEF Land, Moved
<1>5. lots' = lots
  BY <1>3, <1>4 DEF TypeOK
<1>6. usdc' = usdc /\ buys' = buys
  BY <1>1, <1>2, Landed DEF TypeOK
<1>7. QED
  BY <1>5, <1>6
-----------------------------------------------------------------------------
(***************************************************************************)
(* The steps.                                                              *)
(***************************************************************************)
LEMMA Primed ==
  /\ PendingBuys' = BuysOf(pending')
  /\ Committed.usdc' = usdc' - PendingBuys' /\ Committed.day' = buys' + PendingBuys'
  /\ Committed.hold' = Current(Hold)' + PendingBuys'
  /\ Committed.day = buys + PendingBuys
BY DEF PendingBuys, BuysOf, OrdersOf, Unresolved, Committed

(* What an order that lands of the hold mint's buy does to the holding.    *)
LEMMA HoldRises ==
  ASSUME TypeOK, lots[Hold] >= Reserve, price' = price,
         NEW n \in Nat, lots'[Hold] = lots[Hold] + n
  PROVE  Current(Hold)' = Current(Hold) + n * price
<1> DEFINE a == lots[Hold] - Reserve
           p == price
<1>1. lots[Hold] \in Nat /\ Reserve \in Nat /\ p \in Nat
  BY Assumed DEF TypeOK
<1>2. a \in Nat
  BY <1>1
<1>3. Current(Hold) = a * p
  BY <1>1, <1>2 DEF Current, Tradeable, PriceOf, More
<1>4. Current(Hold)' = (a + n) * p
  <2>1. lots'[Hold] - Reserve = a + n
    BY <1>1
  <2>2. a + n >= 0
    BY <1>2
  <2>3. More(0, lots'[Hold] - Reserve) = a + n
    BY <2>1, <2>2, <1>2 DEF More
  <2>4. QED
    BY <2>3 DEF Current, Tradeable, PriceOf
<1>5. (a + n) * p = a * p + n * p
  BY <1>1, <1>2
<1>6. QED
  BY <1>3, <1>4, <1>5

(* The orders a tick fills and those it leaves without an answer: one for  *)
(* a mint, sales of no more than is held, and buys that are the entry.     *)
TradedApart(filled, silent) ==
  /\ filled \in SUBSET Orders /\ Apart(filled)
  /\ silent \in SUBSET Orders /\ Apart(silent)
  /\ \A o \in filled : o.side = "sell" => o.lots <= Tradeable(o.mint)
  /\ \A o \in filled, p \in silent : o.mint # p.mint
  /\ \A o \in filled \cup silent : o.side = "buy" => o \in Entry
  /\ \A o \in filled \cup silent : o.side \in {"buy", "sell"}

(* The orders a tick works are such.                                       *)
LEMMA TickOrders ==
  ASSUME RInv, NEW filled \in SUBSET Approved, NEW silent \in SUBSET (Approved \ filled)
  PROVE  TradedApart(filled, silent)
<1>1. Approved \in SUBSET Orders /\ Apart(Approved)
  BY ApprovedApart
<1>2. \A o \in Approved : o.side = "sell" => o.lots <= Tradeable(o.mint)
  BY ApprovedApart
<1>3. \A o \in Approved : o.side = "buy" => o \in Entry
  BY ApprovedApart
<1>4. QED
  BY <1>1, <1>2, <1>3 DEF TradedApart, Apart, Orders

(* The table after a tick: an order without an answer has the place of its *)
(* mint, which was free.                                                   *)
LEMMA TickPending ==
  ASSUME RInv, NEW filled \in SUBSET Approved, NEW silent \in SUBSET (Approved \ filled),
         Tick(filled, silent)
  PROVE  /\ LikePending(pending')
         /\ \A o \in silent : pending'[o.mint] = o /\ pending[o.mint] = None
         /\ (\A o \in silent : o.mint # Hold) => pending'[Hold] = pending[Hold]
<1>1. /\ silent \in SUBSET Orders /\ Apart(silent)
      /\ \A o \in silent : o.side = "buy" => o.mint = Hold
  BY TickOrders, EntryBounded DEF TradedApart
<1>2. /\ LikePending(pending) /\ Hold \in Mints
      /\ \A o \in silent : pending[o.mint] = None
  BY PendingIsLike, Assumed DEF RInv, Tick
<1>3. pending' = [m \in Mints |->
       IF \E o \in silent : o.mint = m THEN CHOOSE o \in silent : o.mint = m ELSE pending[m]]
  BY DEF Tick
<1>4. \A o \in silent : o.mint \in Mints /\ pending'[o.mint] = o
  <2> TAKE o \in silent
  <2>1. o.mint \in Mints
    BY <1>1 DEF Orders
  <2>2. (CHOOSE p \in silent : p.mint = o.mint) = o
    BY <1>1 DEF Apart
  <2>3. QED
    BY <1>3, <2>1, <2>2
<1>5. \A m \in Mints : (\A o \in silent : o.mint # m) => pending'[m] = pending[m]
  BY <1>3
<1>6. ASSUME NEW m \in Mints
      PROVE  /\ pending'[m] \in Orders \cup {None}
             /\ pending'[m] # None => pending'[m].mint = m
             /\ pending'[m] # None /\ pending'[m].side = "buy" => m = Hold
  <2>1. CASE \E o \in silent : o.mint = m
    <3>1. PICK o \in silent : o.mint = m
      BY <2>1
    <3>2. pending'[m] = o
      BY <1>4, <3>1
    <3>3. QED
      BY <1>1, <3>1, <3>2
  <2>2. CASE \A o \in silent : o.mint # m
    BY <1>2, <1>5, <2>2 DEF LikePending
  <2>3. QED
    BY <2>1, <2>2
<1>7. LikePending(pending')
  <2>1. pending' \in [Mints -> Orders \cup {None}]
    BY <1>3, <1>6
  <2>2. QED
    BY <1>6, <2>1 DEF LikePending
<1>8. QED
  BY <1>2, <1>4, <1>5, <1>7

(* A tick adds to what is bought and owed nothing, or just its entry.      *)
LEMMA TickStep ==
  ASSUME RInv, NEW filled \in SUBSET Approved, NEW silent \in SUBSET (Approved \ filled),
         Tick(filled, silent)
  PROVE  /\ RInv'
         /\ Committed.day' > Committed.day =>
              /\ Committed.usdc' >= CashFloor
              /\ Committed.hold' <= Less((cap * Equity) \div Whole, MaxPosition)
              /\ Committed.day' <= DailyLimit
<1> DEFINE sold == UsdOf(filled, "sell")
           bought == UsdOf(filled, "buy")
           owed == BuysOf(pending)
           owes == BuysOf(pending')
           top == (cap * Equity) \div Whole
<1>1. /\ filled \in SUBSET Orders /\ Apart(filled)
      /\ \A o \in filled, p \in silent : o.mint # p.mint
      /\ \A o \in filled \cup silent : o.side = "buy" => o \in Entry /\ o.mint = Hold
  <2> TradedApart(filled, silent)
    BY TickOrders
  <2>1. /\ filled \in SUBSET Orders /\ Apart(filled)
        /\ \A o \in filled, p \in silent : o.mint # p.mint
    BY DEF TradedApart
  <2>2. \A o \in filled \cup silent : o.side = "buy" => o \in Entry
    BY DEF TradedApart
  <2>3. \A e \in Entry : e.mint = Hold
    BY EntryBounded
  <2>4. QED
    BY <2>1, <2>2, <2>3
<1>2. /\ lots' \in [Mints -> Nat] /\ lots'[Hold] = lots[Hold] + Moved(filled, Hold)
      /\ Lots0 >= Reserve => lots'[Hold] >= Reserve
      /\ booked' \subseteq Mints
      /\ sold \in Nat /\ bought \in Nat
      /\ usdc' = usdc + sold - bought
      /\ buys' = buys + bought /\ buys' \in Nat /\ swaps' \in Nat
  <2>1. Land(filled) /\ TypeOK
    BY DEF Tick, RInv
  <2>2. QED
    BY <2>1, TickOrders, Landed DEF TradedApart
<1>3. /\ LikePending(pending) /\ LikePending(pending')
      /\ PendingBuys = owed /\ PendingBuys' = owes /\ usdc >= owed
  BY TickPending, PendingIsLike, Primed DEF RInv, BuysCovered
<1>4. owed \in Nat /\ owes \in Nat /\ usdc \in Nat /\ buys \in Nat
  BY <1>3, BuysOfNat DEF RInv, TypeOK
<1>5. /\ owed = IF pending[Hold] # None /\ pending[Hold].side = "buy" THEN pending[Hold].usd ELSE 0
      /\ owes = IF pending'[Hold] # None /\ pending'[Hold].side = "buy" THEN pending'[Hold].usd ELSE 0
  BY <1>3, BuysOfLike
<1>6. TypeOK' /\ OnlyHoldBought'
  <2>1. /\ pending' \in [Mints -> Orders \cup {None}]
        /\ \A m \in Mints : pending'[m] # None => pending'[m].mint = m
        /\ OnlyHoldBought'
    BY <1>3 DEF LikePending, OnlyHoldBought
  <2>2. /\ price' \in Prices /\ weight' \in [Sleeves -> 0 .. Whole \cup {None}] /\ cap' \in Caps
        /\ timeStop' \in BOOLEAN /\ mood' \in Moods
        /\ bars' \in 0 .. MaxBars /\ moves' \in 0 .. MaxMoves
    BY DEF Tick, RInv, TypeOK
  <2>3. usdc' \in Nat
    <3>1. bought <= usdc
      <4>1. CASE \A o \in filled : o.side # "buy"
        <5>1. bought = 0
          BY <4>1, UsdOfNone
        <5>2. QED
          BY <1>4, <5>1
      <4>2. CASE \E o \in filled : o.side = "buy"
        <5>1. PICK e \in filled : e.side = "buy"
          BY <4>2
        <5>2. e \in Entry
          BY <5>1, TickOrders DEF TradedApart
        <5>3. e.usd \in Nat /\ usdc - e.usd >= CashFloor /\ CashFloor \in Nat
          BY <5>2, EntryBounded, NumbersTyped DEF RInv, Orders
        <5>4. \A p \in filled : p.side = "buy" => p = e
          BY <1>1, <5>1 DEF Apart
        <5>5. bought = e.usd
          BY <5>1, <5>3, <5>4, UsdOfOne
        <5>6. QED
          BY <1>4, <5>3, <5>5
      <4>3. QED
        BY <4>1, <4>2
    <3>2. QED
      BY <1>2, <1>4, <3>1
  <2>4. QED
    BY <1>2, <2>1, <2>2, <2>3 DEF TypeOK
<1>7. CASE \A o \in filled \cup silent : o.side # "buy"
  <2>1. bought = 0
    BY <1>7, UsdOfNone
  <2>2. owes = owed
    <3>1. CASE \E o \in silent : o.mint = Hold
      <4>1. PICK o \in silent : o.mint = Hold
        BY <3>1
      <4>2. pending[Hold] = None /\ pending'[Hold] = o
        BY <4>1, TickPending
      <4>3. QED
        BY <1>5, <1>7, <4>1, <4>2
    <3>2. CASE \A o \in silent : o.mint # Hold
      BY <1>5, <3>2, TickPending
    <3>3. QED
      BY <3>1, <3>2
  <2>3. usdc' >= PendingBuys'
    BY <1>2, <1>3, <1>4, <2>1, <2>2
  <2>4. ~(Committed.day' > Committed.day)
    <3>1. Committed.day' = buys + owed /\ Committed.day = buys + owed
      BY <1>2, <1>3, <1>4, <2>1, <2>2, Primed
    <3>2. QED
      BY <1>4, <3>1
  <2>5. QED
    BY <1>6, <2>3, <2>4 DEF RInv, BuysCovered
<1>8. CASE \E o \in filled \cup silent : o.side = "buy"
  <2>1. PICK e \in filled \cup silent : e.side = "buy"
    BY <1>8
  <2>2. e \in Entry
    BY <2>1, TickOrders DEF TradedApart
  <2> DEFINE x == e.usd
  <2>3. /\ e \in Orders /\ e.mint = Hold /\ x = e.lots * price /\ e.lots \in Nat
        /\ owed = 0 /\ x \in Nat
        /\ usdc - x >= CashFloor /\ CashFloor \in Nat
        /\ Current(Hold) + x <= TargetUsd /\ Current(Hold) + x <= MaxPosition
        /\ buys + x <= DailyLimit /\ lots[Hold] >= Reserve
    BY <1>3, <2>2, EntryBounded, NumbersTyped DEF RInv, Orders
  <2>4. /\ bought + owes = x
        /\ Current(Hold)' + owes = Current(Hold) + x
        /\ Current(Hold) \in Nat
    <3>1. price' = price /\ TypeOK /\ Current(Hold) \in Nat /\ price \in Nat
      BY NumbersTyped, Assumed DEF RInv, Tick
    <3>2. CASE e \in filled
      <4>1. \A p \in filled : p.side = "buy" => p = e
        BY <1>1, <2>1, <3>2 DEF Apart
      <4>2. bought = x
        BY <2>1, <2>3, <3>2, <4>1, UsdOfOne
      <4>3. \A o \in silent : o.mint # Hold
        BY <1>1, <2>3, <3>2
      <4>4. owes = 0
        BY <1>5, <2>3, <4>3, TickPending
      <4>5. lots'[Hold] = lots[Hold] + e.lots
        <5>1. Moved(filled, Hold) = Signed(e)
          BY <2>3, <3>2, TickOrders, MovedOne DEF TradedApart
        <5>2. QED
          BY <1>2, <2>1, <5>1 DEF Signed
      <4>6. Current(Hold)' = Current(Hold) + e.lots * price
        BY <2>3, <3>1, <4>5, HoldRises
      <4> HIDE DEF x
      <4>7. QED
        BY <2>3, <3>1, <4>2, <4>4, <4>6
    <3>3. CASE e \in silent
      <4>1. \A p \in filled : p.mint # Hold
        BY <1>1, <2>3, <3>3
      <4>2. \A p \in filled : p.side # "buy"
        BY <1>1, <4>1
      <4>3. bought = 0
        BY <4>2, UsdOfNone
      <4>4. owes = x
        <5>1. pending'[Hold] = e /\ e # None
            BY <2>3, <3>3, TickPending, RebalancingAssumption
          <5>2. QED
            BY <1>5, <2>1, <5>1
      <4>5. lots'[Hold] = lots[Hold] + 0
        BY <1>2, <4>1, MovedNone
      <4>6. Current(Hold)' = Current(Hold) + 0 * price
        BY <2>3, <3>1, <4>5, HoldRises
      <4> HIDE DEF x
      <4>7. QED
        BY <2>3, <3>1, <4>3, <4>4, <4>6
    <3>4. QED
      BY <2>1, <3>1, <3>2, <3>3
  <2>5. TargetUsd \in Int /\ TargetUsd <= top /\ top \in Int
    <3>1. cap * Equity \in Int
      BY NumbersTyped DEF RInv
    <3>2. top \in Int
      BY <3>1, Assumed
    <3>3. QED
      BY <3>2, NumbersTyped DEF RInv
  <2> HIDE DEF x, top
  <2>6. usdc' >= owes /\ usdc' - owes >= CashFloor
    BY <1>2, <1>4, <2>3, <2>4
  <2>7. Committed.usdc' >= CashFloor
    BY <1>3, <2>6, Primed
  <2>8. Committed.hold' <= Less(top, MaxPosition)
    <3>1. Committed.hold' = Current(Hold) + x
      BY <1>3, <2>4, Primed
    <3>2. QED
      BY <2>3, <2>4, <2>5, <3>1, Assumed DEF Less
  <2>9. Committed.day' <= DailyLimit
    <3>1. Committed.day' = buys + bought + owes
      BY <1>2, <1>3, Primed
    <3>2. QED
      BY <1>2, <1>4, <2>3, <2>4, <3>1, Assumed
  <2>10. QED
    BY <1>3, <1>6, <2>6, <2>7, <2>8, <2>9 DEF RInv, BuysCovered, top
<1>9. QED
  BY <1>7, <1>8
(* An order found landed, or gone, adds nothing to what is committed.      *)
LEMMA ResolveStep ==
  ASSUME RInv, NEW m \in Mints, NEW landed \in BOOLEAN, Resolve(m, landed)
  PROVE  RInv' /\ ~(Committed.day' > Committed.day)
<1> DEFINE o == pending[m]
           S == IF landed THEN {o} ELSE {}
           sold == UsdOf(S, "sell")
           bought == UsdOf(S, "buy")
           owed == BuysOf(pending)
           owes == BuysOf(pending')
<1>1. /\ LikePending(pending) /\ PendingBuys = owed /\ usdc >= owed
      /\ pending \in [Mints -> Orders \cup {None}] /\ Hold \in Mints /\ TypeOK
  BY PendingIsLike, Assumed DEF RInv, BuysCovered, TypeOK
<1>2. o \in Orders /\ o.mint = m /\ o.side \in {"buy", "sell"} /\ o.usd \in Nat
  BY <1>1 DEF Resolve, LikePending, Orders
<1>3. pending' = [pending EXCEPT ![m] = None] /\ pending'[m] = None
  BY <1>1 DEF Resolve
<1>4. LikePending(pending')
  BY <1>1, <1>3 DEF LikePending
<1>5. owes = IF m = Hold THEN 0 ELSE owed
  <2>1. pending'[Hold] = IF m = Hold THEN None ELSE pending[Hold]
    BY <1>1, <1>3
  <2>2. /\ owed = IF pending[Hold] # None /\ pending[Hold].side = "buy" THEN pending[Hold].usd ELSE 0
        /\ owes = IF pending'[Hold] # None /\ pending'[Hold].side = "buy" THEN pending'[Hold].usd ELSE 0
    BY <1>1, <1>4, BuysOfLike
  <2>3. QED
    BY <2>1, <2>2
<1>6. owed \in Nat /\ owes \in Nat /\ usdc \in Nat /\ buys \in Nat
  BY <1>1, <1>4, BuysOfNat DEF TypeOK
<1>7. S \in SUBSET Orders /\ Apart(S)
  BY <1>2 DEF Apart
<1>8. Land(S) /\ \A p \in S : p.side = "sell" => p.lots <= Tradeable(p.mint)
  BY <1>2 DEF Resolve
<1>9. /\ lots' \in [Mints -> Nat] /\ lots'[Hold] = lots[Hold] + Moved(S, Hold)
      /\ Lots0 >= Reserve => lots'[Hold] >= Reserve
      /\ booked' \subseteq Mints
      /\ sold \in Nat /\ bought \in Nat
      /\ usdc' = usdc + sold - bought
      /\ buys' = buys + bought /\ buys' \in Nat /\ swaps' \in Nat
  <2> HIDE DEF S, o
  <2>1. QED
    BY <1>1, <1>7, <1>8, Landed
<1>10. bought + owes <= owed
  <2>1. CASE landed /\ o.side = "buy"
    <3>1. m = Hold /\ owed = o.usd
      BY <1>1, <1>2, <2>1, BuysOfLike DEF LikePending, Resolve
    <3>2. S = {o} /\ o.side = "buy"
      BY <2>1
    <3> HIDE DEF o
    <3>3. bought = o.usd
      <4> HIDE DEF S
      <4>1. o \in S /\ o.side = "buy" /\ o.usd \in Nat /\ \A p \in S : p.side = "buy" => p = o
        BY <1>2, <3>2
      <4>2. UsdOf(S, "buy") = o.usd
        BY <4>1, UsdOfOne
      <4>3. QED
        BY <4>2
    <3>4. QED
      BY <1>5, <1>6, <1>2, <3>1, <3>3
  <2>2. CASE ~(landed /\ o.side = "buy")
    <3>1. \A p \in S : p.side # "buy"
      BY <2>2
    <3>2. bought = 0
      BY <3>1, UsdOfNone
    <3>3. owes <= owed
      BY <1>5, <1>6
    <3>4. QED
      BY <1>6, <3>2, <3>3
  <2>3. QED
    BY <2>1, <2>2
<1> HIDE DEF o, S, sold, bought, owed, owes
<1>11. usdc' \in Nat /\ usdc' >= owes
  BY <1>1, <1>6, <1>9, <1>10
<1>12. PendingBuys' = owes
  BY Primed DEF owes
<1>13. TypeOK' /\ OnlyHoldBought'
  <2>1. /\ pending' \in [Mints -> Orders \cup {None}]
        /\ \A n \in Mints : pending'[n] # None => pending'[n].mint = n
        /\ OnlyHoldBought'
    BY <1>4 DEF LikePending, OnlyHoldBought
  <2>2. /\ price' \in Prices /\ weight' \in [Sleeves -> 0 .. Whole \cup {None}] /\ cap' \in Caps
        /\ timeStop' \in BOOLEAN /\ mood' \in Moods
        /\ bars' \in 0 .. MaxBars /\ moves' \in 0 .. MaxMoves
    BY DEF Resolve, RInv, TypeOK
  <2>3. QED
    BY <1>9, <1>11, <2>1, <2>2 DEF TypeOK
<1>14. ~(Committed.day' > Committed.day)
  <2>1. Committed.day' = buys + bought + owes /\ Committed.day = buys + owed
    BY <1>1, <1>9, <1>12, Primed
  <2>2. QED
    BY <1>6, <1>9, <1>10, <2>1
<1>15. QED
  BY <1>11, <1>12, <1>13, <1>14 DEF RInv, BuysCovered

(* The clock, the bars and the market touch neither wallet nor orders.     *)
LEMMA OtherStep ==
  ASSUME RInv,
         \/ NewDay
         \/ \E weights \in [Sleeves -> (UNION {Weights[s] : s \in Sleeves}) \cup {None}], c \in Caps :
              NewBar(weights, c)
         \/ TimeStop
         \/ \E p \in Prices, m \in Moods : Move(p, m)
         \/ UNCHANGED vars
  PROVE  RInv' /\ ~(Committed.day' > Committed.day)
<1>1. /\ usdc' = usdc /\ pending' = pending /\ lots' = lots /\ booked' = booked
      /\ buys' \in {0, buys} /\ swaps' \in {0, swaps}
      /\ price' \in Prices /\ cap' \in Caps /\ timeStop' \in BOOLEAN /\ mood' \in Moods
      /\ moves' \in 0 .. MaxMoves
  <2>1. CASE NewDay
    BY <2>1 DEF NewDay, RInv, TypeOK
  <2>2. CASE \E weights \in [Sleeves -> (UNION {Weights[s] : s \in Sleeves}) \cup {None}], c \in Caps :
               NewBar(weights, c)
    BY <2>2 DEF NewBar, RInv, TypeOK
  <2>3. CASE TimeStop
    BY <2>3 DEF TimeStop, RInv, TypeOK
  <2>4. CASE \E p \in Prices, m \in Moods : Move(p, m)
    <3>1. PICK p \in Prices, m \in Moods : Move(p, m)
      BY <2>4
    <3>2. moves' \in 0 .. MaxMoves
      <4>1. moves \in 0 .. MaxMoves /\ moves < MaxMoves /\ moves' = moves + 1 /\ MaxMoves \in Nat
        BY <3>1, RebalancingAssumption DEF Move, RInv, TypeOK
      <4>2. QED
        BY <4>1
    <3>3. QED
      BY <3>1, <3>2 DEF Move, RInv, TypeOK
  <2>5. CASE UNCHANGED vars
    BY <2>5 DEF vars, RInv, TypeOK
  <2>6. QED
    BY <2>1, <2>2, <2>3, <2>4, <2>5
<1>2. weight' \in [Sleeves -> 0 .. Whole \cup {None}] /\ bars' \in 0 .. MaxBars
  <2>1. CASE \E weights \in [Sleeves -> (UNION {Weights[s] : s \in Sleeves}) \cup {None}], c \in Caps :
               NewBar(weights, c)
    <3>1. PICK weights \in [Sleeves -> (UNION {Weights[s] : s \in Sleeves}) \cup {None}], c \in Caps :
            NewBar(weights, c)
      BY <2>1
    <3>2. weight' = weights /\ \A s \in Sleeves : weights[s] \in 0 .. Whole \cup {None}
      BY <3>1, RebalancingAssumption DEF NewBar, RInv, TypeOK
    <3>3. bars' \in 0 .. MaxBars
      <4>1. bars \in 0 .. MaxBars /\ bars < MaxBars /\ bars' = bars + 1 /\ MaxBars \in Nat
        BY <3>1, RebalancingAssumption DEF NewBar, RInv, TypeOK
      <4>2. QED
        BY <4>1
    <3>4. QED
      BY <3>1, <3>2, <3>3
  <2>2. CASE UNCHANGED <<weight, bars>>
    BY <2>2 DEF RInv, TypeOK
  <2>3. QED
    BY <2>1, <2>2 DEF NewDay, TimeStop, Move, vars
<1>3. RInv'
  <2>1. PendingBuys' = PendingBuys
    BY <1>1 DEF PendingBuys, Unresolved, UsdOf
  <2>2. TypeOK'
    BY <1>1, <1>2 DEF RInv, TypeOK
  <2>3. QED
    BY <1>1, <2>1, <2>2 DEF RInv, OnlyHoldBought, BuysCovered
<1>4. ~(Committed.day' > Committed.day)
  <2>1. buys \in Nat /\ PendingBuys \in Nat /\ PendingBuys' = PendingBuys
    <3>1. PendingBuys' = PendingBuys
      BY <1>1 DEF PendingBuys, Unresolved, UsdOf
    <3>2. QED
      BY <3>1, PendingIsLike, BuysOfNat DEF RInv, TypeOK
  <2>2. Committed.day' = buys' + PendingBuys' /\ Committed.day = buys + PendingBuys
    BY Primed
  <2>3. QED
    BY <1>1, <2>1, <2>2
<1>5. QED
  BY <1>3, <1>4

(* The agent starts owing nothing.                                         *)
LEMMA InitRInv == Init => RInv
<1> SUFFICES ASSUME Init PROVE RInv
  OBVIOUS
<1>1. TypeOK
  <2>1. lots \in [Mints -> Nat] /\ (Lots0 >= Reserve => lots[Hold] >= Reserve)
    BY Assumed DEF Init
  <2>2. cap \in Caps /\ price \in Prices /\ usdc \in Nat
    BY Assumed DEF Init
  <2>3. 0 \in 0 .. MaxBars /\ 0 \in 0 .. MaxMoves
    BY RebalancingAssumption
  <2>4. QED
    BY <2>1, <2>2, <2>3 DEF Init, TypeOK, Mints, Moods
<1>2. OnlyHoldBought
  BY DEF OnlyHoldBought, Init
<1>3. usdc >= PendingBuys
  <2>1. PendingBuys = 0
    BY <1>1, <1>2, PendingIsLike, BuysOfLike, Assumed DEF Init
  <2>2. QED
    BY <1>1, <2>1 DEF TypeOK
<1>4. QED
  BY <1>1, <1>2, <1>3 DEF RInv, BuysCovered

-----------------------------------------------------------------------------
(* The inductive invariant holds in every reachable state: the variables   *)
(* keep to their domains (no tick spends cash or sells lots that are not   *)
(* there, and none sells the gas reserve), only the hold mint has buys     *)
(* without an answer, and the wallet has the cash of every one of them.    *)
THEOREM RebalancingInvariance == Spec => []RInv
<1>1. RInv /\ [Next]_vars => RInv'
  BY TickStep, ResolveStep, OtherStep DEF Next
<1>2. QED
  BY <1>1, InitRInv, PTL DEF Spec

(* A step that adds to what the day has bought, were every order without   *)
(* an answer to land, leaves the cash floor, and keeps the position under  *)
(* the beta cap and the owner's limit and the day under its limit.         *)
THEOREM BuysAlwaysInBounds == Spec => BuysStayInBounds
<1> DEFINE Bounded == Committed.day' > Committed.day =>
              /\ Committed.usdc' >= CashFloor
              /\ Committed.hold' <= Less((cap * Equity) \div Whole, MaxPosition)
              /\ Committed.day' <= DailyLimit
<1>1. RInv /\ Next => Bounded
  BY TickStep, ResolveStep, OtherStep DEF Next
<1>2. RInv /\ [Next]_vars => [Bounded]_vars
  BY <1>1
<1>3. QED
  BY <1>2, RebalancingInvariance, PTL DEF Spec, BuysStayInBounds
=============================================================================
