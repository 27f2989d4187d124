------------------------ MODULE ReconciliationProofs ------------------------
(***************************************************************************)
(* For any number of mints, strategies, orders and moves made by hand: the *)
(* positions table follows the chain within a rounding, and --accept keeps *)
(* exit rules.  Most of it is about what the operations on the table do to *)
(* the sum of a mint's rows, which is proved from the facts of Sums.       *)
(***************************************************************************)
EXTENDS Reconciliation, Sums

(* There are finitely many labels.                                         *)
LEMMA LabelsFinite == IsFiniteSet(Labels) /\ Cardinality(Labels) \in Nat
<1>1. IsFiniteSet({Reconciled})
  BY FS_Singleton
<1>2. QED
  BY <1>1, FS_Union, FS_CardinalityType, ReconciliationAssumption DEF Labels

(* Sums of a mint's rows, one label at a time.                             *)
LEMMA HoldingSums ==
  ASSUME NEW h \in Holdings
  PROVE  /\ SumOf(h, {}) = 0
         /\ \A S \in SUBSET Labels : SumOf(h, S) \in Nat
         /\ \A S \in SUBSET Labels : \A l \in S : SumOf(h, S) = h[l].amount + SumOf(h, S \ {l})
         /\ \A S, T \in SUBSET Labels : T \subseteq S => SumOf(h, T) <= SumOf(h, S)
         /\ \A S, T \in SUBSET Labels : T \subseteq S => SumOf(h, S) = SumOf(h, T) + SumOf(h, S \ T)
<1>1. \A l \in Labels : h[l].amount \in Nat
  BY DEF Holdings, Row, NoRow
<1>2. ASSUME NEW S \in SUBSET Labels
      PROVE  /\ SumOf(h, S) \in Nat
             /\ \A l \in S : SumOf(h, S) = h[l].amount + SumOf(h, S \ {l})
             /\ \A T \in SUBSET S : SumOf(h, T) <= SumOf(h, S)
             /\ \A T \in SUBSET S : SumOf(h, S) = SumOf(h, T) + SumOf(h, S \ T)
  <2> DEFINE f == [l \in S |-> h[l].amount]
  <2>1. IsFiniteSet(S)
    BY LabelsFinite, FS_Subset
  <2>2. f \in [S -> Nat] /\ f \in [S -> Int] /\ \A l \in S : f[l] = h[l].amount
    BY <1>1
  <2>3. \A T \in SUBSET S : [l \in T |-> f[l]] = [l \in T |-> h[l].amount]
    OBVIOUS
  <2>4. SumFunction(f) = SumOf(h, S) /\ \A T \in SUBSET S : SumFunction([l \in T |-> f[l]]) = SumOf(h, T)
    BY <2>3 DEF SumOf
  <2> HIDE DEF f
  <2>5. SumFunction(f) \in Nat /\ \A T \in SUBSET S : SumFunction([l \in T |-> f[l]]) <= SumFunction(f)
    BY <2>1, <2>2, SumWithin
  <2>6. \A l \in S : SplitAt(f, S, l)
    BY <2>1, <2>2, SumSplit
  <2>7. \A T \in SUBSET S : Divided(f, S, T)
    BY <2>1, <2>2, SumUnion
  <2>8. \A l \in S : S \ {l} \in SUBSET S
    OBVIOUS
  <2>9. \A T \in SUBSET S : S \ T \in SUBSET S
    OBVIOUS
  <2>10. QED
    BY <2>2, <2>4, <2>5, <2>6, <2>7, <2>8, <2>9 DEF SplitAt, Divided
<1>3. SumOf(h, {}) = 0
  BY SumEmpty DEF SumOf
<1>4. QED
  BY <1>2, <1>3

(* The sum depends on the amounts only.                                    *)
LEMMA SameSum ==
  ASSUME NEW h, NEW g, NEW S, \A l \in S : h[l].amount = g[l].amount
  PROVE  SumOf(h, S) = SumOf(g, S)
<1>1. [l \in S |-> h[l].amount] = [l \in S |-> g[l].amount]
  OBVIOUS
<1>2. QED
  BY <1>1 DEF SumOf

(* Labels without a row add nothing.                                       *)
LEMMA NoRowsNoSum ==
  ASSUME NEW h \in Holdings, NEW S \in SUBSET Labels, \A l \in S : h[l].amount = 0
  PROVE  SumOf(h, S) = 0
<1>1. [l \in S |-> h[l].amount] = [l \in S |-> 0]
  OBVIOUS
<1>2. IsFiniteSet(S) /\ Cardinality(S) \in Nat
  BY LabelsFinite, FS_Subset, FS_CardinalityType
<1>3. 0 \in Int /\ 0 * Cardinality(S) = 0
  BY <1>2
<1>4. SumFunction([l \in S |-> 0]) = 0 * Cardinality(S)
  BY ONLY <1>2, <1>3, SumConst, Zenon
<1>5. QED
  BY <1>1, <1>3, <1>4 DEF SumOf

(* One row changed changes the total by the difference.                    *)
LEMMA OneRowChanged ==
  ASSUME NEW h \in Holdings, NEW l \in Labels, NEW row \in Row \cup {NoRow}
  PROVE  /\ [h EXCEPT ![l] = row] \in Holdings
         /\ Total([h EXCEPT ![l] = row]) = Total(h) - h[l].amount + row.amount
<1> DEFINE g == [h EXCEPT ![l] = row]
<1>1. g \in Holdings /\ g[l] = row /\ \A k \in Labels \ {l} : g[k] = h[k]
  BY DEF Holdings
<1> HIDE DEF g
<1>2. SumOf(g, Labels \ {l}) = SumOf(h, Labels \ {l})
  BY <1>1, SameSum
<1>3. /\ SumOf(h, Labels) = h[l].amount + SumOf(h, Labels \ {l})
      /\ SumOf(h, Labels \ {l}) \in Nat
  BY HoldingSums
<1>4. SumOf(g, Labels) = g[l].amount + SumOf(g, Labels \ {l})
  BY <1>1, HoldingSums
<1>5. h[l].amount \in Nat /\ row.amount \in Nat
  BY DEF Holdings, Row, NoRow
<1>6. Total(g) = Total(h) - h[l].amount + row.amount
  BY <1>1, <1>2, <1>3, <1>4, <1>5 DEF Total
<1>7. QED
  BY <1>1, <1>6 DEF g

(* _position_add adds to the mint's total, and touches no other mint.      *)
LEMMA AddTotal ==
  ASSUME rows \in [Mints -> Holdings], NEW m \in Mints, NEW l \in Labels, NEW n \in Nat,
         Add(m, l, n)
  PROVE  /\ rows' \in [Mints -> Holdings]
         /\ Total(rows'[m]) = Total(rows[m]) + n
         /\ \A k \in Mints \ {m} : rows'[k] = rows[k]
<1> DEFINE row == More(rows[m][l], n)
<1>1. rows[m] \in Holdings /\ rows[m][l] \in Row \cup {NoRow}
  BY DEF Holdings
<1>2. row \in Row /\ row.amount = rows[m][l].amount + n
  BY <1>1 DEF Row, NoRow, More
<1>3. rows' = [rows EXCEPT ![m] = [rows[m] EXCEPT ![l] = row]]
  BY <1>1 DEF Add
<1> HIDE DEF row
<1>4. /\ [rows[m] EXCEPT ![l] = row] \in Holdings
      /\ Total([rows[m] EXCEPT ![l] = row]) = Total(rows[m]) - rows[m][l].amount + row.amount
  BY <1>1, <1>2, OneRowChanged
<1>5. Total(rows[m]) \in Nat /\ rows[m][l].amount \in Nat
  BY <1>1, HoldingSums DEF Total, Row, NoRow
<1>6. rows'[m] = [rows[m] EXCEPT ![l] = row]
  BY <1>3
<1>7. Total(rows'[m]) = Total(rows[m]) + n
  BY <1>2, <1>4, <1>5, <1>6
<1>8. QED
  BY <1>3, <1>4, <1>7

(* Rows taken off a mint take their amounts off its total; with all the    *)
(* rows but those gone, nothing remains.                                   *)
LEMMA WithoutTotal ==
  ASSUME rows \in [Mints -> Holdings], NEW m \in Mints, NEW l \in Labels,
         NEW gone \in SUBSET (RowsOf(rows[m]) \ {l}),
         NEW W, W = Without(m, gone \cup {l})
  PROVE  /\ W \in [Mints -> Holdings]
         /\ Total(W[m]) = Total(rows[m]) - rows[m][l].amount - SumOf(rows[m], gone)
         /\ gone = RowsOf(rows[m]) \ {l} => Total(W[m]) = 0
<1> DEFINE h == rows[m]
           D == gone \cup {l}
           g == W[m]
           R == Labels \ D
<1>1. h \in Holdings /\ D \in SUBSET Labels /\ gone \in SUBSET Labels /\ R \in SUBSET Labels
  BY DEF RowsOf
<1>2. /\ W = [rows EXCEPT ![m] = [k \in Labels |-> IF k \in D THEN NoRow ELSE h[k]]]
      /\ g = [k \in Labels |-> IF k \in D THEN NoRow ELSE h[k]]
  BY DEF Without
<1>3. g \in Holdings
  BY <1>1, <1>2 DEF Holdings
<1>4. W \in [Mints -> Holdings]
  BY <1>2, <1>3
<1>5. \A k \in Labels : g[k] = IF k \in D THEN NoRow ELSE h[k]
  BY <1>2
<1>6. D \ {l} = gone /\ l \in D
  OBVIOUS
<1>7. gone = RowsOf(h) \ {l} => \A k \in R : h[k].amount = 0
  BY DEF RowsOf, NoRow
<1> HIDE DEF h, D, g, R
<1>8. SumOf(g, D) = 0
  BY <1>1, <1>3, <1>5, NoRowsNoSum DEF NoRow
<1>9. SumOf(g, R) = SumOf(h, R)
  <2>1. \A k \in R : g[k].amount = h[k].amount
    BY <1>1, <1>5 DEF R
  <2>2. QED
    BY <2>1, SameSum
<1>10. Total(g) = SumOf(g, D) + SumOf(g, R) /\ Total(h) = SumOf(h, D) + SumOf(h, R)
  BY <1>1, <1>3, HoldingSums DEF Total, R
<1>11. SumOf(h, D) = h[l].amount + SumOf(h, gone)
  <2>1. \A S \in SUBSET Labels : \A k \in S : SumOf(h, S) = h[k].amount + SumOf(h, S \ {k})
    BY <1>1, HoldingSums
  <2>2. SumOf(h, D) = h[l].amount + SumOf(h, D \ {l})
    BY <1>1, <1>6, <2>1
  <2>3. QED
    BY ONLY <1>6, <2>2, Zenon
<1>12. /\ h[l].amount \in Nat /\ SumOf(h, gone) \in Nat /\ SumOf(h, R) \in Nat
  <2>1. h[l] \in Row \cup {NoRow}
    BY <1>1 DEF Holdings
  <2>2. QED
    BY <1>1, <2>1, HoldingSums DEF Row, NoRow
<1>13. Total(g) = Total(h) - h[l].amount - SumOf(h, gone)
  BY <1>8, <1>9, <1>10, <1>11, <1>12
<1>14. gone = RowsOf(h) \ {l} => Total(g) = 0
  BY <1>1, <1>7, <1>8, <1>9, <1>10, NoRowsNoSum
<1>15. QED
  BY <1>4, <1>5, <1>13, <1>14 DEF h, D, g

(* _position_sub takes the sold amount off the mint's total, or all there  *)
(* is, and touches no other mint.                                          *)
LEMMA SubTotal ==
  ASSUME rows \in [Mints -> Holdings], NEW m \in Mints, NEW l \in Labels, NEW n \in Nat,
         Sub(m, l, n)
  PROVE  /\ rows' \in [Mints -> Holdings]
         /\ Total(rows'[m]) = IF Total(rows[m]) >= n THEN Total(rows[m]) - n ELSE 0
         /\ \A k \in Mints \ {m} : rows'[k] = rows[k]
<1> DEFINE h == rows[m]
           left == n - h[l].amount
           Others == RowsOf(h) \ {l}
           After(gone) == left - SumOf(h, gone)
<1>1. h \in Holdings /\ Others \in SUBSET Labels /\ Total(h) \in Nat /\ h[l].amount \in Nat
  <2>1. h \in Holdings /\ h[l] \in Row \cup {NoRow}
    BY DEF Holdings
  <2>2. QED
    BY <2>1, HoldingSums DEF RowsOf, Total, Row, NoRow
<1>2. ASSUME NEW gone \in SUBSET Others, NEW W, W = Without(m, gone \cup {l})
      PROVE  /\ W \in [Mints -> Holdings] /\ \A j \in Mints \ {m} : W[j] = rows[j]
             /\ \A j \in Labels \ (gone \cup {l}) : W[m][j] = h[j]
             /\ Total(W[m]) = Total(h) - h[l].amount - SumOf(h, gone)
             /\ gone = Others => Total(W[m]) = 0
  <2>1. gone \in SUBSET (RowsOf(rows[m]) \ {l})
    OBVIOUS
  <2>2. W \in [Mints -> Holdings]
    BY <1>2, <2>1, WithoutTotal
  <2>3. /\ \A j \in Mints \ {m} : W[j] = rows[j]
        /\ \A j \in Labels \ (gone \cup {l}) : W[m][j] = h[j]
    BY <1>2 DEF Without
  <2>4. /\ Total(W[m]) = Total(h) - h[l].amount - SumOf(h, gone)
        /\ gone = Others => Total(W[m]) = 0
    BY <1>2, <2>1, WithoutTotal
  <2>5. QED
    BY <2>2, <2>3, <2>4
<1>3. CASE left <= 0 /\ rows' = [rows EXCEPT ![m][l] = Less(h[l], n)]
  <2> DEFINE row == Less(h[l], n)
  <2>1. row \in Row \cup {NoRow} /\ row.amount = h[l].amount - n
    <3>1. h[l] \in Row \cup {NoRow}
      BY <1>1 DEF Holdings
    <3>2. QED
      BY <1>1, <1>3, <3>1 DEF Less, Row, NoRow
  <2>2. rows' = [rows EXCEPT ![m] = [h EXCEPT ![l] = row]]
    BY <1>3
  <2> HIDE DEF row
  <2>3. /\ [h EXCEPT ![l] = row] \in Holdings
        /\ Total([h EXCEPT ![l] = row]) = Total(h) - h[l].amount + row.amount
    BY <1>1, <2>1, OneRowChanged
  <2>4. Total(h) >= h[l].amount
    <3>1. Total(h) = h[l].amount + SumOf(h, Labels \ {l}) /\ SumOf(h, Labels \ {l}) \in Nat
      BY <1>1, HoldingSums DEF Total
    <3>2. QED
      BY <1>1, <3>1
  <2>5. rows'[m] = [h EXCEPT ![l] = row]
    BY <2>2
  <2>6. Total(rows'[m]) = Total(h) - n /\ Total(h) >= n
    BY <1>1, <1>3, <2>1, <2>3, <2>4, <2>5
  <2>7. QED
    BY <2>2, <2>3, <2>6
<1>4. CASE left > 0 /\ \E gone \in SUBSET Others :
             /\ After(gone) = 0 \/ (After(gone) > 0 /\ gone = Others)
             /\ rows' = Without(m, gone \cup {l})
  <2>1. PICK gone \in SUBSET Others :
             /\ After(gone) = 0 \/ (After(gone) > 0 /\ gone = Others)
             /\ rows' = Without(m, gone \cup {l})
    BY <1>4
  <2>2. /\ rows' \in [Mints -> Holdings] /\ \A k \in Mints \ {m} : rows'[k] = rows[k]
        /\ Total(rows'[m]) = Total(h) - h[l].amount - SumOf(h, gone)
        /\ gone = Others => Total(rows'[m]) = 0
    BY <1>2, <2>1
  <2>3. SumOf(h, gone) \in Nat
    BY <1>1, HoldingSums
  <2>4. Total(rows'[m]) \in Nat
    BY <2>2, HoldingSums DEF Total
  <2> HIDE DEF h
  <2>5. Total(rows'[m]) = IF Total(h) >= n THEN Total(h) - n ELSE 0
    BY <1>1, <2>1, <2>2, <2>3, <2>4
  <2>6. QED
    BY <2>2, <2>5 DEF h
<1>5. CASE left > 0 /\ \E gone \in SUBSET Others, k \in Others :
             /\ k \notin gone /\ After(gone) > 0 /\ After(gone) < h[k].amount
             /\ rows' = [Without(m, gone \cup {l}) EXCEPT ![m][k].amount = @ - After(gone)]
  <2>1. PICK gone \in SUBSET Others, k \in Others :
             /\ k \notin gone /\ After(gone) > 0 /\ After(gone) < h[k].amount
             /\ rows' = [Without(m, gone \cup {l}) EXCEPT ![m][k].amount = @ - After(gone)]
    BY <1>5
  <2> DEFINE W == Without(m, gone \cup {l})
             row == [h[k] EXCEPT !.amount = h[k].amount - After(gone)]
  <2>2. /\ W \in [Mints -> Holdings] /\ \A j \in Mints \ {m} : W[j] = rows[j]
        /\ \A j \in Labels \ (gone \cup {l}) : W[m][j] = h[j]
        /\ Total(W[m]) = Total(h) - h[l].amount - SumOf(h, gone)
    <3> HIDE DEF Others, h
    <3>1. QED
      BY <1>2, <2>1
  <2>3. SumOf(h, gone) \in Nat /\ k \in Labels /\ W[m][k] = h[k]
    BY <1>1, <2>1, <2>2, HoldingSums
  <2>4. row \in Row /\ row.amount = h[k].amount - After(gone) /\ h[k].amount \in Nat
    <3>1. h[k] \in Row
      BY <1>1, <2>1, <2>3 DEF Holdings, RowsOf
    <3>2. After(gone) \in Int
      BY <1>1, <2>3
    <3> HIDE DEF After, h
    <3>3. QED
      BY <2>1, <3>1, <3>2 DEF Row
  <2>5. rows' = [W EXCEPT ![m] = [W[m] EXCEPT ![k] = row]]
    BY <2>1, <2>2, <2>3
  <2> HIDE DEF W, row
  <2>6. /\ [W[m] EXCEPT ![k] = row] \in Holdings
        /\ Total([W[m] EXCEPT ![k] = row]) = Total(W[m]) - W[m][k].amount + row.amount
    BY <2>2, <2>3, <2>4, OneRowChanged
  <2>7. /\ rows' \in [Mints -> Holdings] /\ rows'[m] = [W[m] EXCEPT ![k] = row]
        /\ \A j \in Mints \ {m} : rows'[j] = rows[j]
    BY <2>2, <2>5, <2>6
  <2>8. Total(rows'[m]) \in Nat
    BY <2>7, HoldingSums DEF Total
  <2> HIDE DEF h
  <2>9. Total(rows'[m]) = Total(h) - n /\ Total(h) >= n
    BY <1>1, <2>2, <2>3, <2>4, <2>6, <2>7, <2>8
  <2>10. QED
    BY <2>7, <2>9 DEF h
<1>6. QED
  BY <1>3, <1>4, <1>5 DEF Sub

(* Rounding to the nearest, halves to the even quotient.                   *)
LEMMA HalfEvenNear ==
  ASSUME NEW n \in Nat, NEW d \in Nat \ {0}
  PROVE  /\ HalfEven(n, d) \in Nat
         /\ (2 * d) * HalfEven(n, d) <= 2 * n + d
         /\ 2 * n <= (2 * d) * HalfEven(n, d) + d
<1> DEFINE q == n \div d
           r == n % d
           t == d * q
<1>1. q \in Nat /\ r \in 0 .. d - 1 /\ n = t + r /\ t \in Nat
  OBVIOUS
<1>2. (2 * d) * q = 2 * t /\ (2 * d) * (q + 1) = 2 * t + 2 * d
  BY <1>1
<1>3. /\ HalfEven(n, d) \in {q, q + 1}
      /\ HalfEven(n, d) = q => 2 * r <= d
      /\ HalfEven(n, d) = q + 1 => 2 * r >= d
  BY <1>1 DEF HalfEven
<1> HIDE DEF q, r, t
<1>4. CASE HalfEven(n, d) = q
  BY <1>1, <1>2, <1>3, <1>4
<1>5. CASE HalfEven(n, d) = q + 1
  BY <1>1, <1>2, <1>3, <1>5
<1>6. QED
  BY <1>3, <1>4, <1>5

(* What --accept proposes for one label.                                   *)
LEMMA ProposedRow ==
  ASSUME rows \in [Mints -> Holdings], NEW balances \in [Mints -> Nat],
         NEW unknown \in SUBSET Mints, NEW m \in Mints, NEW l \in Labels
  PROVE  LET h == rows[m]
             b == balances[m]
             T == Total(rows[m])
             k == Cardinality(RowsOf(rows[m]))
             row == Propose(balances, unknown)[m][l]
         IN /\ row \in Row \cup {NoRow}
            /\ b = 0 => row = NoRow
            /\ b > 0 /\ h[l] # NoRow =>
                 /\ row # NoRow
                 /\ T = b => row.amount = h[l].amount
                 /\ T # b /\ T > 0 => row.amount = HalfEven(b * h[l].amount, T)
                 /\ T # b /\ T = 0 => row.amount = HalfEven(b, k)
            /\ b > 0 /\ h[l] = NoRow /\ RowsOf(h) # {} => row = NoRow
            /\ b > 0 /\ RowsOf(h) = {} =>
                 IF l = Reconciled /\ m \notin unknown THEN row # NoRow /\ row.amount = b
                 ELSE row = NoRow
            /\ h[l] # NoRow /\ h[l].exit # "none" /\ row # NoRow => row.exit = h[l].exit
            /\ l = Reconciled /\ m \notin HoldMints /\ row # NoRow => row.exit # "none"
<1> DEFINE h == rows[m]
           b == balances[m]
           T == Total(h)
           k == Cardinality(RowsOf(h))
           row == Propose(balances, unknown)[m][l]
<1>1. h \in Holdings /\ h[l] \in Row \cup {NoRow} /\ b \in Nat /\ T \in Nat
  <2>1. h \in Holdings
    OBVIOUS
  <2>2. QED
    BY <2>1, HoldingSums DEF Holdings, Total
<1>2. NoRow \notin Row /\ (h[l] # NoRow => h[l] \in Row /\ l \in RowsOf(h))
  BY <1>1 DEF Row, NoRow, RowsOf
<1>3. RowsOf(h) # {} => k \in Nat \ {0}
  <2>1. IsFiniteSet(RowsOf(h))
    BY LabelsFinite, FS_Subset DEF RowsOf
  <2>2. QED
    BY <2>1, FS_CardinalityType, FS_EmptySet
<1>4. row = CASE b > 0 /\ RowsOf(h) = {} /\ l = Reconciled /\ m \notin unknown ->
                   TakenOver(m, [amount |-> b, exit |-> "none"])
              [] b > 0 /\ h[l] # NoRow ->
                   LET new == IF T = b THEN h[l] ELSE Scaled(m, l, b)
                   IN IF l = Reconciled THEN TakenOver(m, new) ELSE new
              [] OTHER -> NoRow
  BY DEF Propose
<1>5. h[l] # NoRow =>
        /\ Scaled(m, l, b) = [h[l] EXCEPT !.amount = IF T > 0 THEN HalfEven(b * h[l].amount, T)
                                                     ELSE HalfEven(b, k)]
        /\ Scaled(m, l, b) \in Row
  <2>1. Scaled(m, l, b) = [h[l] EXCEPT !.amount = IF T > 0 THEN HalfEven(b * h[l].amount, T)
                                                 ELSE HalfEven(b, k)]
    BY DEF Scaled
  <2>2. SUFFICES ASSUME h[l] # NoRow PROVE Scaled(m, l, b) \in Row
    BY <2>1
  <2>3. h[l] \in Row /\ h[l].amount \in Nat /\ k \in Nat \ {0} /\ b * h[l].amount \in Nat
    BY <1>1, <1>2, <1>3, <2>2 DEF Row
  <2> HIDE DEF h, b, T, k
  <2>4. T > 0 => HalfEven(b * h[l].amount, T) \in Nat
    <3>1. T > 0 => T \in Nat \ {0}
      BY <1>1
    <3>2. QED
      BY <2>3, <3>1, HalfEvenNear
  <2>5. HalfEven(b, k) \in Nat
    BY <1>1, <2>3, HalfEvenNear
  <2>6. QED
    BY <2>1, <2>3, <2>4, <2>5 DEF Row
<1>6. \A r \in Row : /\ TakenOver(m, r) \in Row /\ TakenOver(m, r).amount = r.amount
                     /\ r.exit # "none" => TakenOver(m, r).exit = r.exit
                     /\ m \notin HoldMints => TakenOver(m, r).exit # "none"
  BY <1>2 DEF TakenOver, Row
<1>7. [amount |-> b, exit |-> "none"] \in Row
  BY <1>1 DEF Row
<1> HIDE DEF h, b, T, k, row
<1>8. CASE b > 0 /\ h[l] # NoRow
  <2>1. RowsOf(h) # {}
    BY <1>2, <1>8
  <2> DEFINE new == IF T = b THEN h[l] ELSE Scaled(m, l, b)
  <2>2. row = IF l = Reconciled THEN TakenOver(m, new) ELSE new
    BY <1>4, <1>8, <2>1
  <2>3. /\ new \in Row /\ new.exit = h[l].exit
        /\ T = b => new.amount = h[l].amount
        /\ T # b /\ T > 0 => new.amount = HalfEven(b * h[l].amount, T)
        /\ T # b /\ T = 0 => new.amount = HalfEven(b, k)
    <3>1. CASE T = b
      BY <1>2, <1>8, <3>1
    <3>2. CASE T # b
      <4>1. h[l] \in Row
        BY <1>2, <1>8
      <4>2. new = [h[l] EXCEPT !.amount = IF T > 0 THEN HalfEven(b * h[l].amount, T)
                                          ELSE HalfEven(b, k)] /\ new \in Row
        BY <1>5, <1>8, <3>2
      <4>3. QED
        BY <3>2, <4>1, <4>2 DEF Row
    <3>3. QED
      BY <3>1, <3>2
  <2> HIDE DEF new
  <2>4. /\ row \in Row /\ row.amount = new.amount
        /\ new.exit # "none" => row.exit = new.exit
        /\ l = Reconciled /\ m \notin HoldMints => row.exit # "none"
    BY <1>6, <2>2, <2>3
  <2>5. row # NoRow
    BY <1>2, <2>4
  <2>6. QED
    BY <1>8, <2>1, <2>3, <2>4, <2>5 DEF h, b, T, k, row
<1>9. CASE b > 0 /\ h[l] = NoRow /\ RowsOf(h) # {}
  <2>1. row = NoRow
    BY <1>4, <1>9
  <2>2. QED
    BY <1>9, <2>1 DEF h, b, T, k, row
<1>10. CASE b > 0 /\ RowsOf(h) = {}
  <2>1. h[l] = NoRow
    BY <1>2, <1>10
  <2>2. CASE l = Reconciled /\ m \notin unknown
    <3>1. row = TakenOver(m, [amount |-> b, exit |-> "none"])
      BY <1>4, <1>10, <2>1, <2>2
    <3>2. row \in Row /\ row.amount = b /\ (m \notin HoldMints => row.exit # "none")
      BY <1>6, <1>7, <3>1
    <3>3. row # NoRow
      BY <1>2, <3>2
    <3>4. QED
      BY <1>10, <2>1, <2>2, <3>2, <3>3 DEF h, b, T, k, row
  <2>3. CASE ~(l = Reconciled /\ m \notin unknown)
    <3>1. row = NoRow
      BY <1>4, <1>10, <2>1, <2>3
    <3>2. QED
      BY <1>10, <2>1, <2>3, <3>1 DEF h, b, T, k, row
  <2>4. QED
    BY <2>2, <2>3
<1>11. CASE b = 0
  <2>1. row = NoRow
    BY <1>4, <1>11
  <2>2. QED
    BY <1>11, <2>1 DEF h, b, T, k, row
<1>12. QED
  BY <1>1, <1>8, <1>9, <1>10, <1>11

(* Scaling rows to a balance: each is off by half a unit at most, so their *)
(* sum is off by less than a lot.                                          *)
LEMMA ScaledSum ==
  ASSUME NEW f \in Holdings, NEW h \in Holdings, NEW b \in Nat, NEW T \in Nat \ {0},
         T = Total(h),
         \A l \in Labels : /\ (2 * T) * f[l].amount <= 2 * (b * h[l].amount) + T
                           /\ 2 * (b * h[l].amount) <= (2 * T) * f[l].amount + T
  PROVE  Total(f) - b \in (1 - Lot) .. (Lot - 1)
<1> DEFINE F == [l \in Labels |-> f[l].amount]
           H == [l \in Labels |-> h[l].amount]
           N == Cardinality(Labels)
           c == 2 * T
           d == 2 * b
<1>1. /\ F \in [Labels -> Int] /\ H \in [Labels -> Int] /\ c \in Int /\ d \in Int /\ N \in Nat
      /\ \A l \in Labels : F[l] = f[l].amount /\ H[l] = h[l].amount /\ h[l].amount \in Nat
  BY LabelsFinite DEF Holdings, Row, NoRow
<1>2. \A a \in Nat : 2 * (b * a) = d * a
  OBVIOUS
<1>3. Total(f) = SumFunction(F) /\ T = SumFunction(H) /\ Total(f) \in Nat
  BY HoldingSums DEF Total, SumOf
<1>4. N < 2 * Lot /\ Lot \in Nat
  BY RoundingAssumption, ReconciliationAssumption
<1> HIDE DEF F, H, N, c, d
<1>5. \A l \in Labels : c * F[l] <= d * H[l] + T /\ d * H[l] <= c * F[l] + T
  BY <1>1, <1>2 DEF c
<1>6. c * SumFunction(F) <= d * SumFunction(H) + T * N /\ d * SumFunction(H) <= c * SumFunction(F) + T * N
  <2>1. T \in Int
    OBVIOUS
  <2>2. QED
    BY <1>1, <1>5, <2>1, LabelsFinite, SumClose DEF N
<1>7. (2 * T) * Total(f) <= (2 * b) * T + T * N /\ (2 * b) * T <= (2 * T) * Total(f) + T * N
  BY ONLY <1>3, <1>6, Zenon DEF c, d
<1>8. 2 * Total(f) <= 2 * b + N /\ 2 * b <= 2 * Total(f) + N
  <2> DEFINE x == 2 * Total(f) - (2 * b + N)
             y == 2 * b - (2 * Total(f) + N)
  <2>1. x \in Int /\ y \in Int
    BY <1>1, <1>3
  <2>2. T * x = (2 * T) * Total(f) - ((2 * b) * T + T * N)
    BY <1>1, <1>3
  <2>3. T * y = (2 * b) * T - ((2 * T) * Total(f) + T * N)
    BY <1>1, <1>3
  <2>4. /\ (2 * T) * Total(f) \in Int /\ (2 * b) * T \in Int /\ T * N \in Int
    BY <1>1, <1>3
  <2>5. T * x <= 0 /\ T * y <= 0
    BY <1>7, <2>2, <2>3, <2>4
  <2> HIDE DEF x, y
  <2>6. x <= 0 /\ y <= 0
    BY <2>1, <2>5
  <2>7. QED
    BY <1>1, <1>3, <2>6 DEF x, y
<1>9. QED
  BY <1>1, <1>3, <1>4, <1>8

(* What --accept proposes adds up to the balances, within a rounding.      *)
LEMMA ProposeTotal ==
  ASSUME rows \in [Mints -> Holdings], NEW balances \in [Mints -> Nat],
         NEW unknown \in SUBSET Mints
  PROVE  /\ Propose(balances, unknown) \in [Mints -> Holdings]
         /\ \A m \in Mints :
              balances[m] = 0 \/ RowsOf(Propose(balances, unknown)[m]) # {} =>
                Total(Propose(balances, unknown)[m]) - balances[m] \in (1 - Lot) .. (Lot - 1)
<1> DEFINE P == Propose(balances, unknown)
<1>1. P \in [Mints -> Holdings]
  <2>1. P = [m \in Mints |-> [l \in Labels |-> P[m][l]]]
    BY DEF Propose
  <2>2. \A m \in Mints, l \in Labels : P[m][l] \in Row \cup {NoRow}
    BY ProposedRow
  <2> HIDE DEF P
  <2>3. QED
    BY <2>1, <2>2 DEF Holdings
<1>2. ASSUME NEW m \in Mints, balances[m] = 0 \/ RowsOf(P[m]) # {}
      PROVE  Total(P[m]) - balances[m] \in (1 - Lot) .. (Lot - 1)
  <2> DEFINE h == rows[m]
             f == P[m]
             b == balances[m]
             T == Total(h)
             R == RowsOf(h)
             k == Cardinality(R)
  <2>1. /\ h \in Holdings /\ b \in Nat /\ T \in Nat /\ f \in Holdings
        /\ R \in SUBSET Labels /\ IsFiniteSet(R) /\ k \in Nat /\ k <= Cardinality(Labels)
    <3>1. R \in SUBSET Labels /\ h \in Holdings
      BY DEF RowsOf
    <3>2. IsFiniteSet(R) /\ k \in Nat /\ k <= Cardinality(Labels)
      BY <3>1, LabelsFinite, FS_Subset, FS_CardinalityType
    <3>3. QED
      BY <1>1, <3>1, <3>2, HoldingSums DEF Total
  <2>2. \A l \in Labels :
          /\ b = 0 => f[l] = NoRow
          /\ b > 0 /\ l \in R =>
               /\ T = b => f[l].amount = h[l].amount
               /\ T # b /\ T > 0 => f[l].amount = HalfEven(b * h[l].amount, T)
               /\ T # b /\ T = 0 => f[l].amount = HalfEven(b, k)
          /\ b > 0 /\ R # {} /\ l \notin R => f[l] = NoRow /\ h[l] = NoRow
          /\ b > 0 /\ R = {} =>
               IF l = Reconciled /\ m \notin unknown THEN f[l] # NoRow /\ f[l].amount = b
               ELSE f[l] = NoRow
    <3>1. \A l \in Labels : l \in R <=> h[l] # NoRow
      BY DEF RowsOf
    <3>2. QED
      BY <3>1, ProposedRow
  <2>3. Lot \in Nat \ {0} /\ Cardinality(Labels) < 2 * Lot /\ NoRow.amount = 0
        /\ \A l \in Labels : h[l].amount \in Nat /\ f[l].amount \in Nat
    BY <2>1, RoundingAssumption, ReconciliationAssumption DEF Holdings, Row, NoRow
  <2>4. R # {} => k \in Nat \ {0}
    BY <2>1, FS_EmptySet
  <2>5. b > 0 => RowsOf(f) # {}
    BY <1>2
  <2> HIDE DEF P, h, f, b, T, R, k
  <2>6. CASE b = 0
    <3>1. Total(f) = 0
      BY <2>1, <2>2, <2>3, <2>6, NoRowsNoSum DEF Total
    <3>2. QED
      BY <2>3, <2>6, <3>1 DEF f, b
  <2>7. CASE b > 0 /\ R = {}
    <3>1. Reconciled \in Labels /\ f[Reconciled].amount = b /\ \A l \in Labels \ {Reconciled} : f[l].amount = 0
      BY <2>2, <2>3, <2>5, <2>7 DEF RowsOf, Labels
    <3>2. SumOf(f, Labels \ {Reconciled}) = 0
      BY <2>1, <3>1, NoRowsNoSum
    <3>3. SumOf(f, Labels) = f[Reconciled].amount + SumOf(f, Labels \ {Reconciled})
      <4>1. \A S \in SUBSET Labels : \A l \in S : SumOf(f, S) = f[l].amount + SumOf(f, S \ {l})
        BY <2>1, HoldingSums
      <4>2. QED
        BY <3>1, <4>1
    <3>4. Total(f) = b
      BY <2>1, <3>1, <3>2, <3>3 DEF Total
    <3>5. QED
      BY <2>1, <2>3, <3>4 DEF f, b
  <2>8. CASE b > 0 /\ R # {} /\ T = b
    <3>1. \A l \in Labels : f[l].amount = h[l].amount
      BY <2>2, <2>8
    <3>2. Total(f) = b
      BY <2>8, <3>1, SameSum DEF Total, T
    <3>3. QED
      BY <2>1, <2>3, <3>2 DEF f, b
  <2>9. CASE b > 0 /\ R # {} /\ T # b /\ T > 0
    <3>1. ASSUME NEW l \in Labels
          PROVE  /\ (2 * T) * f[l].amount <= 2 * (b * h[l].amount) + T
                 /\ 2 * (b * h[l].amount) <= (2 * T) * f[l].amount + T
      <4>1. CASE l \in R
        <5>1. f[l].amount = HalfEven(b * h[l].amount, T)
          BY <2>2, <2>9, <4>1
        <5>2. b * h[l].amount \in Nat /\ T \in Nat \ {0}
          BY <2>1, <2>3, <2>9
        <5>3. QED
          BY <5>1, <5>2, HalfEvenNear
      <4>2. CASE l \notin R
        <5>1. f[l].amount = 0 /\ h[l].amount = 0
          BY <2>2, <2>3, <2>9, <4>2
        <5>2. (2 * T) * 0 = 0 /\ 2 * (b * 0) = 0
          BY <2>1
        <5>3. QED
          BY <2>1, <5>1, <5>2
      <4>3. QED
        BY <4>1, <4>2
    <3>2. T \in Nat \ {0} /\ T = Total(h)
      BY <2>1, <2>9 DEF T
    <3>3. Total(f) - b \in (1 - Lot) .. (Lot - 1)
      BY <2>1, <3>1, <3>2, ScaledSum
    <3>4. QED
      BY <3>3 DEF f, b
  <2>10. CASE b > 0 /\ R # {} /\ T # b /\ T = 0
    <3> DEFINE n == HalfEven(b, k)
    <3>1. n \in Nat /\ (2 * k) * n <= 2 * b + k /\ 2 * b <= (2 * k) * n + k
      BY <2>1, <2>4, <2>10, HalfEvenNear
    <3>2. (\A l \in R : f[l].amount = n) /\ \A l \in Labels \ R : f[l].amount = 0
      BY <2>1, <2>2, <2>3, <2>10
    <3> HIDE DEF n
    <3>3. SumOf(f, R) = n * k
      <4>1. [l \in R |-> f[l].amount] = [l \in R |-> n]
        BY <3>2
      <4>2. n \in Int
        BY <3>1
      <4>3. SumFunction([l \in R |-> n]) = n * k
        BY ONLY <2>1, <4>2, SumConst, Zenon DEF k
      <4>4. QED
        BY <4>1, <4>3 DEF SumOf
    <3>4. SumOf(f, Labels \ R) = 0
      BY <2>1, <3>2, NoRowsNoSum
    <3>5. Total(f) = SumOf(f, R) + SumOf(f, Labels \ R)
      BY <2>1, HoldingSums DEF Total
    <3>6. n * k \in Nat /\ (2 * k) * n = 2 * (n * k)
      BY <2>1, <3>1
    <3>7. Total(f) = n * k
      BY <3>3, <3>4, <3>5, <3>6
    <3>8. 2 * Total(f) <= 2 * b + k /\ 2 * b <= 2 * Total(f) + k /\ Total(f) \in Nat
      BY <3>1, <3>6, <3>7
    <3>9. Total(f) - b \in (1 - Lot) .. (Lot - 1)
      <4> DEFINE N == Cardinality(Labels)
                 sum == Total(f)
      <4>1. k <= N /\ N < 2 * Lot /\ N \in Nat /\ k \in Nat /\ Lot \in Nat /\ b \in Nat
        BY <2>1, <2>3, LabelsFinite
      <4>2. 2 * sum <= 2 * b + k /\ 2 * b <= 2 * sum + k /\ sum \in Nat
        BY <3>8
      <4> HIDE DEF N, sum
      <4>3. sum - b \in (1 - Lot) .. (Lot - 1)
        BY ONLY <4>1, <4>2
      <4>4. QED
        BY <4>3 DEF sum
    <3>10. QED
      BY <3>9 DEF f, b
  <2>11. QED
    BY <2>1, <2>6, <2>7, <2>8, <2>9, <2>10
<1>3. QED
  BY <1>1, <1>2

-----------------------------------------------------------------------------
(* Lots and amounts are naturals.                                          *)
LEMMA UnitsNat == Units \subseteq Nat /\ 0 \in Units /\ Lot \in Nat \ {0}
<1>1. Lot * MaxLots \in Nat
  BY ReconciliationAssumption
<1>2. QED
  BY <1>1, ReconciliationAssumption DEF Units

(* What booking the open order does to the positions table.                *)
LEMMA ApplyTotal ==
  ASSUME rows \in [Mints -> Holdings], order \in Orders, Apply
  PROVE  /\ rows' \in [Mints -> Holdings]
         /\ \A k \in Mints \ {order.mint} : rows'[k] = rows[k]
         /\ order.side = "buy" => Total(rows'[order.mint]) = Total(rows[order.mint]) + order.amount
         /\ order.side # "buy" =>
              Total(rows'[order.mint]) = IF Total(rows[order.mint]) >= order.amount
                                         THEN Total(rows[order.mint]) - order.amount ELSE 0
<1>1. order.mint \in Mints /\ order.label \in Labels /\ order.amount \in Nat
  BY DEF Orders
<1>2. CASE order.side = "buy"
  <2>1. Add(order.mint, order.label, order.amount)
    BY <1>2 DEF Apply
  <2>2. /\ rows' \in [Mints -> Holdings]
        /\ Total(rows'[order.mint]) = Total(rows[order.mint]) + order.amount
        /\ \A k \in Mints \ {order.mint} : rows'[k] = rows[k]
    BY <1>1, <2>1, AddTotal
  <2>3. QED
    BY <1>2, <2>2
<1>3. CASE order.side # "buy"
  <2>1. Sub(order.mint, order.label, order.amount)
    BY <1>3 DEF Apply
  <2>2. /\ rows' \in [Mints -> Holdings]
        /\ Total(rows'[order.mint]) = IF Total(rows[order.mint]) >= order.amount
                                      THEN Total(rows[order.mint]) - order.amount ELSE 0
        /\ \A k \in Mints \ {order.mint} : rows'[k] = rows[k]
    BY <1>1, <2>1, SubTotal
  <2>3. QED
    BY <1>3, <2>2
<1>4. QED
  BY <1>2, <1>3

(* The exit rule of an entry changes no amount.                            *)
LEMMA SetExitTotal ==
  ASSUME rows \in [Mints -> Holdings], SetExit
  PROVE  rows' \in [Mints -> Holdings] /\ \A m \in Mints : Total(rows'[m]) = Total(rows[m])
<1>1. rows' = [m \in Mints |-> [l \in Labels |->
                IF <<m, l>> \in entered /\ m \notin HoldMints /\ rows[m][l] # NoRow
                THEN [rows[m][l] EXCEPT !.exit = "rule"] ELSE rows[m][l]]]
  BY DEF SetExit
<1>2. \A m \in Mints, l \in Labels : rows[m][l] \in Row \cup {NoRow}
  BY DEF Holdings
<1>3. \A r \in Row : [r EXCEPT !.exit = "rule"] \in Row /\ [r EXCEPT !.exit = "rule"].amount = r.amount
  BY DEF Row
<1>4. \A m \in Mints, l \in Labels : /\ rows'[m][l] \in Row \cup {NoRow}
                                     /\ rows'[m][l].amount = rows[m][l].amount
  BY <1>1, <1>2, <1>3
<1>5. rows' = [m \in Mints |-> [l \in Labels |-> rows'[m][l]]]
  BY <1>1
<1>6. rows' \in [Mints -> Holdings]
  BY <1>4, <1>5 DEF Holdings
<1>7. \A m \in Mints : Total(rows'[m]) = Total(rows[m])
  BY <1>4, SameSum DEF Total
<1>8. QED
  BY <1>6, <1>7

(* Every action keeps the variables in their domains.                      *)
LEMMA TypeStep == TypeOK /\ [Next]_vars => TypeOK'
<1> SUFFICES ASSUME TypeOK, [Next]_vars PROVE TypeOK'
  OBVIOUS
<1> USE DEF TypeOK, agent, command, counts
<1>1. ASSUME NEW m \in Mints, NEW n \in {Lot * i : i \in 0 .. MaxLots}, Hand(m, n) PROVE TypeOK'
  <2>1. n \in Units
    BY ReconciliationAssumption DEF Units
  <2>2. wallet' \in [Mints -> Units] /\ hands' \in 0 .. MaxHand /\ trusted' \subseteq Mints
    BY <1>1, <2>1, ReconciliationAssumption DEF Hand
  <2>3. QED
    BY <1>1, <2>2 DEF Hand
<1>2. CASE Land
  <2>1. order' \in Orders /\ order' # NoOrder
    BY <1>2, ReconciliationAssumption DEF Land, Open, Orders
  <2>2. wallet' \in [Mints -> Units]
    BY <1>2 DEF Land
  <2>3. QED
    BY <1>2, <2>1, <2>2 DEF Land
<1>3. CASE Fail
  <2>1. order' \in Orders /\ order' # NoOrder
    BY <1>3, ReconciliationAssumption DEF Fail, Open, Orders
  <2>2. QED
    BY <1>3, <2>1 DEF Fail
<1>4. CASE Finalize
  <2>1. rows' \in [Mints -> Holdings]
    BY <1>4, ApplyTotal DEF Finalize, Open
  <2>2. order' \in Orders \cup {NoOrder} /\ (tick = "sent" => order' # NoOrder)
    BY <1>4, ReconciliationAssumption DEF Finalize, Open, Orders
  <2>3. QED
    BY <1>4, <2>1, <2>2 DEF Finalize
<1>5. CASE Drop
  BY <1>5 DEF Drop
<1>6. CASE Begin
  BY <1>6 DEF Begin
<1>7. CASE Skip
  BY <1>7 DEF Skip
<1>8. CASE ReadChain
  BY <1>8 DEF ReadChain
<1>9. CASE Compare
  BY <1>9 DEF Compare, Missed
<1>10. CASE CannotReconcile
  BY <1>10 DEF CannotReconcile, Missed
<1>11. ASSUME NEW o \in Orders, Send(o) PROVE TypeOK'
  <2>1. order' \in Orders /\ order' # NoOrder /\ orders' \in 0 .. MaxOrders
    BY <1>11, ReconciliationAssumption DEF Send
  <2>2. QED
    BY <1>11, <2>1 DEF Send
<1>12. ASSUME NEW m \in Mints, NEW l \in Strategies, Enter(m, l) PROVE TypeOK'
  <2>1. [side |-> "buy", mint |-> m, label |-> l, amount |-> Lot, fate |-> "flying"] \in Orders
    BY ReconciliationAssumption DEF Orders, Labels
  <2>2. QED
    BY <1>11, <1>12, <2>1 DEF Enter
<1>13. ASSUME NEW m \in Mints, NEW l \in Labels, Exit(m, l) PROVE TypeOK'
  <2>1. [side |-> "sell", mint |-> m, label |-> l, amount |-> wallet[m], fate |-> "flying"] \in Orders
    BY UnitsNat DEF Orders
  <2>2. QED
    BY <1>11, <1>13, <2>1 DEF Exit
<1>14. CASE Book
  <2>1. rows' \in [Mints -> Holdings]
    BY <1>14, ApplyTotal DEF Book, Open
  <2>2. order.mint \in Mints /\ order.label \in Labels
    BY <1>14 DEF Book, Open, Orders
  <2>3. entered' \in SUBSET (Mints \X Labels) /\ (entered' # {} => tick' = "rule")
    BY <1>14, <2>2 DEF Book
  <2>4. order' \in Orders \cup {NoOrder} /\ tick' \in {"rule", "trade"}
    BY <1>14 DEF Book
  <2>5. QED
    BY <1>14, <2>1, <2>3, <2>4 DEF Book
<1>15. CASE SetExit
  <2>1. rows' \in [Mints -> Holdings]
    BY <1>15, SetExitTotal
  <2>2. QED
    BY <1>15, <2>1 DEF SetExit
<1>16. CASE LoseSight
  BY <1>16 DEF LoseSight
<1>17. CASE End
  BY <1>17 DEF End
<1>18. CASE Crash
  BY <1>18, ReconciliationAssumption DEF Crash
<1>19. CASE AcceptReads
  BY <1>19, ReconciliationAssumption DEF AcceptReads
<1>20. CASE AcceptProposes
  <2>1. chain \in [Mints -> Nat]
    BY <1>20, UnitsNat DEF AcceptProposes
  <2>2. proposed' \in [Mints -> Holdings]
    <3>1. PICK unknown \in SUBSET (Mints \ HoldMints) : proposed' = Propose(chain, unknown)
      BY <1>20 DEF AcceptProposes
    <3>2. unknown \in SUBSET Mints
      OBVIOUS
    <3>3. QED
      BY <2>1, <3>1, <3>2, ProposeTotal
  <2>3. QED
    BY <1>20, <2>2 DEF AcceptProposes
<1>21. CASE AcceptWrites
  <2>1. trusted' \subseteq Mints
    BY <1>21 DEF AcceptWrites
  <2>2. QED
    BY <1>21, <2>1 DEF AcceptWrites
<1>22. CASE AcceptResets
  BY <1>22 DEF AcceptResets
<1>23. CASE AcceptFails
  BY <1>23 DEF AcceptFails
<1>24. CASE UNCHANGED vars
  BY <1>24 DEF vars
<1>25. QED
  BY <1>1, <1>2, <1>3, <1>4, <1>5, <1>6, <1>7, <1>8, <1>9, <1>10, <1>12, <1>13, <1>14, <1>15,
     <1>16, <1>17, <1>18, <1>19, <1>20, <1>21, <1>22, <1>23, <1>24 DEF Next

(* While nothing has moved, what --accept read and computed stays true:    *)
(* every action that moves the chain, the table or the open order says so. *)
LEMMA AcceptStep == TypeOK /\ AcceptCurrent /\ [Next]_vars => AcceptCurrent'
<1> SUFFICES ASSUME TypeOK, AcceptCurrent, [Next]_vars PROVE AcceptCurrent'
  OBVIOUS
<1> DEFINE calm == ~settled' \/ accept' \notin {"read", "write"}
           still == /\ UNCHANGED <<wallet, rows, command, settled>>
                    /\ ~Open("landed") => ~Open("landed")'
<1>1. calm => AcceptCurrent'
  BY DEF AcceptCurrent
<1>2. still => AcceptCurrent'
  <2> SUFFICES ASSUME still PROVE AcceptCurrent'
    OBVIOUS
  <2>1. ASSUME NEW unknown PROVE Propose(chain, unknown)' = Propose(chain, unknown)
    BY DEF Propose, TakenOver, Scaled, Total, SumOf, RowsOf, command
  <2>2. QED
    BY <2>1 DEF AcceptCurrent, command
<1> HIDE DEF still
<1>3. ASSUME NEW m \in Mints, NEW n \in {Lot * i : i \in 0 .. MaxLots}, Hand(m, n) PROVE calm
  BY <1>3 DEF Hand
<1>4. ASSUME Land \/ Finalize \/ Book \/ SetExit PROVE calm
  BY <1>4 DEF Land, Finalize, Book, SetExit
<1>5. ASSUME Fail \/ Drop PROVE still
  <2>1. Fail => ~Open("landed")'
    BY DEF Fail, Open, TypeOK, Orders
  <2>2. QED
    BY <1>5, <2>1 DEF Fail, Drop, still, command, Open
<1>6. ASSUME Begin \/ Skip \/ ReadChain \/ Compare \/ CannotReconcile \/ End PROVE still
  BY <1>6 DEF Begin, Skip, ReadChain, Compare, CannotReconcile, End, still, Open
<1>7. ASSUME NEW m \in Mints, NEW l \in Labels, Enter(m, l) \/ Exit(m, l) PROVE calm
  BY <1>7 DEF Enter, Exit, Send
<1>8. ASSUME LoseSight \/ Crash PROVE still
  BY <1>8 DEF LoseSight, Crash, still, Open, command
<1>9. ASSUME AcceptReads PROVE AcceptCurrent'
  BY <1>9 DEF AcceptReads, AcceptCurrent, Open
<1>10. ASSUME AcceptProposes PROVE AcceptCurrent'
  <2>1. PICK unknown \in SUBSET (Mints \ HoldMints) : proposed' = Propose(chain, unknown)
    BY <1>10 DEF AcceptProposes
  <2>2. Propose(chain, unknown)' = Propose(chain, unknown)
    BY <1>10 DEF AcceptProposes, Propose, TakenOver, Scaled, Total, SumOf, RowsOf
  <2>3. settled => chain = wallet /\ ~Open("landed")
    BY <1>10 DEF AcceptProposes, AcceptCurrent
  <2>4. QED
    BY <1>10, <2>1, <2>2, <2>3 DEF AcceptProposes, AcceptCurrent, Open
<1>11. ASSUME AcceptWrites \/ AcceptResets \/ AcceptFails PROVE calm
  BY <1>11 DEF AcceptWrites, AcceptResets, AcceptFails
<1>12. ASSUME UNCHANGED vars PROVE still
  BY <1>12 DEF vars, still, Open, command
<1> HIDE DEF calm
<1>13. Strategies \subseteq Labels
  BY DEF Labels
<1>14. QED
  BY <1>1, <1>2, <1>3, <1>4, <1>5, <1>6, <1>7, <1>8, <1>9, <1>10, <1>11, <1>12, <1>13 DEF Next

(* An empty table, no balances, nothing open.                              *)
LEMMA ReconciliationInit == Init => IInv /\ BooksFollowChain
<1> SUFFICES ASSUME Init PROVE IInv /\ BooksFollowChain
  OBVIOUS
<1>1. rows \in [Mints -> Holdings] /\ \A m \in Mints : Total(rows[m]) = 0
  <2>1. rows \in [Mints -> Holdings]
    BY DEF Init, Holdings
  <2>2. \A m \in Mints : \A l \in Labels : rows[m][l].amount = 0
    BY DEF Init, NoRow
  <2>3. QED
    BY <2>1, <2>2, NoRowsNoSum DEF Total
<1>2. TypeOK
  <2>1. wallet \in [Mints -> Units]
    BY UnitsNat DEF Init
  <2>2. /\ orders \in 0 .. MaxOrders /\ hands \in 0 .. MaxHand
        /\ accepts \in 0 .. MaxAccepts /\ crashes \in 0 .. MaxCrashes
    BY ReconciliationAssumption DEF Init
  <2>3. misses \in 0 .. 2 /\ file \in 0 .. 2
    BY DEF Init
  <2>4. /\ order = NoOrder /\ tick = "idle" /\ entered = {} /\ checking = NoRead
        /\ accept = "idle" /\ chain = NoRead /\ proposed = NoRead /\ trusted = Mints
    BY Zenon DEF Init
  <2>5. settled \in BOOLEAN
    BY Zenon DEF Init
  <2>6. QED
    BY <1>1, <2>1, <2>2, <2>3, <2>4, <2>5 DEF TypeOK
<1>3. AcceptCurrent
  BY DEF Init, AcceptCurrent
<1>4. BooksFollowChain
  BY <1>1, UnitsNat DEF Init, BooksFollowChain, Owed, Open
<1>5. QED
  BY <1>2, <1>3, <1>4 DEF IInv

(* The invariant of the reconciliation holds in every reachable state.     *)
THEOREM ReconciliationCorrect == Spec => []IInv
<1>1. Init => IInv
  BY ReconciliationInit
<1>2. IInv /\ [Next]_vars => IInv'
  BY TypeStep, AcceptStep DEF IInv
<1>3. QED
  BY <1>1, <1>2, PTL DEF Spec

-----------------------------------------------------------------------------
(* By how much the table, once the open order is booked, exceeds the chain. *)
Excess(m) == Total(rows[m]) + Owed(m) - wallet[m]

(* What the parts of the difference are.                                   *)
LEMMA ExcessTyped ==
  ASSUME TypeOK, NEW m \in Mints
  PROVE  Total(rows[m]) \in Nat /\ Owed(m) \in Int /\ wallet[m] \in Nat
<1>1. rows[m] \in Holdings /\ wallet[m] \in Nat
  BY UnitsNat DEF TypeOK
<1>2. Owed(m) \in Int
  BY DEF TypeOK, Owed, Open, Orders
<1>3. QED
  BY <1>1, <1>2, HoldingSums DEF Total

(* Booking an order that landed: what was owed is in the table, but for    *)
(* what a sell finds no row to take from, and then the mint's rows are     *)
(* gone while its wallet holds what the table failed to say.               *)
LEMMA ExcessBooked ==
  ASSUME TypeOK, Open("landed"), Apply, UNCHANGED wallet, ~Open("landed")', NEW m \in Mints,
         Excess(m) \in (1 - Lot) .. (Lot - 1)
  PROVE  Excess(m)' \in (1 - Lot) .. (Lot - 1)
<1> DEFINE t == Total(rows[m])
           u == Total(rows'[m])
           w == wallet[m]
           o == order.amount
<1>1. /\ order \in Orders /\ order.amount \in Nat /\ rows \in [Mints -> Holdings]
      /\ t \in Nat /\ w \in Nat /\ Lot \in Nat \ {0}
  BY ExcessTyped, UnitsNat DEF TypeOK, Open, Orders
<1>2. Excess(m)' = u - w
  <2>1. Owed(m)' = 0 /\ wallet'[m] = w
    BY DEF Owed
  <2>2. u \in Nat
    BY <1>1, ApplyTotal, HoldingSums DEF Total
  <2>3. Excess(m)' = u + Owed(m)' - wallet'[m]
    BY DEF Excess, Total, SumOf
  <2> HIDE DEF u, w
  <2>4. QED
    BY <1>1, <2>1, <2>2, <2>3
<1>3. CASE order.mint # m
  <2>1. rows'[m] = rows[m]
    BY <1>1, <1>3, ApplyTotal
  <2>2. Excess(m) = t + 0 - w
    BY <1>3 DEF Excess, Owed
  <2> HIDE DEF w
  <2>3. QED
    BY <1>1, <1>2, <2>1, <2>2
<1>4. CASE order.mint = m /\ order.side = "buy"
  <2>1. u = t + o
    BY <1>1, <1>4, ApplyTotal
  <2>2. Excess(m) = t + o - w
    BY <1>4 DEF Excess, Owed
  <2> HIDE DEF t, u, w
  <2>3. QED
    BY <1>1, <1>2, <2>1, <2>2
<1>5. CASE order.mint = m /\ order.side # "buy"
  <2>1. u = IF t >= o THEN t - o ELSE 0
    BY <1>1, <1>5, ApplyTotal
  <2>2. Excess(m) = t + (0 - o) - w
    BY <1>5 DEF Excess, Owed
  <2>3. o \in Nat
    BY <1>1
  <2> HIDE DEF t, u, w, o
  <2>4. QED
    BY <1>1, <1>2, <2>1, <2>2, <2>3
<1>6. QED
  BY <1>3, <1>4, <1>5

(* Where rows, chain and debt of a mint are the same, so is the difference. *)
LEMMA ExcessSame ==
  ASSUME TypeOK, NEW m \in Mints, wallet'[m] = wallet[m], Owed(m)' = Owed(m),
         Total(rows'[m]) = Total(rows[m])
  PROVE  Excess(m)' = Excess(m)
<1>1. Excess(m)' = Total(rows'[m]) + Owed(m)' - wallet'[m]
  BY DEF Excess, Total, SumOf
<1>2. QED
  BY <1>1 DEF Excess

(* Every action keeps the table within a rounding of the chain.            *)
LEMMA BooksStep == IInv /\ BooksFollowChain /\ [Next]_vars => BooksFollowChain'
<1> SUFFICES ASSUME IInv, BooksFollowChain, [Next]_vars PROVE BooksFollowChain'
  OBVIOUS
<1> DEFINE near(m) == Excess(m) \in (1 - Lot) .. (Lot - 1)
           still(m) == /\ wallet'[m] = wallet[m] /\ Owed(m)' = Owed(m)
                       /\ Total(rows'[m]) = Total(rows[m])
<1>1. TypeOK /\ AcceptCurrent /\ TypeOK'
  BY TypeStep DEF IInv
<1>2. trusted \subseteq Mints /\ trusted' \subseteq Mints
  BY <1>1 DEF TypeOK
<1>3. \A m \in trusted : near(m)
  BY DEF BooksFollowChain, Excess
<1>4. (\A m \in trusted' : Excess(m)' \in (1 - Lot) .. (Lot - 1)) => BooksFollowChain'
  BY DEF BooksFollowChain, Excess
<1>5. trusted' \subseteq trusted /\ (\A m \in trusted' : still(m)) => BooksFollowChain'
  <2> SUFFICES ASSUME trusted' \subseteq trusted, \A m \in trusted' : still(m)
               PROVE  \A m \in trusted' : Excess(m)' \in (1 - Lot) .. (Lot - 1)
    BY <1>4
  <2>1. \A m \in trusted' : Excess(m)' = Excess(m)
    BY <1>1, <1>2, ExcessSame
  <2>2. QED
    BY <1>3, <2>1
<1> DEFINE same == UNCHANGED <<wallet, rows, trusted>> /\ (\A m \in Mints : Owed(m)' = Owed(m))
<1>6. same => BooksFollowChain'
  BY <1>2, <1>5
<1> HIDE DEF near, same
<1>7. UNCHANGED order => \A m \in Mints : Owed(m)' = Owed(m)
  BY DEF Owed, Open
<1>8. ~Open("landed") /\ ~Open("landed")' => \A m \in Mints : Owed(m)' = Owed(m)
  BY DEF Owed
<1>9. ASSUME NEW m \in Mints, NEW n \in {Lot * i : i \in 0 .. MaxLots}, Hand(m, n)
      PROVE  BooksFollowChain'
  <2>1. \A k \in trusted' : k \in Mints /\ k # m
    BY <1>2, <1>9 DEF Hand
  <2>2. \A k \in Mints \ {m} : wallet'[k] = wallet[k] /\ rows'[k] = rows[k]
    BY <1>1, <1>9 DEF Hand, TypeOK
  <2>3. trusted' \subseteq trusted /\ UNCHANGED order
    BY <1>9 DEF Hand
  <2>4. QED
    BY <1>5, <1>7, <2>1, <2>2, <2>3
<1>10. CASE Land
  <2>1. /\ order \in Orders /\ order.fate = "flying" /\ order.mint \in Mints
        /\ order.amount \in Nat
    BY <1>1, <1>10 DEF Land, Open, TypeOK, Orders
  <2>2. order' # NoOrder /\ order'.fate = "landed" /\ order'.mint = order.mint
        /\ order'.side = order.side /\ order'.amount = order.amount
    <3>1. order' = [order EXCEPT !.fate = "landed"]
      BY <1>10 DEF Land
    <3>2. order' \in Orders
      BY <2>1, <3>1 DEF Orders
    <3>3. QED
      BY <2>1, <3>1, <3>2, ReconciliationAssumption DEF Orders
  <2>3. UNCHANGED <<rows, trusted>>
    BY <1>10 DEF Land
  <2>4. ASSUME NEW m \in trusted PROVE Excess(m)' = Excess(m)
    <3>1. m \in Mints
      BY <1>2
    <3>2. Owed(m) = 0
      BY <2>1 DEF Owed, Open
    <3>3. Owed(m)' = IF order.mint = m THEN IF order.side = "buy" THEN order.amount
                                           ELSE 0 - order.amount
                     ELSE 0
      BY <2>2 DEF Owed, Open
    <3>4. wallet'[m] = IF order.mint = m THEN IF order.side = "buy" THEN wallet[m] + order.amount
                                             ELSE wallet[m] - order.amount
                       ELSE wallet[m]
      BY <1>1, <1>10, <3>1 DEF Land, TypeOK
    <3>5. Total(rows[m]) \in Nat /\ wallet[m] \in Nat
      BY <1>1, <3>1, ExcessTyped
    <3>6. Excess(m)' = Total(rows[m]) + Owed(m)' - wallet'[m]
      BY <2>3 DEF Excess, Total, SumOf
    <3>7. Excess(m) = Total(rows[m]) + Owed(m) - wallet[m]
      BY DEF Excess
    <3>8. QED
      BY <2>1, <3>2, <3>3, <3>4, <3>5, <3>6, <3>7
  <2>5. QED
    BY <1>3, <1>4, <2>3, <2>4 DEF near
<1>11. CASE Fail
  <2>1. ~Open("landed") /\ ~Open("landed")'
    BY <1>1, <1>11 DEF Fail, Open, TypeOK, Orders
  <2>2. QED
    BY <1>6, <1>8, <1>11, <2>1 DEF Fail, same
<1>12. ASSUME Open("landed"), Apply, UNCHANGED <<wallet, trusted>>, ~Open("landed")'
       PROVE  BooksFollowChain'
  <2>1. \A m \in trusted : Excess(m)' \in (1 - Lot) .. (Lot - 1)
    BY <1>1, <1>2, <1>3, <1>12, ExcessBooked DEF near
  <2>2. QED
    BY <1>4, <1>12, <2>1
<1>13. CASE Finalize
  <2>1. ~Open("landed")'
    BY <1>1, <1>13 DEF Finalize, Open, TypeOK, Orders
  <2>2. QED
    BY <1>12, <1>13, <2>1 DEF Finalize
<1>14. CASE Drop
  <2>1. ~Open("landed") /\ ~Open("landed")'
    BY <1>14 DEF Drop, Open
  <2>2. QED
    BY <1>6, <1>8, <1>14, <2>1 DEF Drop, same
<1>15. CASE Begin \/ Skip \/ ReadChain \/ Compare \/ CannotReconcile \/ End
  BY <1>6, <1>7, <1>15 DEF Begin, Skip, ReadChain, Compare, CannotReconcile, End, same
<1>16. ASSUME NEW o, o.fate = "flying", Send(o) PROVE BooksFollowChain'
  <2>1. ~Open("landed") /\ ~Open("landed")'
    BY <1>16 DEF Send, Open
  <2>2. QED
    BY <1>6, <1>8, <1>16, <2>1 DEF Send, same
<1>17. ASSUME NEW m \in Mints, NEW l \in Labels, Enter(m, l) \/ Exit(m, l)
       PROVE  BooksFollowChain'
  BY <1>16, <1>17 DEF Enter, Exit
<1>18. CASE Book
  <2>1. ~Open("landed")' /\ UNCHANGED <<wallet, trusted>>
    BY <1>18 DEF Book, Open
  <2>2. CASE Open("landed")
    BY <1>12, <1>18, <2>1, <2>2 DEF Book, Open
  <2>3. CASE ~Open("landed")
    <3>1. UNCHANGED rows
      BY <1>18, <2>3 DEF Book, Open
    <3>2. QED
      BY <1>6, <1>8, <2>1, <2>3, <3>1 DEF same
  <2>4. QED
    BY <2>2, <2>3
<1>19. CASE SetExit
  <2>1. \A m \in Mints : Total(rows'[m]) = Total(rows[m])
    BY <1>1, <1>19, SetExitTotal DEF TypeOK
  <2>2. UNCHANGED <<wallet, order, trusted>>
    BY <1>19 DEF SetExit
  <2>3. QED
    BY <1>2, <1>5, <1>7, <2>1, <2>2
<1>20. CASE LoseSight \/ Crash
  <2>1. UNCHANGED order \/ (~Open("landed") /\ ~Open("landed")')
    BY <1>20 DEF LoseSight, Crash, Open
  <2>2. QED
    BY <1>6, <1>7, <1>8, <1>20, <2>1 DEF LoseSight, Crash, same
<1>21. CASE AcceptReads \/ AcceptProposes \/ AcceptResets \/ AcceptFails
  BY <1>6, <1>7, <1>21 DEF AcceptReads, AcceptProposes, AcceptResets, AcceptFails, same
<1>22. CASE AcceptWrites
  <2>1. CASE ~settled
    <3>1. trusted' = {}
      BY <1>22, <2>1 DEF AcceptWrites
    <3>2. QED
      BY <1>4, <3>1
  <2>2. CASE settled
    <3>1. PICK unknown \in SUBSET (Mints \ HoldMints) : proposed = Propose(wallet, unknown)
      BY <1>1, <1>22, <2>2 DEF AcceptCurrent, AcceptWrites
    <3>2. chain = wallet /\ ~Open("landed") /\ rows' = proposed /\ UNCHANGED <<wallet, order>>
      BY <1>1, <1>22, <2>2 DEF AcceptCurrent, AcceptWrites
    <3>3. wallet \in [Mints -> Nat] /\ rows \in [Mints -> Holdings] /\ unknown \in SUBSET Mints
      BY <1>1, UnitsNat DEF TypeOK
    <3>4. \A m \in trusted' : m \in Mints /\ (wallet[m] = 0 \/ RowsOf(Propose(wallet, unknown)[m]) # {})
      BY <1>22, <2>2, <3>1, <3>2 DEF AcceptWrites
    <3>5. \A m \in trusted' : Total(rows'[m]) - wallet[m] \in (1 - Lot) .. (Lot - 1)
      BY <3>1, <3>2, <3>3, <3>4, ProposeTotal
    <3>6. ASSUME NEW m \in trusted' PROVE Excess(m)' = Total(rows'[m]) - wallet[m]
      <4>1. Owed(m)' = 0
        BY <3>2 DEF Owed, Open
      <4>2. Excess(m)' = Total(rows'[m]) + Owed(m)' - wallet'[m]
        BY DEF Excess, Total, SumOf
      <4>3. Total(rows'[m]) \in Nat /\ wallet[m] \in Nat
        <5>1. m \in Mints /\ rows'[m] \in Holdings
          BY <1>1, <1>2 DEF TypeOK
        <5>2. QED
          BY <3>3, <5>1, HoldingSums DEF Total
      <4>4. QED
        BY <3>2, <4>1, <4>2, <4>3
    <3>7. QED
      BY <1>4, <3>5, <3>6
  <2>3. QED
    BY <2>1, <2>2
<1>23. CASE UNCHANGED vars
  BY <1>6, <1>7, <1>23 DEF vars, same
<1>24. Strategies \subseteq Labels
  BY DEF Labels
<1>25. QED
  BY <1>9, <1>10, <1>11, <1>13, <1>14, <1>15, <1>17, <1>18, <1>19, <1>20, <1>21, <1>22, <1>23,
     <1>24 DEF Next

(* The positions table follows the chain within a rounding, for every mint *)
(* nobody moved by hand since the two last agreed: booking by the swap or  *)
(* by either reconcile, crashes, sells of more than the table holds and a  *)
(* settled --accept included.                                              *)
THEOREM BooksAlwaysFollow == Spec => []BooksFollowChain
<1>1. Init => IInv /\ BooksFollowChain
  BY ReconciliationInit
<1>2. IInv /\ BooksFollowChain /\ [Next]_vars => IInv' /\ BooksFollowChain'
  BY TypeStep, AcceptStep, BooksStep DEF IInv
<1>3. QED
  BY <1>1, <1>2, PTL DEF Spec

(* What --accept writes keeps the rows and exit rules of every mint still  *)
(* in the wallet, and gives what it takes over a time stop.                *)
LEMMA ExitsStep ==
  ASSUME IInv, [Next]_vars, accept = "write", accept' = "reset", settled,
         NEW m \in Mints, NEW l \in Labels
  PROVE  /\ rows[m][l] # NoRow /\ wallet[m] > 0 =>
              /\ rows'[m][l] # NoRow
              /\ rows[m][l].exit # "none" => rows'[m][l].exit = rows[m][l].exit
         /\ l = Reconciled /\ m \notin HoldMints /\ rows'[m][l] # NoRow =>
              rows'[m][l].exit # "none"
<1>1. AcceptWrites
  BY DEF Next, Hand, Land, Fail, Finalize, Drop, Begin, Skip, ReadChain, Compare,
     CannotReconcile, Enter, Exit, Send, Book, SetExit, LoseSight, End, Crash, AcceptReads,
     AcceptProposes, AcceptResets, AcceptFails, command, vars
<1>2. PICK unknown \in SUBSET (Mints \ HoldMints) : proposed = Propose(wallet, unknown)
  BY DEF IInv, AcceptCurrent
<1>3. rows' = Propose(wallet, unknown)
  BY <1>1, <1>2 DEF AcceptWrites
<1>4. wallet \in [Mints -> Nat] /\ rows \in [Mints -> Holdings] /\ unknown \in SUBSET Mints
  BY UnitsNat DEF IInv, TypeOK
<1>5. QED
  BY <1>3, <1>4, ProposedRow

(* An --accept nothing disturbed leaves no position without the exit rule  *)
(* it had, and none it takes over without one.                             *)
THEOREM ExitsAlwaysKept == Spec => AcceptKeepsExits
<1>1. IInv /\ [Next]_vars =>
        [accept = "write" /\ accept' = "reset" /\ settled =>
           \A m \in Mints, l \in Labels :
             /\ rows[m][l] # NoRow /\ wallet[m] > 0 =>
                  /\ rows'[m][l] # NoRow
                  /\ rows[m][l].exit # "none" => rows'[m][l].exit = rows[m][l].exit
             /\ l = Reconciled /\ m \notin HoldMints /\ rows'[m][l] # NoRow =>
                  rows'[m][l].exit # "none"]_vars
  BY ExitsStep
<1>2. QED
  BY <1>1, ReconciliationCorrect, PTL DEF Spec, AcceptKeepsExits
=============================================================================
