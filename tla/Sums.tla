------------------------------- MODULE Sums -------------------------------
(***************************************************************************)
(* Facts about SumFunction on finite domains, for the proofs about lots,   *)
(* holdings and cash.  SumFunction is a fold, and a fold is a CHOOSE of a  *)
(* recursive function.  The induction rules of the library take the goal   *)
(* as an operator, which no prover here can be given, so every induction   *)
(* below is an argument about a smallest counterexample: the library's     *)
(* WFMin takes a set, and a set of counterexamples is one.                 *)
(***************************************************************************)
EXTENDS Integers, FiniteSets, FiniteSetTheorems, WellFoundedInduction, Functions, TLAPS

(* The element a fold takes next, and the table of partial sums it         *)
(* defines.                                                                *)
Pick(s) == CHOOSE x \in s : TRUE

IsTable(g, f, S) ==
  g = [s \in SUBSET S |-> IF s = {} THEN 0 ELSE f[Pick(s)] + g[s \ {Pick(s)}]]

Table(f, S) == CHOOSE g : IsTable(g, f, S)

(* A non-empty set of subsets of a finite set has a member that contains   *)
(* no other member: the form of induction on finite sets used here.        *)
LEMMA SmallestSet ==
  ASSUME NEW S, IsFiniteSet(S), NEW B \in SUBSET SUBSET S, B # {}
  PROVE  \E T \in B : \A U \in B : U \subseteq T => U = T
<1>1. IsWellFoundedOn(StrictSubsetOrdering(S), SUBSET S)
  BY FS_StrictSubsetOrderingWellFounded, FS_FiniteSubsetsOfFinite
<1>2. PICK T \in B : \A U \in B : <<U, T>> \notin StrictSubsetOrdering(S)
  BY <1>1, WFMin
<1>3. QED
  BY <1>2 DEF StrictSubsetOrdering

(* A finite set of numbers has a greatest one: the numbers above it are a  *)
(* smallest set.                                                           *)
LEMMA Greatest ==
  ASSUME NEW S, IsFiniteSet(S), S \subseteq Int, S # {}
  PROVE  \E i \in S : \A x \in S : x <= i
<1> DEFINE Above(i) == {j \in S : j > i}
           B == {U \in SUBSET S : \E i \in S : U = Above(i)}
<1>1. PICK T \in B : \A U \in B : U \subseteq T => U = T
  <2>1. B \in SUBSET SUBSET S
    OBVIOUS
  <2>2. B # {}
    OBVIOUS
  <2> HIDE DEF B
  <2>3. QED
    BY ONLY IsFiniteSet(S), <2>1, <2>2, SmallestSet
<1>2. PICK i \in S : T = Above(i)
  OBVIOUS
<1>3. \A x \in S : Above(x) \in B
  OBVIOUS
<1> HIDE DEF B
<1>4. ASSUME NEW x \in S, x > i PROVE FALSE
  <2>1. ASSUME NEW j \in Above(x) PROVE j \in Above(i)
    BY <1>4
  <2>2. x \in Above(i) /\ x \notin Above(x)
    BY <1>4
  <2> HIDE DEF Above
  <2>3. QED
    BY <1>1, <1>2, <1>3, <2>1, <2>2
<1>5. \A x \in S : x <= i
  BY <1>4
<1>6. QED
  BY <1>5

(* A set of naturals has a least one: the furthest below one of them.      *)
LEMMA Smallest ==
  ASSUME NEW S \in SUBSET Nat, S # {}
  PROVE  \E i \in S : \A x \in S : i <= x
<1>1. PICK a \in S : TRUE
  OBVIOUS
<1> DEFINE B == {d \in 0 .. a : a - d \in S}
<1>2. IsFiniteSet(B)
  <2>1. IsFiniteSet(0 .. a) /\ B \in SUBSET (0 .. a)
    BY FS_Interval
  <2> HIDE DEF B
  <2>2. QED
    BY <2>1, FS_Subset
<1>3. B \subseteq Int /\ 0 \in B
  OBVIOUS
<1>4. PICK d \in B : \A x \in B : x <= d
  <2> HIDE DEF B
  <2>1. QED
    BY <1>2, <1>3, Greatest
<1>5. ASSUME NEW x \in S PROVE a - d <= x
  <2>1. CASE x > a
    BY <2>1
  <2>2. CASE x <= a
    <3>1. a - x \in B
      BY <2>2
    <3>2. QED
      BY <1>4, <3>1
  <2>3. QED
    BY <2>1, <2>2
<1>6. QED
  BY <1>5

(* Induction on the naturals, for the set of those of which something      *)
(* holds.                                                                  *)
LEMMA AllNaturals ==
  ASSUME NEW S, 0 \in S, \A n \in Nat : n \in S => n + 1 \in S
  PROVE  \A n \in Nat : n \in S
<1> DEFINE B == {n \in Nat : n \notin S}
<1>1. ASSUME B # {} PROVE FALSE
  <2>1. PICK n \in B : \A x \in B : n <= x
    <3>1. B \in SUBSET Nat
      OBVIOUS
    <3> HIDE DEF B
    <3>2. QED
      BY <1>1, <3>1, Smallest
  <2>2. n # 0 /\ n \in Nat
    OBVIOUS
  <2>3. n - 1 \in Nat /\ n - 1 \notin B
    BY <2>1, <2>2
  <2>4. n - 1 + 1 \in S
    BY <2>3
  <2>5. QED
    BY <2>2, <2>4
<1>2. QED
  BY <1>1

(* SumFunction is the last entry of the table of partial sums.             *)
LEMMA SumIsTable ==
  ASSUME NEW f
  PROVE  SumFunction(f) = Table(f, DOMAIN f)[DOMAIN f]
BY Zenon DEF SumFunction, SumFunctionOnSet, FoldFunctionOnSet, MapThenFoldSet, Table, IsTable, Pick

(* The element taken next is one of the set.                               *)
LEMMA PickIn == ASSUME NEW s, s # {} PROVE Pick(s) \in s
BY DEF Pick

(* Tables of functions that agree on a set agree on its subsets.           *)
LEMMA TablesAgree ==
  ASSUME NEW f, NEW g, NEW S, NEW T, NEW F, NEW G, IsFiniteSet(S),
         IsTable(F, f, S), IsTable(G, g, T), S \subseteq T,
         \A x \in S : f[x] = g[x]
  PROVE  \A s \in SUBSET S : F[s] = G[s]
<1> DEFINE B == {s \in SUBSET S : F[s] # G[s]}
<1> SUFFICES ASSUME B # {} PROVE FALSE
  OBVIOUS
<1>1. PICK s \in B : \A u \in B : u \subseteq s => u = s
  <2>1. B \in SUBSET SUBSET S
    OBVIOUS
  <2> HIDE DEF B
  <2>2. QED BY <2>1, SmallestSet
<1>2. s \in SUBSET S /\ s \in SUBSET T
  OBVIOUS
<1>3. F[s] = IF s = {} THEN 0 ELSE f[Pick(s)] + F[s \ {Pick(s)}]
  BY <1>2 DEF IsTable
<1>4. G[s] = IF s = {} THEN 0 ELSE g[Pick(s)] + G[s \ {Pick(s)}]
  BY <1>2 DEF IsTable
<1>5. s # {}
  BY <1>1, <1>3, <1>4
<1>6. Pick(s) \in s
  BY <1>5, PickIn
<1>7. F[s \ {Pick(s)}] = G[s \ {Pick(s)}]
  BY <1>1, <1>2, <1>6
<1>8. QED
  BY <1>1, <1>2, <1>3, <1>4, <1>6, <1>7

(* Every function has a table on every finite set.                         *)
LEMMA TableExists ==
  ASSUME NEW f, NEW S, IsFiniteSet(S)
  PROVE  IsTable(Table(f, S), f, S)
<1> DEFINE B == {T \in SUBSET S : ~ \E g : IsTable(g, f, T)}
<1> SUFFICES B = {}
  BY DEF Table
<1> SUFFICES ASSUME B # {} PROVE FALSE
  OBVIOUS
<1>1. PICK T \in B : \A U \in B : U \subseteq T => U = T
  <2>1. B \in SUBSET SUBSET S
    OBVIOUS
  <2> HIDE DEF B
  <2>2. QED BY <2>1, SmallestSet
<1>2. T \in SUBSET S /\ ~ \E g : IsTable(g, f, T)
  OBVIOUS
<1> HIDE DEF B
<1>3. \A U \in SUBSET T : U # T => IsTable(Table(f, U), f, U)
  <2> SUFFICES ASSUME NEW U \in SUBSET T, U # T PROVE \E g : IsTable(g, f, U)
    BY DEF Table
  <2>1. U \notin B /\ U \in SUBSET S
    BY <1>1, <1>2
  <2>2. QED BY <2>1 DEF B
<1> DEFINE rest(s) == Table(f, s \ {Pick(s)})[s \ {Pick(s)}]
           h == [s \in SUBSET T |-> IF s = {} THEN 0 ELSE f[Pick(s)] + rest(s)]
<1>4. ASSUME NEW s \in SUBSET T, s # {} PROVE h[s \ {Pick(s)}] = rest(s)
  <2> DEFINE u == s \ {Pick(s)}
  <2>1. Pick(s) \in s
    BY <1>4, PickIn
  <2>2. u \in SUBSET T /\ u # T
    BY <2>1
  <2>3. IsTable(Table(f, u), f, u)
    BY <2>2, <1>3
  <2>4. Table(f, u)[u] = IF u = {} THEN 0 ELSE f[Pick(u)] + Table(f, u)[u \ {Pick(u)}]
    BY <2>3 DEF IsTable
  <2>5. ASSUME u # {} PROVE Table(f, u)[u \ {Pick(u)}] = rest(u)
    <3>1. Pick(u) \in u
      BY <2>5, PickIn
    <3>2. u \ {Pick(u)} \in SUBSET T /\ u \ {Pick(u)} # T
      BY <2>2, <3>1
    <3>3. IsTable(Table(f, u \ {Pick(u)}), f, u \ {Pick(u)})
      BY <3>2, <1>3
    <3>4. IsFiniteSet(u \ {Pick(u)})
      BY <1>2, <2>2, FS_Subset
    <3>5. QED
      BY <2>3, <3>3, <3>4, TablesAgree
  <2>6. h[u] = IF u = {} THEN 0 ELSE f[Pick(u)] + rest(u)
    BY <2>2
  <2>7. QED BY <2>4, <2>5, <2>6
<1>5. IsTable(h, f, T)
  BY <1>4 DEF IsTable
<1>6. QED BY <1>2, <1>5

(* The entries of a table of integers are integers.                        *)
LEMMA TableInt ==
  ASSUME NEW S, IsFiniteSet(S), NEW f \in [S -> Int], NEW F, IsTable(F, f, S)
  PROVE  \A T \in SUBSET S : F[T] \in Int
<1> DEFINE B == {T \in SUBSET S : F[T] \notin Int}
<1> SUFFICES ASSUME B # {} PROVE FALSE
  OBVIOUS
<1>1. PICK T \in B : \A U \in B : U \subseteq T => U = T
  <2>1. B \in SUBSET SUBSET S
    OBVIOUS
  <2> HIDE DEF B
  <2>2. QED BY <2>1, SmallestSet
<1>2. F[T] = IF T = {} THEN 0 ELSE f[Pick(T)] + F[T \ {Pick(T)}]
  BY DEF IsTable
<1>3. T # {}
  BY <1>2
<1>4. Pick(T) \in T
  BY <1>3, PickIn
<1>5. F[T \ {Pick(T)}] \in Int
  BY <1>1, <1>4
<1>6. f[Pick(T)] \in Int
  BY <1>4
<1>7. QED
  BY <1>2, <1>3, <1>5, <1>6

(* The fold may take any element first: addition commutes.                 *)
LEMMA TableAnyOrder ==
  ASSUME NEW S, IsFiniteSet(S), NEW f \in [S -> Int], NEW F, IsTable(F, f, S)
  PROVE  \A T \in SUBSET S : \A x \in T : F[T] = f[x] + F[T \ {x}]
<1> DEFINE B == {T \in SUBSET S : \E x \in T : F[T] # f[x] + F[T \ {x}]}
<1> SUFFICES ASSUME B # {} PROVE FALSE
  OBVIOUS
<1>1. PICK T \in B : \A U \in B : U \subseteq T => U = T
  <2>1. B \in SUBSET SUBSET S
    OBVIOUS
  <2> HIDE DEF B
  <2>2. QED BY <2>1, SmallestSet
<1>2. PICK x \in T : F[T] # f[x] + F[T \ {x}]
  OBVIOUS
<1> DEFINE c == Pick(T)
<1>3. c \in T /\ F[T] = f[c] + F[T \ {c}]
  BY <1>2, PickIn DEF IsTable
<1>4. x # c
  BY <1>2, <1>3
<1>5. F[T \ {c}] = f[x] + F[(T \ {c}) \ {x}]
  <2> DEFINE U == T \ {c}
  <2>1. U \in SUBSET S /\ x \in U /\ U \subseteq T /\ U # T
    BY <1>3, <1>4
  <2> HIDE DEF U, c
  <2>2. U \notin B
    BY <1>1, <2>1
  <2>3. F[U] = f[x] + F[U \ {x}]
    BY <2>1, <2>2
  <2>4. QED
    BY <2>3 DEF U
<1>6. F[T \ {x}] = f[c] + F[(T \ {x}) \ {c}]
  BY <1>1, <1>2, <1>3, <1>4
<1>7. (T \ {x}) \ {c} = (T \ {c}) \ {x}
  OBVIOUS
<1>8. f[x] \in Int /\ f[c] \in Int /\ F[(T \ {c}) \ {x}] \in Int
  <2>1. x \in S /\ c \in S /\ (T \ {c}) \ {x} \in SUBSET S
    BY <1>3
  <2>2. QED BY <2>1, TableInt
<1>9. F[T] = f[c] + (f[x] + F[(T \ {c}) \ {x}])
  BY <1>3, <1>5
<1>10. F[T \ {x}] = f[c] + F[(T \ {c}) \ {x}]
  BY <1>6, <1>7
<1>11. \A i, j, k \in Int : i + (j + k) = j + (i + k)
  OBVIOUS
<1>12. f[c] + (f[x] + F[(T \ {c}) \ {x}]) = f[x] + (f[c] + F[(T \ {c}) \ {x}])
  BY <1>8, <1>11
<1>13. QED
  BY <1>2, <1>9, <1>10, <1>12

(* A finite sum of integers is an integer.                                 *)
LEMMA SumInt ==
  ASSUME NEW S, IsFiniteSet(S), NEW f \in [S -> Int]
  PROVE  SumFunction(f) \in Int
<1>1. IsTable(Table(f, S), f, S)
  BY TableExists
<1>2. Table(f, S)[S] \in Int
  BY <1>1, TableInt
<1>3. QED
  BY <1>2, SumIsTable

(* The sum of f over S is its value at x plus the sum over the others.     *)
SplitAt(f, S, x) == SumFunction(f) = f[x] + SumFunction([y \in S \ {x} |-> f[y]])

(* The sum of f over S is the sum over A plus the sum over the rest.       *)
Divided(f, S, A) ==
  SumFunction(f) = SumFunction([y \in A |-> f[y]]) + SumFunction([y \in S \ A |-> f[y]])

(* Any one summand can be taken out of a finite sum.                       *)
LEMMA SumSplit ==
  ASSUME NEW S, IsFiniteSet(S), NEW f \in [S -> Int], NEW x \in S
  PROVE  SplitAt(f, S, x)
<1> DEFINE R == S \ {x}
           g == [y \in R |-> f[y]]
<1>1. IsFiniteSet(R) /\ R \subseteq S
  BY FS_Subset
<1>2. IsTable(Table(f, S), f, S) /\ IsTable(Table(g, R), g, R)
  BY <1>1, TableExists
<1>3. Table(g, R)[R] = Table(f, S)[R]
  <2>1. \A y \in R : g[y] = f[y]
    OBVIOUS
  <2> HIDE DEF g, R
  <2>2. QED BY <1>1, <1>2, <2>1, TablesAgree
<1>4. Table(f, S)[S] = f[x] + Table(f, S)[R]
  BY <1>2, TableAnyOrder
<1>5. DOMAIN f = S /\ DOMAIN g = R
  OBVIOUS
<1>6. SumFunction(f) = f[x] + SumFunction(g)
  BY <1>3, <1>4, <1>5, SumIsTable
<1>7. QED
  BY <1>6 DEF SplitAt

(* The empty sum is zero.                                                  *)
LEMMA SumEmpty == ASSUME NEW f, DOMAIN f = {} PROVE SumFunction(f) = 0
<1>1. IsTable(Table(f, {}), f, {})
  BY FS_EmptySet, TableExists
<1>2. QED
  BY <1>1, SumIsTable DEF IsTable

(* The sum of a function on one argument is its value there.               *)
LEMMA SumOne ==
  ASSUME NEW x, NEW f \in [{x} -> Int]
  PROVE  SumFunction(f) = f[x]
<1> DEFINE r == [y \in {x} \ {x} |-> f[y]]
<1>1. IsFiniteSet({x}) /\ x \in {x}
  BY FS_Singleton
<1>2. SumFunction(f) = f[x] + SumFunction(r)
  BY <1>1, SumSplit DEF SplitAt
<1>3. SumFunction(r) = 0
  <2>1. DOMAIN r = {}
    OBVIOUS
  <2>2. QED
    BY <2>1, SumEmpty
<1>4. f[x] \in Int
  OBVIOUS
<1>5. QED
  BY <1>2, <1>3, <1>4

(* The sum of f over T.                                                    *)
Part(f, T) == SumFunction([y \in T |-> f[y]])

(* Sums over the parts of a finite set, one element at a time.             *)
LEMMA PartSum ==
  ASSUME NEW S, IsFiniteSet(S), NEW f \in [S -> Int]
  PROVE  /\ Part(f, {}) = 0 /\ Part(f, S) = SumFunction(f)
         /\ \A T \in SUBSET S : Part(f, T) \in Int
         /\ \A T \in SUBSET S : \A x \in T : Part(f, T) = f[x] + Part(f, T \ {x})
<1>1. Part(f, {}) = 0
  BY SumEmpty DEF Part
<1>2. Part(f, S) = SumFunction(f)
  <2>1. [y \in S |-> f[y]] = f
    OBVIOUS
  <2>2. QED BY <2>1 DEF Part
<1>3. ASSUME NEW T \in SUBSET S
      PROVE  Part(f, T) \in Int /\ \A x \in T : Part(f, T) = f[x] + Part(f, T \ {x})
  <2> DEFINE g == [y \in T |-> f[y]]
  <2>1. IsFiniteSet(T) /\ g \in [T -> Int]
    BY FS_Subset
  <2>2. ASSUME NEW x \in T PROVE [y \in T \ {x} |-> g[y]] = [y \in T \ {x} |-> f[y]] /\ g[x] = f[x]
    OBVIOUS
  <2>3. SumFunction(g) \in Int
    <3> HIDE DEF g
    <3>1. QED BY <2>1, SumInt
  <2>4. ASSUME NEW x \in T PROVE SumFunction(g) = g[x] + SumFunction([y \in T \ {x} |-> g[y]])
    <3> HIDE DEF g
    <3>1. SplitAt(g, T, x)
      BY <2>1, SumSplit
    <3>2. QED BY <3>1 DEF SplitAt
  <2>5. QED BY <2>2, <2>3, <2>4 DEF Part
<1>4. QED
  BY <1>1, <1>2, <1>3

(* The sum of f over T is its value at x plus the sum over the others.     *)
SplitPart(f, T, x) == f[x] \in Int /\ Part(f, T) = f[x] + Part(f, T \ {x})

(* So it is for every element of every part.                               *)
LEMMA PartSplit ==
  ASSUME NEW S, IsFiniteSet(S), NEW f \in [S -> Int], NEW T \in SUBSET S, NEW x \in T
  PROVE  SplitPart(f, T, x)
<1>1. Part(f, T) = f[x] + Part(f, T \ {x})
  BY PartSum
<1>2. f[x] \in Int
  OBVIOUS
<1>3. QED
  BY <1>1, <1>2 DEF SplitPart

(* A finite sum of naturals is a natural, at least the sum of any part.    *)
LEMMA SumWithin ==
  ASSUME NEW S, IsFiniteSet(S), NEW f \in [S -> Nat]
  PROVE  /\ SumFunction(f) \in Nat
         /\ \A T \in SUBSET S : SumFunction([y \in T |-> f[y]]) <= SumFunction(f)
<1> DEFINE good(T) == Part(f, T) \in Nat /\ \A U \in SUBSET T : Part(f, U) <= Part(f, T)
           B == {T \in SUBSET S : ~good(T)}
<1>1. f \in [S -> Int]
  OBVIOUS
<1>2. ASSUME B # {} PROVE FALSE
  <2>1. PICK T \in B : \A U \in B : U \subseteq T => U = T
    <3>1. B \in SUBSET SUBSET S
      OBVIOUS
    <3> HIDE DEF B
    <3>2. QED BY <1>2, <3>1, SmallestSet
  <2>2. T \in SUBSET S /\ ~good(T)
    OBVIOUS
  <2>3. ASSUME NEW x \in T PROVE good(T \ {x})
    BY <2>1
  <2>4. ASSUME NEW x \in T PROVE f[x] \in Nat /\ Part(f, T) = f[x] + Part(f, T \ {x})
    BY <1>1, <2>2, PartSum
  <2>5. PICK x \in T : TRUE
    <3>1. Part(f, {}) = 0
      BY <1>1, PartSum
    <3>2. \A U \in SUBSET {} : U = {}
      OBVIOUS
    <3>3. good({})
      BY <3>1, <3>2
    <3>4. QED BY <2>2, <3>3
  <2>6. Part(f, T) \in Nat
    <3>1. Part(f, T \ {x}) \in Nat
      BY <2>3
    <3>2. QED BY <2>4, <3>1
  <2>7. ASSUME NEW U \in SUBSET T, U # T PROVE Part(f, U) <= Part(f, T)
    <3>1. PICK u \in T : u \notin U
      BY <2>7
    <3>2. Part(f, U) <= Part(f, T \ {u}) /\ Part(f, T \ {u}) \in Nat
      BY <2>3, <3>1
    <3>3. Part(f, U) \in Int
      BY <1>1, <2>2, PartSum
    <3>4. QED BY <2>4, <3>2, <3>3
  <2>8. QED BY <2>2, <2>6, <2>7
<1>3. good(S)
  BY <1>2
<1>4. QED
  BY <1>1, <1>3, PartSum DEF Part

(* A finite sum is the sum over a part plus the sum over the rest.         *)
LEMMA SumUnion ==
  ASSUME NEW S, IsFiniteSet(S), NEW f \in [S -> Int], NEW A \in SUBSET S
  PROVE  Divided(f, S, A)
<1> DEFINE B == {T \in SUBSET S : Part(f, S) # Part(f, T) + Part(f, S \ T)}
<1>1. ASSUME B # {} PROVE FALSE
  <2>1. PICK T \in B : \A U \in B : U \subseteq T => U = T
    <3>1. B \in SUBSET SUBSET S
      OBVIOUS
    <3> HIDE DEF B
    <3>2. QED BY <1>1, <3>1, SmallestSet
  <2>2. T \in SUBSET S /\ Part(f, S) # Part(f, T) + Part(f, S \ T)
    OBVIOUS
  <2>3. PICK x \in T : TRUE
    <3>1. S \ {} = S /\ Part(f, S) \in Int /\ Part(f, {}) = 0
      BY PartSum
    <3>2. Part(f, S) = Part(f, {}) + Part(f, S \ {})
      BY <3>1
    <3>3. QED BY <2>2, <3>2
  <2>4. Part(f, S) = Part(f, T \ {x}) + Part(f, S \ (T \ {x}))
    BY <2>1
  <2>5. f[x] \in Int /\ Part(f, T) = f[x] + Part(f, T \ {x})
    BY <2>2, PartSum
  <2>6. Part(f, S \ (T \ {x})) = f[x] + Part(f, S \ T)
    <3> DEFINE U == S \ (T \ {x})
    <3>1. U \ {x} = S \ T /\ x \in U /\ U \in SUBSET S
      BY <2>2, <2>3
    <3> HIDE DEF U
    <3>2. SplitPart(f, U, x)
      BY <3>1, PartSplit
    <3>3. QED BY <3>1, <3>2 DEF U, SplitPart
  <2>7. Part(f, T \ {x}) \in Int /\ Part(f, S \ T) \in Int
    <3>1. T \ {x} \in SUBSET S /\ S \ T \in SUBSET S
      BY <2>2
    <3>2. QED BY <3>1, PartSum
  <2>8. QED BY <2>2, <2>4, <2>5, <2>6, <2>7
<1>2. Part(f, S) = Part(f, A) + Part(f, S \ A)
  BY <1>1
<1>3. QED
  BY <1>2, PartSum DEF Part, Divided

(* Where the values of f are, after multiplication by c, within e of those *)
(* of g multiplied by b, so are the sums, with an e for every element.     *)
LEMMA SumClose ==
  ASSUME NEW S, IsFiniteSet(S), NEW f \in [S -> Int], NEW g \in [S -> Int],
         NEW b \in Int, NEW c \in Int, NEW e \in Int,
         \A x \in S : c * f[x] <= b * g[x] + e /\ b * g[x] <= c * f[x] + e
  PROVE  /\ c * SumFunction(f) <= b * SumFunction(g) + e * Cardinality(S)
         /\ b * SumFunction(g) <= c * SumFunction(f) + e * Cardinality(S)
<1> DEFINE good(T) == /\ c * Part(f, T) <= b * Part(g, T) + e * Cardinality(T)
                      /\ b * Part(g, T) <= c * Part(f, T) + e * Cardinality(T)
           B == {T \in SUBSET S : ~good(T)}
<1>1. ASSUME B # {} PROVE FALSE
  <2>1. PICK T \in B : \A U \in B : U \subseteq T => U = T
    <3>1. B \in SUBSET SUBSET S
      OBVIOUS
    <3> HIDE DEF B
    <3>2. QED BY <1>1, <3>1, SmallestSet
  <2>2. T \in SUBSET S /\ ~good(T)
    OBVIOUS
  <2>3. PICK x \in T : TRUE
    <3>1. Part(f, {}) = 0 /\ Part(g, {}) = 0 /\ Cardinality({}) = 0
      BY PartSum, FS_EmptySet
    <3>2. good({})
      BY <3>1
    <3>3. QED BY <2>2, <3>2
  <2> DEFINE R == T \ {x}
             k == Cardinality(R)
  <2>4. good(R)
    BY <2>1
  <2>5. /\ Part(f, T) = f[x] + Part(f, R) /\ Part(f, R) \in Int /\ f[x] \in Int
        /\ Part(g, T) = g[x] + Part(g, R) /\ Part(g, R) \in Int /\ g[x] \in Int
    <3>1. R \in SUBSET S
      BY <2>2
    <3>2. QED BY <2>2, <3>1, PartSum
  <2>6. Cardinality(T) = k + 1 /\ k \in Int
    <3>1. IsFiniteSet(T)
      BY <2>2, FS_Subset
    <3>2. IsFiniteSet(R) /\ Cardinality(R) = Cardinality(T) - 1
      BY <3>1, FS_RemoveElement
    <3>3. Cardinality(R) \in Nat /\ Cardinality(T) \in Nat
      BY <3>1, <3>2, FS_CardinalityType
    <3>4. QED BY <3>2, <3>3
  <2> HIDE DEF R, k
  <2>7. /\ c * Part(f, R) <= b * Part(g, R) + e * k
        /\ b * Part(g, R) <= c * Part(f, R) + e * k
    BY <2>4 DEF k
  <2>8. c * f[x] <= b * g[x] + e /\ b * g[x] <= c * f[x] + e
    BY <2>2
  <2>9. /\ c * (f[x] + Part(f, R)) = c * f[x] + c * Part(f, R)
        /\ b * (g[x] + Part(g, R)) = b * g[x] + b * Part(g, R)
        /\ e * (k + 1) = e * k + e
    BY <2>5, <2>6
  <2>10. /\ c * f[x] \in Int /\ c * Part(f, R) \in Int /\ b * g[x] \in Int
         /\ b * Part(g, R) \in Int /\ e * k \in Int
    BY <2>5, <2>6
  <2>11. good(T)
    BY <2>5, <2>6, <2>7, <2>8, <2>9, <2>10
  <2>12. QED BY <2>2, <2>11
<1>2. good(S)
  BY <1>1
<1>3. Part(f, S) = SumFunction(f) /\ Part(g, S) = SumFunction(g)
  BY PartSum
<1>4. QED
  BY <1>2, <1>3

(* The sum of one value over a finite set.                                 *)
LEMMA SumConst ==
  ASSUME NEW S, IsFiniteSet(S), NEW n \in Int
  PROVE  SumFunction([x \in S |-> n]) = n * Cardinality(S)
<1> DEFINE f == [x \in S |-> n]
           B == {T \in SUBSET S : Part(f, T) # n * Cardinality(T)}
<1>1. f \in [S -> Int] /\ \A x \in S : f[x] = n
  OBVIOUS
<1>2. ASSUME B # {} PROVE FALSE
  <2> HIDE DEF f
  <2>1. PICK T \in B : \A U \in B : U \subseteq T => U = T
    <3>1. B \in SUBSET SUBSET S
      OBVIOUS
    <3> HIDE DEF B
    <3>2. QED BY <1>2, <3>1, SmallestSet
  <2>2. T \in SUBSET S /\ Part(f, T) # n * Cardinality(T)
    OBVIOUS
  <2>3. PICK x \in T : TRUE
    <3>1. Part(f, {}) = 0 /\ Cardinality({}) = 0
      BY <1>1, PartSum, FS_EmptySet
    <3>2. QED BY <2>2, <3>1
  <2>4. Part(f, T \ {x}) = n * Cardinality(T \ {x})
    BY <2>1
  <2>5. Part(f, T) = n + Part(f, T \ {x})
    <3>1. Part(f, T) = f[x] + Part(f, T \ {x})
      BY <1>1, <2>2, PartSum
    <3>2. QED BY <1>1, <2>2, <3>1
  <2>6. Cardinality(T) = Cardinality(T \ {x}) + 1 /\ Cardinality(T \ {x}) \in Int
    <3>1. IsFiniteSet(T)
      BY <2>2, FS_Subset
    <3>2. QED BY <3>1, FS_RemoveElement, FS_CardinalityType, FS_Subset
  <2>7. QED BY <2>2, <2>4, <2>5, <2>6
<1>3. Part(f, S) = n * Cardinality(S)
  BY <1>2
<1>4. QED
  <2> HIDE DEF f
  <2>1. SumFunction(f) = n * Cardinality(S)
    BY <1>1, <1>3, PartSum
  <2>2. QED BY <2>1 DEF f

(* What is zero outside a part adds nothing.                               *)
LEMMA SumSupport ==
  ASSUME NEW S, IsFiniteSet(S), NEW f \in [S -> Int], NEW A \in SUBSET S,
         \A x \in S \ A : f[x] = 0
  PROVE  SumFunction(f) = SumFunction([y \in A |-> f[y]])
<1> DEFINE R == S \ A
<1>1. SumFunction([y \in R |-> f[y]]) = 0
  <2>1. [y \in R |-> f[y]] = [y \in R |-> 0]
    OBVIOUS
  <2>2. IsFiniteSet(R) /\ Cardinality(R) \in Int
    BY FS_Subset, FS_CardinalityType
  <2> HIDE DEF R
  <2>3. 0 \in Int
    OBVIOUS
  <2>4. SumFunction([y \in R |-> 0]) = 0 * Cardinality(R)
    BY ONLY <2>2, <2>3, SumConst, Zenon
  <2>5. QED BY <2>1, <2>2, <2>4
<1>2. SumFunction([y \in A |-> f[y]]) \in Int
  BY PartSum DEF Part
<1>3. SumFunction(f) = SumFunction([y \in A |-> f[y]]) + SumFunction([y \in R |-> f[y]])
  <2>1. Divided(f, S, A)
    BY SumUnion
  <2>2. QED BY <2>1 DEF Divided
<1> HIDE DEF R
<1>4. QED
  BY <1>1, <1>2, <1>3
=============================================================================
