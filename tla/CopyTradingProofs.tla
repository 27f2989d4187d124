--------------------------- MODULE CopyTradingProofs ---------------------------
(***************************************************************************)
(* For any leaders, signatures, clusterings and windows: what is logged    *)
(* was confirmed, a closed shadow trade is never opened again, a consensus *)
(* is one open trade of enough clusters, and no poll moves a cursor past   *)
(* a signature that is not in the log.                                     *)
(***************************************************************************)
EXTENDS CopyTrading, Sums, FiniteSetTheorems, TLAPS

ShadowOK == shadow \in [Ids -> {"none", "open", "closed"}]
RowOK == row \in [Sigs -> Feeds \cup {"none"}]
NowOK == now \in 0 .. MaxNow

(* OneOpenConsensus, without counting.                                     *)
OnlyOpen ==
  \A m \in Mints : \A t, u \in 0 .. MaxNow :
    IsOpen(Consensus(m, t)) /\ IsOpen(Consensus(m, u)) => t = u

IInv == LoggedIsConfirmed /\ ShadowOK /\ RowOK /\ NowOK /\ OnlyOpen

-----------------------------------------------------------------------------
(* A consensus trade has an id of its own, and so has a copy.              *)
LEMMA IdsDiffer ==
  ASSUME NEW m \in Mints, NEW n \in Mints, NEW t \in 0 .. MaxNow, NEW u \in 0 .. MaxNow
  PROVE  /\ Consensus(m, t) \in Ids
         /\ Consensus(m, t) = Consensus(n, u) => m = n /\ t = u
         /\ \A s : Consensus(m, t) # Copy(s)
<1>1. Consensus(m, t) \in Ids
  BY DEF Ids, ConsensusIds
<1>2. Consensus(m, t) = Consensus(n, u) => m = n /\ t = u
  BY DEF Consensus
<1>3. \A s : Consensus(m, t) # Copy(s)
  BY DEF Consensus, Copy
<1>4. QED
  BY <1>1, <1>2, <1>3

(* Nothing is logged or open at the start, and the feeds have read         *)
(* nothing.                                                                *)
THEOREM InitIInv == Init => IInv
<1> SUFFICES ASSUME Init PROVE IInv
  OBVIOUS
<1>1. row = [s \in Sigs |-> "none"] /\ now = 0 /\ shadow = [i \in Ids |-> "none"]
  BY DEF Init, FeedInit
<1>2. LoggedIsConfirmed /\ RowOK
  BY <1>1 DEF LoggedIsConfirmed, Logged, RowOK
<1>3. NowOK
  BY <1>1, FeedsAssumption DEF NowOK
<1>4. ShadowOK
  BY <1>1 DEF ShadowOK
<1>5. OnlyOpen
  BY <1>1, IdsDiffer DEF OnlyOpen, IsOpen
<1>6. QED
  BY <1>2, <1>3, <1>4, <1>5 DEF IInv

-----------------------------------------------------------------------------
(* What a feed may log.                                                    *)
LEMMA UpsertKeeps ==
  ASSUME IInv, NEW feed \in Feeds, NEW trades \in SUBSET (Executed \cap Swaps),
         Upsert(trades, feed), UNCHANGED at
  PROVE  LoggedIsConfirmed' /\ RowOK'
<1>1. RowOK'
  BY DEF IInv, RowOK, Upsert
<1>2. Logged' \subseteq Logged \cup trades
  BY DEF Logged, Upsert, IInv, RowOK
<1>3. Executed' = Executed
  BY DEF Executed
<1>4. LoggedIsConfirmed'
  BY <1>2, <1>3 DEF IInv, LoggedIsConfirmed, Swaps
<1>5. QED
  BY <1>1, <1>4

(* A swap on chain is new to every feed: it disturbs no row and no trade.  *)
LEMMA ExecuteKeeps ==
  ASSUME IInv, NEW s \in Sigs, Execute(s)
  PROVE  LoggedIsConfirmed'
<1>1. Executed \subseteq Executed'
  BY DEF Execute, Executed
<1>2. Logged' = Logged
  BY DEF Execute, Logged
<1>3. QED
  BY <1>1, <1>2 DEF IInv, LoggedIsConfirmed, Swaps

(* The trades the adapter opens.                                           *)
Opened(view, quoted) ==
  {i \in NewConsensus(Signals(view)) \cup NewCopies(Followed(view)) :
     FreshId(i) /\ MintOfId(i) \in quoted}

(* The adapter opens trades and closes none.                               *)
LEMMA AdaptShadow ==
  ASSUME NEW feed \in Feeds, NEW quoted, Adapt(feed, quoted)
  PROVE  \/ UNCHANGED shadow
         \/ shadow' = [i \in Ids |-> IF i \in Opened(View(feed), quoted) THEN "open" ELSE shadow[i]]
BY DEF Adapt, Book, Opened

(* A consensus signal names a mint that was bought.                        *)
LEMMA SignalsAreMints ==
  ASSUME NEW view
  PROVE  Signals(view) \subseteq Mints
BY DEF Signals

(* An opened consensus is of the present time, of a mint that had none open. *)
LEMMA OpenedConsensus ==
  ASSUME IInv, NEW view, NEW quoted, NEW m \in Mints, NEW t \in 0 .. MaxNow,
         Consensus(m, t) \in Opened(view, quoted)
  PROVE  /\ t = now /\ m \in Signals(view)
         /\ \A u \in 0 .. MaxNow : ~IsOpen(Consensus(m, u))
<1>1. Consensus(m, t) \notin NewCopies(Followed(view))
  BY IdsDiffer DEF NewCopies
<1>2. Consensus(m, t) \in NewConsensus(Signals(view))
  BY <1>1 DEF Opened
<1>3. PICK n \in Signals(view) :
        Consensus(m, t) = Consensus(n, now) /\ \A u \in 0 .. MaxNow : ~IsOpen(Consensus(n, u))
  BY <1>2 DEF NewConsensus
<1>4. n \in Mints /\ now \in 0 .. MaxNow
  BY SignalsAreMints DEF IInv, NowOK
<1>5. m = n /\ t = now
  BY <1>3, <1>4, IdsDiffer
<1>6. QED
  BY <1>3, <1>5

(* The adapter opens a consensus only where none is open.                  *)
LEMMA AdaptKeeps ==
  ASSUME IInv, NEW feed \in Feeds, NEW quoted, Adapt(feed, quoted)
  PROVE  ShadowOK' /\ OnlyOpen'
<1>1. CASE UNCHANGED shadow
  BY <1>1 DEF IInv, ShadowOK, OnlyOpen, IsOpen
<1>2. CASE shadow' = [i \in Ids |-> IF i \in Opened(View(feed), quoted) THEN "open" ELSE shadow[i]]
  <2>1. ShadowOK'
    BY <1>2 DEF IInv, ShadowOK
  <2>2. ASSUME NEW m \in Mints, NEW t \in 0 .. MaxNow, NEW u \in 0 .. MaxNow,
               IsOpen(Consensus(m, t))', IsOpen(Consensus(m, u))'
        PROVE  t = u
    <3>1. /\ Consensus(m, t) \in Opened(View(feed), quoted) \/ IsOpen(Consensus(m, t))
          /\ Consensus(m, u) \in Opened(View(feed), quoted) \/ IsOpen(Consensus(m, u))
      BY <1>2, <2>2, IdsDiffer DEF IsOpen, Consensus
    <3>2. QED
      BY <3>1, OpenedConsensus DEF IInv, OnlyOpen
  <2>3. QED
    BY <2>1, <2>2 DEF OnlyOpen, Mints, Swaps
<1>3. QED
  BY <1>1, <1>2, AdaptShadow

(* An exit closes one open trade.                                          *)
LEMMA MarkAndExitKeeps ==
  ASSUME IInv, NEW i \in Ids, MarkAndExit(i)
  PROVE  ShadowOK' /\ OnlyOpen'
<1>1. ShadowOK'
  BY DEF IInv, ShadowOK, MarkAndExit
<1>2. ASSUME NEW j \in Ids, IsOpen(j)' PROVE IsOpen(j)
  BY <1>2 DEF IInv, ShadowOK, MarkAndExit, IsOpen
<1>3. ASSUME NEW m \in Mints, NEW t \in 0 .. MaxNow, NEW u \in 0 .. MaxNow,
             IsOpen(Consensus(m, t))', IsOpen(Consensus(m, u))'
      PROVE  t = u
  <2>1. Consensus(m, t) \in Ids /\ Consensus(m, u) \in Ids
    BY IdsDiffer
  <2>2. IsOpen(Consensus(m, t)) /\ IsOpen(Consensus(m, u))
    BY <1>2, <1>3, <2>1 DEF IsOpen, Consensus
  <2>3. QED
    BY <2>2 DEF IInv, OnlyOpen
<1>4. QED
  BY <1>1, <1>3 DEF OnlyOpen, Mints, Swaps

(* The invariant depends on four variables.                                *)
LEMMA StutterKeeps ==
  ASSUME IInv, UNCHANGED <<at, row, now, shadow>>
  PROVE  IInv'
<1>1. LoggedIsConfirmed' /\ RowOK'
  BY DEF IInv, LoggedIsConfirmed, Logged, Executed, Swaps, RowOK
<1>2. NowOK' /\ ShadowOK'
  BY DEF IInv, NowOK, ShadowOK
<1>3. OnlyOpen'
  BY DEF IInv, OnlyOpen, IsOpen
<1>4. QED
  BY <1>1, <1>2, <1>3 DEF IInv

(* Every step keeps the invariant.                                         *)
THEOREM StepIInv == IInv /\ [Next]_vars => IInv'
<1> SUFFICES ASSUME IInv, [Next]_vars PROVE IInv'
  OBVIOUS
<1>1. ASSUME NEW s \in Sigs, Execute(s), UNCHANGED copyVars PROVE IInv'
  <2>1. LoggedIsConfirmed'
    BY <1>1, ExecuteKeeps
  <2>2. RowOK' /\ NowOK' /\ ShadowOK' /\ OnlyOpen'
    BY <1>1 DEF Execute, copyVars, IInv, RowOK, NowOK, ShadowOK, OnlyOpen, IsOpen
  <2>3. QED
    BY <2>1, <2>2 DEF IInv
<1>2. ASSUME NEW s \in Sigs, BoardLists(s), UNCHANGED copyVars PROVE IInv'
  BY <1>2, StutterKeeps DEF BoardLists, copyVars
<1>3. ASSUME Wait, UNCHANGED copyVars PROVE IInv'
  <2>1. LoggedIsConfirmed'
    BY <1>3 DEF Wait, chain, IInv, LoggedIsConfirmed, Logged, Executed, Swaps
  <2>2. RowOK' /\ ShadowOK' /\ OnlyOpen'
    BY <1>3 DEF Wait, copyVars, IInv, RowOK, ShadowOK, OnlyOpen, IsOpen
  <2>3. NowOK'
    BY <1>3, FeedsAssumption DEF Wait, IInv, NowOK
  <2>4. QED
    BY <2>1, <2>2, <2>3 DEF IInv
<1>4. ASSUME NEW answered \in SUBSET (Executed \cap Queue), FamPoll(answered), UNCHANGED copyVars
      PROVE  IInv'
  <2>1. Upsert(Confirmed(Queue, answered), "fam") /\ UNCHANGED <<at, now, shadow>>
    BY <1>4 DEF FamPoll, chain, copyVars
  <2>2. Confirmed(Queue, answered) \subseteq Executed \cap Swaps
    BY DEF Confirmed, Swaps, Executed
  <2>3. LoggedIsConfirmed' /\ RowOK'
    BY <2>1, <2>2, UpsertKeeps DEF Feeds
  <2>4. NowOK' /\ ShadowOK' /\ OnlyOpen'
    BY <2>1 DEF IInv, NowOK, ShadowOK, OnlyOpen, IsOpen
  <2>5. QED
    BY <2>3, <2>4 DEF IInv
<1>5. ASSUME NEW reached, NEW unpriced, NEW answered \in SUBSET (Executed \cap Read(reached)),
             WalletPoll(reached, answered, unpriced), UNCHANGED copyVars
      PROVE  IInv'
  <2> DEFINE trades == ({s \in answered \cap Read(reached) : Unseen(s)} \cap Swaps) \ unpriced
  <2>1. Upsert(trades, "wallet") /\ UNCHANGED <<at, now, shadow>>
    BY <1>5 DEF WalletPoll, chain, copyVars
  <2>2. trades \subseteq Executed \cap Swaps
    OBVIOUS
  <2>3. LoggedIsConfirmed' /\ RowOK'
    BY <2>1, <2>2, UpsertKeeps DEF Feeds
  <2>4. NowOK' /\ ShadowOK' /\ OnlyOpen'
    BY <2>1 DEF IInv, NowOK, ShadowOK, OnlyOpen, IsOpen
  <2>5. QED
    BY <2>3, <2>4 DEF IInv
<1>6. ASSUME NEW feed \in Feeds, NEW quoted, Adapt(feed, quoted) PROVE IInv'
  <2>1. UNCHANGED <<at, row, now>>
    BY <1>6 DEF Adapt, chain
  <2>2. LoggedIsConfirmed' /\ RowOK' /\ NowOK'
    BY <2>1 DEF IInv, LoggedIsConfirmed, Logged, Executed, Swaps, RowOK, NowOK
  <2>3. ShadowOK' /\ OnlyOpen'
    BY <1>6, AdaptKeeps
  <2>4. QED
    BY <2>2, <2>3 DEF IInv
<1>7. ASSUME NEW i \in Ids, MarkAndExit(i) PROVE IInv'
  <2>1. UNCHANGED <<at, row, now>>
    BY <1>7 DEF MarkAndExit, feedVars
  <2>2. LoggedIsConfirmed' /\ RowOK' /\ NowOK'
    BY <2>1 DEF IInv, LoggedIsConfirmed, Logged, Executed, Swaps, RowOK, NowOK
  <2>3. ShadowOK' /\ OnlyOpen'
    BY <1>7, MarkAndExitKeeps
  <2>4. QED
    BY <2>2, <2>3 DEF IInv
<1>8. ASSUME NEW qualified, NEW clustering, Rescore(qualified, clustering) PROVE IInv'
  BY <1>8, StutterKeeps DEF Rescore, feedVars
<1>9. ASSUME Restart PROVE IInv'
  BY <1>9, StutterKeeps DEF Restart, RestartFeeds, chain
<1>10. CASE UNCHANGED vars
  BY <1>10, StutterKeeps DEF vars, feedVars, copyVars
<1>11. QED
  BY <1>1, <1>2, <1>3, <1>4, <1>5, <1>6, <1>7, <1>8, <1>9, <1>10 DEF Next

(* The inductive invariant.                                                *)
THEOREM Invariance == Spec => []IInv
BY InitIInv, StepIInv, PTL DEF Spec

(* Nothing is logged that the chain has not confirmed as a swap.           *)
THEOREM LoggedIsConfirmedHolds == Spec => []LoggedIsConfirmed
BY Invariance, PTL DEF IInv

(* At no time are two consensus trades of a mint open.                     *)
LEMMA OnlyOneCounts == ASSUME OnlyOpen PROVE OneOpenConsensus
<1> SUFFICES ASSUME NEW m \in Mints
             PROVE  Cardinality({t \in 0 .. MaxNow : IsOpen(Consensus(m, t))}) <= 1
  BY DEF OneOpenConsensus
<1> DEFINE S == {t \in 0 .. MaxNow : IsOpen(Consensus(m, t))}
<1>1. CASE S = {}
  BY <1>1, FS_EmptySet
<1>2. CASE S # {}
  <2>1. PICK t \in S : TRUE
    BY <1>2
  <2>2. S = {t}
    BY <2>1 DEF OnlyOpen
  <2>3. Cardinality({t}) = 1
    BY FS_Singleton
  <2>4. QED
    BY <2>2, <2>3
<1>3. QED
  BY <1>1, <1>2
(* At most one consensus trade of a mint is open, whichever feed, wallet   *)
(* or restart came between (the open trade is asked for before one is      *)
(* opened).                                                                *)
THEOREM OneOpenConsensusHolds == Spec => []OneOpenConsensus
<1>1. IInv => OneOpenConsensus
  BY OnlyOneCounts DEF IInv
<1>2. QED
  BY <1>1, Invariance, PTL

-----------------------------------------------------------------------------
(* A closed trade is not opened again by a step of whichever feed, scoring *)
(* or restart.                                                             *)
LEMMA ClosedStays ==
  ASSUME IInv, [Next]_vars, NEW i \in Ids, shadow[i] = "closed"
  PROVE  shadow'[i] = "closed"
<1>1. ASSUME NEW feed, NEW quoted, Adapt(feed, quoted) PROVE shadow'[i] = "closed"
  <2>1. i \notin Opened(View(feed), quoted)
    BY DEF Opened, FreshId
  <2>2. QED
    BY <1>1, <2>1 DEF Adapt, Book, Opened
<1>2. ASSUME NEW j \in Ids, MarkAndExit(j) PROVE shadow'[i] = "closed"
  BY <1>2 DEF MarkAndExit, IInv, ShadowOK
<1>3. CASE UNCHANGED shadow
  BY <1>3
<1>4. QED
  BY <1>1, <1>2, <1>3 DEF Next, vars, copyVars, Rescore, Restart
(* A closed shadow trade stays closed: an id that was used is not opened   *)
(* again.                                                                  *)
THEOREM ClosedStayClosedHolds == Spec => ClosedStayClosed
<1>1. IInv /\ [Next]_vars => [\A i \in Ids : shadow[i] = "closed" => shadow'[i] = "closed"]_vars
  BY ClosedStays
<1>2. QED
  BY <1>1, Invariance, PTL DEF Spec, ClosedStayClosed

-----------------------------------------------------------------------------
(* The clusters that bought a mint on chain within the window.             *)
Buyers(m) == {b \in Executed : SideOf[b] = "buy" /\ MintOf[b] = m /\ at[b] >= now - Window}
ClustersOf(m) == {clusters[<<f, LeaderOf[s]>>] : f \in Feeds, s \in Buyers(m)}

(* What the adapter sees is logged, and executed within the window.        *)
LEMMA ViewIsChain ==
  ASSUME IInv, NEW feed \in Feeds, NEW s \in DOMAIN View(feed)
  PROVE  /\ s \in Executed /\ at[s] >= now - Window
         /\ \E f \in Feeds : View(feed)[s] = <<f, LeaderOf[s]>>
<1> DEFINE own == Seen(feed)
<1>1. View(feed) = [x \in WindowTrades |-> <<IF x \in own THEN feed ELSE row[x], LeaderOf[x]>>]
  BY DEF View
<1>2. s \in WindowTrades
  BY <1>1
<1>3. row[s] \in Feeds
  BY <1>2 DEF WindowTrades, Logged, IInv, RowOK
<1>4. View(feed)[s] = <<IF s \in own THEN feed ELSE row[s], LeaderOf[s]>>
  BY <1>1, <1>2
<1>5. s \in Executed /\ at[s] >= now - Window
  BY <1>2 DEF WindowTrades, IInv, LoggedIsConfirmed
<1>6. QED
  BY <1>3, <1>4, <1>5

(* The clusters that bought a mint are finitely many.                      *)
LEMMA ClustersFinite == ASSUME NEW m PROVE IsFiniteSet(ClustersOf(m))
<1> DEFINE S == Feeds \X Buyers(m)
           g == [p \in S |-> clusters[<<p[1], LeaderOf[p[2]]>>]]
<1>1. IsFiniteSet(Buyers(m))
  <2>1. Buyers(m) \in SUBSET Sigs
    BY DEF Buyers, Executed
  <2>2. QED
    BY <2>1, FeedsAssumption, FS_Subset
<1>2. IsFiniteSet(Feeds)
  <2>1. IsFiniteSet({"fam"}) /\ IsFiniteSet({"wallet"})
    BY FS_Singleton
  <2>2. Feeds = {"fam"} \cup {"wallet"}
    BY DEF Feeds
  <2>3. QED
    BY <2>1, <2>2, FS_Union
<1>3. IsFiniteSet(S)
  BY <1>1, <1>2, FS_Product
<1>4. g \in Surjection(S, ClustersOf(m))
  <2>1. \A p \in S : g[p] \in ClustersOf(m)
    BY DEF ClustersOf
  <2>2. ASSUME NEW c \in ClustersOf(m) PROVE \E p \in S : g[p] = c
    <3>1. PICK f \in Feeds, s \in Buyers(m) : c = clusters[<<f, LeaderOf[s]>>]
      BY DEF ClustersOf
    <3>2. <<f, s>> \in S /\ g[<<f, s>>] = c
      BY <3>1
    <3>3. QED
      BY <3>2
  <2>3. QED
    BY <2>1, <2>2 DEF Surjection
<1>5. QED
  BY <1>3, <1>4, FS_Surjection

(* A signal of a scored pool is of as many clusters of real buyers.        *)
LEMMA SignalsOfClusters ==
  ASSUME IInv, NEW feed \in Feeds, ~Provisional, NEW m \in Signals(View(feed))
  PROVE  Cardinality(ClustersOf(m)) >= MinClusters
<1> DEFINE view == View(feed)
           buys == {b \in Followed(view) : MintOf[b] = m}
           C == {Cluster(view[s]) : s \in buys}
           g == [c \in C |-> c[2]]
<1>1. Cardinality(C) >= MinClusters
  BY DEF Signals
<1>2. ASSUME NEW s \in buys PROVE
        /\ Cluster(view[s]) = <<"cluster", clusters[view[s]]>>
        /\ clusters[view[s]] \in ClustersOf(m)
  <2>1. s \in DOMAIN view /\ SideOf[s] = "buy" /\ MintOf[s] = m
    BY DEF Followed
  <2>2. s \in Buyers(m)
    BY <2>1, ViewIsChain DEF Buyers
  <2>3. PICK f \in Feeds : view[s] = <<f, LeaderOf[s]>>
    BY <2>1, ViewIsChain
  <2>4. clusters[view[s]] \in ClustersOf(m)
    BY <2>2, <2>3 DEF ClustersOf
  <2>5. Cluster(view[s]) = <<"cluster", clusters[view[s]]>>
    BY DEF Cluster
  <2>6. QED
    BY <2>4, <2>5
<1>3. \A c \in C : c = <<"cluster", c[2]>> /\ c[2] \in ClustersOf(m)
  BY <1>2
<1>4. g \in Injection(C, ClustersOf(m))
  <2>1. g \in [C -> ClustersOf(m)]
    BY <1>3
  <2>2. \A c, d \in C : g[c] = g[d] => c = d
    BY <1>3
  <2>3. QED
    BY <2>1, <2>2 DEF Injection, IsInjective
<1>5. Cardinality(C) <= Cardinality(ClustersOf(m)) /\ IsFiniteSet(C)
  BY <1>4, ClustersFinite, FS_Injection
<1>6. Cardinality(C) \in Nat /\ Cardinality(ClustersOf(m)) \in Nat
  BY <1>5, ClustersFinite, FS_CardinalityType
<1>7. QED
  BY <1>1, <1>5, <1>6, CopyAssumption

(* A consensus trade of a scored pool opens with enough clusters behind it. *)
LEMMA OpensOfClusters ==
  ASSUME IInv, [Next]_vars, NEW m \in Mints, NEW t \in 0 .. MaxNow,
         ~Provisional, ~IsOpen(Consensus(m, t)), IsOpen(Consensus(m, t))'
  PROVE  Cardinality(ClustersOf(m)) >= MinClusters
<1>1. Consensus(m, t) \in Ids
  BY IdsDiffer
<1>2. shadow[Consensus(m, t)] # "open" /\ shadow'[Consensus(m, t)] = "open"
  BY DEF IsOpen, Consensus
<1>3. ASSUME NEW feed \in Feeds, NEW quoted, Adapt(feed, quoted)
      PROVE  Cardinality(ClustersOf(m)) >= MinClusters
  <2>1. Consensus(m, t) \in Opened(View(feed), quoted)
    BY <1>1, <1>2, <1>3, AdaptShadow
  <2>2. m \in Signals(View(feed))
    BY <2>1, OpenedConsensus
  <2>3. QED
    BY <2>2, SignalsOfClusters
<1>4. ASSUME NEW i \in Ids, MarkAndExit(i) PROVE FALSE
  BY <1>1, <1>2, <1>4 DEF MarkAndExit, IInv, ShadowOK
<1>5. CASE UNCHANGED shadow
  BY <1>2, <1>5
<1>6. QED
  BY <1>3, <1>4, <1>5 DEF Next, vars, copyVars, Rescore, Restart
(* A consensus that opens has enough clusters that bought its mint within  *)
(* the window, on chain and not only in the log.                           *)
THEOREM ConsensusOfClustersHolds == Spec => ConsensusOfClusters
<1>1. IInv /\ [Next]_vars =>
        [\A m \in Mints, t \in 0 .. MaxNow :
           ~Provisional /\ ~IsOpen(Consensus(m, t)) /\ IsOpen(Consensus(m, t))' =>
             Cardinality(ClustersOf(m)) >= MinClusters]_vars
  BY OpensOfClusters
<1>2. QED
  BY <1>1, Invariance, PTL DEF Spec, ConsensusOfClusters, ClustersOf, Buyers
-----------------------------------------------------------------------------
(***************************************************************************)
(* The cursor.  It is a signature, and the properties speak of where it    *)
(* stands, so the invariant says that a wallet's signatures differ and     *)
(* that the cursor is one of them: then it stands at one place, which new  *)
(* signatures, coming after it, do not move.                               *)
(***************************************************************************)
PastOK ==
  /\ past \in [Leaders -> Seq(Sigs)] /\ at \in [Sigs -> 0 .. MaxNow \cup {None}]
  /\ \A l \in Leaders : \A i \in DOMAIN past[l] :
       past[l][i] \in Executed /\ LeaderOf[past[l][i]] = l
PastDiffers ==
  \A l \in Leaders : \A i, j \in DOMAIN past[l] : past[l][i] = past[l][j] => i = j
CursorOK ==
  \A w \in Wallets : cursor[w] = None \/ \E i \in DOMAIN past[w] : past[w][i] = cursor[w]
KnownOK == known \in [Feeds -> SUBSET Logged]

CInv == PastOK /\ PastDiffers /\ CursorOK /\ KnownOK /\ CursorSkipsNothing

(* A signature of a wallet stands where it was executed, and only there.   *)
LEMMA PositionOfRow ==
  ASSUME PastOK, PastDiffers, NEW w \in Wallets, NEW i \in DOMAIN past[w]
  PROVE  Position(w, past[w][i]) = i
<1>1. w \in Leaders
  BY DEF Leaders
<1>2. past[w][i] # None
  BY <1>1, FeedsAssumption DEF PastOK, Executed
<1>3. \A j \in DOMAIN past[w] : past[w][j] = past[w][i] => j = i
  BY <1>1 DEF PastDiffers
<1>4. QED
  BY <1>2, <1>3 DEF Position

(* The cursor stands at one of the wallet's signatures, or before them     *)
(* all.                                                                    *)
LEMMA PositionOfCursor ==
  ASSUME PastOK, PastDiffers, CursorOK, NEW w \in Wallets
  PROVE  /\ Len(past[w]) \in Nat /\ DOMAIN past[w] = 1 .. Len(past[w])
         /\ Position(w, cursor[w]) \in 0 .. Len(past[w])
         /\ Position(w, cursor[w]) = 0 => cursor[w] = None
         /\ Position(w, cursor[w]) # 0 => cursor[w] = past[w][Position(w, cursor[w])]
<1>1. past[w] \in Seq(Sigs)
  BY DEF Leaders, PastOK
<1>2. Len(past[w]) \in Nat /\ DOMAIN past[w] = 1 .. Len(past[w])
  BY <1>1
<1>3. CASE cursor[w] = None
  <2>1. Position(w, cursor[w]) = 0
    BY <1>3 DEF Position
  <2>2. QED
    BY <1>2, <1>3, <2>1
<1>4. CASE cursor[w] # None
  <2>1. PICK i \in DOMAIN past[w] : past[w][i] = cursor[w]
    BY <1>4 DEF CursorOK
  <2>2. Position(w, cursor[w]) = i
    BY <2>1, PositionOfRow
  <2>3. QED
    BY <1>2, <2>1, <2>2
<1>5. QED
  BY <1>3, <1>4

(* The rows a poll gets are the newest, newest first.                      *)
LEMMA RowsAreNewest ==
  ASSUME PastOK, PastDiffers, CursorOK, NEW w \in Wallets,
         NEW c, c = Position(w, cursor[w]), NEW n, n = Len(past[w])
  PROVE  /\ Len(After(w)) = n - c
         /\ \A i \in 1 .. n - c : After(w)[i] = past[w][c + i]
         /\ Rows(w) = [i \in 1 .. Len(Rows(w)) |-> past[w][n - i + 1]]
         /\ Len(Rows(w)) \in 0 .. n - c
<1> DEFINE k == IF n - c < Limit THEN n - c ELSE Limit
<1>1. c \in 0 .. n /\ n \in Nat /\ past[w] \in Seq(Sigs)
  BY PositionOfCursor DEF PastOK, Leaders
<1>2. Len(After(w)) = n - c /\ \A i \in 1 .. n - c : After(w)[i] = past[w][c + i]
  <2>1. After(w) = SubSeq(past[w], c + 1, n)
    BY DEF After
  <2> DEFINE q == past[w]
  <2>2. q \in Seq(Sigs) /\ n = Len(q)
    BY <1>1
  <2> HIDE DEF q
  <2>3. Len(SubSeq(q, c + 1, n)) = n - c
    BY <1>1, <2>2
  <2>4. \A i \in 1 .. n - c : SubSeq(q, c + 1, n)[i] = q[c + i]
    BY <1>1, <2>2
  <2>5. QED
    BY <2>1, <2>3, <2>4 DEF q
<1>3. k \in 0 .. n - c
  BY <1>1, FeedsAssumption
<1>4. Rows(w) = [i \in 1 .. k |-> After(w)[(n - c) - i + 1]]
  BY <1>2 DEF Rows
<1>5. \A i \in 1 .. k : After(w)[(n - c) - i + 1] = past[w][n - i + 1]
  <2>1. TAKE i \in 1 .. k
  <2>2. (n - c) - i + 1 \in 1 .. n - c /\ c + ((n - c) - i + 1) = n - i + 1
    <3>1. n \in Nat /\ c \in Nat /\ k \in 0 .. n - c
      BY <1>1, <1>3
    <3> HIDE DEF k
    <3>2. i \in 1 .. k
      BY <2>1
    <3>3. QED
      BY ONLY <3>1, <3>2
  <2>3. QED
    BY <1>2, <2>2
<1>6. Rows(w) = [i \in 1 .. k |-> past[w][n - i + 1]]
  BY <1>4, <1>5
<1>7. Len(Rows(w)) = k
  BY <1>3, <1>6
<1>8. QED
  BY <1>2, <1>3, <1>6, <1>7

(* A set of numbers up to k has a greatest one.                            *)
LEMMA MaxIsGreatest ==
  ASSUME NEW k \in Nat, NEW S \in SUBSET (1 .. k), S # {}
  PROVE  Max(S) \in S /\ \A x \in S : x <= Max(S)
<1>1. IsFiniteSet(S)
  <2>1. IsFiniteSet(1 .. k)
    BY FS_Interval
  <2>2. QED
    BY <2>1, FS_Subset
<1>2. S \subseteq Int
  OBVIOUS
<1>3. PICK i \in S : \A x \in S : x <= i
  BY <1>1, <1>2, Greatest
<1>4. QED
  BY <1>2, <1>3 DEF Max

(* After a poll the cursor stands at p, and every signature it passed is   *)
(* known, resolved, answered or behind the limit.                          *)
LEMMA AdvancePasses ==
  ASSUME PastOK, PastDiffers, CursorOK, NEW w \in Wallets, NEW answered,
         NEW c, c = Position(w, cursor[w]), NEW n, n = Len(past[w]),
         NEW k, k = Len(Rows(w))
  PROVE  \E p \in c .. n :
           /\ Advance(w, answered) = IF p = 0 THEN None ELSE past[w][p]
           /\ \A i \in c + 1 .. p :
                i <= n - k \/ ~Unseen(past[w][i]) \/ past[w][i] \in answered
<1> DEFINE failed == Unresolved(w, answered)
           Passed(i) == i <= n - k \/ ~Unseen(past[w][i]) \/ past[w][i] \in answered
<1>1. c \in 0 .. n /\ n \in Nat /\ cursor[w] = IF c = 0 THEN None ELSE past[w][c]
  BY PositionOfCursor
<1>2. k \in 0 .. n - c
  BY RowsAreNewest
<1>3. Rows(w) = [i \in 1 .. k |-> past[w][n - i + 1]]
  BY RowsAreNewest
<1>4. failed = {i \in 1 .. k : Unseen(past[w][n - i + 1]) /\ past[w][n - i + 1] \notin answered}
  BY <1>2, <1>3 DEF Unresolved
<1>5. ASSUME NEW i \in c + 1 .. n, n - i + 1 \notin failed PROVE Passed(i)
  <2>1. n - (n - i + 1) + 1 = i
    BY <1>1
  <2>2. i > n - k => n - i + 1 \in 1 .. k
    BY <1>1, <1>2
  <2>3. i <= n - k \/ i > n - k
    BY <1>1, <1>2
  <2>4. QED
    BY ONLY <1>4, <1>5, <2>1, <2>2, <2>3
<1>6. failed \in SUBSET (1 .. k) /\ k \in Nat
  BY <1>1, <1>2, <1>4
<1> DEFINE m == Max(failed)
<1> HIDE DEF failed
<1>7. failed # {} => m \in failed /\ \A x \in failed : x <= m
  BY <1>6, MaxIsGreatest
<1> HIDE DEF m
<1>8. Advance(w, answered) =
        IF k = 0 THEN cursor[w]
        ELSE IF failed = {} THEN Rows(w)[1]
        ELSE IF m < k THEN Rows(w)[m + 1] ELSE cursor[w]
  <2>1. Rows(w) = <<>> <=> k = 0
    BY <1>3, <1>6
  <2>2. QED
    BY <2>1 DEF Advance, failed, m
<1>9. CASE k = 0 \/ (failed # {} /\ ~(m < k))
  <2>1. Advance(w, answered) = cursor[w]
    BY <1>8, <1>9
  <2>2. c \in c .. n /\ \A i \in c + 1 .. c : Passed(i)
    BY <1>1
  <2>3. QED
    BY <1>1, <2>1, <2>2
<1>10. CASE k # 0 /\ failed = {}
  <2>1. Advance(w, answered) = Rows(w)[1]
    BY <1>8, <1>10
  <2>2. 1 \in 1 .. k /\ n - 1 + 1 = n /\ n # 0 /\ n \in c .. n
    BY <1>1, <1>2, <1>10
  <2>3. Advance(w, answered) = past[w][n]
    BY <1>3, <2>1, <2>2
  <2>4. \A i \in c + 1 .. n : Passed(i)
    BY <1>5, <1>10
  <2>5. QED
    BY <2>2, <2>3, <2>4
<1>11. CASE k # 0 /\ failed # {} /\ m < k
  <2>1. m \in 1 .. k /\ \A x \in failed : x <= m
    BY <1>6, <1>7, <1>11
  <2>2. Advance(w, answered) = Rows(w)[m + 1]
    BY <1>8, <1>11
  <2>3. /\ m + 1 \in 1 .. k /\ n - (m + 1) + 1 = n - m
        /\ n - m # 0 /\ n - m \in c .. n
    BY <1>1, <1>2, <1>11, <2>1
  <2>4. Advance(w, answered) = past[w][n - m]
    BY <1>3, <2>2, <2>3
  <2>5. ASSUME NEW i \in c + 1 .. n - m PROVE Passed(i)
    <3>1. i \in c + 1 .. n /\ ~(n - i + 1 <= m)
      BY <1>1, <2>1, <2>3
    <3>2. QED
      BY <1>5, <2>1, <3>1
  <2>6. QED
    BY <2>3, <2>4, <2>5
<1>12. QED
  BY <1>9, <1>10, <1>11

(* The invariant before and after a poll that answers for these rows.      *)
LEMMA PollKeepsCursor ==
  ASSUME CInv, RowOK, NEW reached, NEW answered, NEW unpriced,
         WalletPoll(reached, answered, unpriced)
  PROVE  CInv'
<1> DEFINE resolved == {s \in answered \cap Read(reached) : Unseen(s)}
           trades == (resolved \cap Swaps) \ unpriced
           new == {s \in trades : row[s] = "none"}
           behind == {s \in Swaps \ Logged : Unseen(s) /\ \E w \in reached :
                        \E i \in 1 .. (Len(After(w)) - Len(Rows(w))) : After(w)[i] = s}
<1>1. /\ UNCHANGED <<past, at>> /\ reached \subseteq Wallets
      /\ row' = [s \in Sigs |-> IF s \in trades /\ row[s] = "none" THEN "wallet" ELSE row[s]]
      /\ known' = [known EXCEPT !["wallet"] = @ \cup new]
      /\ inspected' = inspected \cup resolved
      /\ cursor' = [w \in Wallets |-> IF w \in reached THEN Advance(w, answered) ELSE cursor[w]]
      /\ pushed' = pushed \cup behind
  BY DEF WalletPoll, chain, Upsert
<1>2. Logged \subseteq Logged' /\ new \subseteq Logged'
  BY <1>1 DEF Logged, Swaps
<1> HIDE DEF resolved, trades, new, behind
<1>3. PastOK' /\ PastDiffers'
  BY <1>1 DEF CInv, PastOK, PastDiffers, Executed
<1>4. KnownOK'
  <2>1. ASSUME NEW f \in Feeds PROVE known'[f] \subseteq Logged'
    BY <1>1, <1>2 DEF CInv, KnownOK
  <2>2. known' = [f \in Feeds |-> known'[f]]
    BY <1>1 DEF CInv, KnownOK
  <2>3. QED
    BY <2>1, <2>2 DEF KnownOK
<1>5. ASSUME NEW w \in Wallets
      PROVE  /\ cursor'[w] = None \/ \E i \in DOMAIN past'[w] : past'[w][i] = cursor'[w]
             /\ \A i \in 1 .. Position(w, cursor[w])' :
                  past'[w][i] \in Swaps => past'[w][i] \in (Logged \cup inspected \cup pushed)'
  <2> DEFINE c == Position(w, cursor[w])
             n == Len(past[w])
             k == Len(Rows(w))
             Fine(i) == past[w][i] \in Swaps => past[w][i] \in (Logged \cup inspected \cup pushed)'
  <2>1. c \in 0 .. n /\ n \in Nat /\ DOMAIN past[w] = 1 .. n
    BY PositionOfCursor DEF CInv
  <2>2. \A i \in 1 .. c : Fine(i)
    BY <1>1, <1>2 DEF CInv, CursorSkipsNothing
  <2>3. CASE w \notin reached
    <3>1. cursor'[w] = cursor[w] /\ past' = past
      BY <1>1, <2>3
    <3>2. Position(w, cursor[w])' = c
      BY <3>1 DEF Position
    <3>3. QED
      BY <2>2, <3>1, <3>2 DEF CInv, CursorOK
  <2>4. CASE w \in reached
    <3>1. PICK p \in c .. n :
            /\ Advance(w, answered) = IF p = 0 THEN None ELSE past[w][p]
            /\ \A i \in c + 1 .. p :
                 i <= n - k \/ ~Unseen(past[w][i]) \/ past[w][i] \in answered
      BY AdvancePasses DEF CInv
    <3>2. cursor'[w] = (IF p = 0 THEN None ELSE past[w][p]) /\ past' = past
      BY <1>1, <2>4, <3>1
    <3>3. Position(w, cursor[w])' = p
      <4>1. Position(w, cursor[w])' = Position(w, IF p = 0 THEN None ELSE past[w][p])
        BY <3>2 DEF Position
      <4>2. p # 0 => Position(w, past[w][p]) = p
        BY <2>1, PositionOfRow DEF CInv
      <4>3. Position(w, None) = 0
        BY DEF Position
      <4>4. QED
        BY <4>1, <4>2, <4>3
    <3>4. ASSUME NEW i \in c + 1 .. p PROVE Fine(i)
      <4> DEFINE s == past[w][i]
      <4>1. i \in 1 .. n
        BY <2>1
      <4>2. CASE ~Unseen(s)
        BY <1>1, <1>2, <4>2 DEF Unseen, CInv, KnownOK, Feeds
      <4>3. CASE Unseen(s) /\ i <= n - k
        <5>1. /\ Len(After(w)) = n - c /\ k \in 0 .. n - c
              /\ \A j \in 1 .. n - c : After(w)[j] = past[w][c + j]
          BY RowsAreNewest DEF CInv
        <5>2. i - c \in 1 .. (Len(After(w)) - k) /\ i - c \in 1 .. n - c /\ c + (i - c) = i
          BY <2>1, <4>1, <4>3, <5>1
        <5>3. After(w)[i - c] = s
          BY <5>1, <5>2
        <5>4. s \in Swaps \ Logged => s \in behind
          BY <2>4, <4>3, <5>2, <5>3 DEF behind
        <5>5. QED
          BY <1>1, <1>2, <5>4
      <4>4. CASE Unseen(s) /\ i > n - k /\ s \in answered
        <5>1. k \in 0 .. n - c
          BY RowsAreNewest DEF CInv
        <5>2. Rows(w) = [j \in 1 .. k |-> past[w][n - j + 1]]
          BY RowsAreNewest DEF CInv
        <5>3. n - i + 1 \in 1 .. k /\ n - (n - i + 1) + 1 = i
          <6> HIDE DEF c, n, k
          <6>1. QED
            BY <2>1, <4>1, <4>4, <5>1
        <5>4. Rows(w)[n - i + 1] = s /\ n - i + 1 \in DOMAIN Rows(w)
          BY <5>2, <5>3
        <5>5. s \in Read(reached)
          BY <2>4, <5>4 DEF Read
        <5>6. s \in resolved
          BY <4>4, <5>5 DEF resolved
        <5>7. QED
          BY <1>1, <5>6
      <4>5. i <= n - k \/ i > n - k
        BY <2>1, <4>1, RowsAreNewest DEF CInv
      <4>6. QED
        BY <3>1, <4>2, <4>3, <4>4, <4>5
    <3>5. \A i \in 1 .. p : Fine(i)
      BY <2>1, <2>2, <3>4
    <3>6. QED
      BY <2>1, <3>2, <3>3, <3>5
  <2>5. QED
    BY <2>3, <2>4
<1>6. QED
  BY <1>3, <1>4, <1>5 DEF CInv, CursorOK, CursorSkipsNothing

(* Steps that leave the wallets' signatures and the cursors alone, and     *)
(* take nothing back that was logged or resolved.                          *)
LEMMA OthersKeepCursor ==
  ASSUME CInv, UNCHANGED <<past, at, cursor, inspected, pushed>>, Logged \subseteq Logged', KnownOK'
  PROVE  CInv'
<1>1. PastOK' /\ PastDiffers' /\ CursorOK'
  BY DEF CInv, PastOK, PastDiffers, CursorOK, Executed
<1>2. \A w \in Wallets : Position(w, cursor[w])' = Position(w, cursor[w])
  BY DEF Position
<1>3. CursorSkipsNothing'
  BY <1>2 DEF CInv, CursorSkipsNothing
<1>4. QED
  BY <1>1, <1>3 DEF CInv

(* A new signature comes after every other of its wallet.                  *)
LEMMA ExecuteKeepsCursor ==
  ASSUME CInv, NowOK, NEW s \in Sigs, Execute(s)
  PROVE  CInv'
<1> DEFINE l == LeaderOf[s]
<1>1. /\ past' = [past EXCEPT ![l] = Append(@, s)] /\ at' = [at EXCEPT ![s] = now]
      /\ UNCHANGED <<row, known, cursor, inspected, pushed>>
      /\ s \notin Executed
  BY DEF Execute, memory
<1>2. l \in Leaders /\ past[l] \in Seq(Sigs)
  BY FeedsAssumption DEF CInv, PastOK
<1>3. \A m \in Leaders : past'[m] = IF m = l THEN Append(past[l], s) ELSE past[m]
  BY <1>1, <1>2 DEF CInv, PastOK
<1> HIDE DEF l
<1>4. Executed' = Executed \cup {s}
  BY <1>1, FeedsAssumption DEF CInv, PastOK, Executed, NowOK
<1>5. ASSUME NEW m \in Leaders
      PROVE  /\ past'[m] \in Seq(Sigs)
             /\ \A i \in DOMAIN past[m] : i \in DOMAIN past'[m] /\ past'[m][i] = past[m][i]
             /\ \A i \in DOMAIN past'[m] :
                  i \in DOMAIN past[m] \/ (i = Len(past[m]) + 1 /\ past'[m][i] = s /\ m = l)
  <2>1. past[m] \in Seq(Sigs)
    BY DEF CInv, PastOK
  <2>2. CASE m = l
    <3> DEFINE q == past[m]
               r == Append(q, s)
    <3>1. q \in Seq(Sigs) /\ past'[m] = r
      BY <1>3, <2>1, <2>2
    <3> HIDE DEF q
    <3>2. r \in Seq(Sigs)
      BY <3>1
    <3>3. \A i \in DOMAIN q : i \in DOMAIN r /\ r[i] = q[i]
      BY <3>1
    <3>4. \A i \in DOMAIN r : i \in DOMAIN q \/ (i = Len(q) + 1 /\ r[i] = s)
      BY <3>1
    <3> HIDE DEF r
    <3>5. QED
      BY <2>2, <3>1, <3>2, <3>3, <3>4 DEF q
  <2>3. CASE m # l
    BY <1>3, <2>1, <2>3
  <2>4. QED
    BY <2>2, <2>3
<1>6. PastOK'
  <2>1. past' \in [Leaders -> Seq(Sigs)]
    BY <1>1, <1>5 DEF CInv, PastOK
  <2>2. at' \in [Sigs -> 0 .. MaxNow \cup {None}]
    BY <1>1 DEF CInv, PastOK, NowOK
  <2>3. ASSUME NEW m \in Leaders, NEW i \in DOMAIN past'[m]
        PROVE  past'[m][i] \in Executed' /\ LeaderOf[past'[m][i]] = m
    BY <1>4, <1>5 DEF CInv, PastOK, l
  <2>4. QED
    BY <2>1, <2>2, <2>3 DEF PastOK
<1>7. PastDiffers'
  <2>1. ASSUME NEW m \in Leaders, NEW i \in DOMAIN past'[m], NEW j \in DOMAIN past'[m],
               past'[m][i] = past'[m][j]
        PROVE  i = j
    <3>1. \A x \in DOMAIN past[m] : past'[m][x] # s
      BY <1>1, <1>5 DEF CInv, PastOK
    <3>2. CASE i \in DOMAIN past[m] /\ j \in DOMAIN past[m]
      BY <1>5, <2>1, <3>2 DEF CInv, PastDiffers
    <3>3. QED
      BY <1>5, <2>1, <3>1, <3>2
  <2>2. QED
    BY <2>1 DEF PastDiffers
<1>8. CursorOK'
  BY <1>1, <1>5 DEF CInv, CursorOK, Leaders
<1>9. KnownOK' /\ Logged' = Logged
  BY <1>1 DEF CInv, KnownOK, Logged
<1>10. ASSUME NEW w \in Wallets, NEW i \in 1 .. Position(w, cursor[w])', past'[w][i] \in Swaps
       PROVE  past'[w][i] \in (Logged \cup inspected \cup pushed)'
  <2> DEFINE c == Position(w, cursor[w])
  <2>1. c \in 0 .. Len(past[w]) /\ DOMAIN past[w] = 1 .. Len(past[w]) /\ Len(past[w]) \in Nat
    BY PositionOfCursor DEF CInv
  <2>2. Position(w, cursor[w])' = c
    <3>1. CASE c = 0
      <4>1. cursor[w] = None
        BY <3>1, PositionOfCursor DEF CInv
      <4>2. QED
        BY <1>1, <3>1, <4>1 DEF Position
    <3>2. CASE c # 0
      <4>1. c \in DOMAIN past[w] /\ cursor[w] = past[w][c]
        BY <2>1, <3>2, PositionOfCursor DEF CInv
      <4>2. c \in DOMAIN past'[w] /\ cursor'[w] = past'[w][c]
        BY <1>1, <1>5, <4>1 DEF Leaders
      <4>3. \A j \in DOMAIN past'[w] : past'[w][j] = past'[w][c] => j = c
        BY <1>7, <4>2 DEF PastDiffers, Leaders
      <4>4. cursor'[w] # None
        BY <1>1, <4>1, FeedsAssumption DEF CInv, PastOK, Executed, Leaders
      <4>5. QED
        BY <4>2, <4>3, <4>4 DEF Position
    <3>3. QED
      BY <3>1, <3>2
  <2>3. i \in 1 .. c /\ i \in DOMAIN past[w] /\ past'[w][i] = past[w][i]
    BY <1>5, <2>1, <2>2 DEF Leaders
  <2>4. QED
    BY <1>1, <1>9, <1>10, <2>3 DEF CInv, CursorSkipsNothing
<1>11. QED
  BY <1>6, <1>7, <1>8, <1>9, <1>10 DEF CInv, CursorSkipsNothing

(* The log forgets nothing and gains what it is given.                     *)
LEMMA UpsertKeepsLogged ==
  ASSUME NEW trades, NEW feed \in Feeds, Upsert(trades, feed)
  PROVE  Logged \subseteq Logged' /\ {s \in Sigs : s \in trades} \subseteq Logged'
BY DEF Upsert, Logged, Feeds

(* Every step keeps the cursor's invariant.                                *)
THEOREM StepCInv == IInv /\ CInv /\ [Next]_vars => CInv'
<1> SUFFICES ASSUME IInv, CInv, [Next]_vars PROVE CInv'
  OBVIOUS
<1> USE DEF IInv
<1>1. ASSUME NEW s \in Sigs, Execute(s) PROVE CInv'
  BY <1>1, ExecuteKeepsCursor
<1>2. ASSUME UNCHANGED <<past, at, row, known, cursor, inspected, pushed>> PROVE CInv'
  <2>1. Logged' = Logged /\ KnownOK'
    BY <1>2 DEF Logged, CInv, KnownOK
  <2>2. QED
    BY <1>2, <2>1, OthersKeepCursor
<1>3. ASSUME NEW answered, FamPoll(answered) PROVE CInv'
  <2> DEFINE ok == Confirmed(Queue, answered)
  <2>1. /\ Upsert(ok, "fam") /\ known' = [known EXCEPT !["fam"] = @ \cup ok]
        /\ UNCHANGED <<past, at, cursor, inspected, pushed>>
    BY <1>3 DEF FamPoll, chain
  <2>2. ok \subseteq Sigs
    BY <1>3 DEF FamPoll, Confirmed, Executed
  <2> HIDE DEF ok
  <2>3. Logged \subseteq Logged' /\ ok \subseteq Logged'
    BY <2>1, <2>2, UpsertKeepsLogged DEF Feeds
  <2>4. KnownOK'
    BY <2>1, <2>3 DEF CInv, KnownOK
  <2>5. QED
    BY <2>1, <2>3, <2>4, OthersKeepCursor
<1>4. ASSUME NEW reached, NEW answered, NEW unpriced, WalletPoll(reached, answered, unpriced)
      PROVE  CInv'
  BY <1>4, PollKeepsCursor
<1>5. ASSUME Restart PROVE CInv'
  <2>1. /\ UNCHANGED <<past, at, row, pushed>>
        /\ known' = [f \in Feeds |-> Logged] /\ cursor' = [w \in Wallets |-> None]
    BY <1>5 DEF Restart, RestartFeeds, chain, Nothing
  <2>2. PastOK' /\ PastDiffers' /\ CursorOK'
    BY <2>1 DEF CInv, PastOK, PastDiffers, CursorOK, Executed
  <2>3. KnownOK'
    BY <2>1 DEF KnownOK, Logged
  <2>4. \A w \in Wallets : Position(w, cursor[w])' = 0
    BY <2>1 DEF Position
  <2>5. CursorSkipsNothing'
    BY <2>4 DEF CursorSkipsNothing
  <2>6. QED
    BY <2>2, <2>3, <2>5 DEF CInv
<1>6. CASE \E s \in Sigs : (Execute(s) \/ BoardLists(s)) /\ UNCHANGED copyVars
  BY <1>1, <1>2, <1>6 DEF BoardLists, memory
<1>7. CASE Wait /\ UNCHANGED copyVars
  BY <1>2, <1>7 DEF Wait, chain, memory
<1>8. CASE \E feed \in Feeds, quoted \in SUBSET Mints : Adapt(feed, quoted)
  BY <1>2, <1>8 DEF Adapt, chain
<1>9. CASE \E i \in Ids : MarkAndExit(i)
  BY <1>2, <1>9 DEF MarkAndExit, feedVars
<1>10. CASE \E qualified \in Outcomes, clustering \in Clusterings : Rescore(qualified, clustering)
  BY <1>2, <1>10 DEF Rescore, feedVars
<1>11. CASE UNCHANGED vars
  BY <1>2, <1>11 DEF vars, feedVars
<1>12. QED
  BY <1>3, <1>4, <1>5, <1>6, <1>7, <1>8, <1>9, <1>10, <1>11 DEF Next

(* The cursor starts before every signature.                               *)
LEMMA InitCInv == Init => CInv
<1> SUFFICES ASSUME Init PROVE CInv
  OBVIOUS
<1>1. /\ past = [l \in Leaders |-> <<>>] /\ at = [s \in Sigs |-> None]
      /\ known = [f \in Feeds |-> {}] /\ cursor = [w \in Wallets |-> None]
  BY DEF Init, FeedInit, Nothing
<1>2. PastOK /\ PastDiffers /\ CursorOK /\ KnownOK
  BY <1>1 DEF PastOK, PastDiffers, CursorOK, KnownOK
<1>3. \A w \in Wallets : Position(w, cursor[w]) = 0
  BY <1>1 DEF Position
<1>4. CursorSkipsNothing
  BY <1>3 DEF CursorSkipsNothing
<1>5. QED
  BY <1>2, <1>4 DEF CInv

(* Whatever the RPC fails to answer, and whenever: the cursor of a wallet  *)
(* passes no swap that was neither logged nor resolved, unless it fell     *)
(* behind the limit of a poll.                                             *)
THEOREM CursorSkipsNothingHolds == Spec => []CursorSkipsNothing
<1>1. IInv /\ CInv /\ [Next]_vars => CInv'
  BY StepCInv
<1>2. CInv => CursorSkipsNothing
  BY DEF CInv
<1>3. QED
  BY <1>1, <1>2, InitCInv, Invariance, PTL DEF Spec
=============================================================================
