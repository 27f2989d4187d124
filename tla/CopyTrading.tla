----------------------------- MODULE CopyTrading -----------------------------
(***************************************************************************)
(* What is made of the leaders' trades: after each poll the copy adapter   *)
(* looks for a consensus over the window of logged trades and the shadow   *)
(* tracker opens hypothetical positions, one per consensus and one per     *)
(* leader's buy, which a later pass closes.  The pool of leaders whose     *)
(* trades count is scored now and then from the same log.                  *)
(*                                                                         *)
(* Prices are abstracted: a quote may be had or not, and any open trade    *)
(* may meet its exit rule, wherever a leader's sells moved its trail.      *)
(***************************************************************************)
EXTENDS LeaderFeeds

CONSTANTS
  Clusterings,  (* the clusters a scoring may put the keys in, by the mints they  *)
                (*   bought                                                      *)
  MinClusters,  (* clusters a consensus takes (3 in the code)                    *)
  Window,       (* ticks of the consensus window (30)                            *)
  Outcomes,     (* bound: the leaders a scoring may qualify                      *)
  MaxAge        (* ticks after which a leader's buy is no signal (30)            *)

ASSUME CopyAssumption ==
  /\ MinClusters \in Nat \ {0} /\ Window \in Nat /\ MaxAge \in 0 .. Window
  /\ Outcomes \subseteq SUBSET Leaders
  /\ Clusterings \subseteq [Feeds \X Leaders -> Nat] /\ Clusterings # {}

VARIABLES
  recent,   (* of each feed: trades of the window it returned since the start  *)
  shadow,   (* the shadow_trades table, by id                                  *)
  stale,    (* buys passed over for their age since the start                  *)
  pool,     (* the keys the last scoring qualified                             *)
  clusters  (* and their clusters                                              *)

copyVars == <<recent, shadow, stale, pool, clusters>>
vars == <<feedVars, copyVars>>

Mints == {MintOf[s] : s \in Swaps}
Keys == Feeds \X Leaders
Consensus(m, t) == <<"consensus", m, t>>
Copy(s) == <<"leader", s, 0>>
ConsensusIds == {Consensus(m, t) : m \in Mints, t \in 0 .. MaxNow}
Ids == ConsensusIds \cup {Copy(s) : s \in Swaps}
MintOfId(i) == IF i \in ConsensusIds THEN i[2] ELSE MintOf[i[2]]

Init ==
  /\ FeedInit
  /\ recent = [f \in Feeds |-> {}]
  /\ shadow = [i \in Ids |-> "none"]
  /\ stale = {}
  /\ pool = {} /\ clusters = (CHOOSE c \in Clusterings : TRUE)

-----------------------------------------------------------------------------
(***************************************************************************)
(* The copy adapter's view.                                                *)
(***************************************************************************)

(* _window_trades: the log of the window; what this feed returned itself   *)
(* keeps its own key.                                                      *)
WindowTrades == {s \in Logged : at[s] >= now - Window /\ at[s] <= now}
Seen(feed) == (recent[feed] \cup emitted) \cap WindowTrades
View(feed) ==
  LET own == Seen(feed) IN
  [s \in WindowTrades |-> <<IF s \in own THEN feed ELSE row[s], LeaderOf[s]>>]

(* effective: until a scoring qualified someone, every key seen counts, in *)
(* a cluster of its own.                                                   *)
Provisional == pool = {}
Cluster(k) == IF Provisional THEN k ELSE <<"cluster", clusters[k]>>

(* The buys of a view whose keys count.                                    *)
Followed(view) ==
  {s \in DOMAIN view : SideOf[s] = "buy" /\ (Provisional \/ view[s] \in pool)}

(* (A consensus of keys.)                                                  *)
SignalsByKey(view) ==
  LET buys == Followed(view) IN
  {m \in Mints : Cardinality({view[s] : s \in {b \in buys : MintOf[b] = m}}) >= MinClusters}

(* consensus: the mints that enough distinct clusters bought.              *)
Signals(view) ==
  LET buys == Followed(view) IN
  {m \in Mints :
     Cardinality({Cluster(view[s]) : s \in {b \in buys : MintOf[b] = m}}) >= MinClusters}

-----------------------------------------------------------------------------
(***************************************************************************)
(* ShadowTracker.                                                          *)
(***************************************************************************)
IsOpen(i) == shadow[i] = "open"

(* (A tracker that knows the trades that are open.)                        *)
FreshIfNotOpen(i) == ~IsOpen(i)

(* An id that was never opened.                                            *)
FreshId(i) == shadow[i] = "none"

(* (A consensus whenever there is a signal.)                               *)
NewConsensusEachTick(signals) == {Consensus(m, now) : m \in signals}

(* One open trade per mint of a consensus.                                 *)
NewConsensus(signals) ==
  {Consensus(m, now) : m \in {n \in signals : \A t \in 0 .. MaxNow : ~IsOpen(Consensus(n, t))}}

(* A buy is copied once, while it is a signal; one found too late is not.  *)
NewCopies(buys) == {Copy(s) : s \in {b \in buys : now - at[b] <= MaxAge /\ b \notin stale}}
TooOld(buys) == {b \in buys : now - at[b] > MaxAge /\ FreshId(Copy(b))}

(* on_leader_trades; quoted are the mints a price can be had for.  A sell  *)
(* opens and closes nothing: it moves the trail of an exit rule.           *)
Book(view, quoted) ==
  LET buys == Followed(view)
      opened == {i \in NewConsensus(Signals(view)) \cup NewCopies(buys) :
                   FreshId(i) /\ MintOfId(i) \in quoted}
  IN /\ shadow' = [i \in Ids |-> IF i \in opened THEN "open" ELSE shadow[i]]
     /\ stale' = stale \cup TooOld(buys)

(* The rest of the adapter's poll: nothing to do without a new trade or a  *)
(* signal.                                                                 *)
Adapt(feed, quoted) ==
  /\ stage = feed
  /\ LET view == View(feed) IN
       IF emitted = {} /\ Signals(view) = {} THEN UNCHANGED <<shadow, stale>>
       ELSE Book(view, quoted)
  /\ recent' = [recent EXCEPT ![feed] = Seen(feed)]
  /\ emitted' = {} /\ stage' = "idle"
  /\ UNCHANGED <<now, chain, row, known, pending, dropped, cursor, inspected, pushed,
                 restarts, pool, clusters>>

(* mark_and_exit: an open trade meets its exit rule.                       *)
MarkAndExit(i) ==
  /\ stage = "idle"
  /\ IsOpen(i)
  /\ shadow' = [shadow EXCEPT ![i] = "closed"]
  /\ UNCHANGED <<feedVars, recent, stale, pool, clusters>>

(* rescore: of the logged keys those that qualify; without a trade logged  *)
(* the pool stays.                                                         *)
Rescore(qualified, clustering) ==
  /\ stage = "idle"
  /\ clusters' = IF Logged = {} THEN clusters ELSE clustering
  /\ pool' = IF Logged = {} THEN pool
             ELSE {<<row[s], LeaderOf[s]>> : s \in {l \in Logged : LeaderOf[l] \in qualified}}
  /\ UNCHANGED <<feedVars, recent, shadow, stale>>

Restart ==
  /\ RestartFeeds
  /\ recent' = [f \in Feeds |-> {}] /\ stale' = {}
  /\ UNCHANGED <<shadow, pool, clusters>>

Next ==
  \/ \E s \in Sigs : (Execute(s) \/ BoardLists(s)) /\ UNCHANGED copyVars
  \/ Wait /\ UNCHANGED copyVars
  \/ \E answered \in SUBSET (Executed \cap Queue) : FamPoll(answered) /\ UNCHANGED copyVars
  \/ \E reached \in SUBSET Wallets, unpriced \in {{}, SolQuoted} :
       \E answered \in SUBSET (Executed \cap Read(reached)) :
         WalletPoll(reached, answered, unpriced) /\ UNCHANGED copyVars
  \/ \E feed \in Feeds, quoted \in SUBSET Mints : Adapt(feed, quoted)
  \/ \E i \in Ids : MarkAndExit(i)
  \/ \E qualified \in Outcomes, clustering \in Clusterings : Rescore(qualified, clustering)
  \/ Restart

Spec == Init /\ [][Next]_vars

-----------------------------------------------------------------------------
(***************************************************************************)
(* Properties.                                                             *)
(***************************************************************************)

(* The variables keep to their domains.                                    *)
TypeOK ==
  /\ FeedTypeOK
  /\ recent \in [Feeds -> SUBSET Logged]
  /\ shadow \in [Ids -> {"none", "open", "closed"}]
  /\ stale \subseteq Swaps /\ pool \subseteq Keys /\ clusters \in Clusterings

(* Nothing the board says counts before the chain confirmed it: what is    *)
(* logged executed, as a swap.                                             *)
LoggedIsConfirmed == Logged \subseteq Executed \cap Swaps

(* The cursor of a wallet is never ahead of a swap that was neither logged *)
(* nor resolved, unless more signatures came between two polls than a poll *)
(* gets: an RPC that fails for some of the rows loses none of them.        *)
CursorSkipsNothing ==
  \A w \in Wallets : \A i \in 1 .. Position(w, cursor[w]) :
    past[w][i] \in Swaps => past[w][i] \in Logged \cup inspected \cup pushed

(* A shadow trade that closed stays closed: no later poll, scoring or      *)
(* restart opens the same signal again.                                    *)
ClosedStayClosed ==
  [][\A i \in Ids : shadow[i] = "closed" => shadow'[i] = "closed"]_vars

(* At no time are two consensus trades of a mint open, whichever feed      *)
(* found the consensus first and whatever was restarted in between.        *)
OneOpenConsensus ==
  \A m \in Mints : Cardinality({t \in 0 .. MaxNow : IsOpen(Consensus(m, t))}) <= 1

(* Leaders of one cluster make no consensus: once a pool is scored, a      *)
(* consensus trade opens only if enough clusters bought the mint on chain  *)
(* within the window.                                                      *)
ConsensusOfClusters ==
  [][\A m \in Mints, t \in 0 .. MaxNow :
       ~Provisional /\ ~IsOpen(Consensus(m, t)) /\ IsOpen(Consensus(m, t))' =>
         Cardinality({clusters[<<f, LeaderOf[s]>>] : f \in Feeds, s \in
           {b \in Executed : SideOf[b] = "buy" /\ MintOf[b] = m /\ at[b] >= now - Window}})
         >= MinClusters]_vars
=============================================================================
