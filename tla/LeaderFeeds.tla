----------------------------- MODULE LeaderFeeds -----------------------------
(***************************************************************************)
(* The two feeds of leader trades and the table they share.  The familiars *)
(* feed holds what the board lists until the chain confirms it; the wallet *)
(* feed walks a wallet's signatures from a cursor it keeps in memory.      *)
(* Both poll once a tick, remember what they did only until a restart, and *)
(* log a trade once, by its signature.                                     *)
(*                                                                         *)
(* A poll is one step: nothing else of the process runs during it, what    *)
(* executes meanwhile may as well execute after it, and a crash in the     *)
(* middle of it leaves what a poll with fewer answers would.               *)
(* The clock counts ticks.                                                 *)
(***************************************************************************)
EXTENDS Integers, Sequences, FiniteSets, FiniteSetsExt

CONSTANTS
  Sigs,            (* signatures of transactions, each with                      *)
  LeaderOf,        (*   the leader whose wallet it is of,                        *)
  SideOf,          (*   buy or sell, or other: no swap, or failed on chain,      *)
  MintOf,          (*   and the token of the swap                                *)
  SolQuoted,       (* those paid in SOL                                          *)
  Wallets,         (* leaders followed by wallet                                 *)
  Handles,         (* leaders followed on the board                              *)
  None,            (* no signature, no time                                      *)
  Limit,           (* rows a poll of a wallet gets (25 in the code)              *)
  VerifyTimeout,   (* ticks a board row may wait for the chain (5)               *)
  Listable,        (* bound: the signatures the board may come to list           *)
  MaxNow,          (* bound: the clock                                           *)
  MaxRestarts      (* bound: restarts of the agent                               *)

Leaders == Wallets \cup Handles
Feeds == {"fam", "wallet"}

ASSUME FeedsAssumption ==
  /\ IsFiniteSet(Sigs) /\ LeaderOf \in [Sigs -> Leaders]
  /\ SideOf \in [Sigs -> {"buy", "sell", "other"}]
  /\ SolQuoted \subseteq Sigs /\ None \notin Sigs \cup 0 .. MaxNow
  /\ Limit \in Nat \ {0} /\ VerifyTimeout \in Nat
  /\ MaxNow \in Nat /\ MaxRestarts \in Nat

VARIABLES
  now,        (* the clock                                                      *)
  past,       (* of each leader: the wallet's signatures on chain, oldest first *)
  at,         (* when each executed                                             *)
  board,      (* what the board ever listed as a trade                          *)
  row,        (* leader_trades: the feed whose key a signature was logged with  *)
  known,      (* of each feed: signatures it knows to be logged                 *)
  pending,    (* board rows that wait for the chain: when first seen            *)
  dropped,    (* board rows given up                                            *)
  cursor,     (* of each wallet: _last_seen                                     *)
  inspected,  (* signatures the wallet feed resolved                            *)
  emitted,    (* what the poll under way returned                               *)
  stage,      (* whose poll the copy adapter is to act on, or idle              *)
  pushed,     (* history: signatures that fell behind the limit unresolved      *)
  restarts    (* restarts so far                                                *)

chain == <<past, at, board>>
memory == <<known, pending, dropped, cursor, inspected, emitted, stage>>
feedVars == <<now, past, at, board, row, known, pending, dropped, cursor,
              inspected, emitted, stage, pushed, restarts>>

Logged == {s \in Sigs : row[s] # "none"}
Executed == {s \in Sigs : at[s] # None}
Swaps == {s \in Sigs : SideOf[s] # "other"}

(* What a process remembers when it starts.                                *)
Nothing == [pending |-> [s \in Sigs |-> None], cursor |-> [w \in Wallets |-> None]]

FeedInit ==
  /\ now = 0
  /\ past = [l \in Leaders |-> <<>>] /\ at = [s \in Sigs |-> None] /\ board = {}
  /\ row = [s \in Sigs |-> "none"]
  /\ known = [f \in Feeds |-> {}]
  /\ pending = Nothing.pending /\ dropped = {}
  /\ cursor = Nothing.cursor /\ inspected = {}
  /\ emitted = {} /\ stage = "idle"
  /\ pushed = {} /\ restarts = 0

-----------------------------------------------------------------------------
(***************************************************************************)
(* The chain, the board and the clock.                                     *)
(***************************************************************************)
Execute(s) ==
  /\ s \notin Executed /\ stage = "idle"
  /\ past' = [past EXCEPT ![LeaderOf[s]] = Append(@, s)]
  /\ at' = [at EXCEPT ![s] = now]
  /\ UNCHANGED <<now, board, row, memory, pushed, restarts>>

(* The board lists a trade: one that executed, or one that never will.     *)
BoardLists(s) ==
  /\ LeaderOf[s] \in Handles /\ s \in Listable \ board /\ stage = "idle"
  /\ board' = board \cup {s}
  /\ UNCHANGED <<now, past, at, row, memory, pushed, restarts>>

Wait ==
  /\ now < MaxNow /\ stage = "idle"
  /\ now' = now + 1
  /\ UNCHANGED <<chain, row, memory, pushed, restarts>>

-----------------------------------------------------------------------------
(***************************************************************************)
(* FamiliarsFeed.                                                          *)
(***************************************************************************)

(* upsert_leader_trades: the first key a signature is logged with stays.   *)
Upsert(trades, feed) ==
  row' = [s \in Sigs |-> IF s \in trades /\ row[s] = "none" THEN feed ELSE row[s]]

(* What the poll queues: rows the feed does not know, waits for or gave up. *)
Fresh == {s \in board : s \notin known["fam"] /\ s \notin dropped /\ pending[s] = None}
Queue == {s \in Sigs : pending[s] # None} \cup Fresh

FirstSeen(s) == IF pending[s] = None THEN now ELSE pending[s]
Late(s) == now - FirstSeen(s) >= VerifyTimeout

(* (A feed that takes what it could not verify in time.)                   *)
ConfirmedOrLate(queue, answered) ==
  {s \in queue : IF s \in answered THEN SideOf[s] # "other" ELSE Late(s)}

(* chain_confirms: there, not failed, signed by the leader, and the swap   *)
(* the board said.                                                         *)
Confirmed(queue, answered) == {s \in queue \cap answered : SideOf[s] # "other"}

(* poll and _verify: answered are the transactions the RPC returned.  A    *)
(* board that does not answer for a handle lists its trades later.         *)
FamPoll(answered) ==
  LET queue == Queue
      ok == Confirmed(queue, answered)
      gone == {s \in queue \ ok : s \in answered \/ Late(s)}
  IN /\ stage = "idle"
     /\ answered \subseteq Executed
     /\ Upsert(ok, "fam")
     /\ known' = [known EXCEPT !["fam"] = @ \cup ok]
     /\ dropped' = dropped \cup gone
     /\ pending' = [s \in Sigs |-> IF s \in queue \ (ok \cup gone) THEN FirstSeen(s) ELSE None]
     /\ emitted' = ok /\ stage' = "fam"
     /\ UNCHANGED <<now, chain, cursor, inspected, pushed, restarts>>

-----------------------------------------------------------------------------
(***************************************************************************)
(* WalletFeed.                                                             *)
(***************************************************************************)
Position(w, s) == IF s = None THEN 0 ELSE CHOOSE i \in DOMAIN past[w] : past[w][i] = s
After(w) == SubSeq(past[w], Position(w, cursor[w]) + 1, Len(past[w]))

(* get_signatures_for_address: the newest after the cursor, newest first.  *)
Rows(w) ==
  LET n == Len(After(w)) IN
  [i \in 1 .. (IF n < Limit THEN n ELSE Limit) |-> After(w)[n - i + 1]]

Unseen(s) == s \notin known["wallet"] /\ s \notin inspected
Unresolved(w, answered) ==
  {i \in DOMAIN Rows(w) : Unseen(Rows(w)[i]) /\ Rows(w)[i] \notin answered}

(* (A cursor that goes to the newest row.)                                 *)
AdvanceToNewest(w, answered) == IF Rows(w) = <<>> THEN cursor[w] ELSE Rows(w)[1]

(* The cursor moves past the rows older than the oldest unresolved one.    *)
Advance(w, answered) ==
  LET failed == Unresolved(w, answered) IN
  IF Rows(w) = <<>> THEN cursor[w]
  ELSE IF failed = {} THEN Rows(w)[1]
  ELSE IF Max(failed) < Len(Rows(w)) THEN Rows(w)[Max(failed) + 1] ELSE cursor[w]

Read(reached) == UNION {{Rows(w)[i] : i \in DOMAIN Rows(w)} : w \in reached}

(* reached are the wallets whose signatures could be read, answered the    *)
(* transactions the RPC returned; without a SOL price the trades in SOL    *)
(* are passed over.                                                        *)
WalletPoll(reached, answered, unpriced) ==
  LET resolved == {s \in answered \cap Read(reached) : Unseen(s)}
      trades == (resolved \cap Swaps) \ unpriced
      new == {s \in trades : row[s] = "none"}
      behind == {s \in Swaps \ Logged : Unseen(s) /\ \E w \in reached :
                   \E i \in 1 .. (Len(After(w)) - Len(Rows(w))) : After(w)[i] = s}
  IN /\ stage = "idle"
     /\ reached \subseteq Wallets /\ answered \subseteq Executed
     /\ Upsert(trades, "wallet")
     /\ known' = [known EXCEPT !["wallet"] = @ \cup new]
     /\ inspected' = inspected \cup resolved
     /\ cursor' = [w \in Wallets |-> IF w \in reached THEN Advance(w, answered) ELSE cursor[w]]
     /\ emitted' = new /\ stage' = "wallet"
     /\ pushed' = pushed \cup behind
     /\ UNCHANGED <<now, chain, pending, dropped, restarts>>

-----------------------------------------------------------------------------
(* The process starts again, and knows what the ledger holds.              *)
RestartFeeds ==
  /\ restarts < MaxRestarts
  /\ restarts' = restarts + 1
  /\ UNCHANGED <<now, chain, row, pushed>>
  /\ known' = [f \in Feeds |-> Logged]
  /\ pending' = Nothing.pending /\ dropped' = {}
  /\ cursor' = Nothing.cursor /\ inspected' = {}
  /\ emitted' = {} /\ stage' = "idle"

FeedTypeOK ==
  /\ now \in 0 .. MaxNow
  /\ past \in [Leaders -> Seq(Sigs)] /\ at \in [Sigs -> 0 .. MaxNow \cup {None}]
  /\ board \subseteq Sigs
  /\ row \in [Sigs -> Feeds \cup {"none"}]
  /\ known \in [Feeds -> SUBSET Logged]
  /\ pending \in [Sigs -> 0 .. MaxNow \cup {None}] /\ dropped \subseteq Sigs
  /\ cursor \in [Wallets -> Sigs \cup {None}] /\ inspected \subseteq Sigs
  /\ emitted \subseteq Logged /\ stage \in Feeds \cup {"idle"}
  /\ pushed \subseteq Sigs /\ restarts \in 0 .. MaxRestarts
=============================================================================
