------------------------------ MODULE PostQueue ------------------------------
(***************************************************************************)
(* The queue of board posts.  Its rows live in the ledger and survive a    *)
(* restart; flush takes every due row once.  A send can be lost on its way *)
(* there or on its way back, arrive after the client gave up on it, or be  *)
(* cut short by the death of the process before the row is written.        *)
(*                                                                         *)
(* (Names that other modules have too carry Post here, so that a           *)
(* module can extend those of the control process side by side.)           *)
(***************************************************************************)
EXTENDS Integers

CONSTANTS
  Trades,            (* trade posts, keyed by the signature of a live fill   *)
  Notes,             (* daily notes, keyed by day                            *)
  NoPost,            (* "no post in hand"                                    *)
  MaxRateLimit,      (* MAX_RATE_LIMIT_ATTEMPTS                              *)
  MaxUncertain,      (* MAX_UNCERTAIN_SENDS                                  *)
  MaxCrashes         (* bound: how often the process dies                    *)

Posts == Trades \cup Notes

ASSUME PostsAssumption ==
  /\ Trades \cap Notes = {} /\ NoPost \notin Posts
  /\ MaxUncertain \in Nat \ {0} /\ MaxRateLimit \in Nat \ {0}
  /\ MaxCrashes \in Nat

VARIABLES
  state,     (* state column of the posts table; "none": no row              *)
  attempts,  (* attempts column                                              *)
  due,       (* posts whose not_before has passed                            *)
  doing,     (* where the process is                                         *)
  batch,     (* rows this flush has still to take                            *)
  cur,       (* the row in hand                                              *)
  answer,    (* what came of its POST                                        *)
  board,     (* copies of each post the board shows                          *)
  underway,  (* copies still on their way to it                              *)
  crashes    (* crashes so far                                               *)

row == <<state, attempts, due>>
flushing == <<doing, batch, cur, answer>>
postVars == <<state, attempts, due, doing, batch, cur, answer, board, underway, crashes>>

PostInit ==
  /\ state = [k \in Posts |-> "none"]
  /\ attempts = [k \in Posts |-> 0]
  /\ due = {}
  /\ doing = "idle" /\ batch = {} /\ cur = NoPost /\ answer = "none"
  /\ board = [k \in Posts |-> 0]
  /\ underway = [k \in Posts |-> 0]
  /\ crashes = 0

(* post_upsert: the row is waiting (again) until its new not_before.       *)
Upsert(k, s, n) ==
  /\ state' = [state EXCEPT ![k] = s]
  /\ attempts' = [attempts EXCEPT ![k] = n]
  /\ due' = due \ {k}

-----------------------------------------------------------------------------
(* enqueue_trade after a live fill, daily_note once a day: a key that has  *)
(* a row already is left alone.                                            *)
Enqueue(k) ==
  /\ doing = "idle" /\ state[k] = "none"
  /\ Upsert(k, "queued", 0)
  /\ UNCHANGED <<flushing, board, underway, crashes>>

BecomeDue(k) ==
  /\ state[k] \in {"queued", "uncertain"} /\ k \notin due
  /\ due' = due \cup {k}
  /\ UNCHANGED <<state, attempts, flushing, board, underway, crashes>>

(* posts_pending is read once per flush.                                   *)
StartFlush ==
  /\ doing = "idle"
  /\ batch' = {k \in due : state[k] \in {"queued", "uncertain"}}
  /\ batch' # {}
  /\ doing' = "flush"
  /\ UNCHANGED <<row, cur, answer, board, underway, crashes>>

(* A row is dealt with without sending it.                                 *)
Settle(k, s) ==
  /\ batch' = batch \ {k}
  /\ Upsert(k, s, attempts[k])
  /\ UNCHANGED <<doing, cur, answer, board, underway, crashes>>

TakeToSend(k) ==
  /\ batch' = batch \ {k}
  /\ cur' = k
  /\ doing' = "send"
  /\ UNCHANGED <<row, answer, board, underway, crashes>>

(* A queued row is sent.                                                   *)
SendQueued(k) ==
  /\ doing = "flush" /\ k \in batch /\ state[k] = "queued"
  /\ TakeToSend(k)

(* An uncertain note has no signature to look up: it is given up.          *)
GiveUpNote(k) ==
  /\ doing = "flush" /\ k \in batch /\ state[k] = "uncertain" /\ k \in Notes
  /\ Settle(k, "failed")

(* (A lookup that takes an unreadable answer for a find.)                  *)
LookUpHopes(k) ==
  /\ doing = "flush" /\ k \in batch /\ state[k] = "uncertain" /\ k \in Trades
  /\ Settle(k, "posted")

(* An uncertain trade is found among our public posts.                     *)
LookUpFound(k) ==
  /\ doing = "flush" /\ k \in batch /\ state[k] = "uncertain" /\ k \in Trades
  /\ board[k] > 0
  /\ Settle(k, "posted")

(* (A queue that sends again for ever.)                                    *)
SentNeverOften(k) == FALSE

(* It is not found, or the posts could not be read, which counts as not    *)
(* found: it is sent again unless it has been sent often enough.           *)
SentOften(k) == attempts[k] >= MaxUncertain
LookUpFails(k) ==
  /\ doing = "flush" /\ k \in batch /\ state[k] = "uncertain" /\ k \in Trades
  /\ IF SentOften(k) THEN Settle(k, "failed") ELSE TakeToSend(k)

EndFlush ==
  /\ doing = "flush" /\ batch = {}
  /\ doing' = "idle"
  /\ UNCHANGED <<row, batch, cur, answer, board, underway, crashes>>

-----------------------------------------------------------------------------
(* POST /api/posts: one attempt.                                           *)
Deliver == board' = [board EXCEPT ![cur] = @ + 1] /\ UNCHANGED underway
Delay == underway' = [underway EXCEPT ![cur] = @ + 1] /\ UNCHANGED board
Lose == UNCHANGED <<board, underway>>

Post ==
  /\ doing = "send"
  /\ \/ answer' = "ok" /\ Deliver
     \/ answer' \in {"rate_limited", "rejected"} /\ Lose
     \/ answer' = "uncertain" /\ (Deliver \/ Delay \/ Lose)
  /\ doing' = "record"
  /\ UNCHANGED <<row, batch, cur, crashes>>

(* A request the client gave up on arrives after all.                      *)
Arrive(k) ==
  /\ underway[k] > 0
  /\ underway' = [underway EXCEPT ![k] = @ - 1]
  /\ board' = [board EXCEPT ![k] = @ + 1]
  /\ UNCHANGED <<row, flushing, crashes>>

(* (A count that stands still.)                                            *)
NotCounted == attempts[cur]

(* The attempts column after this send.                                    *)
Attempted == attempts[cur] + 1

(* _send, after the answer.                                                *)
Record ==
  /\ doing = "record"
  /\ \/ answer = "ok" /\ Upsert(cur, "posted", Attempted)
     \/ /\ answer = "rate_limited"
        /\ Upsert(cur, IF Attempted >= MaxRateLimit THEN "failed" ELSE "queued", Attempted)
     \/ answer = "uncertain" /\ Upsert(cur, "uncertain", Attempted)
     \/ answer = "rejected" /\ Upsert(cur, "failed", Attempted)
  /\ doing' = "flush" /\ cur' = NoPost /\ answer' = "none"
  /\ UNCHANGED <<batch, board, underway, crashes>>

(* The process dies and is started again; the rows are all it keeps.       *)
Restart ==
  /\ doing # "idle" /\ crashes < MaxCrashes
  /\ crashes' = crashes + 1
  /\ doing' = "idle" /\ batch' = {} /\ cur' = NoPost /\ answer' = "none"
  /\ UNCHANGED <<row, board, underway>>

-----------------------------------------------------------------------------
Flush ==
  \/ StartFlush \/ EndFlush \/ Post \/ Record
  \/ \E k \in Posts : SendQueued(k) \/ GiveUpNote(k) \/ LookUpFound(k) \/ LookUpFails(k)

PostNext ==
  \/ Flush \/ Restart
  \/ \E k \in Posts : Enqueue(k) \/ BecomeDue(k) \/ Arrive(k)

PostSpec == PostInit /\ [][PostNext]_postVars

(* flush runs at the end of every tick and never raises; time passes.      *)
PostFairSpec == PostSpec /\ WF_postVars(Flush) /\ \A k \in Posts : WF_postVars(BecomeDue(k))

-----------------------------------------------------------------------------
PostStates == {"none", "queued", "uncertain", "posted", "failed"}

PostTypeOK ==
  /\ state \in [Posts -> PostStates]
  /\ attempts \in [Posts -> Nat]
  /\ due \subseteq Posts
  /\ doing \in {"idle", "flush", "send", "record"}
  /\ batch \subseteq Posts
  /\ cur \in Posts \cup {NoPost}
  /\ answer \in {"none", "ok", "rate_limited", "uncertain", "rejected"}
  /\ board \in [Posts -> Nat] /\ underway \in [Posts -> Nat]
  /\ crashes \in 0 .. MaxCrashes

(* How often a post reaches the board is bounded, whatever the network     *)
(* does and however often the board is limiting or unreadable: a trade at  *)
(* most MAX_UNCERTAIN_SENDS times, a note once, and once more for every    *)
(* crash between a send and the write of its row (flush, _send).           *)
CopiesBounded ==
  \A k \in Posts : board[k] + underway[k] <= crashes + (IF k \in Notes THEN 1 ELSE MaxUncertain)

(* A row never says posted of a post the board does not show.              *)
PostedIsShown == \A k \in Posts : state[k] = "posted" => board[k] > 0

(***************************************************************************)
(* What makes the two inductive.                                           *)
(***************************************************************************)

MaxSends(k) == IF k \in Notes THEN 1 ELSE MaxUncertain
Least(a, b) == IF a <= b THEN a ELSE b

(* Copies a row accounts for: every send of a queued or uncertain row is   *)
(* in its attempts column, and a row that may be sent again leaves room    *)
(* for one copy more.                                                      *)
Accounted(k) ==
  IF state[k] = "none" THEN 0
  ELSE IF state[k] = "queued" THEN Least(attempts[k], MaxSends(k) - 1)
  ELSE IF state[k] = "uncertain" THEN Least(attempts[k], MaxSends(k))
  ELSE MaxSends(k)

(* The copy just sent, until its row is written.                           *)
Unrecorded(k) ==
  IF doing = "record" /\ cur = k /\ answer \in {"ok", "uncertain"} THEN 1 ELSE 0

MaySend(k) ==
  \/ state[k] = "queued"
  \/ state[k] = "uncertain" /\ k \in Trades /\ attempts[k] < MaxUncertain

InHand == doing \in {"send", "record"} => cur \in Posts /\ MaySend(cur)
AnswerTrue == doing = "record" /\ answer = "ok" => board[cur] > 0
CopiesAccounted ==
  \A k \in Posts : board[k] + underway[k] <= crashes + Accounted(k) + Unrecorded(k)

PostIInv == PostTypeOK /\ InHand /\ AnswerTrue /\ PostedIsShown /\ CopiesAccounted

(* Every queued post is settled, limits, outages and crashes               *)
(* notwithstanding: `a restart never loses' one.                           *)
EveryPostSettles ==
  \A k \in Posts : state[k] = "queued" ~> state[k] \in {"posted", "failed"}

=============================================================================
