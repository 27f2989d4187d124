---------------------------- MODULE RampControl ----------------------------
(***************************************************************************)
(* What limits the size of a live entry over time: the canary (tiny caps   *)
(* until a buy, a sell and a post are verified), the ramp that follows it, *)
(* one step a week, the fall of one step when a brake trips, and the pause *)
(* after consecutive failed executions.  All of it lives in the state      *)
(* file, which a tick reads at its start and writes whole at its end,      *)
(* while `tiller resume' and `tiller reconcile --accept' do the same       *)
(* beside it without a lock.                                               *)
(*                                                                         *)
(* A tick reads the clock once, so the clock stands still during a tick.   *)
(***************************************************************************)
EXTENDS Integers

CONSTANTS
  Never,             (* no time: the ramp has not started                    *)
  Steps,             (* number of ramp_steps                                 *)
  StepTime,          (* ramp_step_days, in steps of the clock                *)
  PauseTime,         (* consecutive_failure_pause_min, in steps of the clock *)
  FailuresToPause,   (* CONSECUTIVE_FAILURES_TO_PAUSE                        *)
  MaxSells,          (* bound: sells of a tick                               *)
  MaxTime            (* bound: the last time of the clock                    *)

ASSUME RampAssumption ==
  /\ Never \notin Nat
  /\ Steps \in Nat \ {0} /\ StepTime \in Nat
  /\ PauseTime \in Nat \ {0} /\ FailuresToPause \in Nat \ {0}
  /\ MaxSells \in Nat /\ MaxTime \in Nat

VARIABLES
  file,     (* canary and brakes in the state file                           *)
  mem,      (* the same in the tick that is running                          *)
  now,      (* the clock                                                     *)
  pc,       (* where the agent is                                            *)
  tripped,  (* the tick saw the brakes go from open to blocked               *)
  sells,    (* sells it has still to execute                                 *)
  entry,    (* it has an entry to execute                                    *)
  posts,    (* trade posts in the ledger: "none", "queued", "posted"         *)
  cli,      (* the command running beside it: "none", "resume", "accept"     *)
  copy,     (* the state that command has read                               *)
  since     (* when the canary was first completed (only observed)           *)

plan == <<tripped, sells, entry>>
command == <<cli, copy>>
vars == <<file, mem, now, pc, tripped, sells, entry, posts, cli, copy, since>>

Events == {"buy", "sell", "post"}
States == [verified : SUBSET Events, step : 0 .. (Steps - 1), started : Nat \cup {Never},
           blocked : BOOLEAN, fails : 0 .. (FailuresToPause - 1), paused : Nat]

Fresh == [verified |-> {}, step |-> 0, started |-> Never,
          blocked |-> FALSE, fails |-> 0, paused |-> 0]

Init ==
  /\ file = Fresh /\ mem = Fresh
  /\ now = 0
  /\ pc = "idle" /\ tripped = FALSE /\ sells = 0 /\ entry = FALSE
  /\ posts = "none"
  /\ cli = "none" /\ copy = Fresh
  /\ since = Never

-----------------------------------------------------------------------------
(***************************************************************************)
(* The risk engine's decisions.                                            *)
(***************************************************************************)

(* The cap an entry is sized with: 0 for the canary's, else the ramp's     *)
(* step counted from 1.                                                    *)
Stage(s) == IF s.verified = Events THEN s.step + 1 ELSE 0

(* (A pause that a look at the brakes would end.)                          *)
PauseForgotten(s) == FALSE
StillPaused(s) == s.paused > now

Enough(n) == n >= FailuresToPause

RecordFailure(s) ==
  IF Enough(s.fails + 1)
  THEN [s EXCEPT !.fails = 0, !.paused = now + PauseTime, !.blocked = TRUE]
  ELSE [s EXCEPT !.fails = @ + 1]
RecordSuccess(s) == [s EXCEPT !.fails = 0]

(* (A climb that would not restart the clock.)                             *)
ClimbedInPlace(s) == [s EXCEPT !.step = @ + 1]
Climbed(s) == [s EXCEPT !.step = @ + 1, !.started = now]
Fallen(s) == [s EXCEPT !.step = IF @ = 0 THEN 0 ELSE @ - 1, !.started = now]
Restarted(s, start) == [s EXCEPT !.step = 0, !.started = start]

(* advance_canary, the events verified by now having been added to s.      *)
Advanced(s) ==
  CASE s.verified # Events                      -> Restarted(s, Never)
    [] s.verified = Events /\ s.started = Never -> Restarted(s, now)
    [] s.verified = Events /\ s.started # Never ->
         IF tripped THEN Fallen(s)
         ELSE IF now - s.started >= StepTime /\ s.step < Steps - 1 THEN Climbed(s)
         ELSE s

-----------------------------------------------------------------------------
PassTime ==
  /\ pc = "idle" /\ now < MaxTime
  /\ now' = now + 1
  /\ UNCHANGED <<file, mem, pc, plan, posts, command, since>>

StartTick ==
  /\ pc = "idle"
  /\ mem' = file
  /\ pc' = "assess"
  /\ UNCHANGED <<file, now, plan, posts, command, since>>

(* What the process had in memory is not used again.                       *)
Drop == mem' = Fresh /\ tripped' = FALSE /\ sells' = 0 /\ entry' = FALSE /\ pc' = "idle"

(* No snapshot: the tick saves and ends before it looks at the brakes.     *)
SnapshotFails ==
  /\ pc = "assess"
  /\ file' = mem
  /\ Drop
  /\ UNCHANGED <<now, posts, command, since>>

(* The brakes are evaluated (`other' stands for every brake but the pause) *)
(* and the tick is planned: exits always, an entry when no brake holds.    *)
(* Without a volatility estimate entries are blocked after that, and the   *)
(* trip is not noticed.                                                    *)
Braked(other) == other \/ StillPaused(mem)

Assess(other, sigmaMissing) ==
  /\ pc = "assess"
  /\ tripped' = (Braked(other) /\ ~mem.blocked)
  /\ mem' = [mem EXCEPT !.blocked = Braked(other) \/ sigmaMissing,
                        !.paused = IF StillPaused(mem) THEN @ ELSE 0]
  /\ sells' \in 0 .. MaxSells
  /\ entry' \in {FALSE, ~Braked(other) /\ ~sigmaMissing}
  /\ pc' = "trade"
  /\ UNCHANGED <<file, now, posts, command, since>>

(* The flatten, which saves the state as it is when it has sold: in the    *)
(* tick the trip is not in it yet.                                         *)
AssessFlatten(other) ==
  /\ pc = "assess"
  /\ tripped' = (Braked(other) /\ ~mem.blocked)
  /\ mem' = [mem EXCEPT !.blocked = Braked(other),
                        !.paused = IF StillPaused(mem) THEN @ ELSE 0]
  /\ sells' \in 0 .. MaxSells
  /\ pc' = "flatten"
  /\ UNCHANGED <<file, now, entry, posts, command, since>>

(* `tiller flatten --yes' holds the lock: the agent is not running.        *)
CliFlatten ==
  /\ pc = "idle"
  /\ mem' = file
  /\ sells' \in 0 .. MaxSells
  /\ pc' = "cliflatten"
  /\ UNCHANGED <<file, now, tripped, entry, posts, command, since>>

EndFlatten ==
  /\ pc \in {"flatten", "cliflatten"} /\ sells = 0
  /\ file' = mem
  /\ IF pc = "flatten" THEN pc' = "trade" /\ UNCHANGED <<mem, plan>> ELSE Drop
  /\ UNCHANGED <<now, posts, command, since>>

(* _execute: the swap fills, or fails or has an unknown outcome.           *)
Filled(event) ==
  /\ mem' = [RecordSuccess(mem) EXCEPT !.verified = @ \cup {event}]
  /\ posts' = IF posts = "none" THEN "queued" ELSE posts
Failed ==
  /\ mem' = RecordFailure(mem)
  /\ UNCHANGED posts
(* There was nothing to swap, or no reference price.                       *)
Refused == UNCHANGED <<mem, posts>>

Sell ==
  /\ pc \in {"trade", "flatten", "cliflatten"} /\ sells > 0
  /\ sells' = sells - 1
  /\ Filled("sell") \/ Failed \/ Refused
  /\ UNCHANGED <<file, now, pc, tripped, entry, command, since>>

BuyTurn ==
  /\ pc = "trade" /\ sells = 0 /\ entry
  /\ entry' = FALSE
  /\ UNCHANGED <<file, now, pc, tripped, sells, command, since>>
Buy == BuyTurn /\ (Filled("buy") \/ Failed)
SkipBuy == BuyTurn /\ Refused

(* The posts are flushed, the canary advances, the state is saved.         *)
EndTick ==
  /\ pc = "trade" /\ sells = 0 /\ ~entry
  /\ posts' \in {posts} \cup {p \in {"posted"} : posts = "queued"}
  /\ file' = Advanced([mem EXCEPT !.verified = @ \cup {e \in {"post"} : posts' = "posted"}])
  /\ since' = IF since = Never THEN file'.started ELSE since
  /\ Drop
  /\ UNCHANGED <<now, command>>

(* The process dies, or the tick raises.                                   *)
Crash ==
  /\ pc # "idle"
  /\ Drop
  /\ UNCHANGED <<file, now, posts, command, since>>

(* `tiller resume' clears the pause in what it has read, `tiller reconcile *)
(* --accept' writes it back as it was.                                     *)
CommandLoad ==
  /\ cli = "none"
  /\ cli' \in {"resume", "accept"} /\ copy' = file
  /\ UNCHANGED <<file, mem, now, pc, plan, posts, since>>

CommandSave ==
  /\ cli # "none"
  /\ file' = IF cli = "resume" THEN [copy EXCEPT !.fails = 0, !.paused = 0] ELSE copy
  /\ cli' = "none" /\ copy' = Fresh
  /\ UNCHANGED <<mem, now, pc, plan, posts, since>>

Next ==
  \/ PassTime \/ StartTick \/ SnapshotFails \/ CliFlatten \/ EndFlatten
  \/ \E other, sigmaMissing \in BOOLEAN : Assess(other, sigmaMissing)
  \/ \E other \in BOOLEAN : AssessFlatten(other)
  \/ Sell \/ Buy \/ SkipBuy \/ EndTick \/ Crash
  \/ CommandLoad \/ CommandSave

Spec == Init /\ [][Next]_vars

-----------------------------------------------------------------------------
TypeOK ==
  /\ file \in States /\ mem \in States /\ copy \in States
  /\ now \in 0 .. MaxTime
  /\ pc \in {"idle", "assess", "trade", "flatten", "cliflatten"}
  /\ tripped \in BOOLEAN /\ entry \in BOOLEAN
  /\ sells \in 0 .. MaxSells
  /\ posts \in {"none", "queued", "posted"}
  /\ cli \in {"none", "resume", "accept"}
  /\ since \in Nat \cup {Never}

(* Every step of the ramp took its time: the n-th is in force no sooner    *)
(* than n - 1 whole periods after the canary was completed, although       *)
(* trips, crashes and the commands put older states back at any moment     *)
(* (advance_canary, effective_limits, cmd_resume, cmd_reconcile).          *)
EarnedBy(s) ==
  Stage(s) > 1 => since # Never /\ since + (Stage(s) - 1) * StepTime <= now
RampEarned == EarnedBy(file) /\ EarnedBy(mem)

(* No entry is executed while the state file says paused: no stale copy of *)
(* the file brings a pause back under a plan made without it (brake_state, *)
(* plan_tick).                                                             *)
PauseHonoured == [][Buy => file.paused <= now]_vars

(***************************************************************************)
(* What makes these two inductive.                                         *)
(***************************************************************************)
(* In every copy of the state the step was earned before its clock began.  *)
Earned(s) ==
  s.started # Never => /\ since # Never
                       /\ since + s.step * StepTime <= s.started /\ s.started <= now
StepNeedsStart(s) == s.started = Never => s.step = 0
StatesEarned ==
  /\ since # Never => since <= now
  /\ Earned(file) /\ Earned(mem) /\ Earned(copy)
  /\ StepNeedsStart(file) /\ StepNeedsStart(mem) /\ StepNeedsStart(copy)

(* No pause is longer than a pause, and a later one ends later: what the   *)
(* tick and a command hold never outlasts what they would overwrite.       *)
PausesBounded ==
  /\ file.paused <= now + PauseTime
  /\ mem.paused <= now + PauseTime
  /\ copy.paused <= now + PauseTime
TickKeepsPause == pc # "idle" /\ file.paused > now => mem.paused >= file.paused
CopyIsNoLonger == copy.paused > now => file.paused >= copy.paused
EntryUnpaused == entry => pc = "trade" /\ file.paused <= now

IInv ==
  /\ TypeOK /\ StatesEarned
  /\ PausesBounded /\ TickKeepsPause /\ CopyIsNoLonger /\ EntryUnpaused

=============================================================================
