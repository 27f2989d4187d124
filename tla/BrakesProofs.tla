----------------------------- MODULE BrakesProofs -----------------------------
(***************************************************************************)
(* What holds the agent back: the ramp and the failure pause, the brakes   *)
(* on losses, and the deposits and sweeps the brakes must see through.     *)
(*                                                                         *)
(* For any ramp, pause and number of failures: every ramp step in force    *)
(* took its time, and no entry is executed under a pause that the state    *)
(* file knows of.  The invariant has two halves: what every copy of the    *)
(* state says of the ramp, and how the pauses in the copies are ordered.   *)
(*                                                                         *)
(* For any transfers, amounts, price moves, windows and thresholds: what   *)
(* landed is booked once, a confirmed sweep is booked before the agent can *)
(* see it, and with everything recorded in time the brakes read the P&L.   *)
(***************************************************************************)
EXTENDS RampControl, Treasury, TLAPS

(* The fresh state, and the states the risk engine's decisions make.       *)
LEMMA FreshState == Fresh \in States
  BY RampAssumption DEF Fresh, States

(* A failure gives a state whose ramp is unchanged and whose pause is its  *)
(* own or a fresh one.                                                     *)
LEMMA FailureState ==
  ASSUME NEW s \in States, now \in Nat
  PROVE  /\ RecordFailure(s) \in States
         /\ RecordFailure(s).step = s.step /\ RecordFailure(s).started = s.started
         /\ RecordFailure(s).paused \in {s.paused, now + PauseTime}
<1>1. CASE Enough(s.fails + 1)
  <2>1. RecordFailure(s) = [s EXCEPT !.fails = 0, !.paused = now + PauseTime, !.blocked = TRUE]
    BY <1>1 DEF RecordFailure
  <2>2. 0 \in 0 .. (FailuresToPause - 1) /\ now + PauseTime \in Nat
    BY RampAssumption
  <2>3. QED
    BY <2>1, <2>2 DEF States
<1>2. CASE ~Enough(s.fails + 1)
  <2>1. RecordFailure(s) = [s EXCEPT !.fails = @ + 1]
    BY <1>2 DEF RecordFailure
  <2>2. s.fails + 1 \in 0 .. (FailuresToPause - 1)
    BY <1>2, RampAssumption DEF Enough, States
  <2>3. QED
    BY <2>1, <2>2 DEF States
<1>3. QED
  BY <1>1, <1>2

(* A success, and the canary's check marks, leave ramp and pause alone.    *)
LEMMA SuccessState ==
  ASSUME NEW s \in States, NEW e \in Events
  PROVE  LET r == [RecordSuccess(s) EXCEPT !.verified = @ \cup {e}]
         IN  /\ r \in States
             /\ r.step = s.step /\ r.started = s.started /\ r.paused = s.paused
<1>1. RecordSuccess(s) \in States /\ RecordSuccess(s) = [s EXCEPT !.fails = 0]
  <2>1. 0 \in 0 .. (FailuresToPause - 1)
    BY RampAssumption
  <2>2. QED
    BY <2>1 DEF RecordSuccess, States
<1>2. RecordSuccess(s).verified \cup {e} \in SUBSET Events
  BY <1>1 DEF States
<1>3. QED
  BY <1>1, <1>2 DEF States

(* The executions of a tick leave the ramp alone, and only shift a pause   *)
(* to its latest end.                                                      *)
LEMMA ExecutedState ==
  ASSUME TypeOK, NEW e \in Events, Filled(e) \/ Failed \/ Refused, UNCHANGED now
  PROVE  /\ mem' \in States /\ posts' \in {"none", "queued", "posted"}
         /\ mem'.step = mem.step /\ mem'.started = mem.started
         /\ mem'.paused \in {mem.paused, now + PauseTime}
<1>1. mem \in States /\ now \in Nat
  BY RampAssumption DEF TypeOK
<1>2. CASE Filled(e)
  BY <1>1, <1>2, SuccessState DEF Filled, TypeOK
<1>3. CASE Failed
  BY <1>1, <1>3, FailureState DEF Failed, TypeOK
<1>4. CASE Refused
  BY <1>1, <1>4 DEF Refused, TypeOK
<1>5. QED
  BY <1>2, <1>3, <1>4

(* What advance_canary does to the ramp: it starts, climbs when a whole    *)
(* period has passed, falls, or stays; the pause is not touched.           *)
LEMMA AdvancedState ==
  ASSUME TypeOK, NEW s \in States, Earned(s), StepNeedsStart(s), UNCHANGED now,
         since # Never => since <= now,
         NEW a, a = Advanced(s),
         since' = IF since = Never THEN a.started ELSE since
  PROVE  /\ a \in States /\ a.paused = s.paused
         /\ since' \in Nat \cup {Never} /\ (since' # Never => since' <= now)
         /\ Earned(a)' /\ StepNeedsStart(a)
<1>1. /\ now \in Nat /\ Never \notin Nat /\ StepTime \in Nat /\ Steps \in Nat \ {0}
      /\ since \in Nat \cup {Never} /\ s.step \in 0 .. (Steps - 1)
      /\ s.started \in Nat \cup {Never} /\ 0 \in 0 .. (Steps - 1)
      /\ now \in Nat \cup {Never} /\ Never \in Nat \cup {Never}
  BY RampAssumption DEF TypeOK, States
<1>2. CASE s.verified # Events
  <2>1. a = [s EXCEPT !.step = 0, !.started = Never]
    BY <1>2 DEF Advanced, Restarted
  <2>2. a \in States /\ a.step = 0 /\ a.started = Never /\ a.paused = s.paused
    BY <1>1, <2>1 DEF States
  <2>3. QED
    BY <1>1, <2>2 DEF Earned, StepNeedsStart
<1>3. CASE s.verified = Events /\ s.started = Never
  <2>1. a = [s EXCEPT !.step = 0, !.started = now]
    BY <1>3 DEF Advanced, Restarted
  <2>2. a \in States /\ a.step = 0 /\ a.started = now /\ a.paused = s.paused
    BY <1>1, <2>1 DEF States
  <2>3. QED
    BY <1>1, <2>2 DEF Earned, StepNeedsStart
<1>4. CASE s.verified = Events /\ s.started # Never
  <2>1. /\ since' = since /\ since \in Nat /\ s.started \in Nat
        /\ since + s.step * StepTime <= s.started /\ s.started <= now
    BY <1>1, <1>4 DEF Earned
  <2>5. ASSUME a \in States, a.paused = s.paused, a.started \in Nat, a.started <= now,
               since + a.step * StepTime <= a.started
        PROVE  /\ a \in States /\ a.paused = s.paused
               /\ since' \in Nat \cup {Never} /\ (since' # Never => since' <= now)
               /\ Earned(a)' /\ StepNeedsStart(a)
    <3>1. since # Never /\ a.started # Never
      BY <1>1, <2>1, <2>5
    <3>2. Earned(a)'
      BY <2>1, <2>5, <3>1, Zenon DEF Earned
    <3>3. StepNeedsStart(a)
      BY <3>1 DEF StepNeedsStart
    <3>4. since' \in Nat \cup {Never} /\ (since' # Never => since' <= now)
      BY <1>1, <2>1, <3>1, Zenon
    <3>5. QED
      BY <2>5, <3>2, <3>3, <3>4
  <2>2. CASE tripped
    <3> DEFINE k == IF s.step = 0 THEN 0 ELSE s.step - 1
    <3>1. a = [s EXCEPT !.step = k, !.started = now] /\ k \in 0 .. (Steps - 1)
      BY <1>1, <1>4, <2>2 DEF Advanced, Fallen
    <3>2. a \in States /\ a.step = k /\ a.started = now /\ a.paused = s.paused
      BY <1>1, <3>1 DEF States
    <3>3. k * StepTime <= s.step * StepTime
      BY <1>1
    <3>4. since + k * StepTime <= now
      <4>1. k * StepTime \in Nat /\ s.step * StepTime \in Nat
        BY <1>1
      <4>2. \A p, q, b, e, f \in Nat : p <= q /\ b + q <= e /\ e <= f => b + p <= f
        OBVIOUS
      <4> HIDE DEF k
      <4>3. QED
        BY <1>1, <2>1, <3>3, <4>1, <4>2
    <3> HIDE DEF k
    <3>5. since + a.step * StepTime <= a.started /\ a.started \in Nat /\ a.started <= now
      BY <1>1, <3>2, <3>4
    <3>6. QED
      BY <2>5, <3>2, <3>5, Zenon
  <2>3. CASE ~tripped /\ now - s.started >= StepTime /\ s.step < Steps - 1
    <3>1. a = [s EXCEPT !.step = @ + 1, !.started = now]
      BY <1>4, <2>3 DEF Advanced, Climbed
    <3>2. since + (s.step + 1) * StepTime <= now
      BY <1>1, <2>1, <2>3
    <3>3. s.step + 1 \in 0 .. (Steps - 1)
      BY <1>1, <2>3
    <3>4. a \in States /\ a.step = s.step + 1 /\ a.started = now /\ a.paused = s.paused
      BY <1>1, <3>1, <3>3 DEF States
    <3>5. since + a.step * StepTime <= a.started /\ a.started \in Nat /\ a.started <= now
      BY <1>1, <3>2, <3>4
    <3>6. QED
      BY <2>5, <3>4, <3>5, Zenon
  <2>4. CASE ~tripped /\ ~(now - s.started >= StepTime /\ s.step < Steps - 1)
    <3>1. a = s
      BY <1>4, <2>4 DEF Advanced
    <3>2. QED
      BY <2>1, <2>5, <3>1, Zenon
  <2>6. QED
    BY <2>2, <2>3, <2>4
<1>5. QED
  BY <1>2, <1>3, <1>4

(* Nothing is known of, or owed by, the fresh state.                       *)
LEMMA FreshParts ==
  ASSUME now \in Nat
  PROVE  /\ Fresh.started = Never /\ Fresh.step = 0 /\ Fresh.paused = 0
         /\ Fresh.paused <= now + PauseTime
  BY RampAssumption DEF Fresh

(* The agent starts with a fresh state in memory and on disk.              *)
LEMMA RampInit == Init => IInv
<1> SUFFICES ASSUME Init PROVE IInv
  OBVIOUS
<1>1. /\ file = Fresh /\ mem = Fresh /\ copy = Fresh /\ now = 0 /\ now \in Nat
      /\ since = Never /\ pc = "idle" /\ entry = FALSE
  BY DEF Init
<1>2. TypeOK
  <2>1. 0 \in 0 .. MaxTime /\ 0 \in 0 .. MaxSells
    BY RampAssumption
  <2>2. Fresh \in States
    BY FreshState
  <2>3. file \in States /\ mem \in States /\ copy \in States
    BY <1>1, <2>2
  <2>4. now \in 0 .. MaxTime /\ sells \in 0 .. MaxSells
    BY <2>1 DEF Init
  <2>5. /\ pc = "idle" /\ tripped \in BOOLEAN /\ entry \in BOOLEAN /\ posts = "none"
        /\ cli = "none" /\ since \in Nat \cup {Never}
    BY DEF Init
  <2>6. QED
    BY <2>3, <2>4, <2>5 DEF TypeOK
<1>3. StatesEarned
  BY <1>1, FreshParts DEF StatesEarned, Earned, StepNeedsStart
<1>4. PausesBounded /\ TickKeepsPause /\ CopyIsNoLonger /\ EntryUnpaused
  BY <1>1, FreshParts DEF PausesBounded, TickKeepsPause, CopyIsNoLonger, EntryUnpaused
<1>5. QED
  BY <1>2, <1>3, <1>4 DEF IInv

(* The swaps of a tick or of a flatten.                                    *)
LEMMA ExecuteStep ==
  ASSUME IInv, Sell \/ Buy \/ SkipBuy
  PROVE  IInv'
<1>1. PICK e \in Events : Filled(e) \/ Failed \/ Refused
  BY DEF Sell, Buy, SkipBuy, Events
<1>2. /\ UNCHANGED <<file, now, pc, tripped, cli, copy, since>> /\ pc # "idle"
      /\ sells' \in 0 .. MaxSells /\ entry' \in BOOLEAN /\ (entry' => entry)
  <2>1. sells \in 0 .. MaxSells /\ entry \in BOOLEAN
    BY DEF IInv, TypeOK
  <2>2. CASE Sell
    BY <2>1, <2>2, RampAssumption DEF Sell, command
  <2>3. CASE BuyTurn
    BY <2>1, <2>3 DEF BuyTurn, command
  <2>4. QED
    BY <2>2, <2>3 DEF Buy, SkipBuy
<1>3. /\ mem' \in States /\ posts' \in {"none", "queued", "posted"}
      /\ mem'.step = mem.step /\ mem'.started = mem.started
      /\ mem'.paused \in {mem.paused, now + PauseTime}
  BY <1>1, <1>2, ExecutedState DEF IInv
<1>4. /\ now \in Nat /\ file.paused \in Nat /\ mem.paused \in Nat /\ PauseTime \in Nat
      /\ copy.paused \in Nat
  BY RampAssumption DEF IInv, TypeOK, States
<1>5. TypeOK' /\ StatesEarned'
  <2>1. TypeOK'
    BY <1>2, <1>3 DEF IInv, TypeOK
  <2>2. QED
    BY <1>2, <1>3, <2>1 DEF IInv, StatesEarned, Earned, StepNeedsStart
<1>6. PausesBounded' /\ TickKeepsPause'
  BY <1>2, <1>3, <1>4 DEF IInv, PausesBounded, TickKeepsPause
<1>7. CopyIsNoLonger' /\ EntryUnpaused'
  BY <1>2 DEF IInv, CopyIsNoLonger, EntryUnpaused
<1>8. QED
  BY <1>5, <1>6, <1>7 DEF IInv

(* The brakes' verdict: a pause that still runs is kept, and stops the     *)
(* entry.                                                                  *)
LEMMA AssessStep ==
  ASSUME IInv, NEW other \in BOOLEAN, NEW sigmaMissing \in BOOLEAN,
         Assess(other, sigmaMissing) \/ AssessFlatten(other)
  PROVE  IInv'
<1> DEFINE blocked == Braked(other) \/ (sigmaMissing /\ Assess(other, sigmaMissing))
<1>1. /\ UNCHANGED <<file, now, posts, cli, copy, since>>
      /\ pc = "assess" /\ pc' \in {"trade", "flatten"} /\ sells' \in 0 .. MaxSells
  BY DEF Assess, AssessFlatten, command
<1>2. /\ now \in Nat /\ mem \in States /\ file.paused \in Nat /\ mem.paused \in Nat
      /\ copy.paused \in Nat /\ PauseTime \in Nat /\ entry = FALSE
  BY <1>1, RampAssumption DEF IInv, TypeOK, States, EntryUnpaused
<1>3. /\ tripped' \in BOOLEAN /\ entry' \in BOOLEAN
      /\ entry' => pc' = "trade" /\ ~StillPaused(mem)
  BY <1>1, <1>2 DEF Assess, AssessFlatten, Braked
<1>4. PICK b \in BOOLEAN :
        mem' = [mem EXCEPT !.blocked = b, !.paused = IF StillPaused(mem) THEN @ ELSE 0]
  <2>1. Braked(other) \in BOOLEAN /\ (Braked(other) \/ sigmaMissing) \in BOOLEAN
    BY DEF Braked, StillPaused
  <2>2. CASE Assess(other, sigmaMissing)
    BY <2>1, <2>2 DEF Assess
  <2>3. CASE AssessFlatten(other)
    BY <2>1, <2>3 DEF AssessFlatten
  <2>4. QED
    BY <2>2, <2>3
<1>5. /\ mem' \in States /\ mem'.step = mem.step /\ mem'.started = mem.started
      /\ mem'.paused = IF mem.paused > now THEN mem.paused ELSE 0
  BY <1>2, <1>4 DEF States, StillPaused
<1>6. TypeOK' /\ StatesEarned'
  BY <1>1, <1>3, <1>5 DEF IInv, TypeOK, StatesEarned, Earned, StepNeedsStart
<1>7. PausesBounded' /\ TickKeepsPause'
  BY <1>1, <1>2, <1>5 DEF IInv, PausesBounded, TickKeepsPause
<1>8. CopyIsNoLonger' /\ EntryUnpaused'
  BY <1>1, <1>2, <1>3 DEF IInv, CopyIsNoLonger, EntryUnpaused, TickKeepsPause, StillPaused
<1>9. QED
  BY <1>6, <1>7, <1>8 DEF IInv

(* The end of a tick: what it saves is what advance_canary made of its     *)
(* memory, and ends no sooner than what the file or a command holds.       *)
LEMMA EndTickStep ==
  ASSUME IInv, EndTick
  PROVE  IInv'
<1> DEFINE s == [mem EXCEPT !.verified = @ \cup {e \in {"post"} : posts' = "posted"}]
<1>1. /\ mem \in States /\ copy \in States /\ file \in States /\ Fresh \in States
      /\ now \in Nat /\ PauseTime \in Nat /\ now \in 0 .. MaxTime /\ 0 \in 0 .. MaxSells
  BY FreshState, RampAssumption DEF IInv, TypeOK
<1>2. /\ UNCHANGED <<now, cli, copy>> /\ pc # "idle" /\ pc' = "idle" /\ mem' = Fresh
      /\ tripped' = FALSE /\ sells' = 0 /\ entry' = FALSE /\ file' = Advanced(s)
      /\ since' = IF since = Never THEN file'.started ELSE since
      /\ posts' \in {"none", "queued", "posted"}
  BY DEF EndTick, Drop, command, IInv, TypeOK
<1>3. s \in States /\ s.step = mem.step /\ s.started = mem.started /\ s.paused = mem.paused
  BY <1>1 DEF States, Events
<1>4. Earned(s) /\ StepNeedsStart(s) /\ (since # Never => since <= now)
  BY <1>3 DEF IInv, StatesEarned, Earned, StepNeedsStart
<1>5. /\ file' \in States /\ file'.paused = mem.paused
      /\ since' \in Nat \cup {Never} /\ (since' # Never => since' <= now)
      /\ Earned(file)' /\ StepNeedsStart(file)'
  <2> HIDE DEF s
  <2>1. ASSUME NEW a, a = file'
        PROVE  /\ a \in States /\ a.paused = s.paused
               /\ since' \in Nat \cup {Never} /\ (since' # Never => since' <= now)
               /\ Earned(a)' /\ StepNeedsStart(a)
    BY <1>2, <1>3, <1>4, <2>1, AdvancedState DEF IInv
  <2>2. QED
    BY <1>3, <2>1 DEF Earned, StepNeedsStart
<1>6. TypeOK'
  BY <1>1, <1>2, <1>5 DEF IInv, TypeOK
<1>7. StatesEarned'
  <2>1. Earned(mem)' /\ StepNeedsStart(mem)'
    BY <1>1, <1>2, FreshParts DEF Earned, StepNeedsStart
  <2>2. Earned(copy)' /\ StepNeedsStart(copy)'
    BY <1>2 DEF IInv, StatesEarned, Earned, StepNeedsStart
  <2>3. QED
    BY <1>2, <1>5, <2>1, <2>2 DEF StatesEarned
<1>8. PausesBounded' /\ TickKeepsPause' /\ CopyIsNoLonger' /\ EntryUnpaused'
  <2>1. file.paused \in Nat /\ mem.paused \in Nat /\ copy.paused \in Nat
    BY <1>1 DEF States
  <2>2. copy.paused > now => mem.paused >= copy.paused
    BY <1>1, <1>2, <2>1 DEF IInv, TickKeepsPause, CopyIsNoLonger
  <2>3. QED
    BY <1>1, <1>2, <1>5, <2>1, <2>2, FreshParts
    DEF IInv, PausesBounded, TickKeepsPause, CopyIsNoLonger, EntryUnpaused
<1>9. QED
  BY <1>6, <1>7, <1>8 DEF IInv

(* A save of the memory as it is: no snapshot, or the end of a flatten.    *)
LEMMA SaveStep ==
  ASSUME IInv, SnapshotFails \/ EndFlatten
  PROVE  IInv'
<1>1. /\ mem \in States /\ copy \in States /\ Fresh \in States
      /\ now \in Nat /\ PauseTime \in Nat /\ 0 \in 0 .. MaxSells
      /\ file.paused \in Nat /\ mem.paused \in Nat /\ copy.paused \in Nat
  BY FreshState, RampAssumption DEF IInv, TypeOK, States
<1>2. /\ UNCHANGED <<now, posts, cli, copy, since>> /\ file' = mem /\ pc # "idle"
      /\ pc' \in {"idle", "trade"} /\ mem' \in {mem, Fresh}
      /\ tripped' \in BOOLEAN /\ sells' \in 0 .. MaxSells /\ entry' = FALSE
      /\ pc' = "trade" => mem' = mem
  BY <1>1 DEF SnapshotFails, EndFlatten, Drop, plan, command, IInv, TypeOK, EntryUnpaused
<1>3. TypeOK'
  BY <1>1, <1>2 DEF IInv, TypeOK
<1>4. StatesEarned'
  BY <1>1, <1>2, FreshParts DEF IInv, StatesEarned, Earned, StepNeedsStart
<1>5. PausesBounded' /\ TickKeepsPause' /\ CopyIsNoLonger' /\ EntryUnpaused'
  BY <1>1, <1>2, FreshParts
  DEF IInv, PausesBounded, TickKeepsPause, CopyIsNoLonger, EntryUnpaused
<1>6. QED
  BY <1>3, <1>4, <1>5 DEF IInv

(* A read of the file into memory, its loss, and the clock.                *)
LEMMA MemoryStep ==
  ASSUME IInv, StartTick \/ CliFlatten \/ Crash \/ PassTime
  PROVE  IInv'
<1>1. /\ mem \in States /\ file \in States /\ Fresh \in States
      /\ now \in Nat /\ PauseTime \in Nat /\ 0 \in 0 .. MaxSells
      /\ file.paused \in Nat /\ mem.paused \in Nat /\ copy.paused \in Nat
  BY FreshState, RampAssumption DEF IInv, TypeOK, States
<1>2. CASE StartTick \/ CliFlatten \/ Crash
  <2>1. /\ UNCHANGED <<file, now, posts, cli, copy, since>> /\ mem' \in {file, Fresh}
        /\ pc' \in {"idle", "assess", "cliflatten"} /\ tripped' \in BOOLEAN
        /\ sells' \in 0 .. MaxSells /\ entry' = FALSE
        /\ pc' # "idle" => mem' = file
    BY <1>1, <1>2 DEF StartTick, CliFlatten, Crash, Drop, plan, command, IInv, TypeOK, EntryUnpaused
  <2>2. TypeOK'
    BY <1>1, <2>1 DEF IInv, TypeOK
  <2>3. StatesEarned'
    BY <1>1, <2>1, FreshParts DEF IInv, StatesEarned, Earned, StepNeedsStart
  <2>4. PausesBounded' /\ TickKeepsPause' /\ CopyIsNoLonger' /\ EntryUnpaused'
    BY <1>1, <2>1, FreshParts
    DEF IInv, PausesBounded, TickKeepsPause, CopyIsNoLonger, EntryUnpaused
  <2>5. QED
    BY <2>2, <2>3, <2>4 DEF IInv
<1>3. CASE PassTime
  <2>1. /\ UNCHANGED <<file, mem, pc, tripped, sells, entry, posts, cli, copy, since>>
        /\ pc = "idle" /\ now' = now + 1 /\ now' \in 0 .. MaxTime
    BY <1>1, <1>3, RampAssumption DEF PassTime, plan, command
  <2>2. TypeOK'
    BY <2>1 DEF IInv, TypeOK
  <2>3. StatesEarned'
    <3>1. /\ since \in Nat \cup {Never} /\ file.started \in Nat \cup {Never}
          /\ mem.started \in Nat \cup {Never} /\ copy.started \in Nat \cup {Never}
      BY DEF IInv, TypeOK, States
    <3>2. \A n \in Nat : n <= now => n <= now'
      BY <1>1, <2>1
    <3>3. QED
      BY <2>1, <3>1, <3>2 DEF IInv, StatesEarned, Earned, StepNeedsStart
  <2>4. PausesBounded' /\ TickKeepsPause' /\ CopyIsNoLonger' /\ EntryUnpaused'
    BY <1>1, <2>1 DEF IInv, PausesBounded, TickKeepsPause, CopyIsNoLonger, EntryUnpaused
  <2>5. QED
    BY <2>2, <2>3, <2>4 DEF IInv
<1>4. QED
  BY <1>2, <1>3

(* A command reads the file, and writes what it has read back later, with  *)
(* or without its pause.                                                   *)
LEMMA CommandStep ==
  ASSUME IInv, CommandLoad \/ CommandSave
  PROVE  IInv'
<1>1. /\ file \in States /\ copy \in States /\ Fresh \in States
      /\ now \in Nat /\ PauseTime \in Nat
      /\ file.paused \in Nat /\ mem.paused \in Nat /\ copy.paused \in Nat
  BY FreshState, RampAssumption DEF IInv, TypeOK, States
<1>2. CASE CommandLoad
  <2>1. /\ UNCHANGED <<file, mem, now, pc, tripped, sells, entry, posts, since>>
        /\ copy' = file /\ cli' \in {"resume", "accept"}
    BY <1>2 DEF CommandLoad, plan
  <2>2. TypeOK' /\ StatesEarned'
    BY <1>1, <2>1 DEF IInv, TypeOK, StatesEarned, Earned, StepNeedsStart
  <2>3. PausesBounded' /\ TickKeepsPause' /\ CopyIsNoLonger' /\ EntryUnpaused'
    BY <1>1, <2>1 DEF IInv, PausesBounded, TickKeepsPause, CopyIsNoLonger, EntryUnpaused
  <2>4. QED
    BY <2>2, <2>3 DEF IInv
<1>3. CASE CommandSave
  <2>1. /\ UNCHANGED <<mem, now, pc, tripped, sells, entry, posts, since>>
        /\ copy' = Fresh /\ cli' = "none"
    BY <1>3 DEF CommandSave, plan
  <2>2. /\ file' \in States /\ file'.step = copy.step /\ file'.started = copy.started
        /\ file'.paused \in {copy.paused, 0}
    <3>1. 0 \in 0 .. (FailuresToPause - 1)
      BY RampAssumption
    <3>2. CASE cli = "resume"
      BY <1>1, <1>3, <3>1, <3>2 DEF CommandSave, States
    <3>3. CASE cli # "resume"
      BY <1>1, <1>3, <3>3 DEF CommandSave
    <3>4. QED
      BY <3>2, <3>3
  <2>3. TypeOK'
    BY <1>1, <2>1, <2>2 DEF IInv, TypeOK
  <2>4. StatesEarned'
    BY <1>1, <2>1, <2>2, FreshParts DEF IInv, StatesEarned, Earned, StepNeedsStart
  <2>5. PausesBounded' /\ TickKeepsPause' /\ CopyIsNoLonger' /\ EntryUnpaused'
    BY <1>1, <2>1, <2>2, FreshParts
    DEF IInv, PausesBounded, TickKeepsPause, CopyIsNoLonger, EntryUnpaused
  <2>6. QED
    BY <2>3, <2>4, <2>5 DEF IInv
<1>4. QED
  BY <1>2, <1>3

(* Every step keeps the invariant.                                         *)
LEMMA RampStep ==
  ASSUME IInv, [Next]_vars
  PROVE  IInv'
<1>1. CASE StartTick \/ CliFlatten \/ Crash \/ PassTime
  BY <1>1, MemoryStep
<1>2. CASE SnapshotFails \/ EndFlatten
  BY <1>2, SaveStep
<1>3. ASSUME NEW other \in BOOLEAN, NEW sigmaMissing \in BOOLEAN,
             Assess(other, sigmaMissing) \/ AssessFlatten(other)
      PROVE  IInv'
  BY <1>3, AssessStep
<1>4. CASE Sell \/ Buy \/ SkipBuy
  BY <1>4, ExecuteStep
<1>5. CASE EndTick
  BY <1>5, EndTickStep
<1>6. CASE CommandLoad \/ CommandSave
  BY <1>6, CommandStep
<1>7. CASE UNCHANGED vars
  BY <1>7 DEF vars, IInv, TypeOK, StatesEarned, Earned, StepNeedsStart, PausesBounded,
              TickKeepsPause, CopyIsNoLonger, EntryUnpaused
<1>8. QED
  BY <1>1, <1>2, <1>3, <1>4, <1>5, <1>6, <1>7 DEF Next

(* The inductive invariant, for any ramp, pause and number of failures.    *)
THEOREM RampInvariance == Spec => []IInv
<1>1. IInv /\ [Next]_vars => IInv'
  BY RampStep
<1>2. QED
  BY RampInit, <1>1, PTL DEF Spec

(* The variables keep to their domains, for any trips, failures, crashes   *)
(* and commands.                                                           *)
THEOREM RampTypeCorrect == Spec => []TypeOK
<1>1. IInv => TypeOK
  BY DEF IInv
<1>2. QED
  BY <1>1, RampInvariance, PTL

(* The n-th ramp step is in force no sooner than n - 1 whole periods after *)
(* the canary was completed, whatever is put back from older states.       *)
THEOREM RampEarnedHolds == Spec => []RampEarned
<1>1. ASSUME IInv, NEW s \in States, Earned(s), StepNeedsStart(s)
      PROVE  EarnedBy(s)
  <2> SUFFICES ASSUME Stage(s) > 1
               PROVE  since # Never /\ since + (Stage(s) - 1) * StepTime <= now
    BY DEF EarnedBy
  <2>1. Stage(s) = s.step + 1 /\ s.step \in Nat /\ s.step # 0
    BY RampAssumption DEF Stage, States
  <2>2. /\ s.started \in Nat /\ since \in Nat /\ now \in Nat /\ StepTime \in Nat
        /\ since + s.step * StepTime <= s.started /\ s.started <= now
    BY <1>1, <2>1, RampAssumption DEF IInv, TypeOK, States, Earned, StepNeedsStart
  <2>3. Stage(s) - 1 = s.step
    BY <2>1
  <2>4. since + s.step * StepTime <= now
    <3>1. s.step * StepTime \in Nat
      BY <2>1, <2>2
    <3>2. QED
      BY <2>2, <3>1
  <2>5. QED
    BY <2>2, <2>3, <2>4, RampAssumption
<1>2. IInv => RampEarned
  BY <1>1 DEF IInv, TypeOK, StatesEarned, RampEarned
<1>3. QED
  BY RampInvariance, <1>2, PTL

(* No entry is executed while the state file says paused.                  *)
THEOREM PauseHonouredHolds == Spec => PauseHonoured
<1>1. IInv /\ [Next]_vars => [Buy => file.paused <= now]_vars
  BY DEF IInv, EntryUnpaused, Buy, BuyTurn
<1>2. QED
  BY RampInvariance, <1>1, PTL DEF Spec, PauseHonoured

-----------------------------------------------------------------------------
(***************************************************************************)
(* Deposits, sweeps and the brakes on losses.                              *)
(***************************************************************************)
(* What the wallet is worth beyond the net deposits is what the prices     *)
(* added and what landed without a row.                                    *)
Balanced == equity - net = pnl + gap
SnapshotsBalanced == \A p \in curve : p.equity - p.net = p.pnl + p.gap

(* A sweep on its way to a row holds the lock, and is the only one.        *)
SweepLocked ==
  /\ sweep # "idle" => lock = "sweep"
  /\ sweep \in {"poll", "record"} => swept \in Transfers
  /\ sweep = "record" => fate[swept] = "landed"
OnItsWay ==
  \A t \in Transfers :
    kind[t] = "sweep" /\ t \notin adrift /\ booked[t] = 0 /\ fate[t] \in {"sent", "landed"} =>
      sweep \in {"poll", "record"} /\ swept = t

(* What a snapshot saw loose landed by then.                               *)
LooseLanded == \A p \in curve : \A t \in p.loose : fate[t] = "landed"

TreasuryIInv ==
  /\ TreasuryTypeOK /\ Balanced /\ SnapshotsBalanced
  /\ SweepLocked /\ OnItsWay /\ LooseLanded
  /\ BookedOnceIfLanded /\ NoTickBeforeSweepRecorded

-----------------------------------------------------------------------------
(* A transfer in or out counts as an integer.                              *)
LEMMA SignedInt ==
  ASSUME TreasuryTypeOK, NEW t \in Transfers
  PROVE  Signed(t) \in Int
BY DEF TreasuryTypeOK, Signed

(* A row for a transfer adds to the net deposits what it takes from the    *)
(* gap, and leaves the rows of the others alone.                           *)
LEMMA RecordKeeps ==
  ASSUME TreasuryTypeOK, Balanced, NEW t \in Transfers, RecordTransfer(t), UNCHANGED market
  PROVE  /\ net' \in Int /\ gap' \in Int /\ booked' \in [Transfers -> Nat]
         /\ Balanced'
         /\ booked'[t] > 0
         /\ \A u \in Transfers : booked'[u] = booked[u] \/ (u = t /\ booked[t] = 0 /\ booked'[t] = 1)
<1>1. Signed(t) \in Int
  BY SignedInt
<1>2. CASE booked[t] > 0
  BY <1>2 DEF RecordTransfer, TreasuryTypeOK, Balanced, market
<1>3. CASE ~(booked[t] > 0)
  BY <1>1, <1>3 DEF RecordTransfer, TreasuryTypeOK, Balanced, market
<1>4. QED
  BY <1>2, <1>3

(* The snapshot of the present state.                                      *)
LEMMA SnapshotType ==
  ASSUME TreasuryTypeOK
  PROVE  Snapshot \in Snapshots
BY DEF TreasuryTypeOK, Snapshot, Snapshots, Unrecorded, Landed

(* The day rows after a tick.                                              *)
LEMMA FirstOfDayType ==
  ASSUME TreasuryTypeOK
  PROVE  /\ FirstOfDay \in [0 .. MaxDay -> SUBSET (curve \cup {Snapshot})]
         /\ \A d \in 0 .. MaxDay : \A p, q \in FirstOfDay[d] : p = q
<1>1. day \in 0 .. MaxDay /\ dayRow \in [0 .. MaxDay -> SUBSET curve]
  BY DEF TreasuryTypeOK
<1>2. \A d \in 0 .. MaxDay : \A p, q \in dayRow[d] : p = q
  BY DEF TreasuryTypeOK
<1>3. ASSUME NEW d \in 0 .. MaxDay
      PROVE  FirstOfDay[d] = IF d = day /\ dayRow[d] = {} THEN {Snapshot} ELSE dayRow[d]
  BY <1>1 DEF FirstOfDay
<1>4. \A d \in 0 .. MaxDay : FirstOfDay[d] \in SUBSET (curve \cup {Snapshot})
  BY <1>1, <1>3
<1>5. FirstOfDay \in [0 .. MaxDay -> SUBSET (curve \cup {Snapshot})]
  BY <1>1, <1>4 DEF FirstOfDay
<1>6. QED
  BY <1>2, <1>3, <1>5

-----------------------------------------------------------------------------
(* Every step keeps the types.                                             *)
LEMMA TypeStep ==
  ASSUME TreasuryTypeOK, Balanced, SweepLocked, [TreasuryNext]_treasuryVars
  PROVE  TreasuryTypeOK'
<1> USE TreasuryAssumption DEF market, money, sweeping, agent
<1>1. ASSUME NEW d \in Int, Market(d) PROVE TreasuryTypeOK'
  BY <1>1 DEF Market, TreasuryTypeOK, Snapshots
<1>2. CASE NextDay
  BY <1>2 DEF NextDay, TreasuryTypeOK, Snapshots
<1>3. ASSUME NEW t \in Transfers, Record(t) PROVE TreasuryTypeOK'
  <2>1. RecordTransfer(t) /\ UNCHANGED market
    BY <1>3 DEF Record
  <2>2. net' \in Int /\ gap' \in Int /\ booked' \in [Transfers -> Nat]
    BY <2>1, RecordKeeps
  <2>3. QED
    BY <1>3, <2>2 DEF Record, TreasuryTypeOK, Snapshots
<1>4. ASSUME NEW t \in Transfers, LandSweep(t) PROVE TreasuryTypeOK'
  BY <1>4 DEF LandSweep, TreasuryTypeOK, Snapshots
<1>16. ASSUME NEW t \in Transfers, FailSweep(t) PROVE TreasuryTypeOK'
  BY <1>16 DEF FailSweep, TreasuryTypeOK, Snapshots
<1>5. ASSUME NEW t \in Transfers, NEW k \in {"deposit", "withdrawal"}, NEW n \in Amounts,
             Move(t, k, n)
      PROVE  TreasuryTypeOK'
  BY <1>5 DEF Move, TreasuryTypeOK, Snapshots, Kinds
<1>6. ASSUME NEW t \in Transfers, NEW n \in Amounts, SweepSend(t, n) PROVE TreasuryTypeOK'
  BY <1>6 DEF SweepSend, TreasuryTypeOK, Snapshots, Kinds
<1>7. CASE SweepStart \/ SweepConfirmed \/ SweepFailed \/ SweepRelease
  BY <1>7 DEF SweepStart, SweepConfirmed, SweepFailed, SweepRelease, TreasuryTypeOK, Snapshots
<1>8. CASE SweepRecord
  <2>1. swept \in Transfers /\ RecordTransfer(swept) /\ UNCHANGED market
    BY <1>8 DEF SweepRecord, SweepLocked
  <2>2. net' \in Int /\ gap' \in Int /\ booked' \in [Transfers -> Nat]
    BY <2>1, RecordKeeps
  <2>3. QED
    BY <1>8, <2>2 DEF SweepRecord, TreasuryTypeOK, Snapshots
<1>9. CASE SweepUnconfirmed
  BY <1>9 DEF SweepUnconfirmed, SweepLocked, TreasuryTypeOK, Snapshots
<1>10. CASE SweepCrash
  BY <1>10 DEF SweepCrash, TreasuryTypeOK, Snapshots
<1>11. CASE Start \/ Stop
  BY <1>11 DEF Start, Stop, TreasuryTypeOK, Snapshots
<1>12. CASE Tick
  <2>1. /\ curve' = curve \cup {Snapshot} /\ dayRow' = FirstOfDay
        /\ ticks < MaxTicks /\ ticks' = ticks + 1
        /\ UNCHANGED <<market, money, sweeping>>
    BY <1>12 DEF Tick
  <2>2. halted' \in BOOLEAN
    BY <1>12, Zenon DEF Tick, TreasuryTypeOK
  <2>3. \A p \in curve' : p \in Snapshots
    BY <2>1, SnapshotType DEF TreasuryTypeOK
  <2>4. /\ dayRow' \in [0 .. MaxDay -> SUBSET curve']
        /\ \A d \in 0 .. MaxDay : \A p, q \in dayRow'[d] : p = q
    BY <2>1, FirstOfDayType, Zenon
  <2>5. Snapshots' = Snapshots
    BY DEF Snapshots
  <2>6. QED
    BY <2>1, <2>2, <2>3, <2>4, <2>5 DEF TreasuryTypeOK
<1>13. CASE TickWithoutMarks
  BY <1>13 DEF TickWithoutMarks, TreasuryTypeOK, Snapshots
<1>14. CASE UNCHANGED treasuryVars
  BY <1>14 DEF treasuryVars, TreasuryTypeOK, Snapshots
<1>15. \A d \in Moves : d \in Int /\ 0 - d \in Int
  <2>1. \A d \in Moves : d \in Nat
    BY TreasuryAssumption
  <2>2. QED
    BY ONLY <2>1
<1>17. QED
  BY <1>1, <1>2, <1>3, <1>4, <1>5, <1>6, <1>7, <1>8, <1>9, <1>10, <1>11, <1>12, <1>13, <1>14,
     <1>15, <1>16
  DEF TreasuryNext

(* The books balance after every step, and stored snapshots do not change. *)
LEMMA BalanceStep ==
  ASSUME TreasuryTypeOK, Balanced, SnapshotsBalanced, SweepLocked, [TreasuryNext]_treasuryVars
  PROVE  Balanced' /\ SnapshotsBalanced'
<1> USE TreasuryAssumption DEF market, money, sweeping, agent
<1>1. ASSUME NEW t \in Transfers, RecordTransfer(t), UNCHANGED market PROVE Balanced'
  BY <1>1, RecordKeeps
<1>2. ASSUME UNCHANGED <<equity, net, pnl, gap>> PROVE Balanced'
  BY <1>2 DEF Balanced
<1>3. ASSUME NEW d \in Int, Market(d) PROVE Balanced'
  BY <1>3 DEF Market, Balanced, TreasuryTypeOK
<1>4. ASSUME NEW t \in Transfers, NEW k \in {"deposit", "withdrawal"}, NEW n \in Amounts,
             Move(t, k, n)
      PROVE  Balanced'
  BY <1>4 DEF Move, Balanced, TreasuryTypeOK
<1>5. ASSUME NEW t \in Transfers, LandSweep(t) PROVE Balanced'
  <2>1. usd[t] \in Nat
    BY DEF TreasuryTypeOK
  <2>2. QED
    BY <1>5, <2>1 DEF LandSweep, Balanced, TreasuryTypeOK
<1>6. \A d \in Moves : d \in Int /\ 0 - d \in Int
  OBVIOUS
<1>7. Balanced'
  <2>1. ASSUME NEW t \in Transfers, Record(t) PROVE Balanced'
    BY <2>1, <1>1 DEF Record
  <2>2. ASSUME SweepRecord PROVE Balanced'
    BY <2>2, <1>1 DEF SweepRecord, SweepLocked
  <2>3. \/ \E d \in Moves : Market(d) \/ Market(0 - d)
        \/ \E t \in Transfers : Record(t) \/ LandSweep(t)
        \/ \E t \in Transfers, k \in {"deposit", "withdrawal"}, n \in Amounts : Move(t, k, n)
        \/ SweepRecord
        \/ UNCHANGED <<equity, net, pnl, gap>>
    BY DEF TreasuryNext, NextDay, FailSweep, SweepStart, SweepSend, SweepConfirmed, SweepFailed,
       SweepUnconfirmed, SweepRelease, SweepCrash, Start, Stop, Tick, TickWithoutMarks, treasuryVars
  <2>4. QED
    BY <1>2, <1>3, <1>4, <1>5, <1>6, <2>1, <2>2, <2>3
<1>8. SnapshotsBalanced'
  <2>1. curve' = curve \/ curve' = curve \cup {Snapshot}
    BY DEF TreasuryNext, Market, NextDay, Record, LandSweep, FailSweep, Move, SweepSend, SweepStart,
       SweepConfirmed, SweepRecord, SweepFailed, SweepUnconfirmed, SweepRelease, SweepCrash,
       Start, Stop, Tick, TickWithoutMarks, treasuryVars
  <2>2. Snapshot.equity - Snapshot.net = Snapshot.pnl + Snapshot.gap
    BY DEF Snapshot, Balanced
  <2>3. QED
    BY <2>1, <2>2 DEF SnapshotsBalanced
<1>9. QED
  BY <1>7, <1>8

-----------------------------------------------------------------------------
(* A sweep keeps the lock until its row is written.                        *)
LEMMA LockStep ==
  ASSUME TreasuryTypeOK, SweepLocked, [TreasuryNext]_treasuryVars
  PROVE  SweepLocked'
<1> USE TreasuryAssumption DEF market, money, sweeping, agent, SweepLocked
<1>1. CASE UNCHANGED <<lock, sweep, swept, fate>>
  BY <1>1
<1>2. ASSUME NEW t \in Transfers, LandSweep(t) PROVE SweepLocked'
  BY <1>2 DEF LandSweep, TreasuryTypeOK
<1>3. ASSUME NEW t \in Transfers, FailSweep(t) PROVE SweepLocked'
  BY <1>3 DEF FailSweep, TreasuryTypeOK
<1>4. ASSUME NEW t \in Transfers, NEW k \in {"deposit", "withdrawal"}, NEW n \in Amounts,
             Move(t, k, n)
      PROVE  SweepLocked'
  BY <1>4 DEF Move, TreasuryTypeOK
<1>5. ASSUME NEW t \in Transfers, NEW n \in Amounts, SweepSend(t, n) PROVE SweepLocked'
  BY <1>5 DEF SweepSend
<1>6. CASE SweepStart \/ SweepRelease \/ SweepCrash \/ Start \/ Stop
  BY <1>6 DEF SweepStart, SweepRelease, SweepCrash, Start, Stop
<1>7. CASE SweepConfirmed \/ SweepRecord \/ SweepFailed \/ SweepUnconfirmed
  BY <1>7 DEF SweepConfirmed, SweepRecord, SweepFailed, SweepUnconfirmed
<1>8. \/ UNCHANGED <<lock, sweep, swept, fate>>
      \/ \E t \in Transfers : LandSweep(t) \/ FailSweep(t)
      \/ \E t \in Transfers, k \in {"deposit", "withdrawal"}, n \in Amounts : Move(t, k, n)
      \/ \E t \in Transfers, n \in Amounts : SweepSend(t, n)
      \/ SweepStart \/ SweepRelease \/ SweepCrash \/ Start \/ Stop
      \/ SweepConfirmed \/ SweepRecord \/ SweepFailed \/ SweepUnconfirmed
  BY DEF TreasuryNext, Market, NextDay, Record, Tick, TickWithoutMarks, treasuryVars
<1>9. QED
  BY <1>1, <1>2, <1>3, <1>4, <1>5, <1>6, <1>7, <1>8

(* What landed stays landed, of the kind it was, and booked.               *)
LEMMA LandedStays ==
  ASSUME TreasuryTypeOK, Balanced, SweepLocked, [TreasuryNext]_treasuryVars, NEW t \in Transfers, fate[t] = "landed"
  PROVE  fate'[t] = "landed" /\ kind'[t] = kind[t] /\ (t \in adrift => t \in adrift')
<1>1. CASE UNCHANGED <<fate, kind>>
  <2>1. adrift \subseteq adrift'
    BY DEF TreasuryNext, Market, NextDay, Record, LandSweep, FailSweep, Move, SweepSend, SweepStart,
       SweepConfirmed, SweepRecord, SweepFailed, SweepUnconfirmed, SweepRelease, SweepCrash,
       Start, Stop, Tick, TickWithoutMarks, treasuryVars, sweeping
  <2>2. QED
    BY <1>1, <2>1
<1>2. ASSUME NEW u \in Transfers,
             fate[u] \in {"none", "sent"},
             /\ \E f \in {"sent", "landed", "failed"} : fate' = [fate EXCEPT ![u] = f]
             /\ kind' = kind \/ \E k \in Kinds : kind' = [kind EXCEPT ![u] = k]
             /\ adrift' = adrift
      PROVE  fate'[t] = "landed" /\ kind'[t] = kind[t] /\ (t \in adrift => t \in adrift')
  BY <1>2 DEF TreasuryTypeOK
<1>3. ASSUME NEW u \in Transfers, LandSweep(u) \/ FailSweep(u)
      PROVE  fate'[t] = "landed" /\ kind'[t] = kind[t] /\ (t \in adrift => t \in adrift')
  BY <1>2, <1>3 DEF LandSweep, FailSweep, sweeping
<1>4. ASSUME NEW u \in Transfers, NEW k \in {"deposit", "withdrawal"}, NEW n \in Amounts,
             Move(u, k, n)
      PROVE  fate'[t] = "landed" /\ kind'[t] = kind[t] /\ (t \in adrift => t \in adrift')
  BY <1>2, <1>4 DEF Move, sweeping, Kinds
<1>5. ASSUME NEW u \in Transfers, NEW n \in Amounts, SweepSend(u, n)
      PROVE  fate'[t] = "landed" /\ kind'[t] = kind[t] /\ (t \in adrift => t \in adrift')
  BY <1>2, <1>5 DEF SweepSend, Kinds
<1>6. \/ UNCHANGED <<fate, kind>>
      \/ \E u \in Transfers : LandSweep(u) \/ FailSweep(u)
      \/ \E u \in Transfers, k \in {"deposit", "withdrawal"}, n \in Amounts : Move(u, k, n)
      \/ \E u \in Transfers, n \in Amounts : SweepSend(u, n)
  BY DEF TreasuryNext, Market, NextDay, Record, Tick, TickWithoutMarks, SweepStart, SweepRelease,
     SweepCrash, Start, Stop, SweepConfirmed, SweepRecord, SweepFailed, SweepUnconfirmed,
     treasuryVars, money
<1>7. QED
  BY <1>1, <1>3, <1>4, <1>5, <1>6

-----------------------------------------------------------------------------
(* The rows of the transfers table.                                        *)
LEMMA BookedStep ==
  ASSUME TreasuryTypeOK, Balanced, SweepLocked, BookedOnceIfLanded, [TreasuryNext]_treasuryVars
  PROVE  BookedOnceIfLanded'
<1>1. SUFFICES ASSUME NEW t \in Transfers
               PROVE  booked'[t] <= 1 /\ (booked'[t] > 0 => fate'[t] = "landed")
  BY DEF BookedOnceIfLanded, Landed
<1>2. booked[t] <= 1 /\ (booked[t] > 0 => fate[t] = "landed") /\ booked[t] \in Nat
  BY DEF BookedOnceIfLanded, Landed, TreasuryTypeOK
<1>3. CASE booked'[t] = booked[t]
  BY <1>2, <1>3, LandedStays
<1>4. ASSUME NEW u \in Transfers, fate[u] = "landed", RecordTransfer(u), UNCHANGED market
      PROVE  booked'[t] <= 1 /\ (booked'[t] > 0 => fate'[t] = "landed")
  <2>1. booked'[t] = booked[t] \/ (t = u /\ booked'[t] = 1)
    BY <1>4, RecordKeeps
  <2>2. QED
    BY <1>2, <1>4, <2>1, LandedStays
<1>5. \/ booked'[t] = booked[t]
      \/ \E u \in Transfers : fate[u] = "landed" /\ RecordTransfer(u) /\ UNCHANGED market
  <2>1. ASSUME NEW u \in Transfers, Record(u)
        PROVE  fate[u] = "landed" /\ RecordTransfer(u) /\ UNCHANGED market
    BY <2>1 DEF Record, Landed
  <2>2. ASSUME SweepRecord
        PROVE  /\ swept \in Transfers /\ fate[swept] = "landed"
               /\ RecordTransfer(swept) /\ UNCHANGED market
    BY <2>2 DEF SweepRecord, SweepLocked
  <2>3. (\E u \in Transfers : Record(u)) \/ SweepRecord \/ UNCHANGED booked
    BY DEF TreasuryNext, Market, NextDay, LandSweep, FailSweep, Move, SweepSend, SweepStart,
       SweepConfirmed, SweepFailed, SweepUnconfirmed, SweepRelease, SweepCrash,
       Start, Stop, Tick, TickWithoutMarks, treasuryVars, money
  <2>4. QED
    BY <2>1, <2>2, <2>3
<1>6. QED
  BY <1>3, <1>4, <1>5

(* A sweep without a row is on its way, was given up, or failed.           *)
LEMMA OnItsWayStep ==
  ASSUME TreasuryIInv, [TreasuryNext]_treasuryVars
  PROVE  OnItsWay'
<1> USE TreasuryAssumption DEF market, money, sweeping, agent
<1>1. SUFFICES ASSUME NEW t \in Transfers,
                      kind'[t] = "sweep", t \notin adrift', booked'[t] = 0,
                      fate'[t] \in {"sent", "landed"}
               PROVE  sweep' \in {"poll", "record"} /\ swept' = t
  BY DEF OnItsWay
<1>2. /\ TreasuryTypeOK /\ Balanced /\ SweepLocked
      /\ kind[t] = "sweep" /\ t \notin adrift /\ booked[t] = 0 /\ fate[t] \in {"sent", "landed"} =>
           sweep \in {"poll", "record"} /\ swept = t
  BY DEF TreasuryIInv, OnItsWay
<1>3. CASE UNCHANGED <<fate, kind, booked, adrift, sweep, swept>>
  BY <1>1, <1>2, <1>3
<1>4. ASSUME NEW u \in Transfers, Record(u)
      PROVE  sweep' \in {"poll", "record"} /\ swept' = t
  <2>1. booked'[t] = booked[t] \/ booked'[t] = 1
    BY <1>2, <1>4, RecordKeeps DEF Record
  <2>2. QED
    BY <1>1, <1>2, <1>4, <2>1 DEF Record
<1>5. ASSUME NEW u \in Transfers, LandSweep(u)
      PROVE  sweep' \in {"poll", "record"} /\ swept' = t
  BY <1>1, <1>2, <1>5 DEF LandSweep, TreasuryTypeOK
<1>6. ASSUME NEW u \in Transfers, FailSweep(u)
      PROVE  sweep' \in {"poll", "record"} /\ swept' = t
  BY <1>1, <1>2, <1>6 DEF FailSweep, TreasuryTypeOK
<1>7. ASSUME NEW u \in Transfers, NEW k \in {"deposit", "withdrawal"}, NEW n \in Amounts,
             Move(u, k, n)
      PROVE  sweep' \in {"poll", "record"} /\ swept' = t
  BY <1>1, <1>2, <1>7 DEF Move, TreasuryTypeOK
<1>8. ASSUME NEW u \in Transfers, NEW n \in Amounts, SweepSend(u, n)
      PROVE  sweep' \in {"poll", "record"} /\ swept' = t
  BY <1>1, <1>2, <1>8 DEF SweepSend, TreasuryTypeOK
<1>9. CASE SweepRecord
  <2>1. swept \in Transfers /\ RecordTransfer(swept) /\ UNCHANGED market
    BY <1>2, <1>9 DEF SweepRecord, SweepLocked
  <2>2. booked'[swept] > 0 /\ (booked'[t] = booked[t] \/ t = swept)
    BY <1>2, <2>1, RecordKeeps
  <2>3. QED
    BY <1>1, <1>2, <1>9, <2>2 DEF SweepRecord
<1>10. CASE SweepStart \/ SweepConfirmed \/ SweepFailed
  BY <1>1, <1>2, <1>10 DEF SweepStart, SweepConfirmed, SweepFailed
<1>11. CASE SweepUnconfirmed \/ SweepRelease
  BY <1>1, <1>2, <1>11 DEF SweepUnconfirmed, SweepRelease
<1>12. CASE SweepCrash
  BY <1>1, <1>2, <1>12 DEF SweepCrash
<1>13. \/ UNCHANGED <<fate, kind, booked, adrift, sweep, swept>>
       \/ \E u \in Transfers : Record(u) \/ LandSweep(u) \/ FailSweep(u)
       \/ \E u \in Transfers, k \in {"deposit", "withdrawal"}, n \in Amounts : Move(u, k, n)
       \/ \E u \in Transfers, n \in Amounts : SweepSend(u, n)
       \/ SweepRecord \/ SweepStart \/ SweepConfirmed \/ SweepFailed
       \/ SweepUnconfirmed \/ SweepRelease \/ SweepCrash
  BY DEF TreasuryNext, Market, NextDay, Start, Stop, Tick, TickWithoutMarks, treasuryVars
<1>14. QED
  BY <1>3, <1>4, <1>5, <1>6, <1>7, <1>8, <1>9, <1>10, <1>11, <1>12, <1>13

(* What a tick sees loose is not a sweep that may still be recorded.       *)
LEMMA LooseStep ==
  ASSUME TreasuryIInv, [TreasuryNext]_treasuryVars
  PROVE  LooseLanded' /\ NoTickBeforeSweepRecorded'
<1>1. /\ TreasuryTypeOK /\ Balanced /\ SweepLocked /\ OnItsWay
      /\ LooseLanded /\ NoTickBeforeSweepRecorded
  BY DEF TreasuryIInv
<1>2. ASSUME NEW p \in curve', NEW t \in p.loose, p \in curve
      PROVE  fate'[t] = "landed" /\ (kind'[t] # "sweep" \/ t \in adrift')
  <2>1. t \in Transfers
    BY <1>1, <1>2 DEF TreasuryTypeOK, Snapshots
  <2>2. fate[t] = "landed" /\ (kind[t] # "sweep" \/ t \in adrift)
    BY <1>1, <1>2 DEF LooseLanded, NoTickBeforeSweepRecorded
  <2>3. QED
    BY <1>1, <2>1, <2>2, LandedStays
<1>3. ASSUME Tick, NEW t \in Snapshot.loose
      PROVE  fate'[t] = "landed" /\ (kind'[t] # "sweep" \/ t \in adrift')
  <2>1. t \in Transfers /\ fate[t] = "landed" /\ booked[t] = 0
    BY <1>3 DEF Snapshot, Unrecorded, Landed
  <2>2. lock = "agent" /\ UNCHANGED <<money, sweeping>>
    BY <1>3 DEF Tick
  <2>3. sweep \notin {"poll", "record"}
    BY <1>1, <2>2 DEF SweepLocked
  <2>4. kind[t] # "sweep" \/ t \in adrift
    BY <1>1, <2>1, <2>3 DEF OnItsWay
  <2>5. QED
    BY <2>1, <2>2, <2>4 DEF money, sweeping
<1>4. curve' = curve \/ (Tick /\ curve' = curve \cup {Snapshot})
  BY DEF TreasuryNext, Market, NextDay, Record, LandSweep, FailSweep, Move, SweepSend, SweepStart,
     SweepConfirmed, SweepRecord, SweepFailed, SweepUnconfirmed, SweepRelease, SweepCrash,
     Start, Stop, Tick, TickWithoutMarks, treasuryVars, agent
<1>5. ASSUME NEW p \in curve', NEW t \in p.loose
      PROVE  fate'[t] = "landed" /\ (kind'[t] # "sweep" \/ t \in adrift')
  BY <1>2, <1>3, <1>4, <1>5
<1>6. QED
  BY <1>5 DEF LooseLanded, NoTickBeforeSweepRecorded

-----------------------------------------------------------------------------
(* The inductive invariant holds of every reachable state.                 *)
THEOREM TreasuryInvariance == TreasurySpec => []TreasuryIInv
<1>1. TreasuryInit => TreasuryIInv
  <2> SUFFICES ASSUME TreasuryInit PROVE TreasuryIInv
    OBVIOUS
  <2>1. TreasuryTypeOK
    <3>1. /\ dayRow = [d \in 0 .. MaxDay |-> {}] /\ curve = {} /\ MaxDay \in Nat
          /\ MaxTicks \in Nat /\ MaxMoves \in Nat /\ Capital \in Nat
      BY TreasuryAssumption DEF TreasuryInit
    <3>2. /\ dayRow \in [0 .. MaxDay -> SUBSET curve]
          /\ \A d \in 0 .. MaxDay : \A p, q \in dayRow[d] : p = q
      BY <3>1
    <3>3. day \in 0 .. MaxDay /\ moves \in 0 .. MaxMoves /\ ticks \in 0 .. MaxTicks
      BY <3>1 DEF TreasuryInit
    <3>4. /\ fate \in [Transfers -> {"none", "sent", "landed", "failed"}]
          /\ kind \in [Transfers -> Kinds] /\ usd \in [Transfers -> Nat]
          /\ booked \in [Transfers -> Nat]
      BY DEF TreasuryInit, Kinds
    <3>5. /\ equity \in Int /\ pnl \in Int /\ net \in Int /\ gap \in Int
          /\ lock = "none" /\ sweep = "idle" /\ swept = NoTransfer /\ adrift = {}
          /\ halted = FALSE
      BY <3>1 DEF TreasuryInit
    <3>6. \A p \in curve : p \in Snapshots
      BY <3>1
    <3>7. QED
      BY <3>2, <3>3, <3>4, <3>5, <3>6 DEF TreasuryTypeOK
  <2>2. QED
    BY <2>1, TreasuryAssumption DEF TreasuryInit, TreasuryIInv, Balanced, SnapshotsBalanced, SweepLocked,
       OnItsWay, LooseLanded, BookedOnceIfLanded, NoTickBeforeSweepRecorded
<1>2. TreasuryIInv /\ [TreasuryNext]_treasuryVars => TreasuryIInv'
  BY TypeStep, BalanceStep, LockStep, BookedStep, OnItsWayStep, LooseStep DEF TreasuryIInv
<1>3. QED
  BY <1>1, <1>2, PTL DEF TreasurySpec

(* The variables keep to their domains, and a day has at most one row.     *)
THEOREM TreasuryTypeCorrect == TreasurySpec => []TreasuryTypeOK
<1>1. TreasuryIInv => TreasuryTypeOK
  BY DEF TreasuryIInv
<1>2. QED
  BY <1>1, TreasuryInvariance, PTL

(* A transfer is counted once, and only if it landed, for any number of    *)
(* transfers, sweeps, crashes and recordings.                              *)
THEOREM BookedOnceIfLandedHolds == TreasurySpec => []BookedOnceIfLanded
<1>1. TreasuryIInv => BookedOnceIfLanded
  BY DEF TreasuryIInv
<1>2. QED
  BY <1>1, TreasuryInvariance, PTL

(* A confirmed sweep has its row before any tick.                          *)
THEOREM NoTickBeforeSweepRecordedHolds == TreasurySpec => []NoTickBeforeSweepRecorded
<1>1. TreasuryIInv => NoTickBeforeSweepRecorded
  BY DEF TreasuryIInv
<1>2. QED
  BY <1>1, TreasuryInvariance, PTL

(* What a snapshot with nothing loose reads is P&L.                        *)
LEMMA ReadsPnl ==
  ASSUME TreasuryTypeOK, Balanced, gap = 0,
         NEW p, p \in Snapshots, p.equity - p.net = p.pnl + p.gap, p.gap = 0
  PROVE  /\ Adjusted(p) = p.pnl + net
         /\ Adjusted(p) - equity = p.pnl - pnl
         /\ LossSince(p) = p.pnl - pnl
<1>1. /\ p.equity \in Int /\ p.net \in Int /\ p.pnl \in Int
      /\ equity \in Int /\ net \in Int /\ pnl \in Int
  BY DEF TreasuryTypeOK, Snapshots
<1>2. equity - net = pnl /\ p.equity - p.net = p.pnl
  BY <1>1 DEF Balanced
<1>3. QED
  BY <1>1, <1>2 DEF Adjusted, LossSince

(* When every transfer was recorded in time a breaker trips just when the  *)
(* agent's own result fell that far.                                       *)
LEMMA FallIsTrue ==
  ASSUME TreasuryIInv, NEW pct, NEW window, RecordedInTime(Recent(window))
  PROVE  Fell(pct, window) <=> TrueFall(pct, window)
<1>1. ASSUME NEW p \in Recent(window)
      PROVE  Adjusted(p) = p.pnl + net /\ Adjusted(p) - equity = p.pnl - pnl
  <2>1. p \in Snapshots /\ p.equity - p.net = p.pnl + p.gap /\ p.gap = 0 /\ gap = 0
    BY DEF TreasuryIInv, TreasuryTypeOK, SnapshotsBalanced, Recent, RecordedInTime
  <2>2. TreasuryTypeOK /\ Balanced
    BY DEF TreasuryIInv
  <2>3. QED
    BY <2>1, <2>2, ReadsPnl
<1>2. QED
  BY <1>1, Zenon DEF Fell, TrueFall

(* When every transfer was recorded in time the daily stop trips just when *)
(* the agent itself lost that much today.                                  *)
LEMMA LossIsTrue ==
  ASSUME TreasuryIInv, RecordedInTime(DayStart)
  PROVE  DailyLoss <=> TrueLoss
<1>1. ASSUME NEW p \in DayStart PROVE LossSince(p) = p.pnl - pnl
  <2>1. TreasuryTypeOK /\ Balanced /\ gap = 0 /\ p.gap = 0
    BY DEF TreasuryIInv, RecordedInTime
  <2>2. day \in 0 .. MaxDay /\ dayRow \in [0 .. MaxDay -> SUBSET curve]
    BY <2>1 DEF TreasuryTypeOK
  <2>3. p \in dayRow[day] \/ p = Snapshot
    BY <2>2 DEF DayStart, FirstOfDay
  <2>4. CASE p \in dayRow[day]
    <3>1. p \in curve
      BY <2>2, <2>4
    <3>2. p \in Snapshots /\ p.equity - p.net = p.pnl + p.gap
      BY <3>1 DEF TreasuryIInv, TreasuryTypeOK, SnapshotsBalanced
    <3>3. QED
      BY <2>1, <3>2, ReadsPnl
  <2>5. CASE p = Snapshot
    <3>1. p \in Snapshots
      BY <2>1, <2>5, SnapshotType
    <3>2. p.equity - p.net = p.pnl + p.gap
      BY <2>1, <2>5 DEF Snapshot, Balanced
    <3>3. QED
      BY <2>1, <3>1, <3>2, ReadsPnl
  <2>6. QED
    BY <2>3, <2>4, <2>5
<1>2. QED
  BY <1>1, Zenon DEF DailyLoss, TrueLoss

(* With what landed recorded in time, prices alone decide the brakes, for  *)
(* any windows, thresholds, deposits and withdrawals.                      *)
THEOREM BrakesReadPnlHolds == TreasurySpec => []BrakesReadPnl
<1>1. TreasuryIInv => BrakesReadPnl
  <2> SUFFICES ASSUME TreasuryIInv PROVE BrakesReadPnl
    OBVIOUS
  <2>1. RecordedInTime(Recent(ShortWindow)) =>
          Fell(Dd7Pct, ShortWindow) = TrueFall(Dd7Pct, ShortWindow)
    <3>1. RecordedInTime(Recent(ShortWindow)) =>
            (Fell(Dd7Pct, ShortWindow) <=> TrueFall(Dd7Pct, ShortWindow))
      BY FallIsTrue
    <3>2. QED
      BY <3>1, Zenon DEF Fell, TrueFall
  <2>2. RecordedInTime(Recent(LongWindow)) =>
          Fell(Dd30Pct, LongWindow) = TrueFall(Dd30Pct, LongWindow)
    <3>1. RecordedInTime(Recent(LongWindow)) =>
            (Fell(Dd30Pct, LongWindow) <=> TrueFall(Dd30Pct, LongWindow))
      BY FallIsTrue
    <3>2. QED
      BY <3>1, Zenon DEF Fell, TrueFall
  <2>3. RecordedInTime(DayStart) => DailyLoss = TrueLoss
    <3>1. RecordedInTime(DayStart) => (DailyLoss <=> TrueLoss)
      BY LossIsTrue
    <3>2. QED
      BY <3>1, Zenon DEF DailyLoss, TrueLoss
  <2>4. QED
    BY <2>1, <2>2, <2>3 DEF BrakesReadPnl
<1>2. QED
  BY <1>1, TreasuryInvariance, PTL

(* A drawdown that halts the agent is a loss, unless a transfer was        *)
(* recorded late; marks that are missing never halt it.                    *)
THEOREM HaltFollowsLossHolds == TreasurySpec => HaltFollowsLoss
<1>1. TreasuryIInv /\ [TreasuryNext]_treasuryVars =>
        [~halted /\ halted' /\ RecordedInTime(Recent(LongWindow)) =>
           TrueFall(FlattenPct, LongWindow)]_treasuryVars
  <2> SUFFICES ASSUME TreasuryIInv, TreasuryNext, ~halted, halted', RecordedInTime(Recent(LongWindow))
               PROVE  TrueFall(FlattenPct, LongWindow)
    OBVIOUS
  <2>1. Tick \/ UNCHANGED halted
    BY DEF TreasuryNext, Market, NextDay, Record, LandSweep, FailSweep, Move, SweepSend, SweepStart,
       SweepConfirmed, SweepRecord, SweepFailed, SweepUnconfirmed, SweepRelease, SweepCrash,
       Start, Stop, TickWithoutMarks, agent
  <2>2. Tick
    BY <2>1, Zenon
  <2>3. Fell(FlattenPct, LongWindow)
    BY <2>2, Zenon DEF Tick
  <2>4. QED
    BY <2>3, FallIsTrue
<1>2. QED
  BY <1>1, TreasuryInvariance, PTL DEF TreasurySpec, HaltFollowsLoss
=============================================================================
