------------------------- MODULE AgentControlProofs -------------------------
(***************************************************************************)
(* Around the trade: the two guards it passes before it is signed, and the *)
(* post about it.  The halt flag: for any set of mints, no entry while the *)
(* state file says halted.  The lock file: it excludes a second signer,    *)
(* for any number of processes, when the two windows the code leaves open  *)
(* are closed: no step falls between a read of the file and its write, and *)
(* no tick outlives its heartbeat.  The posts: for any trades, notes, caps *)
(* and number of crashes a post reaches the board a bounded number of      *)
(* times, and a row that says posted is shown.                             *)
(***************************************************************************)
EXTENDS HaltControl, InstanceLock, PostQueue, TLAPS

(* The inductive invariant holds at the start.                             *)
LEMMA HaltInit == Init => IInv
  BY DEF Init, IInv, TypeOK, BeliefTrue, Running, CopyTrue, FlattenAside, Swaps

(* Every step keeps it, a command's write in the middle of a tick included. *)
LEMMA HaltStep ==
  ASSUME IInv, [Next]_vars
  PROVE  IInv'
<1> USE DEF IInv, TypeOK, BeliefTrue, Running, CopyTrue, FlattenAside, market, command,
        Swaps, Goto
<1>1. CASE DrawdownMoves \/ PricesMove \/ RetryDue
  <2>1. CASE DrawdownMoves
    BY <2>1 DEF DrawdownMoves
  <2>2. CASE PricesMove
    <3>1. unpriced' \subseteq Mints
      BY <2>2 DEF PricesMove
    <3>2. QED
      BY <2>2, <3>1 DEF PricesMove
  <2>3. CASE RetryDue
    BY <2>3 DEF RetryDue
  <2>4. QED
    BY <1>1, <2>1, <2>2, <2>3
<1>2. CASE Pause \/ OrderLiquidation
  BY <1>2 DEF Pause, OrderLiquidation
<1>3. ASSUME NEW m \in Mints, LateBuy(m) PROVE IInv'
  BY <1>3 DEF LateBuy
<1>4. CASE ResumeLoad
  BY <1>4 DEF ResumeLoad
<1>5. CASE AcceptLoad
  BY <1>5 DEF AcceptLoad
<1>6. CASE CommandSave
  BY <1>6 DEF CommandSave
<1>7. CASE StartTick
  BY <1>7 DEF StartTick
<1>8. ASSUME NEW d \in {"none", "pause", "liquidate"}, NEW b \in BOOLEAN, Assess(d, b)
      PROVE  IInv'
  <2>1. todo' \subseteq Swaps
    BY <1>8, SolAssumption DEF Assess, SellsOf
  <2>2. QED
    BY <1>8, <2>1 DEF Assess
<1>9. CASE SnapshotFails
  BY <1>9 DEF SnapshotFails
<1>10. ASSUME NEW m \in Mints, Sell(m) PROVE IInv'
  BY <1>10 DEF Sell, Sold
<1>11. ASSUME NEW m \in Mints, Buy(m) PROVE IInv'
  BY <1>11 DEF Buy
<1>12. CASE EndTrading
  BY <1>12 DEF EndTrading
<1>13. CASE StartFlatten
  BY <1>13 DEF StartFlatten, SellsOf
<1>14. CASE FlattenFails
  BY <1>14 DEF FlattenFails
<1>15. CASE EndFlatten
  BY <1>15 DEF EndFlatten
<1>16. CASE EndTick
  BY <1>16 DEF EndTick
<1>17. CASE CliFlatten
  BY <1>17 DEF CliFlatten
<1>18. CASE Crash
  BY <1>18 DEF Crash
<1>19. CASE UNCHANGED vars
  BY <1>19 DEF vars
<1>20. QED
  BY <1>1, <1>2, <1>3, <1>4, <1>5, <1>6, <1>7, <1>8, <1>9, <1>10, <1>11, <1>12, <1>13,
     <1>14, <1>15, <1>16, <1>17, <1>18, <1>19
  DEF Next, Work, Assessment

(* No entry is made while the state file says halted, whatever the         *)
(* commands write in between and whenever the process dies.                *)
THEOREM HaltHonouredHolds == Spec => HaltHonoured
<1>1. IInv /\ [Next]_vars => [(\E m \in Mints : Buy(m)) => ~file]_vars
  <2>1. ASSUME IInv, NEW m \in Mints, Buy(m) PROVE ~file
    BY <2>1 DEF IInv, Buy, BeliefTrue, Running, FlattenAside
  <2>2. QED
    BY <2>1
<1>2. Spec => []IInv
  <2>1. IInv /\ [Next]_vars => IInv'
    BY HaltStep
  <2>2. QED
    BY HaltInit, <2>1, PTL DEF Spec
<1>3. QED
  BY <1>1, <1>2, PTL DEF Spec, HaltHonoured

-----------------------------------------------------------------------------
(* The lock's inductive invariant holds at the start.                      *)
LEMMA LockStarts == LockInit => LockIInv
  BY LockAssumption
  DEF LockInit, LockIInv, LockTypeOK, Pcs, SignerHoldsFreshLock, AccessExclusive, NoSignerDuringAccess,
      AccessPcs

(* Every step keeps it, given both assumptions on the environment.         *)
LEMMA LockKept ==
  ASSUME AtomicAccess, QuickTicks, LockIInv, [LockNext]_lockVars
  PROVE  LockIInv'
<1> USE LockAssumption
    DEF LockIInv, LockTypeOK, Pcs, SignerHoldsFreshLock, AccessExclusive, NoSignerDuringAccess,
        AccessPcs, MayRead, Move, Write
<1>1. ASSUME NEW p \in Procs, AcquireRead(p) PROVE LockIInv'
  <2>1. \A q \in Procs : at[q] \notin AccessPcs
    BY <1>1 DEF AcquireRead
  <2>2. CASE HeldElsewhere(p)
    BY <1>1, <2>1, <2>2 DEF AcquireRead
  <2>3. CASE ~HeldElsewhere(p)
    <3>1. \A q \in Procs : at[q] # "work"
      BY <1>1, <2>3 DEF AcquireRead, HeldElsewhere, Foreign
    <3>2. at' = [at EXCEPT ![p] = "claim"] /\ UNCHANGED <<lock, age>>
      BY <1>1, <2>3 DEF AcquireRead
    <3>3. QED
      BY <2>1, <3>1, <3>2
  <2>4. QED
    BY <2>2, <2>3
<1>2. ASSUME NEW p \in Procs, AcquireWrite(p) PROVE LockIInv'
  BY <1>2 DEF AcquireWrite
<1>3. ASSUME NEW p \in Procs, HeartbeatRead(p) PROVE LockIInv'
  <2>1. \A q \in Procs : at[q] \notin AccessPcs
    BY <1>3 DEF HeartbeatRead
  <2>2. \A q \in Procs : at[q] # "work"
    BY <1>3 DEF HeartbeatRead, Foreign
  <2>3. at' = [at EXCEPT ![p] = "beat"] /\ UNCHANGED <<lock, age>>
    BY <1>3 DEF HeartbeatRead
  <2>4. QED
    BY <2>1, <2>2, <2>3
<1>4. ASSUME NEW p \in Procs, HeartbeatWrite(p) PROVE LockIInv'
  BY <1>4 DEF HeartbeatWrite
<1>5. ASSUME NEW p \in Procs, EndWork(p) PROVE LockIInv'
  BY <1>5 DEF EndWork
<1>6. ASSUME NEW p \in Procs, Stop(p) PROVE LockIInv'
  BY <1>6 DEF Stop
<1>7. ASSUME NEW p \in Procs, ReleaseRead(p) PROVE LockIInv'
  <2>1. \A q \in Procs : at[q] \notin AccessPcs
    BY <1>7 DEF ReleaseRead
  <2>2. lock = p => \A q \in Procs : at[q] # "work"
    BY <1>7 DEF ReleaseRead
  <2>3. QED
    BY <1>7, <2>1, <2>2 DEF ReleaseRead
<1>8. ASSUME NEW p \in Procs, Unlink(p) PROVE LockIInv'
  BY <1>8 DEF Unlink
<1>9. ASSUME NEW p \in Procs, Die(p) PROVE LockIInv'
  BY <1>9 DEF Die
<1>10. CASE PassTime
  BY <1>10 DEF PassTime
<1>11. CASE UNCHANGED lockVars
  BY <1>11 DEF lockVars
<1>12. QED
  BY <1>1, <1>2, <1>3, <1>4, <1>5, <1>6, <1>7, <1>8, <1>9, <1>10, <1>11 DEF LockNext, Step

(* cmd_flatten, cmd_sweep and the tick: with both windows closed at most   *)
(* one process signs at any time.                                          *)
THEOREM OneSignerWhenPrompt ==
  ASSUME AtomicAccess, QuickTicks
  PROVE  LockSpec => []OneSigner
<1>1. LockIInv /\ [LockNext]_lockVars => LockIInv'
  BY LockKept
<1>2. LockIInv => OneSigner
  BY DEF LockIInv, SignerHoldsFreshLock, OneSigner
<1>3. QED
  BY LockStarts, <1>1, <1>2, PTL DEF LockSpec

-----------------------------------------------------------------------------
(* Every step keeps the types.                                             *)
LEMMA PostTypeStep ==
  ASSUME PostTypeOK, [PostNext]_postVars
  PROVE  PostTypeOK'
<1> USE PostsAssumption DEF Posts, row, flushing, PostTypeOK, PostStates
<1>1. CASE StartFlush
  BY <1>1 DEF StartFlush
<1>2. CASE EndFlush
  BY <1>2 DEF EndFlush
<1>3. CASE Post
  BY <1>3 DEF Post, Deliver, Delay, Lose
<1>4. CASE Record
  BY <1>4 DEF Record, Upsert, Attempted
<1>5. CASE Restart
  BY <1>5 DEF Restart
<1>6. ASSUME NEW k \in Posts, SendQueued(k) PROVE PostTypeOK'
  BY <1>6 DEF SendQueued, TakeToSend
<1>7. ASSUME NEW k \in Posts, GiveUpNote(k) PROVE PostTypeOK'
  BY <1>7 DEF GiveUpNote, Settle, Upsert
<1>8. ASSUME NEW k \in Posts, LookUpFound(k) PROVE PostTypeOK'
  BY <1>8 DEF LookUpFound, Settle, Upsert
<1>9. ASSUME NEW k \in Posts, LookUpFails(k) PROVE PostTypeOK'
  BY <1>9 DEF LookUpFails, Settle, TakeToSend, Upsert, SentOften
<1>10. ASSUME NEW k \in Posts, Enqueue(k) PROVE PostTypeOK'
  BY <1>10 DEF Enqueue, Upsert
<1>11. ASSUME NEW k \in Posts, BecomeDue(k) PROVE PostTypeOK'
  BY <1>11 DEF BecomeDue
<1>12. ASSUME NEW k \in Posts, Arrive(k) PROVE PostTypeOK'
  BY <1>12 DEF Arrive
<1>13. CASE UNCHANGED postVars
  BY <1>13 DEF postVars
<1>14. QED
  BY <1>1, <1>2, <1>3, <1>4, <1>5, <1>6, <1>7, <1>8, <1>9, <1>10, <1>11, <1>12, <1>13
  DEF PostNext, Flush

(* The row in hand stays one that may be sent.                             *)
LEMMA HandStep ==
  ASSUME PostTypeOK, InHand, [PostNext]_postVars
  PROVE  InHand'
<1> USE PostsAssumption DEF Posts, row, flushing, InHand, MaySend, PostTypeOK
<1>1. CASE StartFlush
  BY <1>1 DEF StartFlush
<1>2. CASE EndFlush
  BY <1>2 DEF EndFlush
<1>3. CASE Post
  BY <1>3 DEF Post, Deliver, Delay, Lose
<1>4. CASE Record
  BY <1>4 DEF Record, Upsert, Attempted
<1>5. CASE Restart
  BY <1>5 DEF Restart
<1>6. ASSUME NEW k \in Posts, SendQueued(k) PROVE InHand'
  BY <1>6 DEF SendQueued, TakeToSend
<1>7. ASSUME NEW k \in Posts, GiveUpNote(k) PROVE InHand'
  BY <1>7 DEF GiveUpNote, Settle, Upsert
<1>8. ASSUME NEW k \in Posts, LookUpFound(k) PROVE InHand'
  BY <1>8 DEF LookUpFound, Settle, Upsert
<1>9. ASSUME NEW k \in Posts, LookUpFails(k) PROVE InHand'
  BY <1>9 DEF LookUpFails, Settle, TakeToSend, Upsert, SentOften
<1>10. ASSUME NEW k \in Posts, Enqueue(k) PROVE InHand'
  BY <1>10 DEF Enqueue, Upsert
<1>11. ASSUME NEW k \in Posts, BecomeDue(k) PROVE InHand'
  BY <1>11 DEF BecomeDue
<1>12. ASSUME NEW k \in Posts, Arrive(k) PROVE InHand'
  BY <1>12 DEF Arrive
<1>13. CASE UNCHANGED postVars
  BY <1>13 DEF postVars
<1>14. QED
  BY <1>1, <1>2, <1>3, <1>4, <1>5, <1>6, <1>7, <1>8, <1>9, <1>10, <1>11, <1>12, <1>13
  DEF PostNext, Flush

(* A row becomes posted only after a copy was delivered or seen.           *)
LEMMA ShownStep ==
  ASSUME PostTypeOK, InHand, AnswerTrue, PostedIsShown, [PostNext]_postVars
  PROVE  (AnswerTrue /\ PostedIsShown)'
<1> USE PostsAssumption DEF Posts, row, flushing, AnswerTrue, PostedIsShown, InHand, PostTypeOK
<1>1. CASE StartFlush
  BY <1>1 DEF StartFlush
<1>2. CASE EndFlush
  BY <1>2 DEF EndFlush
<1>3. CASE Post
  BY <1>3 DEF Post, Deliver, Delay, Lose
<1>4. CASE Record
  BY <1>4 DEF Record, Upsert, Attempted
<1>5. CASE Restart
  BY <1>5 DEF Restart
<1>6. ASSUME NEW k \in Posts, SendQueued(k) PROVE (AnswerTrue /\ PostedIsShown)'
  BY <1>6 DEF SendQueued, TakeToSend
<1>7. ASSUME NEW k \in Posts, GiveUpNote(k) PROVE (AnswerTrue /\ PostedIsShown)'
  BY <1>7 DEF GiveUpNote, Settle, Upsert
<1>8. ASSUME NEW k \in Posts, LookUpFound(k) PROVE (AnswerTrue /\ PostedIsShown)'
  BY <1>8 DEF LookUpFound, Settle, Upsert
<1>9. ASSUME NEW k \in Posts, LookUpFails(k) PROVE (AnswerTrue /\ PostedIsShown)'
  BY <1>9 DEF LookUpFails, Settle, TakeToSend, Upsert, SentOften
<1>10. ASSUME NEW k \in Posts, Enqueue(k) PROVE (AnswerTrue /\ PostedIsShown)'
  BY <1>10 DEF Enqueue, Upsert
<1>11. ASSUME NEW k \in Posts, BecomeDue(k) PROVE (AnswerTrue /\ PostedIsShown)'
  BY <1>11 DEF BecomeDue
<1>12. ASSUME NEW k \in Posts, Arrive(k) PROVE (AnswerTrue /\ PostedIsShown)'
  BY <1>12 DEF Arrive
<1>13. CASE UNCHANGED postVars
  BY <1>13 DEF postVars
<1>14. QED
  BY <1>1, <1>2, <1>3, <1>4, <1>5, <1>6, <1>7, <1>8, <1>9, <1>10, <1>11, <1>12, <1>13
  DEF PostNext, Flush

(* Every copy is accounted for by its row, the send in hand or a crash.    *)
LEMMA CopiesStep ==
  ASSUME PostTypeOK, InHand, CopiesAccounted, [PostNext]_postVars
  PROVE  CopiesAccounted'
<1> USE PostsAssumption DEF Posts, row, flushing, CopiesAccounted, Accounted, Unrecorded, MaxSends,
        Least, InHand, MaySend, PostTypeOK
<1>1. CASE StartFlush
  BY <1>1 DEF StartFlush
<1>2. CASE EndFlush
  BY <1>2 DEF EndFlush
<1>3. CASE Post
  BY <1>3 DEF Post, Deliver, Delay, Lose
<1>4. CASE Record
  BY <1>4 DEF Record, Upsert, Attempted
<1>5. CASE Restart
  BY <1>5 DEF Restart
<1>6. ASSUME NEW k \in Posts, SendQueued(k) PROVE CopiesAccounted'
  BY <1>6 DEF SendQueued, TakeToSend
<1>7. ASSUME NEW k \in Posts, GiveUpNote(k) PROVE CopiesAccounted'
  BY <1>7 DEF GiveUpNote, Settle, Upsert
<1>8. ASSUME NEW k \in Posts, LookUpFound(k) PROVE CopiesAccounted'
  BY <1>8 DEF LookUpFound, Settle, Upsert
<1>9. ASSUME NEW k \in Posts, LookUpFails(k) PROVE CopiesAccounted'
  BY <1>9 DEF LookUpFails, Settle, TakeToSend, Upsert, SentOften
<1>10. ASSUME NEW k \in Posts, Enqueue(k) PROVE CopiesAccounted'
  BY <1>10 DEF Enqueue, Upsert
<1>11. ASSUME NEW k \in Posts, BecomeDue(k) PROVE CopiesAccounted'
  BY <1>11 DEF BecomeDue
<1>12. ASSUME NEW k \in Posts, Arrive(k) PROVE CopiesAccounted'
  BY <1>12 DEF Arrive
<1>13. CASE UNCHANGED postVars
  BY <1>13 DEF postVars
<1>14. QED
  BY <1>1, <1>2, <1>3, <1>4, <1>5, <1>6, <1>7, <1>8, <1>9, <1>10, <1>11, <1>12, <1>13
  DEF PostNext, Flush

(* The inductive invariant holds of every reachable state.                 *)
THEOREM PostInvariance == PostSpec => []PostIInv
<1>1. PostInit => PostIInv
  BY PostsAssumption DEF PostInit, PostIInv, PostTypeOK, PostStates, InHand, AnswerTrue, PostedIsShown,
     CopiesAccounted, Accounted, Unrecorded
<1>2. PostIInv /\ [PostNext]_postVars => PostIInv'
  BY PostTypeStep, HandStep, ShownStep, CopiesStep DEF PostIInv
<1>3. QED
  BY <1>1, <1>2, PTL DEF PostSpec

(* The network, the limits and crashes notwithstanding, a trade is on the  *)
(* board at most MaxUncertain times, a note once, and once more a crash.   *)
THEOREM CopiesBoundedHolds == PostSpec => []CopiesBounded
<1>1. PostIInv => CopiesBounded
  <2>1. SUFFICES ASSUME PostIInv, NEW k \in Posts
                 PROVE  board[k] + underway[k] <= crashes + MaxSends(k)
    BY DEF CopiesBounded, MaxSends
  <2>2. board[k] + underway[k] <= crashes + Accounted(k) + Unrecorded(k)
    BY <2>1 DEF PostIInv, CopiesAccounted
  <2>3. Accounted(k) + Unrecorded(k) <= MaxSends(k)
    BY <2>1, PostsAssumption
    DEF PostIInv, PostTypeOK, InHand, MaySend, Accounted, Unrecorded, MaxSends, Least, Posts
  <2>4. /\ board[k] \in Nat /\ underway[k] \in Nat /\ crashes \in Nat
        /\ Accounted(k) \in Int /\ Unrecorded(k) \in Int /\ MaxSends(k) \in Int
    BY <2>1, PostsAssumption DEF PostIInv, PostTypeOK, Accounted, Unrecorded, MaxSends, Least, Posts
  <2>5. QED
    BY <2>2, <2>3, <2>4
<1>2. QED
  BY <1>1, PostInvariance, PTL

(* The variables keep to their domains, for any trades, notes and limits.  *)
THEOREM PostTypeCorrect == PostSpec => []PostTypeOK
<1>1. PostIInv => PostTypeOK
  BY DEF PostIInv
<1>2. QED
  BY <1>1, PostInvariance, PTL

(* A row never says posted of a post the board does not show.              *)
THEOREM PostedIsShownHolds == PostSpec => []PostedIsShown
<1>1. PostIInv => PostedIsShown
  BY DEF PostIInv
<1>2. QED
  BY <1>1, PostInvariance, PTL
=============================================================================
