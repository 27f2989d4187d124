---------------------------- MODULE InstanceLock ----------------------------
(***************************************************************************)
(* The lock file that keeps two processes from signing at once: `tiller    *)
(* run' holds it and renews its heartbeat at the start of every tick,      *)
(* `tiller flatten' and `tiller sweep' hold it for one piece of work.      *)
(* acquire, heartbeat and release each read the file and then write or     *)
(* unlink it; a heartbeat older than stale_after is taken over.            *)
(*                                                                         *)
(* Two constants say how much the environment is trusted.  The code        *)
(* guarantees neither: AtomicAccess, that nothing happens between a        *)
(* process's read and its write of the file, and QuickTicks, that a tick   *)
(* or a command ends before the heartbeat it began with is stale.          *)
(*                                                                         *)
(* (Names that other modules have too carry Lock here, so that a           *)
(* module can extend those of the control process side by side.)           *)
(***************************************************************************)
EXTENDS Naturals

CONSTANTS
  Runners,       (* `tiller run' processes, restarted by systemd on failure  *)
  OneShots,      (* `tiller flatten' and `tiller sweep' processes            *)
  Nobody,        (* there is no lock file                                    *)
  Dead,          (* the token of a process that has died                     *)
  StaleAfter,    (* stale_after, in steps of the clock                       *)
  AtomicAccess,  (* no interleaving between a read and its write             *)
  QuickTicks     (* no tick outlives its heartbeat                           *)

Procs == Runners \cup OneShots

ASSUME LockAssumption ==
  /\ Runners \cap OneShots = {}
  /\ Nobody \notin Procs /\ Dead \notin Procs /\ Nobody # Dead
  /\ StaleAfter \in Nat \ {0}
  /\ AtomicAccess \in BOOLEAN /\ QuickTicks \in BOOLEAN

VARIABLES
  lock,  (* the token in the lock file                                       *)
  age,   (* how old the heartbeat in it is; StaleAfter is "stale"            *)
  at     (* where each process is                                            *)

lockVars == <<lock, age, at>>

(* Between a read of the file and the write or unlink it leads to.         *)
AccessPcs == {"claim", "beat", "unlink"}
Pcs == {"off", "down", "loop", "work", "leave"} \cup AccessPcs

Move(p, label) == at' = [at EXCEPT ![p] = label]
MayRead == AtomicAccess => \A q \in Procs : at[q] \notin AccessPcs

(* Not this process's file, whatever its age / and still fresh.            *)
Foreign(p) == lock \notin {Nobody, p}
(* (A lock whose heartbeat never goes stale.)                              *)
HeldForever(p) == Foreign(p)
HeldElsewhere(p) == Foreign(p) /\ age < StaleAfter

LockInit ==
  /\ lock = Nobody
  /\ age = 0
  /\ at = [p \in Procs |-> "off"]

(* Refused: the command exits; the service is started again later.         *)
AcquireRead(p) ==
  /\ at[p] \in {"off", "down"} /\ MayRead
  /\ Move(p, IF ~HeldElsewhere(p) THEN "claim" ELSE IF p \in Runners THEN "down" ELSE "off")
  /\ UNCHANGED <<lock, age>>

Write(p) == lock' = p /\ age' = 0

AcquireWrite(p) ==
  /\ at[p] = "claim"
  /\ Write(p)
  /\ Move(p, IF p \in Runners THEN "loop" ELSE "work")

(* (A heartbeat that would not look who holds the file.)                   *)
HeartbeatUnchecked(p) ==
  /\ at[p] = "loop" /\ MayRead
  /\ Move(p, "beat")
  /\ UNCHANGED <<lock, age>>

(* A tick begins.  Taken over: it raises, and the next one tries again.    *)
HeartbeatRead(p) ==
  /\ at[p] = "loop" /\ MayRead
  /\ ~Foreign(p)
  /\ Move(p, "beat")
  /\ UNCHANGED <<lock, age>>

HeartbeatWrite(p) ==
  /\ at[p] = "beat"
  /\ Write(p)
  /\ Move(p, "work")

(* The tick, or the command's work, ends (with an exception or without).   *)
EndWork(p) ==
  /\ at[p] = "work"
  /\ Move(p, IF p \in Runners THEN "loop" ELSE "leave")
  /\ UNCHANGED <<lock, age>>

(* The loop is told to stop.                                               *)
Stop(p) ==
  /\ at[p] = "loop"
  /\ Move(p, "leave")
  /\ UNCHANGED <<lock, age>>

ReleaseRead(p) ==
  /\ at[p] = "leave" /\ MayRead
  /\ Move(p, IF lock = p THEN "unlink" ELSE "off")
  /\ UNCHANGED <<lock, age>>

Unlink(p) ==
  /\ at[p] = "unlink"
  /\ lock' = Nobody
  /\ Move(p, "off")
  /\ UNCHANGED age

(* A process dies; started again it has another token.                     *)
Die(p) ==
  /\ at[p] \notin {"off", "down"}
  /\ lock' = IF lock = p THEN Dead ELSE lock
  /\ Move(p, IF p \in Runners THEN "down" ELSE "off")
  /\ UNCHANGED age

PassTime ==
  /\ age < StaleAfter
  /\ AtomicAccess => \A q \in Procs : at[q] \notin AccessPcs
  /\ QuickTicks => age + 1 < StaleAfter \/ \A q \in Procs : at[q] # "work"
  /\ age' = age + 1
  /\ UNCHANGED <<lock, at>>

Step(p) ==
  \/ AcquireRead(p) \/ AcquireWrite(p)
  \/ HeartbeatRead(p) \/ HeartbeatWrite(p)
  \/ EndWork(p) \/ Stop(p)
  \/ ReleaseRead(p) \/ Unlink(p)

LockNext == PassTime \/ \E p \in Procs : Step(p) \/ Die(p)

LockSpec == LockInit /\ [][LockNext]_lockVars

(* A started process is scheduled; systemd restarts a failed service every *)
(* 30 s, without a limit (deploy/tiller.service), and does not crash every *)
(* time in the instant between the read and the write of acquire.          *)
LockFairness ==
  /\ WF_lockVars(PassTime)
  /\ \A p \in Procs :
       /\ WF_lockVars(HeartbeatWrite(p)) /\ WF_lockVars(EndWork(p)) /\ WF_lockVars(Unlink(p))
       /\ SF_lockVars(ReleaseRead(p)) /\ SF_lockVars(AcquireWrite(p))
  /\ \A r \in Runners : SF_lockVars(at[r] = "down" /\ AcquireRead(r))

LockFairSpec == LockSpec /\ LockFairness

-----------------------------------------------------------------------------
LockTypeOK ==
  /\ lock \in Procs \cup {Nobody, Dead}
  /\ age \in 0 .. StaleAfter
  /\ at \in [Procs -> Pcs]

(* Two processes never sign at the same time: `the running agent must not  *)
(* sign concurrently' (cmd_flatten), `never sign a transfer while `tiller  *)
(* run' may be signing a swap' (cmd_sweep).                                *)
OneSigner == \A p, q \in Procs : at[p] = "work" /\ at[q] = "work" => p = q

(* A lock left behind by a crash does not lock the restarted service out:  *)
(* it waits for the heartbeat to go stale and takes over (acquire).        *)
CrashRecovers == \A r \in Runners : lock = Dead /\ at[r] = "down" ~> lock # Dead

(* OneSigner made inductive, for AtomicAccess and QuickTicks: one process  *)
(* at a time accesses the file, the signer's heartbeat in it is fresh, and *)
(* whoever is about to write saw that nobody signs.                        *)
SignerHoldsFreshLock == \A p \in Procs : at[p] = "work" => lock = p /\ age < StaleAfter
AccessExclusive ==
  \A p, q \in Procs : at[p] \in AccessPcs /\ at[q] \in AccessPcs => p = q
NoSignerDuringAccess ==
  \A p, q \in Procs : at[p] \in AccessPcs => at[q] # "work"
LockIInv == LockTypeOK /\ SignerHoldsFreshLock /\ AccessExclusive /\ NoSignerDuringAccess

=============================================================================
