----------------------------- MODULE HaltControl -----------------------------
(***************************************************************************)
(* Who may stop the agent and who lets it trade again: the drawdown from   *)
(* the 30-day peak, a `liquidate' order (the KILL file or a directive of   *)
(* the owner) and `tiller flatten' sell every holding and set `halted';    *)
(* `tiller resume' clears it.  The agent reads the state file when a tick  *)
(* begins and writes it when the tick or a flatten ends; resume and        *)
(* `reconcile --accept' read, change and write the same file, take no lock *)
(* and may run in the middle of a tick.                                    *)
(*                                                                         *)
(* Amounts are left out: a mint is held or it is not.                      *)
(***************************************************************************)
EXTENDS Naturals

CONSTANTS
  Mints,   (* tokens other than USDC, worth min_order_usd or more if held    *)
  Sol      (* the one whose mark is always wanted                            *)

ASSUME SolAssumption == Sol \in Mints

VARIABLES
  file,      (* halted, in the state file                                    *)
  mem,       (* halted, in the agent's memory                                *)
  kill,      (* the KILL file: "absent", "empty", "liquidate"                *)
  dd,        (* drawdown from the 30-day peak: under 20 %, 25 %, or over     *)
  unpriced,  (* mints no price source has a mark for                         *)
  held,      (* mints the wallet holds                                       *)
  late,      (* mints with a buy that was sent and may still land            *)
  retry,     (* FLATTEN_RETRY has passed since the last attempt              *)
  pc,        (* where the agent is                                           *)
  todo,      (* orders it has still to execute                               *)
  cli,       (* the command running beside it: "none", "resume", "accept"    *)
  copy       (* halted, in the state that command has read                   *)

market == <<dd, unpriced, late>>
command == <<cli, copy>>
vars == <<file, mem, kill, dd, unpriced, held, late, retry, pc, todo, cli, copy>>

Swaps == [side : {"buy", "sell"}, mint : Mints]
SellsOf(S) == [side : {"sell"}, mint : S]

Tracked == held \cup {Sol}
MarksBad == unpriced \cap Tracked # {}
(* is_flat: a holding without a mark is worth nothing here.                *)
Flat == held \subseteq unpriced

Init ==
  /\ file = FALSE /\ mem = FALSE
  /\ kill = "absent"
  /\ dd = "low" /\ unpriced = {}
  /\ held = {} /\ late = {}
  /\ retry = TRUE
  /\ pc = "idle" /\ todo = {}
  /\ cli = "none" /\ copy = FALSE

-----------------------------------------------------------------------------
(***************************************************************************)
(* The market, the clock and the operator.                                 *)
(***************************************************************************)
DrawdownMoves ==
  /\ dd' \in {"low", "block", "flatten"} \ {dd}
  /\ UNCHANGED <<file, mem, kill, unpriced, held, late, retry, pc, todo, command>>

PricesMove ==
  /\ unpriced' \in (SUBSET Mints) \ {unpriced}
  /\ UNCHANGED <<file, mem, kill, dd, held, late, retry, pc, todo, command>>

(* A buy whose outcome was unknown lands, or never will.                   *)
LateBuy(m) ==
  /\ m \in late
  /\ late' = late \ {m}
  /\ held' \in {held, held \cup {m}}
  /\ UNCHANGED <<file, mem, kill, dd, unpriced, retry, pc, todo, command>>

RetryDue ==
  /\ ~retry
  /\ retry' = TRUE
  /\ UNCHANGED <<file, mem, kill, market, held, pc, todo, command>>

(* `tiller pause' touches the file; `echo liquidate > KILL'.               *)
Pause ==
  /\ kill = "absent"
  /\ kill' = "empty"
  /\ UNCHANGED <<file, mem, market, held, retry, pc, todo, command>>

OrderLiquidation ==
  /\ kill # "liquidate"
  /\ kill' = "liquidate"
  /\ UNCHANGED <<file, mem, market, held, retry, pc, todo, command>>

-----------------------------------------------------------------------------
(***************************************************************************)
(* `tiller resume' and `tiller reconcile --accept', one at a time.         *)
(***************************************************************************)
ResumeLoad ==
  /\ cli = "none"
  /\ kill' = "absent"
  /\ cli' = "resume" /\ copy' = file
  /\ UNCHANGED <<file, mem, market, held, retry, pc, todo>>

AcceptLoad ==
  /\ cli = "none"
  /\ cli' = "accept" /\ copy' = file
  /\ UNCHANGED <<file, mem, kill, market, held, retry, pc, todo>>

(* resume clears halted in what it read, accept writes it back as it was.  *)
CommandSave ==
  /\ cli # "none"
  /\ file' = (cli = "accept" /\ copy)
  /\ cli' = "none" /\ copy' = FALSE
  /\ UNCHANGED <<mem, kill, market, held, retry, pc, todo>>

-----------------------------------------------------------------------------
(***************************************************************************)
(* The agent's tick.                                                       *)
(***************************************************************************)

(* (A tick that begins with a fresh state.)                                *)
StartTickAfresh ==
  /\ pc = "idle"
  /\ mem' = FALSE
  /\ pc' = "assess"
  /\ UNCHANGED <<file, kill, market, held, retry, todo, command>>

StartTick ==
  /\ pc = "idle"
  /\ mem' = file
  /\ pc' = "assess"
  /\ UNCHANGED <<file, kill, market, held, retry, todo, command>>

(* must_flatten, and what tick makes of its reason: the drawdown comes     *)
(* first, and is dropped when the marks are bad or nothing is held.        *)
MustFlatten(directive) ==
  IF dd = "flatten" THEN ~MarksBad /\ ~Flat
  ELSE directive = "liquidate" \/ kill = "liquidate"

(* (A retry only while the reason of the flatten stands.)                  *)
RetryIfStillDue(directive) == retry /\ ~Flat /\ MustFlatten(directive)

(* Halted, but something is left to sell.                                  *)
RetryWanted(directive) == retry /\ ~Flat

(* Entries are open when no brake holds: drawdown, an order of the owner,  *)
(* the KILL file, or one of the others (daily loss, stale data, error      *)
(* rate, a pause after failures, a reconcile mismatch).                    *)
EntriesOpen(directive, other) ==
  dd = "low" /\ directive # "pause" /\ kill = "absent" /\ ~other

Goto(label) == pc' = label

Assess(directive, other) ==
  /\ pc = "assess"
  /\ \/ /\ (IF mem THEN RetryWanted(directive) ELSE MustFlatten(directive))
        /\ Goto("flatten")
        /\ UNCHANGED todo
     \/ /\ IF mem THEN ~RetryWanted(directive) ELSE ~MustFlatten(directive) /\ MarksBad
        /\ Goto("end")
        /\ UNCHANGED todo
     \/ /\ ~mem /\ ~MustFlatten(directive) /\ ~MarksBad
        /\ \E S \in SUBSET held,
              B \in {{}} \cup {{b} : b \in {m \in Mints : EntriesOpen(directive, other)}} :
             todo' = SellsOf(S) \cup [side : {"buy"}, mint : B]
        /\ Goto("trade")
  /\ UNCHANGED <<file, mem, kill, market, held, retry, command>>

(* The snapshot could not be taken: the tick saves and ends.               *)
SnapshotFails ==
  /\ pc = "assess"
  /\ file' = mem
  /\ Goto("idle")
  /\ UNCHANGED <<mem, kill, market, held, retry, todo, command>>

(* A sell executes, fails, or its outcome is unknown.                      *)
Sold(m) == held' = held \ {m}
Sell(m) ==
  /\ pc \in {"trade", "sellall", "clisellall"}
  /\ [side |-> "sell", mint |-> m] \in todo
  /\ todo' = todo \ {[side |-> "sell", mint |-> m]}
  /\ Sold(m) \/ UNCHANGED held
  /\ UNCHANGED <<file, mem, kill, market, retry, pc, command>>

(* The entry comes last.                                                   *)
Buy(m) ==
  /\ pc = "trade"
  /\ todo = {[side |-> "buy", mint |-> m]}
  /\ todo' = {}
  /\ \/ held' = held \cup {m} /\ UNCHANGED late
     \/ late' = late \cup {m} /\ UNCHANGED held
     \/ UNCHANGED <<held, late>>
  /\ UNCHANGED <<file, mem, kill, dd, unpriced, retry, pc, command>>

EndTrading ==
  /\ pc = "trade" /\ todo = {}
  /\ Goto("end")
  /\ UNCHANGED <<file, mem, kill, market, held, retry, todo, command>>

(* flatten takes a snapshot of its own and sells what has a mark; it stops *)
(* there, and the tick with it, if the snapshot fails.                     *)
StartFlatten ==
  /\ pc \in {"flatten", "cliflatten"}
  /\ retry' = FALSE
  /\ todo' = SellsOf(held \ unpriced)
  /\ Goto(IF pc = "flatten" THEN "sellall" ELSE "clisellall")
  /\ UNCHANGED <<file, mem, kill, market, held, command>>

FlattenFails ==
  /\ pc \in {"flatten", "cliflatten"}
  /\ retry' = FALSE
  /\ Goto("idle")
  /\ UNCHANGED <<file, mem, kill, market, held, todo, command>>

EndFlatten ==
  /\ pc \in {"sellall", "clisellall"} /\ todo = {}
  /\ mem' = TRUE /\ file' = TRUE
  /\ Goto(IF pc = "sellall" THEN "end" ELSE "idle")
  /\ UNCHANGED <<kill, market, held, retry, todo, command>>

EndTick ==
  /\ pc = "end"
  /\ file' = mem
  /\ Goto("idle")
  /\ UNCHANGED <<mem, kill, market, held, retry, todo, command>>

(* `tiller flatten --yes' holds the lock: the agent is not running.        *)
CliFlatten ==
  /\ pc = "idle"
  /\ mem' = file
  /\ Goto("cliflatten")
  /\ UNCHANGED <<file, kill, market, held, retry, todo, command>>

(* The process dies and is started again.                                  *)
Crash ==
  /\ pc # "idle"
  /\ mem' = file
  /\ todo' = {} /\ retry' = TRUE
  /\ Goto("idle")
  /\ UNCHANGED <<file, kill, market, held, command>>

-----------------------------------------------------------------------------
Assessment ==
  \E directive \in {"none", "pause", "liquidate"}, other \in BOOLEAN : Assess(directive, other)

Work ==
  \/ StartTick \/ Assessment \/ EndTrading \/ StartFlatten \/ EndFlatten \/ EndTick
  \/ \E m \in Mints : Sell(m) \/ Buy(m)

Next ==
  \/ Work \/ SnapshotFails \/ FlattenFails \/ CliFlatten \/ Crash
  \/ DrawdownMoves \/ PricesMove \/ RetryDue \/ Pause \/ OrderLiquidation
  \/ ResumeLoad \/ AcceptLoad \/ CommandSave
  \/ \E m \in Mints : LateBuy(m)

Spec == Init /\ [][Next]_vars

(* The loop runs on, balances can be read again and again, a sell that is  *)
(* tried often enough executes, the service is restarted and does not die  *)
(* in every tick, the retry delay passes, a sent buy's fate is sealed.     *)
Fairness ==
  /\ WF_vars(StartTick) /\ SF_vars(Assessment) /\ SF_vars(EndTrading) /\ SF_vars(EndTick)
  /\ SF_vars(StartFlatten) /\ SF_vars(EndFlatten)
  /\ WF_vars(RetryDue)
  /\ \A m \in Mints :
       SF_vars(Sell(m) /\ Sold(m)) /\ WF_vars(Sell(m) \/ Buy(m)) /\ WF_vars(LateBuy(m))

FairSpec == Spec /\ Fairness

-----------------------------------------------------------------------------
TypeOK ==
  /\ file \in BOOLEAN /\ mem \in BOOLEAN /\ copy \in BOOLEAN /\ retry \in BOOLEAN
  /\ kill \in {"absent", "empty", "liquidate"}
  /\ dd \in {"low", "block", "flatten"}
  /\ unpriced \subseteq Mints /\ held \subseteq Mints /\ late \subseteq Mints
  /\ pc \in {"idle", "assess", "trade", "flatten", "sellall", "cliflatten", "clisellall", "end"}
  /\ todo \subseteq Swaps
  /\ cli \in {"none", "resume", "accept"}

(* While the state file says halted no entry is made, although the agent   *)
(* looks at it once a tick and commands write it in between: no stale copy *)
(* of another process brings a cleared halt back under a running plan.     *)
HaltHonoured == [][(\E m \in Mints : Buy(m)) => ~file]_vars

(* Halted for good, with every mark known, the agent ends up flat and      *)
(* stays so: failed sells, crashes and buys that land late included (`keep *)
(* retrying until flat').                                                  *)
HaltedGetsFlat == <>[](file /\ unpriced = {}) => <>[](held = {})

(* What makes HaltHonoured inductive: a tick that believes it is not       *)
(* halted runs on a file that says so too, and a command that is to write  *)
(* halted back found it in a file that still says it.                      *)
Running == pc \in {"assess", "trade", "end"}
BeliefTrue == Running /\ ~mem => ~file
CopyTrue == cli = "accept" /\ copy => file
FlattenAside == pc = "trade" => ~mem
IInv == TypeOK /\ BeliefTrue /\ CopyTrue /\ FlattenAside

=============================================================================
