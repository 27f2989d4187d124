------------------------------ MODULE Treasury ------------------------------
(***************************************************************************)
(* Money in and out of the hot wallet, and the figures the brakes read.    *)
(* Nothing watches the chain for transfers: the owner records a deposit or *)
(* a withdrawal with a command, a sweep records itself once confirmed, and *)
(* every brake reads equity minus the net deposits RECORDED so far: the    *)
(* rolling peaks over the snapshots the ticks stored, and the first        *)
(* snapshot of the day, which sticks.                                      *)
(*                                                                         *)
(* Equity is counted in units of USD, the clock in days.                   *)
(* (Names the ramp has too carry Treasury here, so that one module can     *)
(* extend both brakes.)                                                    *)
(***************************************************************************)
EXTENDS Integers, FiniteSets, FiniteSetsExt

CONSTANTS
  Transfers,     (* transfers in or out of the wallet, each with its signature *)
  Amounts,       (* sizes a transfer may have                                  *)
  NoTransfer,    (* none of them                                               *)
  Moves,         (* what a price move may add to the equity, or take from it   *)
  Capital,       (* the first deposit, recorded before the first tick          *)
  ShortWindow,   (* days of the short rolling peak (7 in the code)             *)
  LongWindow,    (* days of the long rolling peak (30)                         *)
  DailyLossPct, Dd7Pct, Dd30Pct, FlattenPct,   (* thresholds, in percent       *)
  MaxDay,        (* bound: the last day                                        *)
  MaxTicks,      (* bound: ticks of the agent                                  *)
  MaxMoves       (* bound: price moves                                         *)

ASSUME TreasuryAssumption ==
  /\ Amounts \subseteq Nat \ {0} /\ Moves \subseteq Nat
  /\ NoTransfer \notin Transfers
  /\ Capital \in Nat \ {0}
  /\ ShortWindow \in Nat /\ LongWindow \in Nat /\ ShortWindow <= LongWindow
  /\ {DailyLossPct, Dd7Pct, Dd30Pct, FlattenPct} \subseteq 1 .. 100
  /\ MaxDay \in Nat /\ MaxTicks \in Nat /\ MaxMoves \in Nat

VARIABLES
  day,        (* the UTC day                                                   *)
  equity,     (* what the wallet is worth, transfers that landed included      *)
  pnl,        (* history: what the prices added so far                         *)
  moves,      (* price moves so far                                            *)
  fate,       (* of each transfer: none, sent, landed or failed                *)
  kind,       (* deposit, withdrawal or sweep                                  *)
  usd,        (* its size                                                      *)
  booked,     (* rows of the transfers table with its signature                *)
  net,        (* net_deposits_usd: the sum over the rows                       *)
  gap,        (* history: USD that landed and has no row yet                   *)
  lock,       (* who holds the instance lock: none, agent or sweep             *)
  sweep,      (* where the sweep command is                                    *)
  swept,      (* the transfer it sent                                          *)
  adrift,     (* sweeps that timed out or crashed before recording             *)
  curve,      (* the equity_snapshots table                                    *)
  dayRow,     (* the day_stats table: a set with the first snapshot of a day   *)
  ticks,      (* ticks so far                                                  *)
  halted      (* state.halted                                                  *)

market == <<day, equity, pnl, moves>>
money == <<fate, kind, usd, booked, net, gap>>
sweeping == <<lock, sweep, swept, adrift>>
agent == <<curve, dayRow, ticks, halted>>
treasuryVars == <<day, equity, pnl, moves, fate, kind, usd, booked, net, gap, lock,
          sweep, swept, adrift, curve, dayRow, ticks, halted>>

Kinds == {"deposit", "withdrawal", "sweep"}
Landed == {t \in Transfers : fate[t] = "landed"}
Signed(t) == IF kind[t] = "deposit" THEN usd[t] ELSE 0 - usd[t]

Unrecorded == {t \in Landed : booked[t] = 0}

(* A row of equity_snapshots; the last three fields are history.           *)
Snapshot == [day |-> day, equity |-> equity, net |-> net,
             pnl |-> pnl, gap |-> gap, loose |-> Unrecorded]

TreasuryInit ==
  /\ day = 0 /\ equity = Capital /\ pnl = 0 /\ moves = 0
  /\ fate = [t \in Transfers |-> "none"]
  /\ kind = [t \in Transfers |-> "deposit"]
  /\ usd = [t \in Transfers |-> 0]
  /\ booked = [t \in Transfers |-> 0]
  /\ net = Capital /\ gap = 0
  /\ lock = "none" /\ sweep = "idle" /\ swept = NoTransfer /\ adrift = {}
  /\ curve = {} /\ dayRow = [d \in 0 .. MaxDay |-> {}]
  /\ ticks = 0 /\ halted = FALSE

-----------------------------------------------------------------------------
(***************************************************************************)
(* Prices, the calendar and the chain.                                     *)
(***************************************************************************)
Market(d) ==
  /\ moves < MaxMoves /\ equity + d > 0
  /\ moves' = moves + 1
  /\ equity' = equity + d /\ pnl' = pnl + d
  /\ UNCHANGED <<day, money, sweeping, agent>>

NextDay ==
  /\ day < MaxDay
  /\ day' = day + 1
  /\ UNCHANGED <<equity, pnl, moves, money, sweeping, agent>>

(* The owner moves money in or out by hand.                                *)
Move(t, k, n) ==
  /\ fate[t] = "none"
  /\ k = "withdrawal" => n < equity
  /\ fate' = [fate EXCEPT ![t] = "landed"]
  /\ kind' = [kind EXCEPT ![t] = k]
  /\ usd' = [usd EXCEPT ![t] = n]
  /\ equity' = IF k = "deposit" THEN equity + n ELSE equity - n
  /\ gap' = IF k = "deposit" THEN gap + n ELSE gap - n
  /\ UNCHANGED <<day, pnl, moves, booked, net, sweeping, agent>>

(* The transfer of a sweep lands, or fails, expires or finds the balance   *)
(* gone.                                                                   *)
LandSweep(t) ==
  /\ fate[t] = "sent" /\ usd[t] < equity
  /\ fate' = [fate EXCEPT ![t] = "landed"]
  /\ equity' = equity - usd[t] /\ gap' = gap - usd[t]
  /\ UNCHANGED <<day, pnl, moves, kind, usd, booked, net, sweeping, agent>>

FailSweep(t) ==
  /\ fate[t] = "sent"
  /\ fate' = [fate EXCEPT ![t] = "failed"]
  /\ UNCHANGED <<market, kind, usd, booked, net, gap, sweeping, agent>>

-----------------------------------------------------------------------------
(***************************************************************************)
(* The commands.                                                           *)
(***************************************************************************)
(* (A table that does not look for the signature first.)                   *)
InsertTransfer(t) ==
  /\ booked' = [booked EXCEPT ![t] = @ + 1]
  /\ net' = net + Signed(t) /\ gap' = gap - Signed(t)

(* record_transfer: a row with this signature already there is left alone. *)
RecordTransfer(t) ==
  IF booked[t] > 0 THEN UNCHANGED <<booked, net, gap>>
  ELSE /\ booked' = [booked EXCEPT ![t] = 1]
       /\ net' = net + Signed(t) /\ gap' = gap - Signed(t)

(* `tiller deposit' and `tiller withdraw', which take no lock: the owner   *)
(* records a transfer seen on chain, perhaps again.                        *)
Record(t) ==
  /\ t \in Landed
  /\ RecordTransfer(t)
  /\ UNCHANGED <<market, fate, kind, usd, sweeping, agent>>

SweepStart ==
  /\ sweep = "idle" /\ lock = "none"
  /\ lock' = "sweep" /\ sweep' = "ready"
  /\ UNCHANGED <<market, money, swept, adrift, agent>>

(* Sign what exceeds --keep and send it.                                   *)
SweepSend(t, n) ==
  /\ sweep = "ready"
  /\ fate[t] = "none" /\ n < equity
  /\ fate' = [fate EXCEPT ![t] = "sent"]
  /\ kind' = [kind EXCEPT ![t] = "sweep"]
  /\ usd' = [usd EXCEPT ![t] = n]
  /\ swept' = t /\ sweep' = "poll"
  /\ UNCHANGED <<market, booked, net, gap, lock, adrift, agent>>

(* (A sweep that lets go of the lock before it records.)                   *)
SweepConfirmedReleasing ==
  /\ sweep = "poll" /\ fate[swept] = "landed"
  /\ sweep' = "record" /\ lock' = "none"
  /\ UNCHANGED <<market, money, swept, adrift, agent>>

(* _await_confirmation sees the transfer confirmed.                        *)
SweepConfirmed ==
  /\ sweep = "poll" /\ fate[swept] = "landed"
  /\ sweep' = "record"
  /\ UNCHANGED <<market, money, lock, swept, adrift, agent>>

SweepRecord ==
  /\ sweep = "record"
  /\ RecordTransfer(swept)
  /\ sweep' = "done"
  /\ UNCHANGED <<market, fate, kind, usd, lock, swept, adrift, agent>>

(* Failed on chain: nothing to record.                                     *)
SweepFailed ==
  /\ sweep = "poll" /\ fate[swept] = "failed"
  /\ sweep' = "done"
  /\ UNCHANGED <<market, money, lock, swept, adrift, agent>>

(* Not confirmed in time: not recorded, the owner is told to record it     *)
(* once it lands.                                                          *)
SweepUnconfirmed ==
  /\ sweep = "poll"
  /\ sweep' = "done"
  /\ adrift' = adrift \cup {swept}
  /\ UNCHANGED <<market, money, lock, swept, agent>>

(* `finally': the lock is released, also when nothing was there to sweep   *)
(* or the destination was refused.                                         *)
SweepRelease ==
  /\ sweep \in {"ready", "done"}
  /\ sweep' = "idle" /\ lock' = IF lock = "sweep" THEN "none" ELSE lock
  /\ swept' = NoTransfer
  /\ UNCHANGED <<market, money, adrift, agent>>

(* The command dies; its lock goes stale and is taken over.                *)
SweepCrash ==
  /\ sweep # "idle"
  /\ sweep' = "idle" /\ lock' = IF lock = "sweep" THEN "none" ELSE lock
  /\ swept' = NoTransfer
  /\ adrift' = IF swept = NoTransfer THEN adrift ELSE adrift \cup {swept}
  /\ UNCHANGED <<market, money, agent>>

-----------------------------------------------------------------------------
(***************************************************************************)
(* The agent.                                                              *)
(***************************************************************************)
Start ==
  /\ lock = "none"
  /\ lock' = "agent"
  /\ UNCHANGED <<market, money, sweep, swept, adrift, agent>>

Stop ==
  /\ lock = "agent"
  /\ lock' = "none"
  /\ UNCHANGED <<market, money, sweep, swept, adrift, agent>>

(* (Peaks over raw equity.)                                                *)
RawEquity(p) == p.equity

(* deposit_adjusted_peaks: a snapshot as it would read with today's        *)
(* deposits.                                                               *)
Adjusted(p) == p.equity - p.net + net

Recent(window) == {p \in curve : day - p.day <= window}

(* drawdown_from the peak reaches pct: it does for the highest snapshot    *)
(* iff it does for one of them, the present one included (it never does).  *)
Fell(pct, window) ==
  \E p \in Recent(window) :
    Adjusted(p) > 0 /\ 100 * (Adjusted(p) - equity) >= pct * Adjusted(p)

(* set_day_start_equity: only the first of a day sticks.                   *)
FirstOfDay == [dayRow EXCEPT ![day] = IF @ = {} THEN {Snapshot} ELSE @]

(* day_stats: the day's row; before the first tick of a day has stored it, *)
(* the present snapshot stands in for it.                                  *)
DayStart == FirstOfDay[day]

(* The daily-loss brake: P&L since the day's row, both sides net of the    *)
(* deposits recorded by then.                                              *)
LossSince(p) == (p.equity - p.net) - (equity - net)
DailyLoss == \E p \in DayStart : p.equity > 0 /\ 100 * LossSince(p) >= DailyLossPct * p.equity

(* brake_state's equity reasons.                                           *)
EquityReasons ==
  {r \in {"daily_loss", "dd7", "dd30"} :
     \/ r = "daily_loss" /\ DailyLoss
     \/ r = "dd7" /\ Fell(Dd7Pct, ShortWindow)
     \/ r = "dd30" /\ Fell(Dd30Pct, LongWindow)}

(* A tick with every mark: the snapshot is stored, and a drawdown from the *)
(* long peak flattens and halts.                                           *)
Tick ==
  /\ lock = "agent" /\ ticks < MaxTicks
  /\ ticks' = ticks + 1
  /\ curve' = curve \cup {Snapshot}
  /\ dayRow' = FirstOfDay
  /\ halted' = (halted \/ Fell(FlattenPct, LongWindow))
  /\ UNCHANGED <<market, money, sweeping>>

(* (A tick that believes whatever it could value.)                         *)
TickBelievingAnything ==
  /\ lock = "agent" /\ ticks < MaxTicks
  /\ ticks' = ticks + 1
  /\ halted' = (halted \/ curve # {})
  /\ UNCHANGED <<market, money, sweeping, curve, dayRow>>

(* A tick that could not value SOL or a booked position: nothing stored,   *)
(* and the drawdown flatten is suppressed.                                 *)
TickWithoutMarks ==
  /\ lock = "agent" /\ ticks < MaxTicks
  /\ ticks' = ticks + 1
  /\ UNCHANGED <<market, money, sweeping, curve, dayRow, halted>>

TreasuryNext ==
  \/ \E d \in Moves : Market(d) \/ Market(0 - d)
  \/ NextDay
  \/ \E t \in Transfers : Record(t) \/ LandSweep(t) \/ FailSweep(t)
  \/ \E t \in Transfers, k \in {"deposit", "withdrawal"}, n \in Amounts : Move(t, k, n)
  \/ \E t \in Transfers, n \in Amounts : SweepSend(t, n)
  \/ SweepStart \/ SweepConfirmed \/ SweepRecord \/ SweepFailed
  \/ SweepUnconfirmed \/ SweepRelease \/ SweepCrash
  \/ Start \/ Stop \/ Tick \/ TickWithoutMarks

TreasurySpec == TreasuryInit /\ [][TreasuryNext]_treasuryVars

-----------------------------------------------------------------------------
(***************************************************************************)
(* Properties.                                                             *)
(***************************************************************************)
Snapshots == [day : 0 .. MaxDay, equity : Int, net : Int,
              pnl : Int, gap : Int, loose : SUBSET Transfers]

(* The variables keep to their domains.                                    *)
TreasuryTypeOK ==
  /\ day \in 0 .. MaxDay /\ equity \in Int /\ pnl \in Int /\ moves \in 0 .. MaxMoves
  /\ fate \in [Transfers -> {"none", "sent", "landed", "failed"}]
  /\ kind \in [Transfers -> Kinds]
  /\ usd \in [Transfers -> Nat]
  /\ booked \in [Transfers -> Nat] /\ net \in Int /\ gap \in Int
  /\ lock \in {"none", "agent", "sweep"}
  /\ sweep \in {"idle", "ready", "poll", "record", "done"}
  /\ swept \in Transfers \cup {NoTransfer}
  /\ adrift \subseteq Transfers
  /\ \A p \in curve : p \in Snapshots
  /\ dayRow \in [0 .. MaxDay -> SUBSET curve]
  /\ \A d \in 0 .. MaxDay : \A p, q \in dayRow[d] : p = q
  /\ ticks \in 0 .. MaxTicks /\ halted \in BOOLEAN

(* A transfer is counted in the net deposits once however often it is      *)
(* recorded (by the sweep, by the owner, by both), and only if it landed.  *)
BookedOnceIfLanded == \A t \in Transfers : booked[t] <= 1 /\ (booked[t] > 0 => t \in Landed)

(* What the prices did, and nothing else, decides the brakes when what     *)
(* landed was recorded before the tick that would see it: the peaks and    *)
(* the day's start shift with each deposit and withdrawal as the equity.   *)
TrueFall(pct, window) ==
  \E p \in Recent(window) :
    p.pnl + net > 0 /\ 100 * (p.pnl - pnl) >= pct * (p.pnl + net)
TrueLoss ==
  \E p \in DayStart : p.equity > 0 /\ 100 * (p.pnl - pnl) >= DailyLossPct * p.equity
RecordedInTime(S) == gap = 0 /\ \A p \in S : p.gap = 0
BrakesReadPnl ==
  /\ RecordedInTime(Recent(ShortWindow)) => Fell(Dd7Pct, ShortWindow) = TrueFall(Dd7Pct, ShortWindow)
  /\ RecordedInTime(Recent(LongWindow)) => Fell(Dd30Pct, LongWindow) = TrueFall(Dd30Pct, LongWindow)
  /\ RecordedInTime(DayStart) => DailyLoss = TrueLoss

(* A confirmed sweep is never seen by a tick before it is recorded: it     *)
(* holds the lock until then.  What a tick may see loose is a transfer     *)
(* made by hand, and a sweep that timed out or died.                       *)
NoTickBeforeSweepRecorded ==
  \A p \in curve : \A t \in p.loose : kind[t] # "sweep" \/ t \in adrift

(* The drawdown flatten, which halts the agent, follows a loss: it never   *)
(* fires on marks that are missing, nor on transfers recorded in time.     *)
HaltFollowsLoss ==
  [][~halted /\ halted' /\ RecordedInTime(Recent(LongWindow)) =>
       TrueFall(FlattenPct, LongWindow)]_treasuryVars
=============================================================================
