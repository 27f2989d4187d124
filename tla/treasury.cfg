CONSTANTS
  Transfers = {t1, t2}
  Amounts = {4}
  NoTransfer = NoTransfer
  Moves = {3}
  Capital = 10
  ShortWindow = 0
  LongWindow = 1
  DailyLossPct = 20
  Dd7Pct = 15
  Dd30Pct = 20
  FlattenPct = 25
  MaxDay = 2
  MaxTicks = 3
  MaxMoves = 2
SPECIFICATION TreasurySpec
SYMMETRY TransferSymmetry
 
INVARIANT BrakesReadPnl
INVARIANT NoTickBeforeSweepRecorded
PROPERTY HaltFollowsLoss
