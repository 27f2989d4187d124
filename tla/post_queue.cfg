CONSTANTS
  Trades = {t1}
  Notes = {n1}
  NoPost = NoPost
  MaxRateLimit = 4
  MaxUncertain = 2
  MaxCrashes = 2
SPECIFICATION PostFairSpec
INVARIANT CopiesBounded
INVARIANT PostedIsShown
PROPERTY EveryPostSettles
CHECK_DEADLOCK FALSE
