CONSTANTS
  Runners = {run1, run2}
  OneShots = {flatten, sweep}
  Nobody = nobody
  Dead = dead
  StaleAfter = 3
  AtomicAccess = TRUE
  QuickTicks = TRUE
SPECIFICATION LockFairSpec
 
PROPERTY CrashRecovers
