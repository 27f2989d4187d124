CONSTANTS
  MaxOrders = 2
  Mints = {sol, hold}
  Clis = {}
  Agent = agent
  NoRequest = NoRequest
  MaxPosition = 2
  DailyLimit = 2
  MaxResubmits = 1
  MaxCrashes = 1
SPECIFICATION FairSpec
 
PROPERTY EveryOrderSettles
