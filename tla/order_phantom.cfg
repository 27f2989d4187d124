CONSTANTS
  MaxOrders = 3
  Mints = {sol}
  Clis = {}
  Agent = agent
  NoRequest = NoRequest
  MaxPosition = 2
  DailyLimit = 3
  MaxResubmits = 0
  MaxCrashes = 0
SPECIFICATION Spec
INVARIANT NoPhantomPosition
