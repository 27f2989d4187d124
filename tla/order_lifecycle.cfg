CONSTANTS
  MaxOrders = 2
  Mints = {sol, hold}
  Clis = {cli}
  Agent = agent
  NoRequest = NoRequest
  MaxPosition = 2
  DailyLimit = 2
  MaxResubmits = 0
  MaxCrashes = 1
SPECIFICATION Spec
SYMMETRY MintSymmetry
 
 
PROPERTY NeverRequoted
PROPERTY SettlesOnce
