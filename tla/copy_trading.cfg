CONSTANTS
  a = a
  b = b
  tok = tok
  s1 = s1
  s2 = s2
  s3 = s3
  Sigs = {s1, s2, s3}
  LeaderOf <- MCLeaderOf
  SideOf <- MCSideOf
  MintOf <- MCMintOf
  Clusterings <- MCClusterings
  SolQuoted = {}
  Wallets = {a}
  Handles = {a, b}
  None = None
  Limit = 2
  VerifyTimeout = 1
  Listable = {s1, s2}
  MaxNow = 1
  MaxRestarts = 1
  MinClusters = 2
  Window = 1
  Outcomes = {{a, b}}
  MaxAge = 0
SPECIFICATION Spec
 
INVARIANT CursorSkipsNothing
INVARIANT OneOpenConsensus
PROPERTY ClosedStayClosed
 
