CONSTANTS
  trend = trend
  regime = regime
  sol = sol
  tok = tok
  Sleeves = {trend, regime}
  Budget <- MCBudget
  Weights <- MCWeights
  Whole = 10
  Caps = {3, 5}
  Band = 2
  MinOrder = 2
  Reserve = 1
  MaxPositions = 1
  MaxSwaps = 3
  DailyLimit = 8
  MaxPosition = 9
  Share = 2
  Tokens = {tok}
  Hold = sol
  None = None
  Usd0 = 20
  Lots0 = 1
  Prices = {1, 2}
  Price0 = 1
  MaxBars = 2
  MaxMoves = 2
SPECIFICATION Spec
PROPERTY BuysStayInBounds
PROPERTY ExitsDespiteBrakes
PROPERTY Settles
