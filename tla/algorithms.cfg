SPECIFICATION Spec
CONSTANTS
  Histories <- MCHistories
  Daily <- MCDaily
  TradeInputs <- MCTradeInputs
  Replays <- MCReplays
  Buys <- MCBuys
  Calls <- MCCalls
  Arrivals <- MCArrivals
  Reads <- MCReads
  Rate <- MCRate
  Feeds <- MCFeeds
  Store <- MCStore
  Pasts <- MCPasts
  Lasts <- MCLasts
  Pools <- MCPools
  Swaps <- MCSwaps
  Guard <- MCGuard
  Overlap = 80
  PoolSize = 2
  Fee = 1
INVARIANT LiveIsMeasured
INVARIANT TripsAreFifo
INVARIANT ReplayHasNoHindsight
INVARIANT ClustersAreComponents
 
INVARIANT StoreKeepsHistory
INVARIANT TradesSeeNoFuture
INVARIANT GuardedFillsFit
INVARIANT PoolPrefersBetter
