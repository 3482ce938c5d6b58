\* Two files that are written and one that is read share connections; one answer may be late.
CONSTANTS
  Servers <- TwoServers
  Blocks <- ThreeFiles
  Writes = {1, 3}
  StripeK = 1
  PoolSize = 4
  MaxTimeOuts = 1
  None = None
SPECIFICATION FairSpec
INVARIANTS FdOfItsBlock OneBlockPerWorker NothingLeftOpen
 
