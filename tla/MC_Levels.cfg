SPECIFICATION FairSpec
CONSTANTS
  hoth = hoth
  endor = endor
  LevelSet = {hoth, endor}
  Rotation <- MCRotation
  RpcThreads = {rpc1}
  MaxEntries = 2
  MaxUpdates = 2
  MaxLoads = 2
  Server = server
  None = None
INVARIANTS OneLoad LatestWins ListingAgrees
PROPERTY RequestServed
CHECK_DEADLOCK FALSE
