SPECIFICATION FairSpec
CONSTANTS
  g1 = g1
  g2 = g2
  i1 = i1
  i2 = i2
  i3 = i3
  i4 = i4
  c1 = c1
  c2 = c2
  Dummy = Dummy
  NoId = NoId
  NoConn = NoConn
  GameServers = {g1}
  Dedicated = {g1}
  Ids = {i1, i2}
  Conns = {c1}
  Limit = 2
  MaxFuncs = 2
CHECK_DEADLOCK FALSE
PROPERTY DelistedCloses
PROPERTY OrphanDelisted
