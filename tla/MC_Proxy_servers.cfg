SPECIFICATION FairSpec
CONSTANTS
  c1 = c1
  c2 = c2
  c3 = c3
  s1 = s1
  s2 = s2
  s3 = s3
  u1 = u1
  u2 = u2
  g1 = g1
  g2 = g2
  None = None
  Clients = {c1}
  Servers = {s1, s2}
  UserIds = {u1}
  ServerIds = {g1}
  UserIdOf <- MCUserIdOf
  ServerIdOf <- MCServerIdOf
  MaxPackets <- MCThreePackets
CHECK_DEADLOCK FALSE
INVARIANTS SoleServerRegistered InOrder
PROPERTIES OrphanCloses ImplementsRelay
