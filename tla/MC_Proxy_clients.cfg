SPECIFICATION FairSpec
CONSTANTS
  c1 = c1
  c2 = c2
  c3 = c3
  s1 = s1
  s2 = s2
  s3 = s3
  u1 = u1
  u2 = u2
  g1 = g1
  g2 = g2
  None = None
  Clients = {c1, c2, c3}
  Servers = {s1, s3}
  UserIds = {u1, u2}
  ServerIds = {g1, g2}
  UserIdOf <- MCUserIdOf
  ServerIdOf <- MCServerIdOf
  MaxPackets <- MCOnePacket
CHECK_DEADLOCK FALSE
INVARIANTS NoGhosts SoleClientRegistered NoCrossTalk
PROPERTY EvictedCloses
