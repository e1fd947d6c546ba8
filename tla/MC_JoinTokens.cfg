SPECIFICATION Spec
CONSTANTS
  alice = alice
  bob = bob
  s1 = s1
  Users = {alice, bob}
  Servers = {s1}
  Callers = {alice}
  HostOf <- MCHostOf
  ModeratorsOf <- MCModeratorsOf
  GlobalModerators = {}
  Admins = {}
  MaxPlayerCount <- MCMaxPlayerCount
  CreateReqs = {c1, c2}
  ConsumeReqs = {k1, k2}
  PlayerCounts = {1}
  TTL = 1
  MaxTime = 1
  Global = Global
  NoDoc = NoDoc
  NoToken = NoToken
  NoId = NoId
SYMMETRY MCSymmetry
CHECK_DEADLOCK FALSE
INVARIANTS SingleUse OneLiveToken BanRespected
PROPERTY ImplementsTickets
