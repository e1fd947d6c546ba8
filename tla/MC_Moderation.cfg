SPECIFICATION Spec
CONSTANTS
  host = host
  ann = ann
  Users = {host, ann}
  Host = host
  GlobalModerators = {}
  Edits = {e1, e2}
  Bans = {b1, b2}
  Kicks = {k1}
  Unbans = {n1}
  NoPunishment = NoPunishment
CHECK_DEADLOCK FALSE
SYMMETRY Symmetry
INVARIANTS OneActiveBan UnbanLifts EditsKept
