SPECIFICATION Spec
CONSTANTS
  Players = {p1}
  Sessions = {x, y, z}
  kills = kills
  wins = wins
  Keys = {kills, wins}
  Templates <- MCTemplates
  MaxProgress = 2
SYMMETRY Symmetry
CHECK_DEADLOCK FALSE
INVARIANTS BanHolds ProgressSaved
PROPERTY KeysKept
