SPECIFICATION Spec
CONSTANTS
  Reporters = {ann}
  Players = {p1, p2, p3}
  Creates = {c1, c2, c3}
  Approves = {a1, a2}
  Rejects = {r1}
  Updates = {u1}
  Noting = {u1}
  MaxOpen = 2
  MaxPerTarget = 1
  None = None
CHECK_DEADLOCK FALSE
SYMMETRY Symmetry
INVARIANTS NoSilentClose OneBanPerReport VerdictsAgree OpenLimit
