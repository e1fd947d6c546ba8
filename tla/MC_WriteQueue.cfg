SPECIFICATION QueueFairSpec
CONSTANTS
  Players = {p1, p2}
  MaxQueue = 3
INVARIANTS PopNonEmpty
PROPERTIES QueueMoves ListReaches
