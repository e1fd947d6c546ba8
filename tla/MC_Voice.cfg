SPECIFICATION Spec
CONSTANTS
  Servers = {s1, s2}
  None = None
  MaxBusy = 2
SYMMETRY Symmetry
INVARIANTS NoLeak DisabledIsSilent RightServer MicClosed
