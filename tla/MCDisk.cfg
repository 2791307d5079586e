CONSTANTS
  Procs = {p1, p2, p3}
  Blocks = {k1, k2, k3, k4}
  NBUF = 3
  NUM = 7
  Counters = 7
  First = 5
  MaxPins = 1
  MaxCalls = 5
  None = None
SPECIFICATION Spec
SYMMETRY Symm
INVARIANTS ReadsLatest DescriptorsOwned NoLostCompletion
