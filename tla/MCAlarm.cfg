SPECIFICATION FairSpec
CONSTANTS
  NPROC = 2
  Progs = {p1, p2}
  Intervals = {0, 1, 2}
  TickCap = 2
  NPAGES = 4
  MaxDepth = 2
  None = None
  Rearm = FALSE
INVARIANT NoReentry
PROPERTIES ReturnsToInterrupted AlarmFires
