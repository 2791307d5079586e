SPECIFICATION Spec
CONSTANTS
  Procs = {p1, p2}
  Pages = {1}
  NFILE = 2
  NOFILE = 2
  PIPESIZE = 2
  Counters = 4
  Count = 3
  Byte = {0, 1}
  None = None
INVARIANTS FileRefs PipeEnds NoLostWakeup
PROPERTY IsChannel
SYMMETRY Symmetry
