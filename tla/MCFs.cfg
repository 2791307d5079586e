SPECIFICATION Spec
CONSTANTS
  p1 = p1
  p2 = p2
  Procs = {p1, p2}
  NINODES = 3
  NBLOCKS = 3
  NDIRECT = 1
  NINDIRECT = 1
  DirSlots = 4
  Names = {"a", "b"}
  Elems = {"a", "b"}
  Program = "a"
  NOFILE = 1
  Modes = {"rw"}
  Calls <- MCCalls
  MaxCalls = 5
INVARIANTS RefsExact LinksCounted BlocksOwned NoPanic
