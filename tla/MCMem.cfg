SPECIFICATION Spec
CONSTANTS
  Procs = {p1, p2}
  InitProc = p1
  NPAGES = 18
  PGSIZE = 2
  Fanout = 2
  Word = 2
  Images <- MCImages
  MaxArgs = 1
  MaxSz = 6
  MaxCalls = 6
INVARIANTS PagesOwned SizeIsMapped CopiesInside
