CONSTANTS
  NPROC = 3
  NCPU = 2
  Width = 8
  Boot = 6
  Sleeps <- SleepArgs
  Calls = {"sleep", "open"}
  MaxTicks = 3
  MaxCount = 1
  None = None
SPECIFICATION Spec
INVARIANTS WaitTime NoOversleep CountsOfChild
CONSTRAINT Bound
