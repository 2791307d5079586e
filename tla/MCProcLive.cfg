CONSTANTS
  NPROC = 3
  NCPU = 1
  MaxPid = 3
  KillPids = {}
  Failures = {}
SPECIFICATION FairSpec
PROPERTIES
  RunnableRuns
  OrphansReaped
