CONSTANTS
  NPROC = 3
  NCPU = 2
  MaxPid = 3
  KillPids = {2, 3}
  Failures = {"kalloc", "copyout"}
SPECIFICATION Spec
INVARIANTS
  TypeOK
  StackExclusive
  FreedOffCpu
  SchedLocks
  NoLostWakeup
  OrphansAdopted
PROPERTY
  ImplementsTree
