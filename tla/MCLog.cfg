SPECIFICATION FairSpec
CONSTANTS
  Blocks = {b1, b2, b3}
  Val = {0, 1}
  Ops = {o1, o2}
  MAXOPBLOCKS = 2
  LOGSIZE = 4
  OpBlocks = 1
INVARIANTS NoPanic DurableWhenIdle
PROPERTIES ImplementsTxn SleepersWoken
CONSTANT Absent = Absent
