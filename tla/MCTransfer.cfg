SPECIFICATION FairSpec
CONSTANTS
  MaxChunks = 3
  Buffer = 4
  Lose = {"chunk"}
INVARIANTS Reassembled AcknowledgedIsStored
PROPERTIES Finishes
CHECK_DEADLOCK FALSE
