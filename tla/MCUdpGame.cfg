SPECIFICATION Spec
INVARIANTS FairPlay
CHECK_DEADLOCK FALSE
