SPECIFICATION FairSpec
INVARIANT MovesAlternate
PROPERTIES NoMoveAfterVerdict ServerEnds
CHECK_DEADLOCK FALSE
