SPECIFICATION FairSpec
INVARIANTS
    FreshUnlessGivenUp
    NoLostRequest
PROPERTIES
    WokenBeforeFreed
    StopEnds
CHECK_DEADLOCK FALSE
