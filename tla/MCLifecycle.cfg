SPECIFICATION FairSpec
CONSTANTS
    MaxObjects = 2
    MaxEvents = 2
CONSTRAINT NotLost
INVARIANTS
    RunningListens
    ClashNeedsDeadLoop
    PointerFaultNeedsRace
    FreedIsHandledOnce
CHECK_DEADLOCK FALSE
PROPERTIES
    ShutdownEnds
