SPECIFICATION FairSpec
CONSTANTS
    MaxFrameFails = 2
    MaxMapFails = 2
PROPERTIES
    ForcedSessionEnds
CHECK_DEADLOCK FALSE
