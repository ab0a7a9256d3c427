SPECIFICATION FairSpec
CONSTANTS
    MaxFrameFails = 2
    MaxMapFails = 2
INVARIANTS
    JoinNeverStuck
    InputUsesLiveMonitor
    TornStreamIsCut
PROPERTIES
    LifeSpec
    StoppedLoopEnds
    DeadPeerEnds
    ControlCallReturns
CHECK_DEADLOCK FALSE
