SPECIFICATION FairFramesSpec
CONSTANTS
    Modes = {m1, m2}
    MapLimit = 2
    QueueLimit = 3
PROPERTIES
    OffIsTold
    FramesArrive
CHECK_DEADLOCK FALSE
