SPECIFICATION Spec
CONSTANTS
    Sessions = {s1, s2, s3}
    Handles = {h1, h2}
    MaxMonitors = 2
    None = None
SYMMETRY Symmetry
INVARIANTS
    SlotIsOwn
    SlotsAreGivenBack
    CommitReachesAll
CHECK_DEADLOCK FALSE
