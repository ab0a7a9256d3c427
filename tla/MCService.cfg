CONSTANT
    MaxStarts = 2
SPECIFICATION ServiceSpec
INVARIANTS
    ServersAreWatched
    LastWord
PROPERTIES
    EndsAreTold
