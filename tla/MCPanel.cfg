CONSTANTS
    Ids = {i1, i2}
    MaxRun = 2
    MaxClients = 2
    MaxReq = 2
    MaxQueue = 1
    NoClient = NoClient
SPECIFICATION FairSpec
CONSTRAINT NamedInOrder
INVARIANTS
    ListFollowsServer
    RowsAreKnown
PROPERTIES
    DisconnectHitsItsDevice
    
