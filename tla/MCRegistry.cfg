SPECIFICATION FairSpec
CONSTANTS
    Clients = {c1, c2}
    NoClient = NoClient
INVARIANTS
    ListMatchesEvents
    DestructionNeedsRace
PROPERTIES
    LifeSpecs
    DestructorEnds
CHECK_DEADLOCK FALSE
