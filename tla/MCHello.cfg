SPECIFICATION FairSpec
CONSTANTS
    NameLens <- MCNameLens
    InputLen = 15
INVARIANTS
    FieldsAligned
    SwallowedInputBounded
PROPERTIES
    ShortNameEnds
CHECK_DEADLOCK FALSE
