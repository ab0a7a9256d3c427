SPECIFICATION Spec
CONSTANTS
    Sessions = {s1, s2, s3}
    Foreign = 1
    Limit = 2
    Threshold = 5
SYMMETRY Symmetry
INVARIANTS
    DisplayIsOwn
    ExceptionNeedsRefusal
CHECK_DEADLOCK FALSE
