CONSTANTS
    Widths = {64, 320, 641, 1080, 1920, 2400, 4096}
    Heights = {49, 241, 480, 1080, 1500, 2161}
    Rates = {0, 1, 30, 59, 60, 75, 144}
    MaxBlank = 400
    MaxProduct = 2147483647
SPECIFICATION ModesSpec
INVARIANTS
    OwnModeIsDescribed
    OwnModeAllowed
    CommittedIsDescribed
CHECK_DEADLOCK FALSE
