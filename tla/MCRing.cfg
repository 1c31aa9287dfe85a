SPECIFICATION Spec
CONSTANTS
    Value <- MCValue
    ratio = 5
    MaxElements = 6
CHECK_DEADLOCK FALSE
INVARIANTS
    TypeOK
    VirtualInRange
    PanicsOnlyWhenEmpty
    Balanced
