SPECIFICATION Spec
CONSTANTS
    Aps = {a1, a2, a3}
    Boot = b
    Base = 4
    None = none
    MaxCalls = 2
INVARIANTS
    OwnAreas
    BarrierHolds
PROPERTIES
    AllStart
CHECK_DEADLOCK FALSE
