SPECIFICATION Spec
CONSTANTS
    Procs = {p1, p2}
    LastFrame = 5
    Frames <- MCFrames
    InitTables <- MCInitTables
    SlotsPerPage = 1
    MaxSlots = 4
    MaxRun = 2
    Nobody = nobody
INVARIANTS
    TableTrue
    LostOnlyAtLimit
    SlotsBacked
PROPERTIES
    NoDoubleAllocation
CHECK_DEADLOCK FALSE
