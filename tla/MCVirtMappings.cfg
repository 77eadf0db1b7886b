SPECIFICATION VirtSpec
CONSTANTS
    LastPage = 5
    Unit = 2
    Requests <- MCRequests
    None = none
INVARIANTS
    MappingsIntact
    SpaceAccounted
PROPERTIES
    FreeReturns
CHECK_DEADLOCK FALSE
