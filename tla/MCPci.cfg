SPECIFICATION PciSpec
CONSTANTS
    RootTables <- MCRootTables
    Signature = "MCFG"
    Machines <- MCMachines
    DevCount = 2
    FunCount = 3
    RegValues = 64
    PortValues = 32
INVARIANTS
    DevicesTrue
    RegistersKept
    BarsTrue
CHECK_DEADLOCK FALSE
