SPECIFICATION Spec
CONSTANTS
    Cpus = {b, a1, a2}
    Boot = b
    v1 = v1
    v2 = v2
    Pages = {v1}
    Frames = {f1, f2}
    LargeRegion <- OneRegion
    InitStages <- AnyStart
    MayHalt = {a2}
    None = none
CONSTRAINT NotRaced
INVARIANTS
    Coherent
    StaleExplained
    CountTrue
PROPERTIES
    ChangeFinishes
CHECK_DEADLOCK FALSE
