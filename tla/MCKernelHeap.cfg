SPECIFICATION Spec
CONSTANTS
    Procs = {p1, p2}
    Page = 8
    Start = 8
    Sizes = {0, 4, 7}
    MaxLive = 3
    Wrap = 1024
    Pool0 = {2, 3}
    Frame0 = 0
SYMMETRY ProcSymmetry
CONSTRAINT NoDefect
INVARIANTS
    ConsistentUntilDefect
    BlocksApart
    NothingLeaks
    FramesPrivate
    CopyInside
CHECK_DEADLOCK FALSE
