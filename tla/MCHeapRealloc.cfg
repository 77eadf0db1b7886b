SPECIFICATION Spec
CONSTANTS
    Procs = {p1}
    Page = 16
    Start = 16
    Sizes = {1, 3}
    MaxLive = 2
    Wrap = 1024
    Pool0 = {2}
    Frame0 = 0
INVARIANT AlwaysConsistent
