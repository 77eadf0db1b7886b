SPECIFICATION Spec
CONSTANTS
    Procs = {p1}
    Chars = {a, b, c}
    CacheSize = 2
    CurValues = 16
    IntHalf = 8
    Cols = 2
    Rows = 2
    MaxLen = 2
    MaxRow = 2
    Nobody = nobody
    Blank = blank
INVARIANTS
    DrawsOnScreen
    ShowsItself
    KeepsRecent
PROPERTIES
    PrintFinishes
CHECK_DEADLOCK FALSE
