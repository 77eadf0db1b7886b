SPECIFICATION TimerSpec
CONSTANTS
    FirstVec = 32
    LastVec = 36
    Callbacks = {f, g}
    MaxCount = 3
    Ticks = {0, 1, 5, 11, 40, 80, 500}
    None = none
INVARIANTS
    OwnCallback
    RightDuration
PROPERTIES
    CalibrationEnds
CHECK_DEADLOCK FALSE
