SPECIFICATION LibcSpec
CONSTANTS
    LongMax = 2047
    Digits <- MCDigits
    Bytes = 4
    WordSize = 2
    Texts <- MCTexts
    Bases = {0, 1, 8, 10, 16, 36}
    Strings <- MCStrings
    Needles <- MCNeedles
    Cells = 9
    Arrays <- MCArrays
INVARIANTS
    StrtolRight
    StringsExact
    SortsBytes
CHECK_DEADLOCK FALSE
