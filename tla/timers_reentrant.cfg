SPECIFICATION Spec
CONSTANTS
    short = short
    middle = middle
    long = long
    Timer = {short, long}
    Period <- PeriodsOf
    AutoReload = {short, long}
    Word = 6
    MaxStart = 3
    MaxTime = 13
    MaxLag = 4
INVARIANTS InsertsFree ListsSorted
CHECK_DEADLOCK FALSE
