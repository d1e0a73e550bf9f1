SPECIFICATION FairSpec
CONSTANTS
    short = short
    middle = middle
    long = long
    Timer = {short, middle}
    Period <- PeriodsOf
    AutoReload = {short}
    Word = 32
    MaxStart = 3
    MaxTime = 13
    MaxLag = 5
PROPERTIES StaysActive Called
CHECK_DEADLOCK FALSE
