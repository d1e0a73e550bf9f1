SPECIFICATION FairSpec
CONSTANTS
    short = short
    middle = middle
    long = long
    Timer = {short, long}
    Period <- PeriodsOf
    AutoReload = {}
    Word = 6
    MaxStart = 3
    MaxTime = 13
    MaxLag = 5
INVARIANTS NotEarly Epochs MustHaveExpired NoneOverdue
PROPERTIES Called
CHECK_DEADLOCK FALSE
