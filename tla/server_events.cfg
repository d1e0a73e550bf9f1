SPECIFICATION FairSpec
CONSTANTS
    Capacity = 2
    Cells = 2
    Beyond = {b}
    ThreadLimit = 3
    Word16 = 4
    MaxLine = 4
    MaxSends = 3
    MaxDups = 1
    NoEvent = NoEvent
INVARIANTS InOrder NoneForgotten ReadyWhenPushed
PROPERTIES Dispatched DeInitReturns
CHECK_DEADLOCK FALSE
