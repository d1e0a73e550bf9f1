SPECIFICATION FairSpec
CONSTANTS
    Producers = {p1, p2}
    Consumers = {c1, c2}
    Capacity = 2
    Word = 8
    MaxPush = 2
    NoDatum = NoDatum
PROPERTIES PushHandsOver PopHandsOver Drained
