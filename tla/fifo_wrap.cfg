SPECIFICATION Spec
CONSTANTS
    Producers = {p1}
    Consumers = {c1}
    Capacity = 2
    Word = 4
    MaxPush = 9
    NoDatum = NoDatum
PROPERTIES IsFifo
