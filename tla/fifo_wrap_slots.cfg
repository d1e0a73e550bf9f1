SPECIFICATION Spec
CONSTANTS
    Producers = {p1}
    Consumers = {c1}
    Capacity = 3
    Word = 4
    MaxPush = 6
    NoDatum = NoDatum
PROPERTIES NoOverwrite
