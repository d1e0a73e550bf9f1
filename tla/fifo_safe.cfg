SPECIFICATION Spec
CONSTANTS
    Producers = {p1, p2}
    Consumers = {c1, c2}
    Capacity = 2
    Word = 8
    MaxPush = 4
    NoDatum = NoDatum
SYMMETRY Symmetry
INVARIANTS Inv Filled CursorOrder ExclusiveSlots
PROPERTIES NoOverwrite EmptyIsGenuine FullIsGenuine IsFifo
