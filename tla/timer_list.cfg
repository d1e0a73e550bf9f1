SPECIFICATION Spec
CONSTANTS
    Items = {i1, i2, i3}
    Lists = {l1, l2}
    MaxDelay = 3
    NULL = NULL
SYMMETRY Symmetry
INVARIANTS Linked Threaded ScanEnds
PROPERTIES IsSortedLists
