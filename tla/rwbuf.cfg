SPECIFICATION FairSpec
CONSTANTS
    Writers = {w1, w2}
    Readers = {r1, r2}
    Capacity = 2
    Word = 8
    Sizes = {1, 2}
    MaxBytes = 3
    NoByte = NoByte
INVARIANTS Inv CursorOrder ExclusiveBytes ReadsBack
PROPERTIES RefusedGenuinely HandsOver
