SPECIFICATION FairSpec
CONSTANTS
    Kinds = {"DIAG_ACK", "DIAG_MSG"}
    Userdata = 5
    Lens = {2}
    Pieces = {4, 13}
    BufferSize = 30
    Totals <- AnyTotals
    Overread = Overread
    NoMsg = NoMsg
    Junk = {0}
    MaxFrames = 2
    MaxSends = 2
    MaxLosses = 1
INVARIANTS Delivered SentWell OneSocket
PROPERTIES Reconnects
CHECK_DEADLOCK FALSE
