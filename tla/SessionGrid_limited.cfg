\* Flushes of one operation, resizes, a reserve for the bytes of a frame.
CONSTANTS
    a = a
    b = b
    Blank = Blank
    N = 1
    Heights = {2, 3}
    SCROLLBACK = 1
    Char = {a}
    OP_QUEUE_SIZE = 6
    Reserve = 5
    MaxOpsPerFlush = 1
    CharsPerFrame = 2
    Counts = {1, 2}
    Repeats = {1}
    Wheel = {1}
    Repertoire = {"print", "ind", "cr", "decstbm", "dl", "ed", "rep", "resize"}
    FullScroll = FALSE
    OverDelete = TRUE
SPECIFICATION FairSpec
 
PROPERTY ReadsAgain
