\* Two sessions, one of them active.
CONSTANTS
    a = a
    b = b
    Blank = Blank
    N = 2
    Heights = {2}
    SCROLLBACK = 1
    Char = {a}
    OP_QUEUE_SIZE = 5
    Reserve = 1
    MaxOpsPerFlush = 0
    CharsPerFrame = 2
    Counts = {1}
    Repeats = {}
    Wheel = {}
    Repertoire = {"print", "lf", "ri"}
    FullScroll = TRUE
    OverDelete = FALSE
SPECIFICATION Spec
PROPERTY Isolated
