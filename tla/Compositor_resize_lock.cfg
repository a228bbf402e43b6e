\* A mutex its owner cannot take twice (mtx_plain).
CONSTANTS
    left = left
    right = right
    Panes = {left}
    Widths = {2, 3}
    PaneSize <- WholeWindow
    Contents = {c1, c2}
    Blank = Blank
    LockReentrant = FALSE
    SyncOutput = FALSE
    MaxResizes = 1
SPECIFICATION FairSpec
\* the system may stop: that is what the run is about
CHECK_DEADLOCK FALSE
PROPERTY ResizeReturns
