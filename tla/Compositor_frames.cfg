\* Frames without synchronized output, and resizes that reach every pane.
CONSTANTS
    left = left
    right = right
    Panes = {left, right}
    Widths = {2, 3}
    PaneSize <- Stacked
    Contents = {c1, c2}
    Blank = Blank
    LockReentrant = TRUE
    SyncOutput = FALSE
    MaxResizes = 1
SPECIFICATION FairSpec
 
PROPERTIES FrameIsStable 
