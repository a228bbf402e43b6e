\* One producer thread, one consumer thread; clears only between pushes.
CONSTANTS
    Capacity = 4
    Producers = {pty}
    pty = pty
    Byte = {0, 1}
    MaxPush = 4
    MaxPop = 2
    MaxDropped = 2
    ClearAnyTime = FALSE
SPECIFICATION FairSpec
INVARIANTS Faithful NoDataRace NeverMistakenForEmpty IInv
PROPERTIES ImplementsFifo Progress
