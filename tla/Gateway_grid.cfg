\* The debug grid is switched on.
CONSTANTS
    Parts = {"gate"}
    Calm = {}
    Switched = {"ON", "OFF"}
    Joined = FALSE
    Bytes = {"ESC", "[", "4", "i", "CSI", "x"}
    WINDOW = 7
    MaxBytes = 6
    SIZE = 4
    CHUNK = 2
    Frames = {1, 3}
    MaxSamples = 6
    MaxWire = 1
    Session = {1, 2}
    Sizes = {1, 2}
    MaxSteps = 4
    HostBytes = {65, 128, 143, 144, 159, 160, 191, 193, 194, 223, 224, 226, 237, 239, 240, 244, 245, 255}
    Ids = {1, 2}
    LIMIT = 3
    MaxBlocks = 2
    MaxSent = 2
    MaxFrames = 2
    Oom = TRUE
    Hosts = {1, 2}
    Foreground = 1
    Limited = {1}
    Asks <- HostAsks
    OUTPUT_SIZE = 4
    INPUT_SIZE = 5
    CHARS = 1
    BURST = 2
    MaxQueued <- HostQueues
SPECIFICATION Spec
INVARIANT CommandsEnd
CHECK_DEADLOCK FALSE
