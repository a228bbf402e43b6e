CONSTANTS
    Parts = {"connection"}
    FD = {0, 1, 2}
    FD_SETSIZE = 2
    MAX_RETRIES = 2
    AUTH_MAX = 2
    Configurations = {{"signed"}, {"reconnect", "signed"}, {"secure", "login", "signed"}, {"login", "signed"}}
    Policies <- DisconnectsOnData
    LoginBytes = {"a", "bs", "eol"}
    MaxChunk = 1
    MaxCalls = 1
    MaxSends = 0
    RING = 2
    OUT_SIZE = 3
    FLOW_MAX = 1
    Flows = {"f"}
    Counts = {0}
    DeviceFails = FALSE
    MAX_STARTS = 2
    MAX_PACKETS = 0
    Block = {1, 2}
    Descriptor = {1, 2, 3}
    SELECT_SIZE = 3
    Streams = 2
    Count = 2
    Hops = 2
    Ports <- Scanned
    MinSize = 2
    MaxSize = 7
    Mtu = 5
    Setups <- JobSetups
    Durable = FALSE
SPECIFICATION Spec
INVARIANT ContextInUse
CHECK_DEADLOCK FALSE
