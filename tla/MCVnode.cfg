\* Node 1 has a client that sends anything; there is no node 2.
CONSTANTS
    Mux = {1, 2, 3, 4}
    Byte = {0, 1}
    OutOfMemory = TRUE
    Objects <- MCObjects
    Period = 1
    Store = {}
    NNodes = 2
    Ids <- OneId
    Configs <- TwoConfigs
    Served = 1
    Incoming <- MCIncoming
    MaxBuffer = 8
SPECIFICATION Spec
INVARIANT HeartbeatTimer TransfersAccepted
PROPERTY OneAnswer
CHECK_DEADLOCK FALSE
