SPECIFICATION MonitorSpec
CONSTANTS
    Mux = {1, 2, 3, 4, 5}
    Byte = {0, 1, 2, 3, 4, 5, 6, 7, 8, 9}
    OutOfMemory = FALSE
    Requests <- AllRequests
    IgnoreMux = TRUE
    NeedsFullFrame = FALSE
    Objects <- MCObjects
    Period = 1
    Store = {2}
    MaxStarts = 3
    MaxStops = 0
    MaxLosses = 1
    Prompt = TRUE
    Spaced = TRUE
    NodeId = 5
    OtherIds = {128, 133, 384, 1797, 2000}
    Filters <- MCFilters
    DeviceTypeMux = 2
PROPERTY ServiceSpec CleanTransferSucceeds DumpedAsTransferred EveryTransferEnds
CHECK_DEADLOCK FALSE
