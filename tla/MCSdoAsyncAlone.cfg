SPECIFICATION Spec
CONSTANTS
    Mux = {1, 2}
    Byte = {0, 1, 2, 3}
    OutOfMemory = TRUE
    Requests <- MCRequests
    IgnoreMux = FALSE
    NeedsFullFrame = FALSE
    Incoming <- MCIncoming
    MaxStarts = 2
    MaxSegments = 3
INVARIANT EndedCleanly SegmentsOfBuffer
PROPERTY DownloadOnWire
CHECK_DEADLOCK FALSE
