SPECIFICATION Spec
CONSTANTS
    Mux = {1, 2, 3, 4, 5}
    Byte = {0, 1, 2, 3, 4, 5, 6, 7, 8, 9}
    OutOfMemory = FALSE
    Requests <- AllRequests
    IgnoreMux = FALSE
    NeedsFullFrame = TRUE
    Objects <- MCObjects
    Period = 1
    Store = {2}
    MaxStarts = 3
    MaxStops = 1
    MaxLosses = 1
    Prompt = FALSE
    Spaced = FALSE
INVARIANT NoMixture
PROPERTY OwnObject
CHECK_DEADLOCK FALSE
