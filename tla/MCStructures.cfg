\* A tree of objects that is built and taken down in any order, a directory of
\* sheets with near and equal revisions, and configurations with each section
\* present, absent or broken, for two nodes that are loaded again and again.
\* A heap in a word so small that the sequence numbers wrap around.
CONSTANTS
    NULL = NULL
    Absent = Absent
    IntWidth = 5
    CfgNodes = {1, 2}
    NodeNames = {"x", "y"}
    OptionPeriods = {2}
    Priorities = {0, 1}
    Modulus = 24
    InitialSize = 2
    MaxInserts = 27
    MaxSpread = 6
SPECIFICATION MCSpec
INVARIANT ObjectsAsWritten NearestRevision ConfiguredAsWritten HeapOrdered
PROPERTY StablePriorityQueue
CHECK_DEADLOCK FALSE
