\* One thread appends to a ring of 4 frames (3 are asked for) while two workers
\* dump it: 9 frames, so that the ring is full when its index wraps.  Three nodes
\* are probed that boot and answer before and after the time given.  Two
\* connections and a CAN interface are bridged, with buffers that a second frame
\* has to wait for; one end leaves.
CONSTANTS
    Appenders = {main}
    Dumpers = {w1, w2}
    Size = 3
    MaxFrames = 9
    MaxDumps = 1
    ProbedNodes = {1, 2, 3}
    Ranges <- MCRanges
    ResetTicks = 2
    BootDelays = {0, 1, 3}
    ReplyDelays = {1, 3}
    MaxBeats = 1
    Peers = {p1, p2}
    Can = can
    SndBuf = 1
    BridgeFrames = 3
    MaxLeaves = 1
    StartOutcomes = {TRUE}
SPECIFICATION MCSpec
INVARIANT  AnswerersSeen BridgeForwards
PROPERTY ProbeEnds FramesMove
CHECK_DEADLOCK FALSE
