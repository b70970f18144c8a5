\* A periodic timer, a single shot and a socket; callbacks make up to two calls.
\* The array of events holds all three: ExpiredIsCalled is about loops that have
\* no more than MAX_EVENTS (16) ready objects at a time.
CONSTANTS
    Timers = {tick, once}
    Sockets = {sock}
    Periodic = {tick}
    MAX_EVENTS = 3
    MaxCalls = 2
SPECIFICATION FairSpec
INVARIANT ObjectsAccounted
PROPERTY ExpiredIsCalled
CHECK_DEADLOCK FALSE
