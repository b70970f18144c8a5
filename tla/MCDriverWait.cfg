CONSTANTS
    r1 = r1
    r2 = r2
    r3 = r3
    w1 = w1
    NoReq = NoReq
    NNodes = 1
    Workers <- OneWorker
    Reqs <- ThreeReqs
    Limit = 2
    OutOfMemory = TRUE
    DriverReqs <- TwoReqs
    MaxLoads = 2
SPECIFICATION MCSpec
PROPERTY WaitMeansFinished
CHECK_DEADLOCK FALSE
