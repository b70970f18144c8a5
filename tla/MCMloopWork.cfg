CONSTANTS
    w1 = w1
    w2 = w2
    t1 = t1
    t2 = t2
    Nobody = Nobody
    Works <- TwoWorks
    Threads <- TwoThreads
    MaxStarts = 2
    OutOfMemory = TRUE
SPECIFICATION FairSpec
INVARIANT WorksAccounted
PROPERTY  ResultComesBack
