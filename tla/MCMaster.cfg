SPECIFICATION FairSpec
CONSTANTS
    NNodes = 2
    Workers = {w1, w2}
    Setups <- MCSetups
INVARIANT LoadsAccounted 
PROPERTY BootsUp LateNodesLoaded
CHECK_DEADLOCK FALSE
