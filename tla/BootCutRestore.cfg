CONSTANTS
    t1 = t1
    t2 = t2
    Tx <- TwoTx
    Modes <- OnlyExit
    RuntimeRoots <- OnlyOutside
    MaxRestarts = 0
    MaxCrashes = 0
    MaxFailures = 1
    MaxStarts = 0
    MaxHidden = 0
SPECIFICATION Spec
INVARIANT OnlyUnsavedIsLost
CHECK_DEADLOCK FALSE
