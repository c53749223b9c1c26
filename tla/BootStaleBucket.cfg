CONSTANTS
    t1 = t1
    t2 = t2
    Tx <- TwoTx
    Modes <- OnlyFallback
    RuntimeRoots <- OnlyOutside
    MaxRestarts = 2
    MaxCrashes = 0
    MaxFailures = 0
    MaxStarts = 1
    MaxHidden = 0
SPECIFICATION Spec
INVARIANT OnlyUnsavedIsLost
CHECK_DEADLOCK FALSE
