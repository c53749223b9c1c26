CONSTANTS
    t1 = t1
    t2 = t2
    Tx <- TwoTx
    Modes <- OnlyFallback
    RuntimeRoots <- OnlyOutside
    MaxRestarts = 0
    MaxCrashes = 0
    MaxFailures = 0
    MaxStarts = 0
    MaxHidden = 1
SPECIFICATION Spec
INVARIANT OldPostmasterStopped
CHECK_DEADLOCK FALSE
