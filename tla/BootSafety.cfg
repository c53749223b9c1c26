\* Both failure modes, changed between boots, and every kind of RUNTIME_ROOT.
CONSTANTS
    t1 = t1
    t2 = t2
    Tx <- TwoTx
    Modes <- AllModes
    RuntimeRoots <- AllRuntimeRoots
    MaxRestarts = 2
    MaxCrashes = 1
    MaxFailures = 1
    MaxStarts = 2
    MaxHidden = 1
SPECIFICATION FairSpec
INVARIANTS
    TypeOK
    OnePostmaster
    NothingLost
    FallbackServesDump
PROPERTIES
    PersistentUntouched
    ServesAgain
CHECK_DEADLOCK FALSE
