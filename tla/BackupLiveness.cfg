\* The loop and one forced backup, under fairness and without failing commands.
CONSTANTS
    loop = loop
    once1 = once1
    once2 = once2
    noproc = noproc
    Loop <- loop
    Onces <- OneOnce
    NoProc <- noproc
    RetainSetting = 0
    Policy = "tiered"
    MaxRuns = 2
    MaxData = 2
    MaxClock = 0
    MaxFaults = 0
    MaxKills = 1
    MaxSignals = 2
    MaxCrashes = 1
    MaxTrouble = 2
SPECIFICATION FairSpec
PROPERTIES
    RunsEnd
    ShutdownEnds
    ImplementsDurableBackup
CHECK_DEADLOCK FALSE
