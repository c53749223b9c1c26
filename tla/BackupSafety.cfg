\* The loop and one forced backup, with every kind of failure.
CONSTANTS
    loop = loop
    once1 = once1
    once2 = once2
    noproc = noproc
    Loop <- loop
    Onces <- OneOnce
    NoProc <- noproc
    RetainSetting = 0
    Policy = "tiered"
    MaxRuns = 3
    MaxData = 1
    MaxClock = 1
    MaxFaults = 1
    MaxKills = 1
    MaxSignals = 2
    MaxCrashes = 1
    MaxTrouble = 3
SPECIFICATION Spec
INVARIANTS
    TypeOK
    Serialised
    PublishedDumpsAreWhole
    BootNeverRefuses
    SuccessIsDurable
    FinalDumpIsFresh
CHECK_DEADLOCK FALSE
