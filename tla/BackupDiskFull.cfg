\* One command of a run fails.
CONSTANTS
    loop = loop
    once1 = once1
    once2 = once2
    noproc = noproc
    Loop <- loop
    Onces <- OneOnce
    NoProc <- noproc
    RetainSetting = 0
    Policy = "tiered"
    MaxRuns = 1
    MaxData = 1
    MaxClock = 0
    MaxFaults = 1
    MaxKills = 0
    MaxSignals = 0
    MaxCrashes = 0
    MaxTrouble = 1
SPECIFICATION Spec
INVARIANT LatestIsVerified
CHECK_DEADLOCK FALSE
