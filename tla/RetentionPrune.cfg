\* Both policies over every history of up to six dumps.
CONSTANTS
    RetainSetting = 5
    Gaps <- TieredGaps
    MaxDumps = 6
SPECIFICATION Spec
INVARIANTS
    TiersCovered
PROPERTIES
    LoopLeavesKept
    NewestTwoSurvive
CHECK_DEADLOCK FALSE
