CONSTANTS
    r1 = r1
    r2 = r2
    b1 = b1
    b2 = b2
    i1 = i1
    i2 = i2
    i3 = i3
    i4 = i4
    Nothing = Nothing
    Refs <- OneRef
    Builds <- TwoBuilds
    Ids <- FourIds
    ImageRoots <- AllImageRoots
    MaxPublishes = 2
    MaxRestarts = 0
    MaxCrashes = 1
    MaxFailures = 1
SPECIFICATION FairSpec
PROPERTIES
    SettledSlotServes
