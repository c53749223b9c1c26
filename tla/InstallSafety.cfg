CONSTANTS
    r1 = r1
    r2 = r2
    b1 = b1
    b2 = b2
    i1 = i1
    i2 = i2
    i3 = i3
    i4 = i4
    Nothing = Nothing
    Refs <- TwoRefs
    Builds <- TwoBuilds
    Ids <- ThreeIds
    ImageRoots <- AllImageRoots
    MaxPublishes = 2
    MaxRestarts = 2
    MaxCrashes = 1
    MaxFailures = 2
SPECIFICATION Spec
SYMMETRY Renamings
INVARIANTS
    TypeOK
    RootIsWhole
    ServesSelected
    LeftoversHaveCause
PROPERTIES
    RuntimeStays
