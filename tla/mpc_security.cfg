\* The security layer in contouring mode: debounce, warm start, soft hold.
SPECIFICATION HSpec
CONSTANTS
    None = None
    AdaptiveEnabled = FALSE
    Window = 1
    MinSamples = 1
    VxFloor = 1
    CfgVxMax = 1
    Contouring = TRUE
    MaxConsecFailures = 2
    MaxPos = 1
    Headings = {0}
    GoalRadius = 0
    GoalTolerance = 0
    AlignStart = 1
    RequireHeading = FALSE
    OdomTimeout = 1
    PathTimeout = 1
    LidarMaxAge = 0
    SolvePeriod = 1
    SecurityEnable = TRUE
    EngageCycles = 2
    ClearCycles = 2
    SoftHoldCycles = 1
INVARIANTS
    SecurityStateImpliesMode
    SoftHoldIsBounded
    WarmStartIsBounded
PROPERTIES
    EngagesOnlyAfterEnoughSightings
    ReleasesOnlyAfterEnoughClears
