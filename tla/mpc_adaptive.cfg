SPECIFICATION Spec
CONSTANTS
    None = None
    AdaptiveEnabled = TRUE
    Window = 5
    MinSamples = 3
    VxFloor = 20
    CfgVxMax = 50
    Contouring = FALSE
    MaxConsecFailures = 2
    MaxPos = 0
    Headings = {0}
    GoalRadius = 0
    GoalTolerance = 0
    AlignStart = 2
    RequireHeading = FALSE
    OdomTimeout = 1
    PathTimeout = 0
    LidarMaxAge = 0
    SolvePeriod = 1
    SecurityEnable = FALSE
    EngageCycles = 1
    ClearCycles = 1
    SoftHoldCycles = 0
INVARIANTS
    VxWithinLimits
PROPERTIES
    RecoversOnlyWhenClean
