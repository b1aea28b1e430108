\* Tracking mode on two positions, one heading: the goal and a step beside it.
SPECIFICATION FairSpec
CONSTANTS
    None = None
    AdaptiveEnabled = FALSE
    Window = 1
    MinSamples = 1
    VxFloor = 1
    CfgVxMax = 1
    Contouring = FALSE
    MaxConsecFailures = 1
    MaxPos = 1
    Headings = {0}
    GoalRadius = 0
    GoalTolerance = 0
    AlignStart = 2
    RequireHeading = FALSE
    OdomTimeout = 1
    PathTimeout = 1
    LidarMaxAge = 0
    SolvePeriod = 1
    SecurityEnable = FALSE
    EngageCycles = 1
    ClearCycles = 1
    SoftHoldCycles = 0
PROPERTIES
    HoldLastsUntilNewGoal
