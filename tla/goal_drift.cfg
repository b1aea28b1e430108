\* Three positions on a line, goals one apart are duplicates if their heading is.
SPECIFICATION DSpec
CONSTANTS
    None = None
    AdaptiveEnabled = FALSE
    Window = 1
    MinSamples = 1
    VxFloor = 1
    CfgVxMax = 1
    Contouring = FALSE
    MaxConsecFailures = 2
    MaxPos = 2
    Headings = {0, 1}
    GoalRadius = 1
    GoalTolerance = 1
    AlignStart = 0
    RequireHeading = FALSE
    OdomTimeout = 1
    PathTimeout = 1
    LidarMaxAge = 0
    SolvePeriod = 1
    SecurityEnable = FALSE
    EngageCycles = 1
    ClearCycles = 1
    SoftHoldCycles = 0
PROPERTIES
    NewGoalResumesDriving
