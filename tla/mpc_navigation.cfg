SPECIFICATION FairSpec
CONSTANTS
    None = None
    AdaptiveEnabled = FALSE
    Window = 1
    MinSamples = 1
    VxFloor = 1
    CfgVxMax = 1
    Contouring = FALSE
    MaxConsecFailures = 2
    MaxPos = 1
    Headings = {0, 1}
    GoalRadius = 0
    GoalTolerance = 0
    AlignStart = 2
    RequireHeading = TRUE
    OdomTimeout = 1
    PathTimeout = 1
    LidarMaxAge = 0
    SolvePeriod = 1
    SecurityEnable = TRUE
    EngageCycles = 1
    ClearCycles = 1
    SoftHoldCycles = 1
INVARIANTS
    TypeOK
    ArrivalIsCold
    CommandIsFresh
PROPERTIES
    ImplementsFollower
    HoldEndsOnlyByGoalOrPoseLoss
    PoseLossStopsRobot
    ArrivalIsNoticed
