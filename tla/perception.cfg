\* Two columns, a tile apart; decay 4/5 puts the third hit over the threshold.
SPECIFICATION FairSpec
CONSTANTS
    Watched = 3
    Stops = {0, 9}
    None = None
    Columns = {0, 3}
    Heights = {0, 2}
    FloorHeight = 0
    ObstacleHeight = 2
    TileWidth = 3
    MinPts = 1
    MinTotal = 2
    GroundBand = 1
    MaxHeight = 4
    Foot = 0
    HalfWidth = 3
    MinRange = 0
    ZBelow = 0
    ZAbove = 2
    Persistence = 0
    FirstBeats = 0
    BeatPeriod = 2
    GlobalHalfWidth = 7
    Scale = 2
    DecayNum = 4
    DecayDen = 5
    HitThreshold = 4
    HitCap = 5
    RobotRadius = 1
    FreeRadius = 1
    Goals = {3}
    MaxRange = 6
    GoalRadius = 0
    GridHalfWidth = 4
    GridRadius = 1
INVARIANTS
    TypeOK
    BlocksAfterEnoughCounts
PROPERTIES
    ShownObstaclesArePublished
    OnlyObstaclesArePublished
    StandingObstacleBlocks
    RemovedObstacleFades
