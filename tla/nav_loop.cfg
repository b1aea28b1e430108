\* A memory of one obstacle cell out of two, two goals, every age limit one tick.
SPECIFICATION Spec
CONSTANTS
    None = None
    Other = Other
    Cells = {c1, c2}
    DecaySec = 1
    MaxCells = 1
    Goals = {g1, g2}
    Fusions = {{"dlio"}, {"slam"}}
    MapMaxAge = 0
    GridMaxAge = 1
    RouteMaxAge = 1
    PathTimeout = 1
    SolvePeriod = 1
SYMMETRY Symmetric
INVARIANTS
    DrivesForCurrentGoal
    DrivesOnFreshGrid
PROPERTIES
    PathsAvoidRecentHits
