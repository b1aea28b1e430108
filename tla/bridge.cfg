SPECIFICATION FairSpec
CONSTANTS
    None = None
    Requests = {1, 3}
    VMax = 2
    CmdTimeout = 2
    ConnectTimeout = 2
    QueueDepth = 2
INVARIANTS
    ConnectedIsGuarded
PROPERTIES
    ImplementsGate
    PlannerDeathStopsGait
    StopReachesGait
