SPECIFICATION FairSpec
CONSTANTS
    None = None
    Requests = {1}
    VMax = 2
    CmdTimeout = 1
    ConnectTimeout = 1
    QueueDepth = 1
PROPERTIES
    CrashStopsRobot
