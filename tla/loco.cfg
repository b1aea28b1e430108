\* Speeds of 2, and of 6 clipped to 5, in both directions; a ramp of three ticks.
SPECIFICATION FairSpec
CONSTANTS
    Requests = {2, 6}
    MaxVel = 5
    Ramp = 3
    Slew = 1
    AlphaNum = 1
    AlphaDen = 2
    CmdTimeout = 2
    Hold = 2
    RpcTimeout = 3
    Attempts = 3
    AutoBringUp = TRUE
    DampOnShutdown = TRUE
INVARIANTS
    TypeOK
    VelocityIsRecent
    NoJumpAfterStop
PROPERTIES
    WalksOnlyFromStanding
    StopStopsRobot
