SPECIFICATION FairSpec
CONSTANTS
    One = 8
    Blend = 4
    GainRamp = 4
    KpStart = 1
    KdStart = 4
    ClampDelta = 8
    Alpha = 4
    Wn = 4
    ReleaseS = None
    ReleaseRamp = 3
    Stabilize = 3
    CommandRamp = 2
    StateTimeout = 1
    Sources = {"websocket", "joystick"}
    Filters = {"none", "ewma", "critdamp"}
    Deadman = TRUE
    Requested = {0, 3}
    Sticks = {1, 2}
    DeadZone = 2
    MaxVel = 2
    Postures = {12}
    Actions = {0, 40}
    Lo = 0
    Hi = 32
    None = None
INVARIANTS
    TypeOK
    WalksOnlyWhenSettled
PROPERTIES
    NoHandOffSnaps
    EngagedClampHolds
    TroubleEndsDamped
CHECK_DEADLOCK FALSE
