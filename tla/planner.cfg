SPECIFICATION Spec
CONSTANTS
    None = None
    N = 3
    Kinds = {"open", "low", "blocked"}
    NearCost = 2
    LowCost = 3
    Starts <- MCStarts
    Goals <- MCGoals
CHECK_DEADLOCK FALSE
INVARIANTS
    FoundIsCheapest
    FailureIsGenuine
    ShortcutIsSafe
