SPECIFICATION FairSpec
CONSTANTS
    MaxHops = 2
    MaxDials = 2
INVARIANTS
    NothingLeftBehind
    ChainStands
    PasswordForTarget
PROPERTIES
    StopClosesAll
CHECK_DEADLOCK FALSE
