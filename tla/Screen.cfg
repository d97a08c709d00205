SPECIFICATION Spec
CONSTANTS
    Names = {a, b}
    Queries <- MCQueries
    None = None
    Prompts <- MCPrompts
    MaxTries = 1
    MaxHandoffs = 2
    MaxBehind = 1
    a = a
    b = b
INVARIANTS TypeOK OneThingAtATime PromptIsWanted
PROPERTIES HiddenUntouched NoSilentQuit
CHECK_DEADLOCK FALSE
