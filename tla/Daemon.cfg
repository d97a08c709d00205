SPECIFICATION FairSpec
CONSTANTS
    Names = {"a", "b"}
    Ports = {"p1", "p2"}
    Edits <- MCEdits
    Requested <- MCRequested
    Example <- MCExample
    BootEdits = FALSE
    MaxTubers = 2
INVARIANTS InSync EngineMatches PromiseKept
PROPERTIES OwnWritesAreQuiet EditsApply
