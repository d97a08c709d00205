SPECIFICATION Spec
CONSTANTS
    Aliases = {"a", "b"}
    Machines = {"m"}
    Forwards <- MCForwards
    Included <- MCIncluded
    Texts <- MCTexts
    p = p
    q = q
    Commands <- MCCommands
    MaxEdits = 1
SYMMETRY Symmetry
INVARIANTS
    TypeOK
    NothingTwice
    MeansTheSame
    OfferedOnce
CHECK_DEADLOCK FALSE
