SPECIFICATION ASpec
CONSTANTS
    MaxVersion = 3
INVARIANTS
    AlwaysABinary
    OutcomeIsTrue
