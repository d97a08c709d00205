SPECIFICATION FairSpec
CONSTANTS
    Dials = {d1, d2}
    Secrets = {right, wrong}
    Good = {right}
    NoSecret = NoSecret
    Forgets = TRUE
    KeyringFails = TRUE
    MaxOps = 2
    d1 = d1
    d2 = d2
    right = right
    wrong = wrong
INVARIANT WaitersExact
PROPERTIES SubmissionWakes PromptsAgain
