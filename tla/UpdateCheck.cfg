SPECIFICATION Spec
CONSTANTS
    TTL = 2
    MaxTime = 3
    MaxChecks = 2
INVARIANTS
    SilentWithoutConsent
    LossCostsOnePoll
