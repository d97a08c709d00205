SPECIFICATION FairSpec
CONSTANTS
    Callers = {c1}
    Runs = {r1, r2}
    NoRun = NoRun
    Ports = {p1, p2}
    Configs <- MCConfigs
    MaxRejects = 1
    Secrets = {"passphrase", "password"}
    Adopting = TRUE
    c1 = c1
    r1 = r1
    r2 = r2
    p1 = p1
    p2 = p2
INVARIANTS
    NothingLeaks
    StatusIsHonest
    EditTakesEffect
PROPERTIES
    StopIsComplete
    DialsAgain
    ImplementsTunnel
