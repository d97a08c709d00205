SPECIFICATION Spec
CONSTANTS
    Callers = {c1}
    Runs = {r1, r2}
    NoRun = NoRun
    Ports = {p1}
    Configs <- MCLocalConfigs
    MaxRejects = 0
    Secrets = {}
    Adopting = FALSE
    c1 = c1
    r1 = r1
    r2 = r2
    p1 = p1
PROPERTY StopLeavesOff
