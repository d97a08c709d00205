SPECIFICATION FairSpec
CONSTANTS
    Daemons = {d1, d2}
    Clients = {tui}
    Standalone = tui
    None = None
    PidReuse = FALSE
    Ports = {p1, p2}
    MaxFDs = 4
    Configs <- MCConfigs
    d1 = d1
    d2 = d2
    tui = tui
    p1 = p1
    p2 = p2
INVARIANTS PortsStayUp NothingLeaks
PROPERTIES HandoffEnds SignalledEnds
