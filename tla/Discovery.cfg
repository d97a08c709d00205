SPECIFICATION DFairSpec
CONSTANTS
    Daemons = {d1, d2}
    Clients = {c1, c2}
    None = None
    PidReuse = TRUE
    d1 = d1
    d2 = d2
    c1 = c1
    c2 = c2
INVARIANTS OwnFiles NeverSignalsStranger
PROPERTIES SignalledEnds
