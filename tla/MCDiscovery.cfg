CONSTANTS
    n1 = n1
    n2 = n2
    a1 = a1
    a2 = a2
    s1 = s1
    s2 = s2
    c1 = c1
    Node = {n1, n2}
    Addr = {a1}
    Service = {s1, s2}
    Hash <- MCHash
    Syncer = {c1}
    NoHost = NoHost
    Providers = {{s1}, {s2}, {s1, s2}}
    Lapsing = {a1}
    Oversized = {{s1, s2}}
    MaxEvents = 2
    MaxFaults = 1
SPECIFICATION Spec
INVARIANTS TypeOK RoutesAreRegistrations RoutesAnsweredFor
SYMMETRY MCSymmetry
CHECK_DEADLOCK FALSE
