CONSTANTS
    n1 = n1
    n2 = n2
    a1 = a1
    a2 = a2
    s1 = s1
    s2 = s2
    c1 = c1
    Node = {n1}
    Addr = {a1, a2}
    Service = {s1}
    Hash <- MCHash
    Syncer = {}
    NoHost = NoHost
    Providers = {{s1}}
    Lapsing = {a1, a2}
    Oversized = {}
    MaxEvents = 4
    MaxFaults = 0
SPECIFICATION FairSpec
PROPERTY ExpiredUnrouted
CHECK_DEADLOCK FALSE
