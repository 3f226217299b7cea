CONSTANTS
    n1 = n1
    n2 = n2
    a1 = a1
    a2 = a2
    s1 = s1
    s2 = s2
    c1 = c1
    Node = {n1, n2}
    Addr = {a1, a2}
    Service = {s1, s2}
    Syncer = {c1}
    NoHost = NoHost
    Hash <- MCHash
SPECIFICATION Spec
INVARIANTS TypeOK OneOwner PollingSound
PROPERTY ImplementsRegistry
CHECK_DEADLOCK FALSE
SYMMETRY MCSymmetry
CONSTRAINT StaysAtHome
