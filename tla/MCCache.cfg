CONSTANTS
    k1 = k1
    k2 = k2
    o1 = o1
    o2 = o2
    Key = {k1, k2}
    Object = {o1, o2}
    Duration <- MCDuration
    GivenExpiration = 3
    CleanupInterval = 2
    MaxLag = 1
SPECIFICATION Spec
INVARIANTS TypeOK Residence
PROPERTY ImplementsLease
