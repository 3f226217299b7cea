CONSTANTS
    m1 = m1
    m2 = m2
    Monitor = {m1, m2}
    Buffer = 3
    Capacity = 2
    MaxLines = 5
SPECIFICATION Spec
INVARIANTS TypeOK NoLineMissing StoppedNotInvoked
SYMMETRY MCSymmetry
CHECK_DEADLOCK FALSE
