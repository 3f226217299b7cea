CONSTANTS
    st1 = st1
    st2 = st2
    Stream = {st1, st2}
    Capacity = 1
    MaxEvents = 3
SPECIFICATION FairSpec
INVARIANTS TypeOK OkBeforeEvents NoGaps
PROPERTIES CleanEnd QueueDrains
CHECK_DEADLOCK FALSE
