CONSTANTS
    h = h
    a = a
    c1 = c1
    c2 = c2
    Call = {h, a, c1}
    Setup <- MCSetup
    Commands <- MCOneQuery
    Keys = {"none"}
    MayClose = TRUE
    Guarded = FALSE
    MaxRecords = 1
SPECIFICATION RPCFairSpec
PROPERTY QueriesEnd
CHECK_DEADLOCK FALSE
