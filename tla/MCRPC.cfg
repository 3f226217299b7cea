CONSTANTS
    h = h
    a = a
    c1 = c1
    c2 = c2
    Call = {h, a, c1, c2}
    Setup <- MCSetup
    Commands <- MCCommands
    Keys = {"none", "right", "wrong"}
    MayClose = FALSE
    Guarded = TRUE
    MaxRecords = 1
SPECIFICATION RPCFairSpec
INVARIANTS RPCTypeOK RequestsAligned BodiesMatch
PROPERTIES CallsReturn QueriesEnd
CHECK_DEADLOCK FALSE
