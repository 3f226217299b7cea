CONSTANTS
    c1 = c1
    c2 = c2
    g1 = g1
    g2 = g2
    Main = Main
    Conn = {c1, c2}
    NameOf <- Distinct
    NoConn = NoConn
    Logger = {g1, g2}
    RetryMaxAttempts = 1
SPECIFICATION LifeSpec
INVARIANT LifeTypeOK
INVARIANT NoStaleClients
INVARIANT ZeroMeansLeft
INVARIANT AnsweredBeforeDown
INVARIANT LinesKept
CHECK_DEADLOCK FALSE
PROPERTY ShutdownClosesAll
PROPERTY Ends
