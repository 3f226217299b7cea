CONSTANTS
    Seq64 <- MCSeq
    Asks <- MCAsks
    MaxRequests = 4
    Guarded = TRUE
    MaxRecords = 1
SPECIFICATION FairSpec
INVARIANTS AnswersInOrder NothingUnauthorised
PROPERTY AllAnswered
CHECK_DEADLOCK FALSE
