SPECIFICATION Spec
CONSTANTS
    Market = {"linear", "spot"}
    MaxRequests = 5
    MaxBatchSize = 2
INVARIANTS
    TypeOK
    RowsMatchRequests
    EachRequestSentOnce
    ErrorTellsOfFailure
    CacheFollowsAcks
CHECK_DEADLOCK FALSE
