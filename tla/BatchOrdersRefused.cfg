SPECIFICATION Spec
CONSTANTS
    Market = {"linear", "spot"}
    MaxRequests = 3
    MaxBatchSize = 2
INVARIANT NilErrorMeansDone
CHECK_DEADLOCK FALSE
