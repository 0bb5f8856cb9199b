SPECIFICATION ClientSpec
CONSTANTS
    MaxTries = 2
    MaxQty = 2
    MaxTrades = 1
    MaxOrders = 3
    PageLimit = 2
    MaxCancels = 2
    MaxAge = 1
    Skew = 1
    StartTime = 1
    MaxTime = 2
    f1 = f1
    f2 = f2
    Field <- MCField
    Watches <- MCWatches
    Fresh = Fresh
    Unset = Unset
    Own = Own
    MaxPushes = 2
    MaxWatches = 2
    MaxDrops = 1
INVARIANTS
    TypeOK ToldTheTruth KeyedOnce OwnRequestsVerify
    ListingIsComplete  ClosedUnlessMoved
    TickerIsWhole RowsReachTheirWatch KeysStayAtHome
PROPERTIES
    OnlyForgottenCancelled CloseNeverOpens EveryJobReturns
    UnsubscribedIsQuiet
CHECK_DEADLOCK FALSE
