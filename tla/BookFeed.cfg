SPECIFICATION Spec
CONSTANTS
    Side <- MCSide
    Price <- MCPrice
    Size <- MCSize
    MaxDepth = 2
    UpdateId <- MCUpdateId
    SnapshotBook = {}
    DeltaRows = {}
    Epochs = 2
    LastUpdateId = 3
    WireDepth = 2
    DisplayDepth = 1
    MaxWire = 2
INVARIANTS
    TypeOK
    DeliveredIsExchangeBook
    FeedInv
PROPERTY DeliveredMovesForward
