SPECIFICATION Spec
CONSTANTS
    Side <- MCSide
    Price <- MCPrice
    Size <- MCSize
    MaxDepth = 1
    UpdateId <- MCUpdateId
    SnapshotBook = {}
    DeltaRows = {}
    Epochs = 1
    LastUpdateId = 3
    WireDepth = 2
    DisplayDepth = 1
    MaxWire = 2
INVARIANT DeliveredIsExchangeBook
