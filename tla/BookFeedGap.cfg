SPECIFICATION FairSpec
CONSTANTS
    Side <- MCSide
    Price <- MCPrice
    Size <- MCSize
    MaxDepth = 2
    UpdateId <- MCUpdateId
    SnapshotBook = {}
    DeltaRows = {}
    Epochs = 1
    LastUpdateId = 3
    WireDepth = 2
    DisplayDepth = 1
    MaxWire = 2
PROPERTY GapIsRepaired
