SPECIFICATION Spec
CONSTANTS
    Price <- MCPrice
    Size <- MCSize
    MaxDepth = 2
    UpdateId = {0, 1, 2}
    Call <- MCCall
INVARIANTS
    TypeOK
    SortedSides
    TopLevelsAreBest
    RowsMeanBooks
PROPERTY RefinesBookEngine
