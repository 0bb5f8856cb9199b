SPECIFICATION Spec
CONSTANTS
    l1 = l1
    l2 = l2
    l3 = l3
    btc = btc
    eth = eth
    Link = {l1, l2, l3}
    OrderId = {o1, o2, o3}
    Symbol = {btc, eth}
    Of <- MCOf
    Caller = {c1, c2}
    None = None
INVARIANTS
    TypeOK
    CacheIsConsistent
    IdInv
PROPERTY CancelForgetsOnlyDone
