SPECIFICATION FairSpec
CONSTANTS
    Topic = {t1}
    Client = {c1}
    SocketId <- MCSocketId
    Endpoint = {TRUE, FALSE}
    InitialBackoff = 2
    MaxBackoff = 3
    None = None
INVARIANT TypeOK
PROPERTIES
    CancelStops
    SubscriptionIsServed
