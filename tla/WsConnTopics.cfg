SPECIFICATION Spec
CONSTANTS
    Topic = {t1, t2}
    Client = {c1}
    SocketId <- MCSocketId
    Endpoint = {TRUE, FALSE}
    InitialBackoff = 2
    MaxBackoff = 3
    None = None
INVARIANTS
    RegistryIsServedOrRefused
    ResetBeforeFrames
    PublishedSocketIsOwned
    ConnInv
    RegistryInv
