SPECIFICATION FairSpec
CONSTANTS
    None = None
    Conns = {c1}
    Clients = {k1, k2}
    Bufs = {b1}
    MaxMsgs = 1
    NatsLossy = FALSE
    WriteBufferSize = 1
PROPERTIES
    ReadyMissesNothing
