SPECIFICATION FairSpec
CONSTANTS
    None = None
    Conns = {c1, c2}
    Clients = {k1}
    Bufs = {b1, b2}
    MaxMsgs = 0
    NatsLossy = FALSE
    WriteBufferSize = 1
PROPERTIES
    ClosedFreesSlot
    ReconnectProceeds
