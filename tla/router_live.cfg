SPECIFICATION FairSpec
CONSTANTS
    None = None
    Conns = {c1}
    Clients = {k1}
    Bufs = {b1}
    MaxMsgs = 3
    NatsLossy = FALSE
    WriteBufferSize = 1
PROPERTIES
    ClosedFreesSlot
    WriterEnds
    EventuallyWritten
    NoBrokerNoService
