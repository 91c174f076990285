SPECIFICATION Spec
CONSTANTS
    None = None
    Conns = {c1, c2, c3}
    Clients = {k1, k2}
    Bufs = {b1, b2}
    MaxMsgs = 0
    NatsLossy = FALSE
    WriteBufferSize = 1
SYMMETRY Symmetry
INVARIANTS
    TypeOK
    BufferExclusive
    NothingLeftBehind
PROPERTIES
    ImplementsLimit
