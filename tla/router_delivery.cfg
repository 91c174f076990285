SPECIFICATION Spec
CONSTANTS
    None = None
    Conns = {c1}
    Clients = {k1, k2}
    Bufs = {b1}
    MaxMsgs = 3
    NatsLossy = TRUE
    WriteBufferSize = 1
SYMMETRY Symmetry
INVARIANTS
    NothingLeftBehind
    OrphanOnlyByOverflow
    NoSilentLoss
    WrittenInOrder
PROPERTIES
    ImplementsChannel
