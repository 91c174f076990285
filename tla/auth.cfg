SPECIFICATION Spec
CONSTANTS
    None = None
    Conns = {c1, c2}
    Keys = {k1, k2}
    Bufs = {b1}
    TTL = 1
    Tolerance = 1
    Word = 8
    MaxClock = 2
    MaxSent = 2
    MaxFrames = 1
SYMMETRY Symmetry
INVARIANTS
    RightIdentity
    ConnectedIsAccepted
    LibraryAccepted
    AgeBounded
    ReadersLoseNothing
