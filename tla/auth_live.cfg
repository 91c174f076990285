SPECIFICATION FairSpec
CONSTANTS
    None = None
    Conns = {c1}
    Keys = {k1}
    Bufs = {b1}
    TTL = 1
    Tolerance = 1
    Word = 8
    MaxClock = 2
    MaxSent = 2
    MaxFrames = 1
PROPERTIES
    HandshakeCompletes
