SPECIFICATION Spec
CONSTANTS
    None = None
    Conns = {c1, c2}
    Library = {c1}
    Bufs = {b1, b2}
    Objs = {o1, o2}
    CfgMax = 65536
    Outgoing <- MCOutgoing
    Raw <- MCRaw
    MaxSent = 2
    MaxRaw = 1
SYMMETRY Symmetry
INVARIANTS
    PublishedIntact
    FramesAligned
    LibraryNotRefused
    AcceptedIsDeliverable
