SPECIFICATION Spec
CONSTANTS
    Procs = {p1, p2}
    Users = {u1, u2}
    Absent = Absent
    Empty = Empty
    MaxStarts = 3
    MaxDeaths = 2
    MaxRemoved = 2
    MaxLoads = 4
SYMMETRY Symmetry
CONSTRAINT Apart
INVARIANTS
    StartsUnlessTorn
    BuiltinOnlyByFault
    IdentityKept
PROPERTIES
    CertificateKept
    ConfigKept
