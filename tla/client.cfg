SPECIFICATION FairSpec
CONSTANTS
    ReadBufSize = 1
    SendBufSize = 1
    MaxIn = 3
    MaxOut = 2
INVARIANTS
    ClientTypeOK
    ClientNoLoss
    ClosedLast
    SendAccounted
PROPERTIES
    ClientImplementsChannel
    CloseEnds
    ServerCloseEnds
