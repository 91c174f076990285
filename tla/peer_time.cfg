SPECIFICATION Spec
CONSTANTS
    Burst = 2
    Period = 2
    WriteTimeout = 3
    MaxTime = 8
    MaxHandled = 5
INVARIANTS
    RateBounded
    LimitedOnlyWhenExceeded
    WriteHasTime
