CONSTANTS
    r1 = r1
    r2 = r2
    Runs = {r1, r2}
    MaxCalls = 4
    MaxRepairs = 1
    MaxSteps = 3
    Threshold = 3
SPECIFICATION Spec
INVARIANTS
    OvershootAtMostOne
    ResultCountsRequests
    OpenBreakerHolds
SYMMETRY RunSymmetry
CHECK_DEADLOCK FALSE
