CONSTANTS
    w1 = w1
    w2 = w2
    NoOne = NoOne
    Workers <- TwoWorkers
    MaxAttempts = 3
    Lossy = TRUE
    Cancels = TRUE
SPECIFICATION FairJobSpec
INVARIANTS
    AttemptAccounting
    FenceExclusive
PROPERTIES
    LeaseSpec
    SupersededForGood
    RunningJobSettles
    CancelAnsweredOrBlocked
CHECK_DEADLOCK FALSE
