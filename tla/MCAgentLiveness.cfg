CONSTANTS
    w1 = w1
    w2 = w2
    search = search
    minor = minor
    major = major
    a1 = a1
    a2 = a2
    NoCall = NoCall
    NoRow = NoRow
    Workers <- OneWorker
    ReadTools <- Reads
    MinorTools <- Minors
    MajorTools <- NoTools
    Args <- OneArg
    MaxSteps = 2
    MaxToolCalls = 2
    MaxToolAttempts = 2
    MaxAttempts = 3
SPECIFICATION FairSpec
PROPERTIES
    AttemptEnds
CHECK_DEADLOCK FALSE
