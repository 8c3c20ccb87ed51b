CONSTANTS
    w1 = w1
    w2 = w2
    search = search
    minor = minor
    major = major
    a1 = a1
    a2 = a2
    NoCall = NoCall
    NoRow = NoRow
    Workers <- TwoWorkers
    ReadTools <- Reads
    MinorTools <- Minors
    MajorTools <- Majors
    Args <- TwoArgs
    MaxSteps = 2
    MaxToolCalls = 2
    MaxToolAttempts = 2
    MaxAttempts = 2
SPECIFICATION Spec
SYMMETRY Symmetry
INVARIANTS
    AtMostOneProposal
    LedgerTruthful
    FinalStatusBacked
    TraceExplainsLedger
PROPERTIES
    CheckpointsFenced
CHECK_DEADLOCK FALSE
