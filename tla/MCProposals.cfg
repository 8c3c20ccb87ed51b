CONSTANTS
    p1 = p1
    p2 = p2
    t1 = t1
    t2 = t2
    Ids = {p1, p2}
    Tasks = {t1, t2}
    Source <- TheSource
    Kinds <- TheKinds
    MaxChanges = 1
    MaxAttempts = 2
SPECIFICATION FairSpec
INVARIANTS
    JobTellsProposal
PROPERTIES
    ImplementsLife
    FreshEvidence
    ApprovedSettles
CHECK_DEADLOCK FALSE
