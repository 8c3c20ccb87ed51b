CONSTANTS
    p1 = p1
    b1 = b1
    s1 = s1
    s2 = s2
    r1 = r1
    r2 = r2
    k1 = k1
    k2 = k2
    NoQuestion = NoQuestion
    Bank = {b1}
    Practised = {b1}
    Pairs <- ThePairs
    BankPairs <- TheBankPairs
    Papers = {p1}
    Schools = {s1, s2}
    Slots <- TwoSchools
    Reviewers = {r1, r2}
    Keys = {k1, k2}
    Verdicts = {TRUE, FALSE}
    Answers = {TRUE, FALSE}
    MaxAttempts = 2
    MaxCandidates = 2
    MaxMoves = 1
SPECIFICATION FairSpec
INVARIANTS
    OneVerdict
    OneGeneration
    AttemptMatchesPaper
PROPERTIES
    RequestedIsPublished
CHECK_DEADLOCK FALSE
