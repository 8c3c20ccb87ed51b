CONSTANTS
    n1 = n1
    n2 = n2
    q1 = q1
    q2 = q2
    t1 = t1
    t2 = t2
    t3 = t3
    NoTask = NoTask
    General = General
    r1 = r1
    r2 = r2
    k1 = k1
    k2 = k2
    Requests = {r1, r2}
    Keys = {k1, k2}
    Nodes = {n1, n2}
    Questions = {q1, q2}
    KnowledgeOf <- TheKnowledgeOf
    Exams <- TheExams
    Chapters <- TheChapters
    Ratios = {50, 90}
    Tasks = {t1, t2, t3}
    Assigned <- TheAssigned
    Topic <- TheTopic
    Reports <- TheReports
    MaxSamples = 2
    StreakLimit = 1
    MaxWrites = 1
SPECIFICATION PracticeSpec
SYMMETRY Symmetry
INVARIANTS
    EvidenceCounts
    SamplesTellReports
    ReportsNotLost
CHECK_DEADLOCK FALSE
