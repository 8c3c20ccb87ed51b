CONSTANTS
    c = c
    n = n
    s1 = s1
    s2 = s2
    q1 = q1
    q2 = q2
    q3 = q3
    q4 = q4
    t1 = t1
    t2 = t2
    t3 = t3
    k1 = k1
    k2 = k2
    Root = Root
    Nodes = {c, n}
    Parent <- TheParent
    Schools = {s1, s2}
    Syllabus <- TheSyllabus
    Questions = {q1, q2, q3}
    SchoolOf <- TheSchoolOf
    KnowledgeOf <- TheKnowledgeOf
    Exams <- TheExams
    Tasks = {t1, t2}
    TaskNode <- TheTaskNode
    FirstBank = {q1, q3}
    Keys = {k1}
    MaxMoves = 1
    MaxMocks = 1
SPECIFICATION UnlockSpec
INVARIANTS
    ScopesAgree
    ProfileCountsAttempts
    SpecializedEarned
CHECK_DEADLOCK FALSE
