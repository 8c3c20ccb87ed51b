CONSTANTS
    s1 = s1
    s2 = s2
    h1 = h1
    c1 = c1
    c2 = c2
    k1 = k1
    k2 = k2
    j1 = j1
    j2 = j2
    g1 = g1
    Schools = {s1, s2}
    FirstSchool = s1
    Pool <- ThePool
    Bindings <- TheBindings
    Capacity <- TheCapacity
    Window = 1
    LastDay = 1
    MaxEdits = 2
    MaxFills = 1
    MaxAttempts = 2
    Clients = {g1}
    Jobs = {j1, j2}
    Start <- TheStart
SPECIFICATION Spec
INVARIANTS
    RolledOnce
    EditsWhatWasSeen
CHECK_DEADLOCK FALSE
