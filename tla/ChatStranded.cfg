SPECIFICATION Spec
CONSTANTS
    p1 = p1
    p2 = p2
    s1 = s1
    u1 = u1
    u2 = u2
    c1 = c1
    h1 = h1
    h2 = h2
    Wake = Wake
    Free = Free
    Orphan = Orphan
    Procs <- OneProc
    Sessions <- OneSession
    UserMsgs <- NoInput
    Confirms <- NoInput
    Hints <- TwoHints
    SessionOf <- AllToOne
    MaxIters = 1
    InboxBatch = 2
    QueueBatch = 1
    Deletable <- NoInput
    MaxRestarts = 0
    MaxFaults = 0
INVARIANTS
    NoStrandedHint
CHECK_DEADLOCK FALSE
