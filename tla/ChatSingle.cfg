SPECIFICATION Spec
CONSTANTS
    p1 = p1
    p2 = p2
    s1 = s1
    u1 = u1
    u2 = u2
    c1 = c1
    h1 = h1
    h2 = h2
    Wake = Wake
    Free = Free
    Orphan = Orphan
    Procs <- OneProc
    Sessions <- OneSession
    UserMsgs <- OneUser
    Confirms <- OneConfirm
    Hints <- TwoHints
    SessionOf <- AllToOne
    MaxIters = 2
    InboxBatch = 1
    QueueBatch = 2
    Deletable <- OneSession
    MaxRestarts = 0
    MaxFaults = 0
INVARIANTS
    DeletedForGood
    HintsKept
    CleanSlate
PROPERTIES
    MemoryKept
CHECK_DEADLOCK FALSE
