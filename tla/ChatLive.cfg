SPECIFICATION FairSpec
CONSTANTS
    p1 = p1
    p2 = p2
    s1 = s1
    u1 = u1
    u2 = u2
    c1 = c1
    h1 = h1
    h2 = h2
    Wake = Wake
    Free = Free
    Orphan = Orphan
    Procs <- TwoProcs
    Sessions <- OneSession
    UserMsgs <- NoInput
    Confirms <- NoInput
    Hints <- OneHint
    SessionOf <- AllToOne
    MaxIters = 1
    InboxBatch = 2
    QueueBatch = 2
    Deletable <- NoInput
    MaxRestarts = 2
    MaxFaults = 0
PROPERTIES
    RunsEnd
    WakeupsConsumed
CHECK_DEADLOCK FALSE
