SPECIFICATION Spec
CONSTANTS
    p1 = p1
    p2 = p2
    s1 = s1
    u1 = u1
    u2 = u2
    c1 = c1
    h1 = h1
    h2 = h2
    Wake = Wake
    Free = Free
    Orphan = Orphan
    Procs <- TwoProcs
    Sessions <- OneSession
    UserMsgs <- OneUser
    Confirms <- OneConfirm
    Hints <- OneHint
    SessionOf <- AllToOne
    MaxIters = 2
    InboxBatch = 2
    QueueBatch = 1
    Deletable <- NoInput
    MaxRestarts = 1
    MaxFaults = 1
SYMMETRY Symmetric
INVARIANTS
    TypeOK
    LockOwned
    TranscriptCoversState
    DeliveredOnce
    ContinuedReplyFound
CHECK_DEADLOCK FALSE
