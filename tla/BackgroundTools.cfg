SPECIFICATION FairSpec
CONSTANTS
    a = a
    s = s
    t = t
    p = p
    q = q
    NoProc = NoProc
    Calls <- OneCall
    Sessions <- TwoSessions
    Procs <- TwoProcs
    Session <- OfFirst
    Deletable <- FirstOnly
    MaxFaults = 2
INVARIANTS
    TypeOK
    Stoppable
PROPERTIES
    KeepsPromise
    StopTakesEffect
    ResultArrives
    RegistryForgets
CHECK_DEADLOCK FALSE
