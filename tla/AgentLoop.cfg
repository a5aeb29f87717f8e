SPECIFICATION Spec
CONSTANTS
    a = a
    b = b
    c = c
    NoCall = NoCall
    Calls <- ThreeCalls
    Safe <- TwoSafe
    External <- OneExternal
    MaxIters = 2
    Reserves <- UpToTwo
    MaxTurns = 2
    MaxResults = 2
    MaxFaults = 1
INVARIANTS
    TypeOK
    RunOnce
    PairsKept
    AnsweredBeforeModel
    SequentialInOrder
    NothingForgotten
    AskedCanBeAnswered
    NeverStuck
PROPERTIES
    ConsentGate
    FollowsLife
    ReplyAdvances
CHECK_DEADLOCK FALSE
