SPECIFICATION Spec
CONSTANTS
    a = a
    b = b
    c = c
    NoCall = NoCall
    Calls <- ThreeCalls
    Safe <- TwoSafe
    External <- OneExternal
    MaxIters = 2
    Reserves <- UpToThree
    MaxTurns = 1
    MaxResults = 2
    MaxFaults = 0
INVARIANTS
    PairsKept
CHECK_DEADLOCK FALSE
