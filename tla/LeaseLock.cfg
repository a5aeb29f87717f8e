SPECIFICATION FairSpec
CONSTANTS
    c1 = c1
    c2 = c2
    c3 = c3
    NoClient = NoClient
    Clients <- ThreeClients
    TTL = 6
    Lag = 2
INVARIANTS
    TypeOK
    HeartbeatKeepsLease
    MutualExclusion
PROPERTIES
    OnlyOwnerDeletes
    IsMutex
    WaiterGetsIn
