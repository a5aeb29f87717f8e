SPECIFICATION Spec
CONSTANTS
    c1 = c1
    c2 = c2
    c3 = c3
    NoClient = NoClient
    Clients <- TwoClients
    TTL = 6
    Lag = 2
PROPERTIES
    LeaseExpiresOnlyAfterCrash
