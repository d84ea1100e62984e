CONSTANTS
    c1 = c1
    c2 = c2
    Requests <- OneNon
    ServerMids <- OwnMids
    Capacity = 16
    SendAcks = TRUE
    Slow = FALSE
    ClientsReset = TRUE
    ServerCloses = FALSE
    MaxExecutions = 3
    MaxWrites = 2
SPECIFICATION Spec
CHECK_DEADLOCK FALSE
INVARIANTS
    NoPhantomRequest
