CONSTANTS
    c1 = c1
    c2 = c2
    Requests <- TwoClients
    ServerMids <- OwnMids
    Capacity = 16
    SendAcks = TRUE
    Slow = FALSE
    ClientsReset = FALSE
    ServerCloses = FALSE
    MaxExecutions = 5
    MaxWrites = 2
SPECIFICATION Spec
CHECK_DEADLOCK FALSE
INVARIANTS
    TypeOK
    ExecutedOnce
    RepliesMatch
