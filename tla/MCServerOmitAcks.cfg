CONSTANTS
    c1 = c1
    c2 = c2
    Requests <- OneCon
    ServerMids <- OwnMids
    Capacity = 16
    SendAcks = FALSE
    Slow = TRUE
    ClientsReset = TRUE
    ServerCloses = FALSE
    MaxExecutions = 3
    MaxWrites = 2
SPECIFICATION FairSpec
CHECK_DEADLOCK FALSE
PROPERTIES
    AcknowledgesRequests
