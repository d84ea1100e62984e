CONSTANTS
    c1 = c1
    c2 = c2
    Requests <- ObserveAndCon
    ServerMids <- SharedMids
    Capacity = 16
    SendAcks = TRUE
    Slow = TRUE
    ClientsReset = TRUE
    ServerCloses = TRUE
    MaxExecutions = 2
    MaxWrites = 2
SPECIFICATION FairSpec
CHECK_DEADLOCK FALSE
INVARIANTS
    RetransmitsUntilAnswered
    RejectionEndsStream
    AcknowledgesOnce
    CloseStopsSenders
PROPERTIES
    AcknowledgesRequests
