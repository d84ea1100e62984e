CONSTANTS
    AckTimeout = 2
    AckTimeoutMax = 3
    MaxRetransmit = 2
    MaxLatency = 1
    MessageIds <- MCMessageIds
    MaxSends = 3
    RetryLimit = 2
    AbortOnTimeout = FALSE
SPECIFICATION FairSpec
CHECK_DEADLOCK FALSE
INVARIANTS
    TypeOK
    WithinTransmitSpan
PROPERTIES
    ImplementsSender
    EndsExchange
