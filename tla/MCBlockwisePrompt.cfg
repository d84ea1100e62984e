CONSTANTS
    r1 = r1
    r2 = r2
    None = None
    Requests = {r1, r2}
    Token <- OwnTokens
    Upload <- TwoBlocks
    Exponent <- Smallest
    EarlyBlock2 <- EarlyLarger
    Representations <- TwoThree
    MaxBlock2 = 16
    Slow = {}
    Expires = TRUE
    MaxMids = 5
    MaxExecutions = 2
SPECIFICATION Spec
CHECK_DEADLOCK FALSE
INVARIANTS
    ExecutedOnce
    OptionsKept
