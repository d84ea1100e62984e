CONSTANTS
    r1 = r1
    r2 = r2
    None = None
    Requests = {r1}
    Token <- OwnTokens
    Upload <- ThreeBlocks
    Exponent <- Smallest
    EarlyBlock2 <- NoEarly
    Representations <- ThreeThree
    MaxBlock2 = 16
    Slow = {r1}
    Expires = TRUE
    MaxMids = 7
    MaxExecutions = 2
SPECIFICATION Spec
CHECK_DEADLOCK FALSE
INVARIANTS
    TypeOK
    BodiesIntact
    ConfirmedBefore
    NeverStalls
    PayloadWhole
PROPERTIES
    TransferSpec
