CONSTANTS
    Requests = {r1, r2}
    None = None
    MaxMessageId = 4
    FirstMessageIds <- MCFirst
    PeerMids <- PeersOwn
    Kinds = {"con", "non", "observe"}
    Codes = {"ok"}
    Retries = 1
    Unencodable = {}
    MaxAcks = 1
    MaxAnswers = 2
    CallsInListener = FALSE
    UserCloses = FALSE
    ClosesStreams = {"close"}
SPECIFICATION FairSpec
CHECK_DEADLOCK FALSE
INVARIANTS
    TypeOK
    CountsUnfinished
    ClosesOnlyWhenIdle
    NeverForgotten
    LeavesNothingUnsent
PROPERTIES
    Resolves
    AutoCloses
