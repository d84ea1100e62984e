CONSTANTS
    Requests = {r1, r2}
    None = None
    MaxMessageId = 4
    FirstMessageIds <- MCFirst
    PeerMids <- PeersSame
    Kinds = {"con", "non", "observe", "multicast"}
    Codes = {"ok", "notFound"}
    Retries = 1
    Unencodable = {r2}
    MaxAcks = 1
    MaxAnswers = 2
    CallsInListener = TRUE
    UserCloses = TRUE
    ClosesStreams = {"close", "deregister", "consume"}
SPECIFICATION Spec
CHECK_DEADLOCK FALSE
INVARIANTS
    AtMostOneResponse
    OneOutcome
