CONSTANTS
    r1 = r1
    r2 = r2
    r3 = r3
    id1 = id1
    id2 = id2
    t1 = t1
    None = None
    Requests = {r1, r2, r3}
    Token <- SameToken
    SenderId <- OwnIds
    IdContext <- NoIdContext
    Streams = {r2}
    OscoreOnly = FALSE
    Removable <- Second
    RegistersRefused = TRUE
    ClearsRecovery = TRUE
    Restored = FALSE
    MaxTokenBindings = 2
    MaxPendingEchos = 1
    EchoTtl = 1
    MaxRestarts = 1
    MaxNonces = 2
    MaxTime = 1
SPECIFICATION Spec
CHECK_DEADLOCK FALSE
INVARIANTS
    TypeOK
    UnderOwnContext
    EchoOnce
    ExecutedOnce
    BindingsAreOwed
