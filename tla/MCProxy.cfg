CONSTANTS
    c1 = c1
    c2 = c2
    q1 = q1
    q2 = q2
    q3 = q3
    None = None
    Clients = {c1, c2}
    Requests = {q1, q2, q3}
    Owner <- Owners
    Mid <- SameMid
    Token <- OwnTokens
    Proxied = {q1, q2}
    Streams = {q1}
    MaxCopies = 2
    MaxUnderWay = 2
SPECIFICATION FairSpec
CHECK_DEADLOCK FALSE
PROPERTIES
    Relayed
