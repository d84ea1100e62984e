------------------------------ MODULE Blockwise ------------------------------
(***************************************************************************)
(* Blockwise transfer between an Agent and a CoAPServer: a request whose   *)
(* payload goes up in Block1 pieces (SegmentedTransmission, the Block1     *)
(* part of CoAPServer._handle) and whose response comes down in Block2     *)
(* pieces (OutMessage.end, the block2 cache, the Block2 part of            *)
(* Agent._handle).  Options are on the wire as bytes.                      *)
(*                                                                         *)
(* Datagrams stay in the network once sent, and may arrive at any time,    *)
(* any number of times, in any order, or never.  So a retransmission, of a *)
(* sender or of the server's cache, is no step of its own: it sends what   *)
(* was sent before.  Datagrams are not older than the time a server keeps  *)
(* its responses, and its cache has room for all of them.                  *)
(*                                                                         *)
(* A payload is named by whose it is and which bytes of it these are.      *)
(* Requests are confirmable, and a message id is not used twice; the peer  *)
(* does not change the size of Block1, which this server never does.       *)
(***************************************************************************)
EXTENDS BlockOption, FiniteSets

CONSTANTS
    Requests,         \* the requests of all clients
    Token,            \* what identifies each to the server: client and token
    Upload,           \* bytes of each request's payload, possibly none
    Exponent,         \* the block size exponent of its Block1 option
    EarlyBlock2,      \* the Block2 option it is made with, or None
    Representations,  \* bytes of the representation, version by version
    MaxBlock2,        \* _maxBlock2
    Slow,             \* tokens whose requests the application may answer later
    Expires,          \* uploads may outlive the server's block cache
    MaxMids,          \* bound: message ids of a request
    MaxExecutions     \* bound: 'request' events

ASSUME BlockwiseAssumption ==
    /\ None \notin Requests /\ None \notin Buffers
    /\ None \notin [num : Nat, more : Nat, size : Nat]
    /\ Upload \in [Requests -> Nat]
    /\ Exponent \in [Requests -> 0..6]
    /\ \A r \in Requests : Upload[r] <= MaxNum * ExponentToByteSize(Exponent[r])
    /\ EarlyBlock2 \in [Requests -> Buffers \cup {None}]
    /\ \A r \in Requests : EarlyBlock2[r] # None =>
          ParseBlock2(EarlyBlock2[r]) = None \/ ParseBlock2(EarlyBlock2[r]).num = 0
    /\ Representations \in Seq(1..(16 * MaxNum)) /\ Representations # <<>>
    /\ MaxBlock2 \in {ExponentToByteSize(x) : x \in 0..6}
    /\ Slow \subseteq {Token[r] : r \in Requests} /\ Expires \in BOOLEAN
    /\ MaxMids \in Nat \ {0} /\ MaxExecutions \in Nat

VARIABLES
    client,           \* the OutgoingMessage of each request
    byMid,            \* _msgIdToReq: the message ids in it
    byToken,          \* _tkToReq
    thrown,           \* resends ran out: an uncaught exception at the client
    requests,         \* datagrams the clients have sent
    replies,          \* datagrams the server has sent
    block1Cache,      \* the blocks of each token's upload, by byte index
    block2Cache,      \* what each token is being served, or None
    answered,         \* _lru: message ids whose response it holds
    waiting,          \* response objects that have not been sent
    version,          \* of the representation
    bodies            \* history: the payload of each 'request' event

clientVars == <<client, byMid, byToken, thrown, requests>>
serverVars == <<replies, block1Cache, block2Cache, answered, waiting, version, bodies>>
vars == <<clientVars, serverVars>>

Tokens == {Token[r] : r \in Requests}
Versions == 1..Len(Representations)
Size(r) == ExponentToByteSize(Exponent[r])
Mid(r, n) == <<r, n>>
NoMid == <<>>         \* of the server's own messages, which no client knows

\* Some bytes of a payload.
Piece(of, from, to) == [of |-> of, from |-> from, to |-> to]
Length(piece) == piece.to - piece.from
Nothing == Piece(None, 0, 0)
Smaller(a, b) == IF a < b THEN a ELSE b
Slice(of, length, from, size) == Piece(of, from, Smaller(from + size, length))

\* new OutgoingMessage
Unsent(r) == [
    state |-> "new", mids |-> 0, block1 |-> None, block2 |-> EarlyBlock2[r],
    payload |-> Nothing, total |-> <<>>, armed |-> FALSE, response |-> None,
    segmented |-> FALSE, num |-> 0, current |-> 0, last |-> 0, resends |-> 0 ]

Init ==
    /\ client = [r \in Requests |-> Unsent(r)]
    /\ byMid = {}
    /\ byToken = [t \in Tokens |-> None]
    /\ thrown = FALSE
    /\ requests = {} /\ replies = {}
    /\ block1Cache = [t \in Tokens |-> <<>>]
    /\ block2Cache = [t \in Tokens |-> None]
    /\ answered = {} /\ waiting = {}
    /\ version = 1
    /\ bodies = <<>>
-----------------------------------------------------------------------------
(***************************************************************************)
(* SegmentedTransmission, as functions of the request's state c.           *)
(***************************************************************************)
Remaining(r, c) == Upload[r] - c.current

\* updateBlockState
UpdateBlockState(r, c) ==
    [c EXCEPT !.num = c.current \div Size(r),
              !.block1 = GenerateBlockOption([
                  num |-> c.current \div Size(r),
                  more |-> IF c.current + Size(r) < Upload[r] THEN 1 ELSE 0,
                  size |-> Exponent[r]])]

\* sendNext, all but the datagram.
SendNext(r, c) ==
    LET piece == Slice(r, Upload[r], c.current, Size(r))
    IN  [UpdateBlockState(r, c) EXCEPT !.payload = piece, !.armed = TRUE,
                                       !.last = c.current, !.current = piece.to]

\* receiveACK
ReceiveACK(r, c) == [SendNext(r, c) EXCEPT !.resends = 0]

\* Faulty: the sender is reset and nothing is sent.
ResendNothing(r, c) == [c EXCEPT !.resends = @ + 1, !.armed = FALSE]

\* Faulty: the block before the previous one.
ResendOneBefore(r, c) ==
    [SendNext(r, [c EXCEPT !.current = c.last - Size(r)]) EXCEPT !.resends = @ + 1]

\* resendPreviousPacket
ResendPreviousPacket(r, c) == [SendNext(r, [c EXCEPT !.current = c.last]) EXCEPT !.resends = @ + 1]

MaxResends == 5

\* Faulty: any acknowledgement moves on.
IsAnyACK(c, block1) == TRUE

\* isCorrectACK
IsCorrectACK(c, block1) == ParseBlockOption(block1).num = c.num
-----------------------------------------------------------------------------
(***************************************************************************)
(* The client.                                                             *)
(***************************************************************************)
\* The packet is given the next message id.
NewMid(c) == [c EXCEPT !.mids = @ + 1]

Datagram(r, c) == [mid |-> Mid(r, c.mids), token |-> Token[r], block1 |-> c.block1,
                   block2 |-> c.block2, payload |-> c.payload]

\* The request's sender sends its packet, under a message id the agent knows.
Sends(r, c) ==
    /\ client' = [client EXCEPT ![r] = c]
    /\ requests' = requests \cup {Datagram(r, c)}
    /\ byMid' = (byMid \ {Mid(r, client[r].mids)}) \cup {Mid(r, c.mids)}

\* The request as end() finds it: its Block1 option is the application's.
Made(r) ==
    [Unsent(r) EXCEPT
        !.state = "open", !.mids = 1, !.armed = TRUE,
        !.payload = IF Upload[r] = 0 THEN Nothing ELSE Piece(r, 0, Upload[r]),
        !.block1 = IF Upload[r] = 0 THEN None
                   ELSE GenerateBlockOption([num |-> 0, more |-> 0, size |-> Exponent[r]])]

\* request() and end().  Only what exceeds a block is segmented.
Request(r) ==
    /\ ~thrown /\ client[r].state = "new"
    /\ Sends(r, IF Upload[r] > Size(r)
                THEN SendNext(r, [Made(r) EXCEPT !.segmented = TRUE]) ELSE Made(r))
    /\ byToken' = [byToken EXCEPT ![Token[r]] = r]
    /\ UNCHANGED <<thrown, serverVars>>

\* The request a reply belongs to: by message id, else by token.
Found(m) == IF m.mid \in byMid THEN m.mid[1] ELSE byToken[m.token]

Arrives(m, r) ==
    /\ ~thrown /\ m \in replies
    /\ m.code # "empty"
    /\ Found(m) = r
    /\ client[r].mids < MaxMids

\* An empty acknowledgement has no token; it stops the sender.
ReceiveEmpty(m) ==
    /\ ~thrown /\ m \in replies
    /\ m.code = "empty" /\ m.mid \in byMid
    /\ client' = [client EXCEPT ![m.mid[1]].armed = FALSE]
    /\ byMid' = byMid \ {m.mid}
    /\ UNCHANGED <<byToken, thrown, requests, serverVars>>

\* A Block1 reply while there is something left to send.
Uploading(m, r) == m.block1 # None /\ client[r].segmented /\ Remaining(r, client[r]) > 0

ReceiveContinue(m) ==
    \E r \in Requests :
        /\ Arrives(m, r) /\ Uploading(m, r)
        /\ IsCorrectACK(client[r], m.block1)
        /\ Sends(r, ReceiveACK(r, NewMid(client[r])))
        /\ UNCHANGED <<byToken, thrown, serverVars>>

\* A late one of an earlier block: the current block is sent again.
ReceiveStale(m) ==
    \E r \in Requests :
        /\ Arrives(m, r) /\ Uploading(m, r)
        /\ ~IsCorrectACK(client[r], m.block1)
        /\ IF client[r].resends < MaxResends
           THEN /\ client' = [client EXCEPT ![r] = ResendPreviousPacket(r, @)]
                /\ requests' = requests \cup {Datagram(r, client'[r])}
                /\ UNCHANGED thrown
           ELSE /\ client' = [client EXCEPT ![r].armed = FALSE]
                /\ thrown' = TRUE
                /\ UNCHANGED requests
        /\ UNCHANGED <<byMid, byToken, serverVars>>

\* Any other reply ends the upload if it has Block1, and stops the sender.
Settled(m, r) ==
    LET ends == m.block1 # None /\ client[r].segmented
    IN  [client[r] EXCEPT !.armed = FALSE,
                          !.segmented = @ /\ ~ends,
                          !.block1 = IF ends THEN None ELSE @]

MidsAfter(m) == IF m.type = "con" THEN byMid ELSE byMid \ {m.mid}

MoreToCome(m) == m.block2 # None /\ ParseBlock2(m.block2).more = 1

NextBlock2(m) == CreateBlock2([ParseBlock2(m.block2) EXCEPT !.more = 0, !.num = @ + 1])

\* A Block2 piece that is not the last: keep it and ask for the next.
ReceiveBlock(m) ==
    \E r \in Requests :
        /\ Arrives(m, r) /\ ~Uploading(m, r)
        /\ MoreToCome(m)
        /\ LET c == [NewMid(Settled(m, r)) EXCEPT
                        !.total = Append(@, m.payload), !.payload = Nothing,
                        !.block2 = NextBlock2(m), !.armed = TRUE]
           IN  /\ client' = [client EXCEPT ![r] = c]
               /\ requests' = requests \cup {Datagram(r, c)}
               /\ byMid' = (MidsAfter(m) \ {Mid(r, client[r].mids)}) \cup {Mid(r, c.mids)}
        /\ UNCHANGED <<byToken, thrown, serverVars>>

\* Faulty: the last block alone.
BodyOfLast(m, r) == <<m.payload>>

Body(m, r) ==
    IF m.block2 # None THEN Append(client[r].total, m.payload) ELSE <<m.payload>>

\* The last piece, or all of a response: it is delivered unless there was one.
ReceiveResponse(m) ==
    \E r \in Requests :
        /\ Arrives(m, r) /\ ~Uploading(m, r)
        /\ ~MoreToCome(m)
        /\ client' = [client EXCEPT ![r] =
                [Settled(m, r) EXCEPT
                    !.total = IF m.block2 # None THEN <<>> ELSE @,
                    !.response = IF @ # None THEN @
                        ELSE [code |-> m.code, body |-> Body(m, r), format |-> m.format]]]
        /\ byMid' = MidsAfter(m)
        /\ byToken' = IF client[r].response # None THEN byToken
                      ELSE [byToken EXCEPT ![Token[r]] = None]
        /\ UNCHANGED <<thrown, requests, serverVars>>

\* The sender gives up: abort().
Timeout(r) ==
    /\ ~thrown /\ client[r].armed
    /\ client' = [client EXCEPT ![r].armed = FALSE, ![r].state = "failed"]
    /\ byMid' = byMid \ {Mid(r, client[r].mids)}
    /\ byToken' = [byToken EXCEPT ![Token[r]] = None]
    /\ UNCHANGED <<thrown, requests, serverVars>>
-----------------------------------------------------------------------------
(***************************************************************************)
(* The server.                                                             *)
(***************************************************************************)
Reply(type, mid, token, code, payload) ==
    [type |-> type, mid |-> mid, token |-> token, code |-> code,
     block1 |-> None, block2 |-> None, payload |-> payload, format |-> FALSE]

\* What OutMessage.end makes of a representation for the Block2 option asked.
Refusal == [code |-> "bad", block2 |-> None, payload |-> Nothing, served |-> FALSE]

ServedBlock(v, num, size) ==
    LET length == Representations[v]
        more == IF num < (length - 1) \div size THEN 1 ELSE 0
    IN  [code |-> "content", payload |-> Slice(v, length, num * size, size), served |-> TRUE,
         block2 |-> CreateBlock2([num |-> num, more |-> more, size |-> size])]

\* An empty option asks for blocks of no bytes, of which there is no last.
EmptyBlock(v) == [code |-> "content", block2 |-> Encoded(0, 1, 0), served |-> TRUE,
                  payload |-> Slice(v, Representations[v], 0, 0)]

End(block2, v) ==
    IF block2 = None
    THEN IF Representations[v] < MaxBlock2
         THEN [code |-> "content", block2 |-> None, served |-> FALSE,
               payload |-> Piece(v, 0, Representations[v])]
         ELSE ServedBlock(v, 0, MaxBlock2)
    ELSE IF ParseBlock2(block2) = None THEN Refusal
    ELSE LET asked == ParseBlock2(block2)
             size == Smaller(asked.size, MaxBlock2)
         IN  IF size = 0 THEN EmptyBlock(v)
             ELSE IF asked.num > (Representations[v] - 1) \div size THEN Refusal
             ELSE ServedBlock(v, asked.num, size)

\* The reply to response object p, from version v and with these options.
Response(p, v, format) ==
    LET a == End(p.block2, v)
    IN  [Reply(IF p.acked THEN "con" ELSE "ack", IF p.acked THEN NoMid ELSE p.mid,
               p.token, a.code, a.payload) EXCEPT !.block2 = a.block2, !.format = format]

ResponseObject(m) == [mid |-> m.mid, token |-> m.token, block2 |-> m.block2,
                      acked |-> FALSE, lost |-> FALSE]

Sent(p, v, format) ==
    /\ replies' = replies \cup {Response(p, v, format)}
    /\ answered' = IF p.acked THEN answered ELSE answered \cup {p.mid}

\* The cache entry end() makes, and what it is given of the options.
Entry(p, v, format, cache) ==
    [cache EXCEPT ![p.token] =
        IF End(p.block2, v).served THEN [version |-> v, format |-> format] ELSE @]

\* A request that no cached response answers.
IsNew(m) == m \in requests /\ m.mid \notin answered

\* Faulty: the second block counts as a first one.
IsFirstOrSecond(m) == m.block2 = None \/ ParseBlock2(m.block2).num <= 1

\* Not a request for a block after the first.
IsFirst(m) ==
    m.block2 = None \/ ParseBlock2(m.block2) = None \/ ParseBlock2(m.block2).num < 1

FromCache(m) == ~IsFirst(m) /\ block2Cache[m.token] # None

Kept(m) == IF IsFirst(m) THEN [block2Cache EXCEPT ![m.token] = None] ELSE block2Cache

\* Faulty: end() made a new entry, and its options are not saved again.
ServeForgetting(m) ==
    /\ IsNew(m) /\ FromCache(m)
    /\ LET entry == block2Cache[m.token]
       IN  /\ Sent(ResponseObject(m), entry.version, entry.format)
           /\ block2Cache' = Entry(ResponseObject(m), entry.version, FALSE, block2Cache)
    /\ UNCHANGED <<clientVars, block1Cache, waiting, version, bodies>>

\* A later block of a response that is being served.
Serve(m) ==
    /\ IsNew(m) /\ FromCache(m)
    /\ LET entry == block2Cache[m.token]
       IN  /\ Sent(ResponseObject(m), entry.version, entry.format)
           /\ block2Cache' = Entry(ResponseObject(m), entry.version, entry.format, block2Cache)
    /\ UNCHANGED <<clientVars, block1Cache, waiting, version, bodies>>

ByteIndex(m) ==
    LET b == ParseBlockOption(m.block1) IN b.num * ExponentToByteSize(b.size)

\* The upload of m's token so far, with m's block.
Stored(m) ==
    [i \in DOMAIN block1Cache[m.token] \cup {ByteIndex(m)} |->
        IF i = ByteIndex(m) THEN m.payload ELSE block1Cache[m.token][i]]

IsLast(m) == ParseBlockOption(m.block1).more = 0

\* A block that is not the last: 2.31, with the option as it came.
Store(m) ==
    /\ IsNew(m) /\ ~FromCache(m)
    /\ m.block1 # None /\ ~IsLast(m)
    /\ block1Cache' = [block1Cache EXCEPT ![m.token] = Stored(m)]
    /\ replies' = replies \cup {[Reply("ack", m.mid, m.token, "continue", Nothing)
                                    EXCEPT !.block1 = m.block1]}
    /\ answered' = answered \cup {m.mid}
    /\ block2Cache' = Kept(m)
    /\ UNCHANGED <<clientVars, waiting, version, bodies>>

\* Faulty: gaps go unnoticed.
ContiguousNot(data) == TRUE

\* The blocks are in line, from the first byte on: each begins where the one
\* before it ends.
Contiguous(data) ==
    \A i \in DOMAIN data :
        \/ i = 0
        \/ \E j \in DOMAIN data :
              /\ j < i /\ j + Length(data[j]) = i
              /\ \A k \in DOMAIN data : ~(j < k /\ k < i)

\* The last block is the one with the highest index.
EndsWith(data, i) == \A j \in DOMAIN data : j + Length(data[j]) <= i + Length(data[i])
\* The payload of a request that is handed to the application.
Payload(m) == IF m.block1 = None THEN [i \in {0} |-> m.payload] ELSE Stored(m)

Complete(m) ==
    m.block1 # None => IsLast(m) /\ Contiguous(Stored(m)) /\ EndsWith(Stored(m), ByteIndex(m))

\* Faulty: the blocks stay in the cache.
UploadedKept(m) ==
    IF m.block1 = None THEN block1Cache
    ELSE [block1Cache EXCEPT ![m.token] = Stored(m)]

\* The upload is over, one way or the other; a gap leaves it where it is.
Uploaded(m) ==
    IF m.block1 = None THEN block1Cache
    ELSE [block1Cache EXCEPT ![m.token] = IF Contiguous(Stored(m)) THEN <<>> ELSE Stored(m)]

(***************************************************************************)
(* The last block of an upload that is not complete: an exception, which   *)
(* handleEnding answers with 5.00.  The response object remains, unsent.   *)
(***************************************************************************)
Refuse(m) ==
    /\ IsNew(m) /\ ~FromCache(m)
    /\ m.block1 # None /\ IsLast(m) /\ ~Complete(m)
    /\ block1Cache' = Uploaded(m)
    /\ replies' = replies \cup {Reply("non", m.mid, m.token, "error", Nothing)}
    /\ waiting' = waiting \cup {[ResponseObject(m) EXCEPT !.lost = TRUE]}
    /\ block2Cache' = Kept(m)
    /\ UNCHANGED <<clientVars, answered, version, bodies>>

(***************************************************************************)
(* The 'request' event.  If the listener answers, the options are saved in *)
(* the cache entry that end() has made.                                    *)
(***************************************************************************)
Execute(m) ==
    /\ IsNew(m) /\ ~FromCache(m)
    /\ Complete(m)
    /\ Len(bodies) < MaxExecutions
    /\ bodies' = Append(bodies, [token |-> m.token, first |-> IsFirst(m), body |-> Payload(m)])
    /\ block1Cache' = Uploaded(m)
    /\ \/ /\ Sent(ResponseObject(m), version, TRUE)
          /\ block2Cache' = Entry(ResponseObject(m), version, TRUE, Kept(m))
          /\ UNCHANGED waiting
       \/ /\ m.token \in Slow
          /\ waiting' = waiting \cup {ResponseObject(m)}
          /\ block2Cache' = Kept(m)
          /\ UNCHANGED <<replies, answered>>
    /\ UNCHANGED <<clientVars, version>>

\* The application answers later: nobody saves the options.
Answer(p) ==
    /\ p \in waiting /\ ~p.lost
    /\ waiting' = waiting \ {p}
    /\ Sent(p, version, TRUE)
    /\ block2Cache' = Entry(p, version, FALSE, block2Cache)
    /\ UNCHANGED <<clientVars, block1Cache, version, bodies>>

\* _ackTimer: an empty acknowledgement.
AckTimer(p) ==
    /\ p \in waiting /\ ~p.acked
    /\ waiting' = (waiting \ {p}) \cup {[p EXCEPT !.acked = TRUE]}
    /\ replies' = replies \cup {Reply("ack", p.mid, p.token, "empty", Nothing)}
    /\ UNCHANGED <<clientVars, block1Cache, block2Cache, answered, version, bodies>>

(***************************************************************************)
(* BlockCache's expiry: an upload that takes longer than exchangeLifetime, *)
(* counted from its first block, is forgotten.  (What is being served      *)
(* expires as late, but each block that is asked for renews it.)           *)
(***************************************************************************)
Expire(t) ==
    /\ Expires
    /\ block1Cache' = [block1Cache EXCEPT ![t] = <<>>]
    /\ UNCHANGED <<clientVars, replies, block2Cache, answered, waiting, version, bodies>>

\* The representation changes.
Change ==
    /\ version < Len(Representations)
    /\ version' = version + 1
    /\ UNCHANGED <<clientVars, replies, block1Cache, block2Cache, answered, waiting, bodies>>
-----------------------------------------------------------------------------
ClientNext ==
    \/ \E r \in Requests : Request(r) \/ Timeout(r)
    \/ \E m \in replies :
        \/ ReceiveEmpty(m) \/ ReceiveContinue(m) \/ ReceiveStale(m)
        \/ ReceiveBlock(m) \/ ReceiveResponse(m)

ServerNext ==
    \/ \E m \in requests : Serve(m) \/ Store(m) \/ Refuse(m) \/ Execute(m)
    \/ \E p \in waiting : Answer(p) \/ AckTimer(p)
    \/ \E t \in Tokens : Expire(t)
    \/ Change

Next == ClientNext \/ ServerNext

Spec == Init /\ [][Next]_vars

-----------------------------------------------------------------------------
Mids == Requests \X (1..MaxMids)

Pieces == [of : Requests \cup Versions \cup {None}, from : Nat, to : Nat]

Codes == {"continue", "content", "bad", "error", "empty"}

ResponseRecords == [code : Codes, body : Seq(Pieces), format : BOOLEAN]

ClientRecords == [
    state : {"new", "open", "failed"}, mids : 0..MaxMids,
    block1 : Buffers \cup {None}, block2 : Buffers \cup {None},
    payload : Pieces, total : Seq(Pieces), armed : BOOLEAN,
    response : ResponseRecords \cup {None},
    segmented : BOOLEAN, num : Nat, current : Nat, last : Nat, resends : 0..MaxResends ]

DatagramRecords == [mid : Mids, token : Tokens, block1 : Buffers \cup {None},
                    block2 : Buffers \cup {None}, payload : Pieces]

ReplyRecords == [type : {"ack", "con", "non"}, mid : Mids \cup {NoMid}, token : Tokens,
                 code : Codes, block1 : Buffers \cup {None}, block2 : Buffers \cup {None},
                 payload : Pieces, format : BOOLEAN]

WaitingRecords == [mid : Mids, token : Tokens, block2 : Buffers \cup {None},
                   acked : BOOLEAN, lost : BOOLEAN]

\* What is nothing is no record either.
ASSUME NoneIsNoRecord == None \notin ResponseRecords \cup [version : Versions, format : BOOLEAN]

\* Functions from byte indices to pieces, of whatever domain.
IsBody(f) == f = [i \in DOMAIN f |-> f[i]] /\ \A i \in DOMAIN f : i \in Nat /\ f[i] \in Pieces

TypeOK ==
    /\ client \in [Requests -> ClientRecords]
    /\ byMid \subseteq Mids
    /\ byToken \in [Tokens -> Requests \cup {None}]
    /\ thrown \in BOOLEAN
    /\ requests \subseteq DatagramRecords
    /\ replies \subseteq ReplyRecords
    /\ DOMAIN block1Cache = Tokens /\ \A t \in Tokens : IsBody(block1Cache[t])
    /\ block2Cache \in [Tokens -> [version : Versions, format : BOOLEAN] \cup {None}]
    /\ answered \subseteq Mids
    /\ waiting \subseteq WaitingRecords
    /\ version \in Versions
    /\ \A i \in 1..Len(bodies) : 
        /\ bodies[i].token \in Tokens /\ bodies[i].first \in BOOLEAN
        /\ IsBody(bodies[i].body)

\* The blocks of a whole upload.
LastNum(r) == IF Upload[r] = 0 THEN 0 ELSE (Upload[r] - 1) \div Size(r)
Offsets(r) == {n * Size(r) : n \in 0..LastNum(r)}

Whole(r) ==
    [i \in Offsets(r) |->
        IF Upload[r] = 0 THEN Nothing ELSE Slice(r, Upload[r], i, Size(r))]

Uploads == {r \in Requests : Upload[r] > Size(r)}

ExecutionsOf(t) == {i \in 1..Len(bodies) : bodies[i].token = t}
FirstsOf(t) == {i \in ExecutionsOf(t) : bodies[i].first}

(***************************************************************************)
(* What the application is handed is a whole payload, byte for byte, of a  *)
(* request that carries this token: no block is missing, none comes twice, *)
(* none is another upload's (server.ts:602).  Not so for a request that    *)
(* asks for a later block of a response the server does not hold any more. *)
(***************************************************************************)
BodiesIntact ==
    \A i \in 1..Len(bodies) : bodies[i].first =>
        \E r \in Requests : Token[r] = bodies[i].token /\ bodies[i].body = Whole(r)

\* The server has acknowledged the first n blocks of r, which r has sent.
Reached(r, n) ==
    \A k \in 0..(n - 1) : \E m \in requests :
        /\ m.token = Token[r] /\ m.mid \in answered
        /\ m.payload = Slice(r, Upload[r], k * Size(r), Size(r))

(***************************************************************************)
(* No datagram carries a block whose predecessors the server has not all   *)
(* acknowledged: no acknowledgement is taken for that of another block     *)
(* (isCorrectACK, segmentation.ts:63).  Nor is a payload handed to the     *)
(* application before all its blocks but the last have been.               *)
(***************************************************************************)
ConfirmedBefore ==
    /\ \A m \in requests :
          m.block1 # None => Reached(m.mid[1], ParseBlockOption(m.block1).num)
    /\ \A r \in Requests : FirstsOf(Token[r]) # {} => Reached(r, LastNum(r))

(***************************************************************************)
(* A request that has no response and has not failed still retransmits,    *)
(* unless the server has acknowledged the very datagram it sent last: each *)
(* reset of the sender (agent.ts:332) is followed by a datagram or a       *)
(* response.                                                               *)
(***************************************************************************)
NeverStalls ==
    \A r \in Requests :
        client[r].state = "open" /\ client[r].response = None /\ ~thrown =>
            \/ client[r].armed
            \/ \E m \in replies : m.code = "empty" /\ m.mid = Mid(r, client[r].mids)

\* The pieces of a body are one representation, from its first byte to its
\* last, but for pieces that are there again.
IsRepresentation(body) ==
    \E v \in Versions :
        /\ body[Len(body)].to = Representations[v]
        /\ \A i \in 1..Len(body) :
            /\ body[i].of = v
            /\ body[i].from # 0 => \E j \in 1..(i - 1) : body[j].to = body[i].from
            /\ \A j \in 1..Len(body) : body[j].from = body[i].from => body[j] = body[i]

(***************************************************************************)
(* "should receive full response payload" (test/blockwise.ts:203).  The    *)
(* client looks neither at the number nor at the ETag of a block: one that *)
(* arrives again is appended again (agent.ts:393).  But if the request was *)
(* executed once, nothing else is wrong with what it delivers: it is one   *)
(* version, no byte of which is missing, and each piece that is there for  *)
(* the first time begins where one before it ends.                         *)
(***************************************************************************)
PayloadWhole ==
    \A r \in Requests :
        LET response == client[r].response
        IN  /\ response # None /\ response.code = "content"
            /\ Cardinality(ExecutionsOf(Token[r])) <= 1
            => IsRepresentation(response.body)

(***************************************************************************)
(* A request is executed once ("should two parallel block2 requests should *)
(* result only two requests to upper level", test/blockwise.ts:307): the   *)
(* blocks after the first are served from the cache.  If the application   *)
(* answers late, a repeated request is executed, too, and empties it.      *)
(***************************************************************************)
ExecutedOnce == \A t \in Tokens \ Slow : Cardinality(ExecutionsOf(t)) <= 1

(***************************************************************************)
(* "should keep the Content-Format option in every block2 response, not    *)
(* just the first two" (test/blockwise.ts:390): if the application answers *)
(* before its listener returns.                                            *)
(***************************************************************************)
OptionsKept == \A m \in replies : m.code = "content" /\ m.token \notin Slow => m.format

(***************************************************************************)
(* What is delivered as the response is not the acknowledgement of a       *)
(* block: "Final response should be Changed" (test/blockwise.ts:959).      *)
(***************************************************************************)
FinalIsFinal ==
    \A r \in Requests : client[r].response # None => client[r].response.code # "continue"

(***************************************************************************)
(* Uploads as their users see them.                                        *)
(***************************************************************************)
Deliveries == [r \in Uploads |-> Cardinality(FirstsOf(Token[r]))]

Outcome ==
    [r \in Uploads |->
        IF client[r].response # None
        THEN IF client[r].response.code = "content" THEN "success" ELSE "failure"
        ELSE "unknown"]

Promise == INSTANCE Transfer WITH deliveries <- Deliveries, outcome <- Outcome

\* However it is cut, repeated and reordered, an upload is handed over at most
\* once, and reported as done only if it was.
TransferSpec == Promise!Spec
=============================================================================
