------------------------------- MODULE Server -------------------------------
(***************************************************************************)
(* The server side (src/lib/server.ts): incoming requests, the responses   *)
(* made for them, and the LRU cache that recognises duplicates, answers    *)
(* them, and stops retransmissions when an acknowledgement comes.          *)
(*                                                                         *)
(* Every buffer the server generates is numbered; _lru is the set of       *)
(* numbers it holds, oldest first since peek() does not refresh and a      *)
(* buffer is inserted once.  The senders are those of RetrySend without    *)
(* their clock: armed holds the buffers whose sender has a running timer.  *)
(* The clients and the network are one environment, which may repeat a     *)
(* request and may answer a datagram any number of times or never.         *)
(*                                                                         *)
(* Capacity counts buffers instead of bytes.  Time-to-live, blockwise      *)
(* transfer, OSCORE, the proxy and response.reset() are not modelled, nor  *)
(* the refusals that keep no state (Observe with POST, FETCH without a     *)
(* format, unparsable datagrams).                                          *)
(***************************************************************************)
EXTENDS Integers, Sequences, FiniteSets

CONSTANTS
    Requests,         \* what clients send: see RequestRecords
    ServerMids,       \* message ids the process assigns, in order
    Capacity,         \* responses that fit into the cache
    SendAcks,         \* sendAcksForNonConfirmablePackets
    Slow,             \* listeners may return before they have answered
    ClientsReset,     \* clients may answer with a RST
    ServerCloses,     \* the application may close the server, and listen again
    MaxExecutions,    \* bound: 'request' events
    MaxWrites         \* bound: notifications of one stream

Mids == {ServerMids[i] : i \in 1..Len(ServerMids)} \cup {q.mid : q \in Requests}

ASSUME ServerAssumption ==
    /\ \A q \in Requests :
        /\ DOMAIN q = {"client", "mid", "token", "confirmable", "observe", "empty"}
        /\ q.mid \in Seq(0..15) /\ q.token \in Seq(0..15)
        /\ {q.confirmable, q.observe} \subseteq BOOLEAN /\ ~q.empty
    /\ ServerMids \in Seq(Seq(0..9)) /\ ServerMids # <<>>
    /\ Capacity \in Nat \ {0}
    /\ {SendAcks, Slow, ClientsReset, ServerCloses} \subseteq BOOLEAN
    /\ MaxExecutions \in Nat /\ MaxWrites \in Nat \ {0}

VARIABLES
    open,             \* the server has a socket
    execs,            \* the response object of each 'request' event
    msgs,             \* the buffers generated, with the fields of their packet
    lru,              \* _lru: the buffers it holds
    armed,            \* buffers whose sender's timers run
    fresh,            \* message ids assigned so far
    turn,             \* the 'request' event whose listeners run, or Loop
    thrown,           \* history: a send on a closed socket threw
    acknowledged,     \* history: buffers the client acknowledged
    rejected,         \* history: buffers the client answered with a RST
    timedOut,         \* history: buffers whose sender gave up
    replayed          \* history: which buffer a duplicate was answered with

vars == <<open, execs, msgs, lru, armed, fresh, turn, thrown,
          acknowledged, rejected, timedOut, replayed>>
observed == <<acknowledged, rejected, timedOut, replayed>>

Loop == 0
NoMid == <<-1>>       \* the packet's messageId has been deleted

Executions == 1..Len(execs)
Buffers == 1..Len(msgs)

\* A RST that no cached response explains is handled as a request: it carries
\* no token and no options.
EmptyRequest(client, mid) == [client |-> client, mid |-> mid, token |-> <<>>,
                              confirmable |-> FALSE, observe |-> FALSE, empty |-> TRUE]

RequestRecords == Requests \cup {EmptyRequest(q.client, m) : q \in Requests, m \in Mids}

Init ==
    /\ open = TRUE
    /\ execs = <<>>
    /\ msgs = <<>>
    /\ lru = {}
    /\ armed = {}
    /\ fresh = 0
    /\ turn = Loop
    /\ thrown = FALSE
    /\ acknowledged = {}
    /\ rejected = {}
    /\ timedOut = {}
    /\ replayed = {}
-----------------------------------------------------------------------------
\* Faulty: clients are not told apart.
ToKeyShared(client, mid, token) == <<mid \o token>>

\* _toKey: the decimal message id and the token in hexadecimal, with nothing
\* between them.
ToKey(client, mid, token) == <<client, mid \o token>>

\* The key that duplicates of a request are looked up with.
RequestKey(q) == ToKey(q.client, q.mid, q.token)

(***************************************************************************)
(* Nothing separates the message id of a key from its token, so that two   *)
(* of a client's messages may fall together.  Where they do not: no two    *)
(* requests have one key, nor is a request's key that of a bare message id *)
(* or of a later response.                                                 *)
(***************************************************************************)
KeysTellApart ==
    \A q, r \in Requests :
        /\ RequestKey(q) = RequestKey(r) => q = r
        /\ \A m \in Mids : RequestKey(q) # ToKey(r.client, m, <<>>)
        /\ \A i \in 1..Len(ServerMids) :
              RequestKey(q) # ToKey(r.client, ServerMids[i], r.token)

\* lru.peek: the buffers under a key, at most one.
Peek(key) == {b \in lru : msgs[b].key = key}

Oldest(S) == {b \in S : \A c \in S : b <= c}

\* What lru.set disposes of: the entry of the same key, else, when the cache
\* is full, the oldest one.
Disposed(key) ==
    IF Peek(key) # {} THEN Peek(key)
    ELSE IF Cardinality(lru) >= Capacity THEN Oldest(lru) ELSE {}

\* The message id generate() assigns to a packet that has none.
FreshMid(n) == ServerMids[(n % Len(ServerMids)) + 1]
\* Faulty: a deleted message id stays away.
MidOfNone(packet) == packet.mid

MidOf(packet) == IF packet.mid = NoMid THEN FreshMid(fresh) ELSE packet.mid

Type(packet) ==
    IF packet.confirmable THEN "CON" ELSE IF packet.ack THEN "ACK" ELSE "NON"

\* Faulty: cached without the token that duplicates are looked up with, and
\* with one by which no acknowledgement is looked up.
KeyTokenless(packet, token, empty) == <<>>
KeyTokenAlways(packet, token, empty) == IF empty THEN <<>> ELSE token

\* A response is cached under its token unless it is itself confirmable; an
\* empty acknowledgement has no token.
KeyToken(packet, token, empty) ==
    IF Type(packet) = "CON" \/ empty THEN <<>> ELSE token

\* Whether _finishSendResponse hands the packet to the sender at all.
IsSent(packet) == SendAcks \/ packet.confirmable

\* Faulty: what the cache disposes of keeps its sender.
SendResponseLeaks(e, packet, empty) ==
    LET b == Len(msgs) + 1
        q == execs[e].req
        key == ToKey(q.client, MidOf(packet), KeyToken(packet, q.token, empty))
        sent == IsSent(packet) /\ ~execs[e].dead
    IN  /\ msgs' = Append(msgs, [exec |-> e, type |-> Type(packet), mid |-> MidOf(packet),
                                 empty |-> empty, key |-> key, sent |-> sent])
        /\ fresh' = IF packet.mid = NoMid THEN fresh + 1 ELSE fresh
        /\ lru' = (lru \ Disposed(key)) \cup {b}
        /\ armed' = armed \cup (IF sent THEN {b} ELSE {})
        /\ thrown' = (IsSent(packet) /\ execs[e].dead)

(***************************************************************************)
(* The closure generateResponse gives to the response of execution e, and  *)
(* _finishSendResponse: cache the buffer, then send it.  A response made   *)
(* for a socket that has been closed since throws.                         *)
(***************************************************************************)
SendResponse(e, packet, empty) ==
    LET b == Len(msgs) + 1
        q == execs[e].req
        key == ToKey(q.client, MidOf(packet), KeyToken(packet, q.token, empty))
        sent == IsSent(packet)
    IN  /\ msgs' = Append(msgs, [exec |-> e, type |-> Type(packet), mid |-> MidOf(packet),
                                 empty |-> empty, key |-> key,
                                 sent |-> sent /\ ~execs[e].dead])
        /\ fresh' = IF packet.mid = NoMid THEN fresh + 1 ELSE fresh
        /\ lru' = (lru \ Disposed(key)) \cup {b}
        /\ armed' = (armed \ Disposed(key)) \cup (IF sent /\ ~execs[e].dead THEN {b} ELSE {})
        /\ thrown' = (sent /\ execs[e].dead)

\* Faulty: no _ackTimer.
ResponseNoTimer(q) == [
    req |-> q, timer |-> FALSE, writes |-> 0, ended |-> FALSE, dead |-> FALSE,
    packet |-> [mid |-> q.mid, confirmable |-> FALSE, ack |-> q.confirmable] ]

\* new OutMessage and new ObserveStream, for request q.
Response(q) == [
    req |-> q,
    timer |-> q.confirmable /\ ~q.observe,       \* _ackTimer
    packet |-> [mid |-> q.mid, confirmable |-> FALSE, ack |-> q.confirmable],
    writes |-> 0,                                \* _counter
    ended |-> FALSE,
    dead |-> FALSE ]                             \* its socket has been closed

\* Node's event loop between callbacks, in a process no exception has ended.
Idle == ~thrown /\ turn = Loop
-----------------------------------------------------------------------------
(***************************************************************************)
(* Datagrams from clients: _handle.                                        *)
(***************************************************************************)
\* A request that is new to the server, up to the listeners of 'request'.
Handle(q) ==
    /\ Len(execs) < MaxExecutions
    /\ Peek(ToKey(q.client, q.mid, q.token)) = {}
    /\ execs' = Append(execs, Response(q))
    /\ turn' = Len(execs) + 1

ReceiveRequest(q) ==
    /\ Idle /\ open
    /\ Handle(q)
    /\ UNCHANGED <<open, msgs, lru, armed, fresh, thrown, observed>>

\* A duplicate is answered from the cache.
ReceiveDuplicate(q) ==
    /\ Idle /\ open
    /\ \E b \in Peek(ToKey(q.client, q.mid, q.token)) :
        replayed' = replayed \cup {<<q, b>>}
    /\ UNCHANGED <<open, execs, msgs, lru, armed, fresh, turn, thrown,
                   acknowledged, rejected, timedOut>>

\* The key by which an ACK or RST for buffer b is looked up.
AnswerKey(b) == ToKey(execs[msgs[b].exec].req.client, msgs[b].mid, <<>>)

\* Buffers whose datagram the client may answer.
Acknowledgeable(b) == msgs[b].sent /\ msgs[b].type = "CON"
Rejectable(b) == ClientsReset /\ msgs[b].sent /\ ~msgs[b].empty

\* sender.reset() and lru.delete.
StopSending(c) == lru' = lru \ {c} /\ armed' = armed \ {c}

ReceiveAck(b) ==
    /\ Idle /\ open
    /\ Acknowledgeable(b)
    /\ \E c \in Peek(AnswerKey(b)) : StopSending(c)
    /\ acknowledged' = acknowledged \cup {b}
    /\ UNCHANGED <<open, execs, msgs, fresh, turn, thrown, rejected, timedOut, replayed>>

\* Any other ACK: "nothing to do, ignoring silently".
IgnoreAck(b) ==
    /\ Idle /\ open
    /\ Acknowledgeable(b)
    /\ Peek(AnswerKey(b)) = {}
    /\ acknowledged' = acknowledged \cup {b}
    /\ UNCHANGED <<open, execs, msgs, lru, armed, fresh, turn, thrown,
                   rejected, timedOut, replayed>>

\* response.end() of an observe stream: only one that never wrote sends now.
EndStream(e) ==
    /\ execs' = [execs EXCEPT ![e].ended = TRUE]
    /\ IF execs[e].writes = 0 /\ ~execs[e].ended
       THEN SendResponse(e, execs[e].packet, FALSE)
       ELSE UNCHANGED <<msgs, fresh, lru, armed, thrown>>

\* Faulty: the stream is not ended.
ReceiveResetOnly(b) ==
    /\ Idle /\ open
    /\ Rejectable(b)
    /\ \E c \in Peek(AnswerKey(b)) : StopSending(c)
    /\ rejected' = rejected \cup {b}
    /\ UNCHANGED <<open, execs, msgs, fresh, turn, thrown, acknowledged, timedOut, replayed>>

\* A RST for a cached buffer; it ends the stream, when it is one that has
\* written already.
ReceiveReset(b) ==
    /\ Idle /\ open
    /\ Rejectable(b)
    /\ \E c \in Peek(AnswerKey(b)) :
        LET e == msgs[c].exec
        IN  /\ execs' = IF execs[e].req.observe THEN [execs EXCEPT ![e].ended = TRUE]
                        ELSE execs
            /\ StopSending(c)
    /\ rejected' = rejected \cup {b}
    /\ UNCHANGED <<open, msgs, fresh, turn, thrown, acknowledged, timedOut, replayed>>

\* Any other RST: "packet.ack ?? packet.reset" is false, for ack is false.
ReceiveUnknownReset(b) ==
    /\ Idle /\ open
    /\ Rejectable(b)
    /\ Handle(EmptyRequest(execs[msgs[b].exec].req.client, msgs[b].mid))
    /\ rejected' = rejected \cup {b}
    /\ UNCHANGED <<open, msgs, lru, armed, fresh, thrown, acknowledged, timedOut, replayed>>
-----------------------------------------------------------------------------
(***************************************************************************)
(* The application, inside a listener or later.                            *)
(***************************************************************************)
\* Faulty: the _ackTimer is not cleared.
EndKeepsTimer(e) ==
    /\ ~thrown
    /\ ~execs[e].req.observe /\ ~execs[e].ended
    /\ execs' = [execs EXCEPT ![e].ended = TRUE]
    /\ SendResponse(e, execs[e].packet, FALSE)
    /\ UNCHANGED <<open, turn, observed>>

\* response.end() of an OutMessage whose payload needs no blocks.
End(e) ==
    /\ ~thrown
    /\ ~execs[e].req.observe /\ ~execs[e].ended
    /\ execs' = [execs EXCEPT ![e].ended = TRUE, ![e].timer = FALSE]
    /\ SendResponse(e, execs[e].packet, FALSE)
    /\ UNCHANGED <<open, turn, observed>>

\* response.write() of an ObserveStream; later notifications have message ids
\* of their own, and the type of the request.
Write(e) ==
    /\ ~thrown
    /\ execs[e].req.observe /\ ~execs[e].ended
    /\ execs[e].writes < MaxWrites
    /\ execs' = [execs EXCEPT
            ![e].writes = @ + 1,
            ![e].packet = [mid |-> NoMid, confirmable |-> execs[e].req.confirmable,
                           ack |-> ~execs[e].req.confirmable]]
    /\ SendResponse(e, execs[e].packet, FALSE)
    /\ UNCHANGED <<open, turn, observed>>

\* response.end() of an ObserveStream, without data.
Finish(e) ==
    /\ ~thrown
    /\ execs[e].req.observe /\ ~execs[e].ended
    /\ EndStream(e)
    /\ UNCHANGED <<open, turn, observed>>

\* The listeners of 'request' have returned.
ListenersReturn ==
    /\ ~thrown /\ turn # Loop
    /\ Slow \/ execs[turn].ended \/ execs[turn].writes > 0
    /\ turn' = Loop
    /\ UNCHANGED <<open, execs, msgs, lru, armed, fresh, thrown, observed>>

\* server.close(): the cache is cleared, which resets the senders in it.
Close ==
    /\ ServerCloses /\ ~thrown
    /\ open' = FALSE
    /\ lru' = {} /\ armed' = armed \ lru
    /\ execs' = [e \in Executions |-> [execs[e] EXCEPT !.dead = TRUE]]
    /\ UNCHANGED <<msgs, fresh, turn, thrown, observed>>

\* server.listen(), after close().
Listen ==
    /\ ~thrown /\ ~open
    /\ open' = TRUE
    /\ UNCHANGED <<execs, msgs, lru, armed, fresh, turn, thrown, observed>>
-----------------------------------------------------------------------------
(***************************************************************************)
(* Timers.                                                                 *)
(***************************************************************************)
\* genAck
GenAck(q) == [mid |-> q.mid, confirmable |-> FALSE, ack |-> TRUE]

\* _ackTimer: acknowledge the request; the response will be confirmable.
AckTimer(e) ==
    /\ Idle
    /\ execs[e].timer
    /\ SendResponse(e, GenAck(execs[e].req), TRUE)
    /\ execs' = [execs EXCEPT
            ![e].timer = FALSE,
            ![e].packet = [mid |-> NoMid, confirmable |-> TRUE, ack |-> FALSE]]
    /\ UNCHANGED <<open, turn, observed>>

\* The sender gives up.  For a confirmable message it emits 'error': a stream
\* is ended, any other response passes the error on to its listeners.
TimeOut(b) ==
    /\ Idle
    /\ b \in armed
    /\ armed' = armed \ {b}
    /\ timedOut' = timedOut \cup {b}
    /\ LET e == msgs[b].exec
       IN  execs' = IF execs[e].req.observe /\ msgs[b].type = "CON"
                    THEN [execs EXCEPT ![e].ended = TRUE] ELSE execs
    /\ UNCHANGED <<open, msgs, lru, fresh, turn, thrown, acknowledged, rejected, replayed>>

NetworkNext ==
    \/ \E q \in Requests : ReceiveRequest(q) \/ ReceiveDuplicate(q)
    \/ \E b \in Buffers : \/ ReceiveAck(b) \/ IgnoreAck(b)
                          \/ ReceiveReset(b) \/ ReceiveUnknownReset(b)

UserNext ==
    \/ \E e \in Executions : End(e) \/ Write(e) \/ Finish(e)
    \/ ListenersReturn
    \/ Close
    \/ Listen

TimerNext ==
    \/ \E e \in Executions : AckTimer(e)
    \/ \E b \in Buffers : TimeOut(b)

Next == NetworkNext \/ UserNext \/ TimerNext

Spec == Init /\ [][Next]_vars

\* Timers fire and listeners return; nothing is assumed of the network, nor
\* that the application ever answers.
Fairness ==
    /\ \A e \in 1..MaxExecutions : WF_vars(e \in Executions /\ AckTimer(e))
    /\ WF_vars(ListenersReturn)

FairSpec == Spec /\ Fairness
-----------------------------------------------------------------------------
Clients == {q.client : q \in Requests}

PacketRecords == [mid : Mids \cup {NoMid}, confirmable : BOOLEAN, ack : BOOLEAN]

ResponseRecords == [
    req : RequestRecords, timer : BOOLEAN, packet : PacketRecords,
    writes : 0..MaxWrites, ended : BOOLEAN, dead : BOOLEAN ]

BufferRecords == [
    exec : 1..MaxExecutions, type : {"CON", "NON", "ACK"}, mid : Mids,
    empty : BOOLEAN, key : Clients \X Seq(0..15), sent : BOOLEAN ]

TypeOK ==
    /\ {open, thrown} \subseteq BOOLEAN
    /\ execs \in Seq(ResponseRecords)
    /\ Len(execs) <= MaxExecutions
    /\ msgs \in Seq(BufferRecords)
    /\ \A b \in Buffers : msgs[b].exec \in Executions
    /\ lru \subseteq Buffers /\ armed \subseteq Buffers
    /\ fresh \in Nat
    /\ turn \in {Loop} \cup Executions
    /\ acknowledged \cup rejected \cup timedOut \subseteq Buffers
    /\ replayed \subseteq Requests \X Buffers

(***************************************************************************)
(* "should calculate the response only once" (test/server.ts:524): however *)
(* often a request arrives, its listeners run once.                        *)
(***************************************************************************)
ExecutedOnce ==
    \A d, e \in Executions : execs[d].req = execs[e].req => d = e

(***************************************************************************)
(* A duplicate is answered with a message made for that request ("should   *)
(* include the token", test/server.ts:433): no other message is cached     *)
(* under its key.                                                          *)
(***************************************************************************)
RepliesMatch == \A r \in replayed : execs[msgs[r[2]].exec].req = r[1]

\* No other of a client's messages falls together with b in the cache, neither
\* by its own key nor by that of its answer.
Alone(b) ==
    \A c \in Buffers : AnswerKey(b) \in {msgs[c].key, AnswerKey(c)} => c = b

(***************************************************************************)
(* The acknowledgement of a confirmable response stops its retransmission, *)
(* and nothing else does: what was neither answered nor given up is still  *)
(* retransmitted, on a socket that was not closed.  The two find each      *)
(* other through the cache, by a key made twice, so that this takes        *)
(* messages with keys of their own and a cache that holds every response.  *)
(***************************************************************************)
RetransmitsUntilAnswered ==
    \A b \in Buffers :
        /\ msgs[b].sent /\ msgs[b].type = "CON" /\ Alone(b)
        /\ ~execs[msgs[b].exec].dead
        => (b \in armed <=> b \notin acknowledged \cup rejected \cup timedOut)

(***************************************************************************)
(* Every acknowledgement, piggybacked or empty, carries the message id of  *)
(* a confirmable request, and _ackTimer and end() never both acknowledge   *)
(* the same one.  (Notifications of a NON observe request do not comply.)  *)
(***************************************************************************)
AcknowledgesOnce ==
    \A b \in Buffers :
        LET e == msgs[b].exec
        IN  msgs[b].type = "ACK" /\ (execs[e].req.observe => execs[e].req.confirmable) =>
                /\ execs[e].req.confirmable
                /\ msgs[b].mid = execs[e].req.mid
                /\ \A c \in Buffers : msgs[c].exec = e /\ msgs[c].type = "ACK" => c = b

(***************************************************************************)
(* Once the server is closed none of its senders retransmits, although     *)
(* close() only knows the senders it finds in the cache: whatever was      *)
(* evicted, overwritten or deleted before has been reset.                  *)
(***************************************************************************)
CloseStopsSenders == ~open => armed = {}

(***************************************************************************)
(* A client that rejects a confirmable notification, which it has not      *)
(* acknowledged, is no longer observing ("should emit a 'finish' if the    *)
(* client do a reset", test/server.ts:922), whichever of its notifications *)
(* it is, unless the server was closed and forgot it.                      *)
(***************************************************************************)
RejectionEndsStream ==
    \A b \in rejected \ acknowledged :
        LET response == execs[msgs[b].exec]
        IN  response.req.observe /\ msgs[b].type = "CON" /\ Alone(b) =>
                response.ended \/ response.dead

(***************************************************************************)
(* An ACK or RST that matches nothing is ignored: "nothing to do, ignoring *)
(* silently" (server.ts:466).  No RST is taken for a request.              *)
(***************************************************************************)
NoPhantomRequest == \A e \in Executions : ~execs[e].req.empty

(***************************************************************************)
(* A confirmable request gets an acknowledgement, whether or not the       *)
(* application ever answers, as long as the server is not closed (answers  *)
(* that come after that may throw, which ends the process).                *)
(***************************************************************************)
Awaits(e) ==
    /\ e \in Executions /\ ~thrown
    /\ execs[e].req.confirmable /\ ~execs[e].req.observe /\ ~execs[e].dead
    /\ \A b \in Buffers : msgs[b].exec = e /\ msgs[b].type = "ACK" =>
           ~msgs[b].sent /\ <<execs[e].req, b>> \notin replayed

AcknowledgesRequests == \A e \in 1..MaxExecutions : Awaits(e) ~> ~Awaits(e)
=============================================================================
