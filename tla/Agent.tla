------------------------------- MODULE Agent --------------------------------
(***************************************************************************)
(* The client side (src/lib/agent.ts): one UDP socket shared by the        *)
(* outstanding requests, two maps from message id and token to request,    *)
(* and the counters that decide when the socket is closed.                 *)
(*                                                                         *)
(* The Agent object is one record and each of its methods a function on    *)
(* it, so that a handler is a composition of the methods it calls.  Code   *)
(* runs to completion in Node's event loop: an action is one callback,     *)
(* except that a 'response' or 'timeout' listener is application code,     *)
(* which may call back into the agent (turn) before the handler goes on.   *)
(*                                                                         *)
(* The senders are those of RetrySend without their clock: a sender whose  *)
(* timers run is in armed and retransmits at most Retries times before it  *)
(* times out.  The peer and the network are one environment, which may     *)
(* answer a request that was sent any number of times, in any order, or    *)
(* never.  Blockwise transfer, the Echo retry and OSCORE are not part of   *)
(* this module: packets carry no such option.                              *)
(***************************************************************************)
EXTENDS Integers, FiniteSets

CONSTANTS
    Requests,         \* the requests an application may make
    None,             \* no request, no message id
    MaxMessageId,     \* maxMessageId: ids are 0 .. MaxMessageId - 1
    FirstMessageIds,  \* values of _lastMessageId when a socket is opened
    PeerMids,         \* message ids the peer uses for messages of its own
    Kinds,            \* kinds of request made, a subset of AllKinds
    Codes,            \* response codes, a subset of {"ok", "notFound"}
    Retries,          \* retransmissions of a confirmable request
    Unencodable,      \* requests whose packet generate() refuses
    MaxAcks,          \* bound: ACKs and RSTs being sent at a time
    MaxAnswers,       \* bound: 'response' events of one request
    CallsInListener,  \* the application calls the agent from its listeners
    UserCloses,       \* the application calls agent.close()
    ClosesStreams     \* how streams are closed: a subset of StreamUses

AllKinds == {"con", "non", "observe", "multicast", "deregister"}
StreamUses == {"close", "deregister", "consume"}
MessageIds == 0..(MaxMessageId - 1)

ASSUME AgentAssumption ==
    /\ MaxMessageId \in Nat \ {0}
    /\ FirstMessageIds \subseteq MessageIds /\ FirstMessageIds # {}
    /\ PeerMids \subseteq MessageIds
    /\ Kinds \subseteq AllKinds \ {"deregister"}
    /\ Codes \subseteq {"ok", "notFound"}
    /\ Retries \in Nat
    /\ Unencodable \subseteq Requests
    /\ {MaxAcks, MaxAnswers} \subseteq Nat
    /\ IsFiniteSet(Requests) /\ Requests \cap {"loop", "response"} = {}
    /\ None \notin Requests /\ None \notin MessageIds /\ None \notin AllKinds
    /\ ClosesStreams \subseteq StreamUses

VARIABLES
    agent,            \* the Agent object, its socket and its senders
    req,              \* the OutgoingMessage of each request
    turn,             \* "loop", "response", or the request timing out
    answers,          \* history: 'response' events of each request
    told,             \* history: what else happened to each request
    confirmed,        \* history: requests whose CON response was acknowledged
    asked             \* history: agent.close() was called and is not done

vars == <<agent, req, turn, answers, told, confirmed, asked>>
observed == <<answers, told, confirmed>>

Agents == [
    sock : {"null", "open", "closing"},
    closing : BOOLEAN,
    msgInFlight : Int,
    requests : Int,
    msgIdToReq : [MessageIds -> Requests \cup {None}],
    tkToReq : [Requests -> Requests \cup {None}],
    lastMessageId : MessageIds,
    armed : SUBSET Requests,        \* senders whose timers run
    sending : [Requests -> Nat],    \* 'sent' events to come, per sender
    acks : 0..MaxAcks,              \* ackSent callbacks to come
    thrown : BOOLEAN ]              \* history: a call on a closed socket threw

OutgoingMessages == [
    kind : AllKinds \cup {None},    \* None: request() has not been called
    mid : MessageIds \cup {None},   \* None: end() has not been called
    token : Requests,               \* the request whose token it carries
    left : 0..Retries,              \* retransmissions left
    timer : BOOLEAN,                \* multicastTimer is running
    dead : BOOLEAN,                 \* its sender's socket has been closed
    response : {"none", "message", "stream", "closed", "ended"},
    streamToken : Requests \cup {None} ]

\* A map with no entry.
EmptyMap(S) == [x \in S |-> None]

Unused(r) == [kind |-> None, mid |-> None, token |-> r, left |-> 0, timer |-> FALSE,
              dead |-> FALSE, response |-> "none", streamToken |-> None]

Init ==
    /\ \E first \in FirstMessageIds :
        agent = [sock |-> "open", closing |-> FALSE, msgInFlight |-> 0, requests |-> 0,
                 msgIdToReq |-> EmptyMap(MessageIds), tkToReq |-> EmptyMap(Requests),
                 lastMessageId |-> first, armed |-> {},
                 sending |-> [r \in Requests |-> 0], acks |-> 0, thrown |-> FALSE]
    /\ req = [r \in Requests |-> Unused(r)]
    /\ turn = "loop"
    /\ answers = [r \in Requests |-> 0]
    /\ told = [r \in Requests |-> {}]
    /\ confirmed = {}
    /\ asked = FALSE
-----------------------------------------------------------------------------
(***************************************************************************)
(* Methods of the Agent, as functions of the object a.                     *)
(***************************************************************************)
Outstanding(a) == {r \in Requests : \E m \in MessageIds : a.msgIdToReq[m] = r}

\* A second sock.close(), before the callback of the first, throws.
CloseSocket(a) ==
    IF a.sock = "closing" THEN [a EXCEPT !.thrown = TRUE]
    ELSE [a EXCEPT !.sock = IF @ = "open" THEN "closing" ELSE @]

\* _doClose
DoClose(a) == CloseSocket([a EXCEPT !.armed = @ \ Outstanding(a)])

\* Faulty: every request but the first is the last.
IsLastOfMany(a) == a.requests >= 1

\* The counter of unfinished requests has come down to zero.
IsLast(a) == a.requests = 1

\* _cleanUp: one request is over.
CleanUp(a) ==
    LET b == [a EXCEPT !.requests = @ - 1, !.closing = @ \/ IsLast(a)]
    IN  IF IsLast(a) /\ ~(a.msgInFlight > 0) THEN DoClose(b) ELSE b

\* Faulty: closes whenever nothing seems to be in flight.
HasSentOrLess(a) ==
    LET b == [a EXCEPT !.msgInFlight = @ - 1]
    IN  IF b.closing /\ b.msgInFlight <= 0 THEN DoClose(b) ELSE b

\* The 'sent' listener and ackSent: a datagram has left.
HasSent(a) ==
    LET b == [a EXCEPT !.msgInFlight = @ - 1]
    IN  IF b.closing /\ b.msgInFlight = 0 THEN DoClose(b) ELSE b

(***************************************************************************)
(* abort() of each request in R.  One of them may be the last unfinished   *)
(* request, and closes the socket unless something is still being sent.    *)
(***************************************************************************)
Abort(a, R) ==
    LET n == Cardinality(R)
        last == a.requests \in 1..n
        mids == {req[r].mid : r \in R}
        tokens == {req[r].token : r \in R}
        b == [a EXCEPT !.armed = @ \ R,
                       !.sending = [r \in Requests |-> IF r \in R THEN 0 ELSE @[r]],
                       !.msgInFlight = @ - n,
                       !.requests = @ - n,
                       !.closing = @ \/ last]
        c == IF last /\ ~(a.msgInFlight - a.requests > 0) THEN DoClose(b) ELSE b
    IN  [c EXCEPT !.msgIdToReq = [m \in MessageIds |-> IF m \in mids THEN None ELSE @[m]],
                  !.tkToReq = [t \in Requests |-> IF t \in tokens THEN None ELSE @[t]]]

\* _init, called by every request().
Opened(a, first) ==
    IF a.sock # "null" THEN [a EXCEPT !.closing = FALSE]
    ELSE [a EXCEPT !.sock = "open", !.closing = FALSE, !.msgInFlight = 0, !.requests = 0,
                   !.msgIdToReq = EmptyMap(MessageIds), !.tkToReq = EmptyMap(Requests),
                   !.lastMessageId = first]

\* Faulty: no wrap-around; the same id again.
NextMessageIdUnwrapped(a) == a.lastMessageId + 1
NextMessageIdSame(a) == a.lastMessageId

\* _nextMessageId
NextMessageId(a) == (a.lastMessageId + 1) % MaxMessageId

\* The closure request() gives to OutgoingMessage, run by end() of request r.
Submit(a, r, q) ==
    LET m == NextMessageId(a)
        b == [a EXCEPT !.lastMessageId = m, !.tkToReq[q.token] = r, !.msgIdToReq[m] = r]
    IN  IF r \in Unencodable THEN b
        ELSE IF q.dead \/ a.sock # "open" THEN [b EXCEPT !.thrown = TRUE]
        ELSE [b EXCEPT !.msgInFlight = @ + 1, !.armed = @ \cup {r},
                       !.sending[r] = IF q.kind = "multicast" THEN @ ELSE @ + 1]

\* A request that request() has just returned, and one that end() has submitted.
Fresh(r, kind, token) == [Unused(r) EXCEPT !.kind = kind, !.token = token,
                                           !.timer = (kind = "multicast")]
Submitted(a, q) == [q EXCEPT !.mid = NextMessageId(a),
                             !.left = IF q.kind \in {"non", "multicast"} THEN 0 ELSE Retries]

\* An uncaught exception ends the process.
Alive == ~agent.thrown

\* When application code may run: between callbacks, or inside a listener.
CanCall == Alive /\ IF turn = "loop" THEN agent.sock # "closing" ELSE CallsInListener
-----------------------------------------------------------------------------
(***************************************************************************)
(* Calls of the application.                                               *)
(***************************************************************************)
Request(r, kind) ==
    /\ CanCall
    /\ req[r].kind = None
    /\ \E first \in FirstMessageIds :
        agent' = [Opened(agent, first) EXCEPT !.requests = @ + 1]
    /\ req' = [req EXCEPT ![r] = Fresh(r, kind, r)]
    /\ asked' = FALSE
    /\ UNCHANGED <<turn, observed>>

End(r) ==
    /\ CanCall
    /\ req[r].kind # None /\ req[r].mid = None
    /\ agent' = Submit(agent, r, req[r])
    /\ req' = [req EXCEPT ![r] = Submitted(agent, @)]
    /\ told' = [told EXCEPT ![r] = @ \cup IF r \in Unencodable THEN {"error"} ELSE {}]
    /\ UNCHANGED <<turn, answers, confirmed, asked>>

\* agent.close(): close now, or abort what is outstanding.
Close ==
    /\ UserCloses /\ CanCall
    /\ agent' = IF Outstanding(agent) = {} /\ agent.msgInFlight = 0
                THEN DoClose(agent) ELSE Abort(agent, Outstanding(agent))
    /\ asked' = (agent.sock # "null")
    /\ UNCHANGED <<req, turn, observed>>

\* The 'close' listener of an observe stream.
StreamClosed(a, r) ==
    CleanUp(IF req[r].streamToken = None THEN a
            ELSE [a EXCEPT !.tkToReq[req[r].streamToken] = None])

\* ObserveReadStream.close()
CloseStream(r) ==
    /\ "close" \in ClosesStreams /\ CanCall
    /\ req[r].response = "stream"
    /\ agent' = StreamClosed(agent, r)
    /\ req' = [req EXCEPT ![r].response = "closed"]
    /\ UNCHANGED <<turn, observed, asked>>

\* ObserveReadStream.close(true): a deregister request with the same token.
CloseAndDeregister(r) ==
    /\ "deregister" \in ClosesStreams /\ CanCall
    /\ req[r].response = "stream"
    /\ \E d \in Requests, first \in FirstMessageIds :
        LET q == Fresh(d, "deregister", req[r].token)
            a == [Opened(StreamClosed(agent, r), first) EXCEPT !.requests = @ + 1]
        IN  /\ req[d].kind = None
            /\ agent' = Submit(a, d, q)
            /\ req' = [req EXCEPT ![r].response = "closed", ![d] = Submitted(a, q)]
    /\ UNCHANGED <<turn, observed, asked>>

(***************************************************************************)
(* A closed stream that the application reads to its end destroys itself:  *)
(* the stream library emits 'close' once more.                             *)
(***************************************************************************)
StreamEnds(r) ==
    /\ "consume" \in ClosesStreams
    /\ Alive /\ turn = "loop" /\ agent.sock # "closing"
    /\ req[r].response = "closed"
    /\ agent' = StreamClosed(agent, r)
    /\ req' = [req EXCEPT ![r].response = "ended"]
    /\ UNCHANGED <<turn, observed, asked>>
-----------------------------------------------------------------------------
(***************************************************************************)
(* Datagrams from the peer: what it may answer to a request it was sent.   *)
(***************************************************************************)
Packet(type, code, mid, tk) == [type |-> type, code |-> code, mid |-> mid, tk |-> tk]

Packets(r) ==
    LET q == req[r]
        sent == q.mid # None /\ r \notin Unencodable
        confirmable == q.kind \notin {"non", "multicast"}
    IN  {p \in {Packet("ACK", "empty", q.mid, None)} : sent /\ confirmable}
        \cup {p \in {Packet("RST", "empty", q.mid, None)} : sent /\ q.kind # "multicast"}
        \cup {p \in {Packet("ACK", code, q.mid, q.token) : code \in Codes} :
                  sent /\ confirmable}
        \cup {p \in {Packet(type, code, mid, q.token) :
                         type \in {"CON", "NON"}, code \in Codes, mid \in PeerMids} : sent}

\* The request a packet belongs to: by message id, else by token.
Found(a, p) ==
    IF a.msgIdToReq[p.mid] # None THEN a.msgIdToReq[p.mid]
    ELSE IF p.tk # None THEN a.tkToReq[p.tk] ELSE None

\* The packet carries a code and another token than the request found.
Mismatch(p, r) == p.code # "empty" /\ p.tk # req[r].token

\* Faulty: not counted.
ReplyUncounted(a) == [a EXCEPT !.acks = @ + 1]

\* An ACK or RST is handed to the socket.
Reply(a) == [a EXCEPT !.msgInFlight = @ + 1, !.acks = @ + 1]
Acknowledge(a, p) == IF p.type = "CON" THEN Reply(a) ELSE a

\* The socket's 'message' event, which only an open socket emits.
Arrives(p) ==
    /\ Alive /\ turn = "loop" /\ agent.sock = "open"
    /\ \E r \in Requests : p \in Packets(r)
    /\ agent.acks < MaxAcks

\* Nobody waits for it: refused, or ignored if it is an empty ACK or RST.
ReceiveUnknown(p) ==
    /\ Arrives(p)
    /\ Found(agent, p) = None
    /\ ~(p.type \in {"ACK", "RST"} /\ p.code = "empty")
    /\ agent' = Reply(agent)
    /\ UNCHANGED <<req, turn, observed, asked>>

\* The message id is known but the token is that of another request.
ReceiveMismatch(p) ==
    /\ Arrives(p)
    /\ Found(agent, p) # None
    /\ Mismatch(p, Found(agent, p))
    /\ agent' = Acknowledge(agent, p)
    /\ confirmed' = confirmed \cup IF p.type = "CON" THEN {agent.tkToReq[p.tk]} \ {None} ELSE {}
    /\ UNCHANGED <<req, turn, answers, told, asked>>

\* Faulty: no sender.reset().
SettleKeepsSender(a, p, r) ==
    IF p.type = "CON" \/ req[r].kind = "multicast" THEN Acknowledge(a, p)
    ELSE [Acknowledge(a, p) EXCEPT !.msgIdToReq[p.mid] = None]

\* sender.reset(), and the entry of the packet's message id is dropped.
Settle(a, p, r) ==
    LET b == [Acknowledge(a, p) EXCEPT !.armed = @ \ {r}]
    IN  IF p.type = "CON" \/ req[r].kind = "multicast" THEN b
        ELSE [b EXCEPT !.msgIdToReq[p.mid] = None]

\* An empty acknowledgement stops the sender, and that is all.
ReceiveAck(p) ==
    /\ Arrives(p)
    /\ p.type = "ACK" /\ p.code = "empty"
    /\ \E r \in Requests :
        /\ Found(agent, p) = r
        /\ agent' = Settle(agent, p, r)
        /\ told' = [told EXCEPT ![r] = @ \cup {"ack"}]
    /\ UNCHANGED <<req, turn, answers, confirmed, asked>>

IsResponse(p, r) == (p.code # "empty" \/ p.type = "RST") /\ ~Mismatch(p, r)

\* Faulty: an earlier response is not noticed.
AnsweredNever(r) == FALSE

Answered(r) == req[r].response # "none"

(***************************************************************************)
(* The request has its response: a notification goes to the stream, which  *)
(* is not modelled here, and anything else is dropped.                     *)
(***************************************************************************)
ReceiveMore(p) ==
    /\ Arrives(p)
    /\ \E r \in Requests :
        /\ Found(agent, p) = r
        /\ IsResponse(p, r) /\ Answered(r)
        /\ agent' = Settle(agent, p, r)
        /\ confirmed' = confirmed \cup IF p.type = "CON" THEN {r} ELSE {}
    /\ UNCHANGED <<req, turn, answers, told, asked>>

\* Whether the response is handed over as a stream of notifications.
OpensStream(p, r) == req[r].kind = "observe" /\ p.code # "notFound"

\* The token is given up, unless more responses are expected with it.
DropToken(a, p, r) ==
    IF p.tk = None \/ req[r].kind \in {"observe", "multicast"} THEN a
    ELSE [a EXCEPT !.tkToReq[p.tk] = None]

\* Faulty: no request cleans up; observe requests do, too.
CleansUpNever(r) == FALSE
CleansUpAlways(r) == TRUE

\* Whether _setObserveOption has made _cleanUp the first 'response' listener.
CleansUp(r) == req[r].kind \in {"con", "non", "multicast"}

\* The response a request waits for, up to the application's listeners.
ReceiveResponse(p) ==
    /\ Arrives(p)
    /\ \E r \in Requests :
        /\ Found(agent, p) = r
        /\ IsResponse(p, r) /\ ~Answered(r)
        /\ answers[r] < MaxAnswers
        /\ LET a == DropToken(Settle(agent, p, r), p, r)
           IN  agent' = IF CleansUp(r) THEN CleanUp(a) ELSE a
        /\ req' = [req EXCEPT
              ![r].response = IF req[r].kind = "multicast" THEN "none"
                              ELSE IF OpensStream(p, r) THEN "stream" ELSE "message",
              ![r].streamToken = IF OpensStream(p, r) THEN p.tk ELSE None]
        /\ answers' = [answers EXCEPT ![r] = @ + 1]
        /\ confirmed' = confirmed \cup IF p.type = "CON" THEN {r} ELSE {}
    /\ turn' = "response"
    /\ UNCHANGED <<told, asked>>
-----------------------------------------------------------------------------
(***************************************************************************)
(* The event loop.                                                         *)
(***************************************************************************)
\* Between callbacks; a socket's 'close' event comes before anything else.
Idle == Alive /\ turn = "loop" /\ agent.sock # "closing"

\* The sender's retransmission timer; a dead sender's socket throws.
Retransmit(r) ==
    /\ Idle
    /\ r \in agent.armed /\ req[r].left > 0
    /\ agent' = IF req[r].dead THEN [agent EXCEPT !.thrown = TRUE]
                ELSE [agent EXCEPT !.msgInFlight = @ + 1, !.sending[r] = @ + 1]
    /\ req' = [req EXCEPT ![r].left = @ - 1]
    /\ UNCHANGED <<turn, observed, asked>>

\* Faulty: the timeout is not reported.
TimeOutSilent(r) ==
    /\ Idle
    /\ r \in agent.armed
    /\ agent.sending[r] = 0
    /\ agent' = [agent EXCEPT !.armed = @ \ {r}]
    /\ turn' = r
    /\ UNCHANGED <<req, told, answers, confirmed, asked>>

(***************************************************************************)
(* The sender gives up.  By then, minutes after the last transmission, the *)
(* socket has called back.  The application's 'timeout' listener is first, *)
(***************************************************************************)
TimeOut(r) ==
    /\ Idle
    /\ r \in agent.armed
    /\ agent.sending[r] = 0
    /\ agent' = [agent EXCEPT !.armed = @ \ {r}]
    /\ turn' = r
    /\ told' = [told EXCEPT ![r] = @ \cup {"timeout"}]
    /\ UNCHANGED <<req, answers, confirmed, asked>>

\* and abort() when it has returned.
AbortTimedOut ==
    /\ Alive
    /\ turn \in Requests
    /\ agent' = Abort(agent, {turn})
    /\ turn' = "loop"
    /\ UNCHANGED <<req, observed, asked>>

\* The 'response' listeners have returned.
ListenersReturn ==
    /\ Alive
    /\ turn = "response"
    /\ turn' = "loop"
    /\ UNCHANGED <<agent, req, observed, asked>>

\* The socket's callback for a datagram of a sender that is not aborted.
Sent(r) ==
    /\ Alive /\ turn = "loop"
    /\ agent.sending[r] > 0
    /\ agent' = HasSent([agent EXCEPT !.sending[r] = @ - 1])
    /\ UNCHANGED <<req, turn, observed, asked>>

\* The socket's callback for an ACK or RST.
AckSent ==
    /\ Alive /\ turn = "loop"
    /\ agent.acks > 0
    /\ agent' = HasSent([agent EXCEPT !.acks = @ - 1])
    /\ UNCHANGED <<req, turn, observed, asked>>

\* multicastTimer: no more responses are expected.  The request was submitted
\* long before.
MulticastTimer(r) ==
    /\ Idle
    /\ req[r].timer /\ req[r].mid # None
    /\ agent' = HasSent([agent EXCEPT !.tkToReq[req[r].token] = None,
                                      !.msgIdToReq[req[r].mid] = None])
    /\ req' = [req EXCEPT ![r].timer = FALSE]
    /\ UNCHANGED <<turn, observed, asked>>

(***************************************************************************)
(* The callback of sock.close().  What the socket was still sending is     *)
(* dropped without a callback, and the senders made for it are useless.    *)
(***************************************************************************)
SocketClosed ==
    /\ Alive /\ turn = "loop"
    /\ agent.sock = "closing"
    /\ agent' = [agent EXCEPT !.sock = "null", !.acks = 0,
                              !.sending = [r \in Requests |-> 0]]
    /\ req' = [r \in Requests |->
                  IF req[r].kind = None THEN req[r] ELSE [req[r] EXCEPT !.dead = TRUE]]
    /\ asked' = FALSE
    /\ UNCHANGED <<turn, observed>>

UserNext ==
    \/ \E r \in Requests, kind \in Kinds : Request(r, kind)
    \/ \E r \in Requests : End(r) \/ CloseStream(r) \/ CloseAndDeregister(r) \/ StreamEnds(r)
    \/ Close

NetworkNext ==
    \E r \in Requests : \E p \in Packets(r) :
        \/ ReceiveUnknown(p)
        \/ ReceiveMismatch(p)
        \/ ReceiveAck(p)
        \/ ReceiveMore(p)
        \/ ReceiveResponse(p)

LoopNext ==
    \/ \E r \in Requests : Retransmit(r) \/ TimeOut(r) \/ Sent(r) \/ MulticastTimer(r)
    \/ AbortTimedOut
    \/ ListenersReturn
    \/ AckSent
    \/ SocketClosed

Next == UserNext \/ NetworkNext \/ LoopNext

Spec == Init /\ [][Next]_vars

(***************************************************************************)
(* Timers fire and callbacks run.  Nothing is assumed of the application,  *)
(* except that its listeners return, or of the network.                    *)
(***************************************************************************)
Fairness ==
    /\ \A r \in Requests :
        /\ WF_vars(TimeOut(r))
        /\ WF_vars(Sent(r))
        /\ WF_vars(MulticastTimer(r))
    /\ WF_vars(AckSent)
    /\ WF_vars(AbortTimedOut)
    /\ WF_vars(ListenersReturn)
    /\ WF_vars(SocketClosed)

FairSpec == Spec /\ Fairness
-----------------------------------------------------------------------------
TypeOK ==
    /\ agent \in Agents
    /\ req \in [Requests -> OutgoingMessages]
    /\ turn \in {"loop", "response"} \cup Requests
    /\ answers \in [Requests -> Nat]
    /\ told \in [Requests -> SUBSET {"ack", "timeout", "error"}]
    /\ confirmed \subseteq Requests
    /\ asked \in BOOLEAN

\* The agent's present socket carries an exchange for this request: it waits
\* for its response, for notifications, or for more multicast responses.
Unfinished(r) ==
    /\ req[r].kind # None /\ ~req[r].dead
    /\ told[r] \cap {"timeout", "error"} = {}
    /\ \/ req[r].kind = "multicast" /\ req[r].timer
       \/ req[r].kind # "multicast" /\ req[r].response = "none"
       \/ req[r].kind = "observe" /\ req[r].response = "stream"

\* Submitted on the present socket and not told anything yet.
Waiting(r) ==
    /\ Unfinished(r) /\ req[r].mid # None /\ r \notin Unencodable
    /\ answers[r] = 0 /\ told[r] = {}

(***************************************************************************)
(* However responses are duplicated, delayed, reordered or repeated under  *)
(* other message ids and types, a unicast request emits one 'response'.    *)
(***************************************************************************)
AtMostOneResponse ==
    \A r \in Requests : req[r].kind # "multicast" => answers[r] <= 1

\* A request that was reported as timed out has and gets no response.
OneOutcome ==
    \A r \in Requests :
        req[r].kind # "multicast" => ~(answers[r] > 0 /\ "timeout" \in told[r])

(***************************************************************************)
(* _requests counts the unfinished exchanges, through every order of       *)
(* responses, aborts, reopened sockets and calls from listeners.           *)
(***************************************************************************)
CountsUnfinished ==
    agent.sock = "open" =>
        agent.requests = Cardinality({r \in Requests : Unfinished(r)})
                            + IF turn \in Requests THEN 1 ELSE 0

(***************************************************************************)
(* "The socket will auto-close itself when no more exchange are in place"  *)
(* (README.md:752): never while one is.                                    *)
(***************************************************************************)
ClosesOnlyWhenIdle ==
    agent.sock = "closing" =>
        \A r \in Requests : req[r].kind # "multicast" => ~Unfinished(r)

(***************************************************************************)
(* A request that was told nothing is still being retried, and its answer  *)
(* would be found by message id and by token: it cannot hang.              *)
(***************************************************************************)
NeverForgotten ==
    \A r \in Requests : Waiting(r) =>
        /\ r \in agent.armed
        /\ agent.msgIdToReq[req[r].mid] = r
        /\ agent.tkToReq[req[r].token] = r

(***************************************************************************)
(* A response that the agent acknowledges is given to its request.  A peer *)
(* does not repeat a response that was acknowledged.  It holds only as     *)
(* long as no message id of the peer's is that of a pending request.       *)
(***************************************************************************)
AcknowledgedIsDelivered == \A r \in confirmed : answers[r] > 0

(***************************************************************************)
(* The socket is closed only when everything handed to it has left, in     *)
(* particular the acknowledgements (as long as no request was aborted:     *)
(* abort() takes a datagram off _msgInFlight that has left before).        *)
(***************************************************************************)
LeavesNothingUnsent ==
    agent.sock = "closing" /\ (\A r \in Requests : "timeout" \notin told[r]) =>
        agent.acks = 0 /\ \A r \in Requests : agent.sending[r] = 0

\* No call of the application, no timer and no listener uses a closed socket.
NeverThrows == ~agent.thrown

\* Every request that was submitted hears something, at least a timeout.
Resolves == \A r \in Requests : Waiting(r) ~> ~Waiting(r)

\* The socket is open although every exchange is over.
Lingers ==
    /\ agent.sock = "open"
    /\ \E r \in Requests : req[r].kind # None
    /\ \A r \in Requests : ~Unfinished(r)

(***************************************************************************)
(* "The socket will auto-close itself when no more exchange are in place", *)
(* unless the peer never falls silent: every stray message is refused, and *)
(* the refusal is waited for.                                              *)
(***************************************************************************)
AutoCloses == []<><<NetworkNext>>_vars \/ (Lingers ~> ~Lingers)

\* agent.close() completes, unless a new request overtakes it.
CloseCompletes == []<><<NetworkNext>>_vars \/ (asked ~> ~asked \/ agent.thrown)
=============================================================================
