-------------------------------- MODULE Oscore --------------------------------
(***************************************************************************)
(* Requests that an Agent protects with OSCORE, through the middlewares of *)
(* a CoAPServer (middlewares.ts) to the application and back: decoding and *)
(* encoding are promises, between which everything else goes on.           *)
(*                                                                         *)
(* Datagrams stay in the network, so a sender's retransmissions are no     *)
(* steps of their own.  An OSCORE context is external: it numbers what it  *)
(* encodes, decodes no number twice, protects responses to requests it has *)
(* decoded, and after a restart refuses requests (status 201) until it is  *)
(* told that the client is live.                                           *)
(***************************************************************************)
EXTENDS SecurityContextManager, Sequences

CONSTANTS
    Requests,
    Token,            \* the token of each request
    SenderId,         \* its client's sender id (kid), None if it is unprotected
    IdContext,        \* and ID context
    Streams,          \* the requests that register an observation
    OscoreOnly,       \* the server refuses what is not protected
    Removable,        \* contexts that are removed and added while the server runs
    RegistersRefused, \* a context may protect responses to what it refused as 201
    ClearsRecovery,   \* clearRebootRecovery() exists
    Restored,         \* the server starts after a crash
    MaxRestarts,      \* bound: later restarts of the server
    MaxNonces,        \* bound: Echo challenges
    MaxTime           \* bound: of the clock

Context(r) == <<SenderId[r], IdContext[r]>>
Protected(r) == SenderId[r] # None
Contexts == {Context(r) : r \in {q \in Requests : Protected(q)}}

Nonces == [number : 0..MaxNonces, context : Contexts, at : 0..MaxTime, life : 0..MaxRestarts]

ASSUME OscoreAssumption ==
    /\ DOMAIN Token = Requests /\ DOMAIN SenderId = Requests /\ DOMAIN IdContext = Requests
    /\ Streams \subseteq Requests /\ Removable \subseteq Contexts
    /\ {OscoreOnly, RegistersRefused, ClearsRecovery, Restored} \subseteq BOOLEAN
    /\ {MaxRestarts, MaxNonces, MaxTime} \subseteq Nat
    /\ None \notin Contexts \cup Nonces

VARIABLES
    client,           \* what each request has come to
    numbers,          \* the last number each client context has used
    sent,             \* datagrams of the clients
    received,         \* replies that have arrived
    replies,          \* datagrams of the server
    contexts,         \* _contexts
    recovering,       \* contexts that refuse requests after a restart
    decoded,          \* datagrams a context has decoded, or that are older
    interactions,     \* what a context can protect responses to
    bindings,         \* _tokenToContext
    pending,          \* _pendingEchoNonces
    decoding,         \* promises of decode()
    open,             \* response objects that may still be written to
    encoding,         \* promises of encode()
    nonces,           \* Echo nonces made so far
    now,              \* Date.now()
    restarts,
    executed,         \* history: protected datagrams handed over since the last restart
    accepted,         \* history: the nonces that were accepted, when and by which life
    abandoned         \* history: requests whose stream was destroyed before it wrote

clientVars == <<client, numbers, sent, received>>
oscoreVars == <<recovering, decoded, interactions>>
managerVars == <<contexts, bindings, pending>>
serverVars == <<replies, oscoreVars, managerVars, decoding, open, encoding, nonces,
                now, restarts, executed, accepted, abandoned>>
vars == <<clientVars, serverVars>>

Init ==
    /\ client = [r \in Requests |-> [state |-> "new", response |-> None]]
    /\ numbers = [k \in Contexts |-> 0]
    /\ sent = {} /\ received = {} /\ replies = {}
    /\ contexts = Contexts
    /\ recovering = IF Restored THEN Contexts ELSE {}
    /\ decoded = {} /\ interactions = {}
    /\ bindings = EmptyMap /\ pending = EmptyMap
    /\ decoding = {} /\ open = {} /\ encoding = {}
    /\ nonces = 0 /\ now = 0 /\ restarts = 0
    /\ executed = <<>> /\ accepted = <<>> /\ abandoned = {}
-----------------------------------------------------------------------------
(***************************************************************************)
(* The client.                                                             *)
(***************************************************************************)
\* encode() of a request, with the nonce it echoes.
Transmit(r, echo) ==
    IF Protected(r)
    THEN /\ numbers' = [numbers EXCEPT ![Context(r)] = @ + 1]
         /\ sent' = sent \cup {[request |-> r, number |-> numbers'[Context(r)], echo |-> echo]}
    ELSE /\ sent' = sent \cup {[request |-> r, number |-> 0, echo |-> None]}
         /\ UNCHANGED numbers

Send(r) ==
    /\ client[r].state = "new"
    /\ client' = [client EXCEPT ![r].state = "sent"]
    /\ Transmit(r, None)
    /\ UNCHANGED <<received, serverVars>>

\* The token is known as long as there is no response.
Waits(r) == client[r].response = None

\* What is unprotected, under another context or was decoded before is an
\* 'error', though the request stays known and may still get its response.
Readable(m) ==
    /\ m \in replies
    /\ Protected(m.request) => m.context = Context(m.request) /\ m \notin received

\* The Echo challenge: the request is made again, once, with the same token.
ReceiveChallenge(m) ==
    LET r == m.request IN
    /\ Readable(m) /\ Waits(r)
    /\ m.code = "challenge" /\ client[r].state = "sent"
    /\ client' = [client EXCEPT ![r].state = "retried"]
    /\ Transmit(r, m.nonce)
    /\ received' = received \cup {m}
    /\ UNCHANGED serverVars

\* What else there is goes to the application, a second challenge included.
ReceiveResponse(m) ==
    LET r == m.request IN
    /\ Readable(m) /\ Waits(r)
    /\ m.code = "challenge" => client[r].state = "retried"
    /\ client' = [client EXCEPT ![r].response = m.code]
    /\ received' = received \cup {m}
    /\ UNCHANGED <<numbers, sent, serverVars>>
-----------------------------------------------------------------------------
(***************************************************************************)
(* The server.                                                             *)
(***************************************************************************)
Reply(r, context, code, nonce) ==
    [request |-> r, context |-> context, code |-> code, nonce |-> nonce]

\* _sendError
Unauthorized(r) == replies' = replies \cup {Reply(r, None, "unauthorized", None)}

\* The response object of a datagram.
Respond(m) == open' = open \cup {[datagram |-> m, hooked |-> FALSE]}

\* The 'request' event.
Execute(m) == Respond(m) /\ executed' = Append(executed, m)

\* A request without protection is refused, or goes on to _handle, which emits
\* 'request' for it as often as it finds no answer in its cache.
Unprotected(m) ==
    /\ m \in sent /\ ~Protected(m.request)
    /\ IF OscoreOnly THEN Unauthorized(m.request) /\ UNCHANGED open
       ELSE Respond(m) /\ UNCHANGED replies
    /\ UNCHANGED <<clientVars, oscoreVars, managerVars, decoding, encoding, nonces,
                   now, restarts, executed, accepted, abandoned>>

\* No context for it.
Unknown(m) ==
    /\ m \in sent /\ Protected(m.request) /\ Context(m.request) \notin contexts
    /\ Unauthorized(m.request)
    /\ UNCHANGED <<clientVars, oscoreVars, managerVars, decoding, open, encoding, nonces,
                   now, restarts, executed, accepted, abandoned>>

Interaction(m) == <<Context(m.request), Token[m.request]>>

\* oscore.decode() of a datagram that was decoded before rejects.
Repeated(m) ==
    /\ m \in sent /\ Protected(m.request) /\ Context(m.request) \in contexts \ recovering
    /\ m \in decoded
    /\ Unauthorized(m.request)
    /\ UNCHANGED <<clientVars, oscoreVars, managerVars, decoding, open, encoding, nonces,
                   now, restarts, executed, accepted, abandoned>>

\* Otherwise it resolves, or it rejects with the status that asks for an Echo.
Decode(m) ==
    LET k == Context(m.request)
        first == k \in recovering
    IN  /\ m \in sent /\ Protected(m.request) /\ k \in contexts
        /\ first \/ m \notin decoded
        /\ decoding' = decoding \cup {[datagram |-> m, first |-> first]}
        /\ decoded' = IF first THEN decoded ELSE decoded \cup {m}
        /\ interactions' = IF first /\ ~RegistersRefused THEN interactions
                           ELSE interactions \cup {<<k, Token[m.request]>>}
        /\ UNCHANGED <<clientVars, replies, recovering, managerVars, open, encoding, nonces,
                       now, restarts, executed, accepted, abandoned>>

\* A promise is settled.  Of those that ask for an Echo there may be more, as
\* the same datagram may have arrived more than once.
Settles(j) ==
    /\ j \in decoding
    /\ decoding' = IF j.first THEN decoding ELSE decoding \ {j}

Bind(r) == bindings' = BindToken(bindings, Token[r], Context(r), SenderId[r])

Decoded(j) ==
    /\ ~j.first
    /\ Settles(j)
    /\ Bind(j.datagram.request)
    /\ Execute(j.datagram)
    /\ UNCHANGED <<clientVars, replies, oscoreVars, contexts, pending, encoding, nonces,
                   now, restarts, accepted, abandoned>>

\* Faulty: what was echoed may be echoed again.
AfterEchoKept(k) == pending

AfterEcho(k) == ClearPendingEcho(pending, k)

\* Faulty: any nonce will do.
EchoesAny(m) == m.echo # None

Echoes(m) ==
    m.echo # None /\ m.echo = GetPendingEcho(pending, Context(m.request), now)

\* The pending nonce comes back: the client is live, and the request goes on.
Recover(j) ==
    LET m == j.datagram
        k == Context(m.request)
    IN  /\ j.first /\ Echoes(m)
        /\ Settles(j)
        /\ IF ClearsRecovery /\ k \in recovering
           THEN /\ recovering' = recovering \ {k}
                /\ decoded' = decoded \cup {d \in sent : /\ Protected(d.request)
                                                         /\ Context(d.request) = k
                                                         /\ d.number <= m.number}
           ELSE UNCHANGED <<recovering, decoded>>
        /\ pending' = AfterEcho(k)
        /\ accepted' = Append(accepted, [nonce |-> m.echo, by |-> k, at |-> now,
                                         life |-> restarts])
        /\ Bind(m.request)
        /\ Execute(m)
        /\ UNCHANGED <<clientVars, replies, interactions, contexts, encoding, nonces,
                       now, restarts, abandoned>>

\* A nonce is a number; its context and time are noted for the properties.
Nonce(k) == [number |-> nonces, context |-> k, at |-> now, life |-> restarts]

\* Otherwise the client has to echo a nonce, the latest one.
Challenge(j) ==
    LET m == j.datagram
        k == Context(m.request)
    IN  /\ j.first /\ ~Echoes(m)
        /\ nonces < MaxNonces
        /\ Settles(j)
        /\ nonces' = nonces + 1
        /\ pending' = StorePendingEcho(pending, k, Nonce(k), now)
        /\ encoding' = encoding \cup {Reply(m.request, k, "challenge", Nonce(k))}
        /\ UNCHANGED <<clientVars, replies, oscoreVars, contexts, bindings, open,
                       now, restarts, executed, accepted, abandoned>>

Closed(o) == IF o.datagram.request \in Streams THEN {} ELSE {o}

\* The application writes a response, or a notification: the context is that
\* of the token now, and without one it leaves as it is.
Answer(o) ==
    LET r == o.datagram.request
        k == IF Protected(r) THEN GetByToken(bindings, Token[r], SenderId[r]) ELSE None
    IN  /\ o \in open
        /\ IF k = None
           THEN /\ replies' = replies \cup {Reply(r, None, "content", None)}
                /\ open' = open \ Closed(o)
                /\ UNCHANGED encoding
           ELSE /\ encoding' = encoding \cup {Reply(r, k, "content", None)}
                /\ open' = (open \ {o}) \cup
                           (IF r \in Streams THEN {[o EXCEPT !.hooked = TRUE]} ELSE {})
                /\ UNCHANGED replies
        /\ UNCHANGED <<clientVars, oscoreVars, managerVars, decoding, nonces,
                       now, restarts, executed, accepted, abandoned>>

Unbound(r) == UnbindToken(bindings, Token[r], SenderId[r])

\* encode() resolves: the datagram leaves, and the token of a response, though
\* not of a notification or a challenge, is unbound.  Or it rejects: an 'error'
\* of the response, and nothing at all for a challenge.
Encoded(e) ==
    /\ e \in encoding
    /\ encoding' = encoding \ {e}
    /\ IF <<e.context, Token[e.request]>> \in interactions
       THEN /\ replies' = replies \cup {e}
            /\ bindings' = IF e.code = "content" /\ e.request \notin Streams
                           THEN Unbound(e.request) ELSE bindings
       ELSE UNCHANGED <<replies, bindings>>
    /\ UNCHANGED <<clientVars, oscoreVars, contexts, pending, decoding, open, nonces,
                   now, restarts, executed, accepted, abandoned>>

\* Faulty: the binding of a stream stays.
CloseStreamBound(o) ==
    /\ o \in open /\ o.datagram.request \in Streams
    /\ open' = open \ {o}
    /\ abandoned' = IF o.hooked THEN abandoned ELSE abandoned \cup {o.datagram.request}
    /\ UNCHANGED <<clientVars, replies, oscoreVars, managerVars, decoding, encoding,
                   nonces, now, restarts, executed, accepted>>

\* A stream closes.  It unbinds the token if a notification has been encoded
\* before: end() without one sends an empty one first, so that only a stream
\* that is destroyed has none.
CloseStream(o) ==
    /\ o \in open /\ o.datagram.request \in Streams
    /\ open' = open \ {o}
    /\ IF o.hooked
       THEN bindings' = Unbound(o.datagram.request) /\ UNCHANGED abandoned
       ELSE abandoned' = abandoned \cup {o.datagram.request} /\ UNCHANGED bindings
    /\ UNCHANGED <<clientVars, replies, oscoreVars, contexts, pending, decoding, encoding,
                   nonces, now, restarts, executed, accepted>>

\* addOscoreContext, removeOscoreContext
Change(k) ==
    /\ contexts' = IF k \in contexts THEN contexts \ {k} ELSE contexts \cup {k}
    /\ UNCHANGED <<clientVars, replies, oscoreVars, bindings, pending, decoding, open,
                   encoding, nonces, now, restarts, executed, accepted, abandoned>>

\* A crash: the server comes back with the contexts it has stored.
Restart ==
    /\ restarts < MaxRestarts
    /\ restarts' = restarts + 1
    /\ contexts' = Contexts /\ recovering' = Contexts
    /\ decoded' = {} /\ interactions' = {}
    /\ bindings' = EmptyMap /\ pending' = EmptyMap
    /\ decoding' = {} /\ open' = {} /\ encoding' = {}
    /\ executed' = <<>> /\ abandoned' = {}
    /\ UNCHANGED <<clientVars, replies, nonces, now, accepted>>

Tick ==
    /\ now < MaxTime
    /\ now' = now + 1
    /\ UNCHANGED <<clientVars, replies, oscoreVars, managerVars, decoding, open, encoding,
                   nonces, restarts, executed, accepted, abandoned>>
-----------------------------------------------------------------------------
ClientNext ==
    \/ \E r \in Requests : Send(r)
    \/ \E m \in replies : ReceiveChallenge(m) \/ ReceiveResponse(m)

ServerNext ==
    \/ \E m \in sent : Unprotected(m) \/ Unknown(m) \/ Repeated(m) \/ Decode(m)
    \/ \E j \in decoding : Decoded(j) \/ Recover(j) \/ Challenge(j)
    \/ \E o \in open : Answer(o) \/ CloseStream(o)
    \/ \E e \in encoding : Encoded(e)
    \/ \E k \in Removable : Change(k)
    \/ Restart
    \/ Tick

Next == ClientNext \/ ServerNext

Spec == Init /\ [][Next]_vars
-----------------------------------------------------------------------------
Datagrams == [request : Requests, number : Nat, echo : Nonces \cup {None}]

Replies == [request : Requests, context : Contexts \cup {None},
            code : {"content", "challenge", "unauthorized"}, nonce : Nonces \cup {None}]

Key(r) == TokenKey(SenderId[r], Token[r])
Keys == {Key(r) : r \in Requests}

\* A map from some keys to some values, of no more entries than it has room for.
Maps(map, keys, values, capacity) ==
    LET there == DOMAIN map IN
    /\ there \subseteq keys /\ Cardinality(there) <= capacity
    /\ map \in [there -> [value : values, older : SUBSET there]]

TypeOK ==
    /\ client \in [Requests -> [state : {"new", "sent", "retried"},
                                response : {None, "content", "challenge", "unauthorized"}]]
    /\ numbers \in [Contexts -> Nat]
    /\ sent \subseteq Datagrams /\ decoded \subseteq Datagrams
    /\ received \subseteq Replies /\ replies \subseteq Replies /\ encoding \subseteq Replies
    /\ contexts \subseteq Contexts /\ recovering \subseteq Contexts
    /\ interactions \subseteq Contexts \X {Token[r] : r \in Requests}
    /\ Maps(bindings, Keys, Contexts, MaxTokenBindings)
    /\ Maps(pending, Contexts, [nonce : Nonces, expiresAt : Nat], MaxPendingEchos)
    /\ decoding \subseteq [datagram : Datagrams, first : BOOLEAN]
    /\ open \subseteq [datagram : Datagrams, hooked : BOOLEAN]
    /\ nonces \in 0..MaxNonces /\ now \in 0..MaxTime /\ restarts \in 0..MaxRestarts
    /\ executed \in Seq(Datagrams) /\ abandoned \subseteq Requests
    /\ accepted \in Seq([nonce : Nonces, by : Contexts, at : 0..MaxTime,
                         life : 0..MaxRestarts])

(***************************************************************************)
(* "Response is automatically OSCORE-encrypted if the request was          *)
(* protected" (README.md:211), and by the context of its client, although  *)
(* the context is looked up by the token when the response is written.     *)
(***************************************************************************)
UnderOwnContext ==
    \A m \in replies : m.code = "content" =>
        m.context = IF Protected(m.request) THEN Context(m.request) ELSE None

(***************************************************************************)
(* An Echo nonce is accepted once, from the context it was made for, by    *)
(* the server that made it, before it expires, and as its latest one.      *)
(***************************************************************************)
EchoOnce ==
    \A i \in 1..Len(accepted) :
        LET a == accepted[i] IN
        /\ a.nonce.context = a.by /\ a.nonce.life = a.life
        /\ a.at < a.nonce.at + EchoTtl
        /\ \A j \in (i+1)..Len(accepted) :
              /\ accepted[j].nonce # a.nonce
              /\ accepted[j].by = a.by => accepted[j].nonce.number > a.nonce.number

(***************************************************************************)
(* A protected request is handed to the application once, whether it       *)
(* arrives as it was made or as it was made again with the nonce.          *)
(***************************************************************************)
ExecutedOnce ==
    \A i, j \in 1..Len(executed) : executed[i].request = executed[j].request => i = j

(***************************************************************************)
(* What any number of requests of a client leave of that: no datagram is   *)
(* handed to the application a second time, although a context that        *)
(* refuses requests does not mind repetition, promises of decode() that    *)
(* ask for an Echo are still under way when it has come back, and what     *)
(* was executed then was never decoded as such.                            *)
(***************************************************************************)
NoReplay == \A i, j \in 1..Len(executed) : executed[i] = executed[j] => i = j

(***************************************************************************)
(* Whatever is bound again, evicted, unbound or removed meanwhile, no      *)
(* reply is protected for a client of another sender id.                   *)
(***************************************************************************)
NeverForAnother ==
    \A m \in replies : m.context # None => m.context[1] = SenderId[m.request]

(***************************************************************************)
(* A binding is there for a response that is still to leave: what is       *)
(* answered does not stay in the map, nor does that of a stream which has  *)
(* closed.  Not so for a stream that is destroyed before it wrote anything *)
(* under a context: nothing releases its token (server.ts:526).            *)
(***************************************************************************)
BindingsAreOwed ==
    \A key \in DOMAIN bindings :
        \/ \E o \in open : Key(o.datagram.request) = key
        \/ \E r \in {e.request : e \in encoding} \cup abandoned : Key(r) = key
=============================================================================
