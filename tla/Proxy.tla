-------------------------------- MODULE Proxy --------------------------------
(***************************************************************************)
(* A CoAPServer with the proxy option between agents and the server that   *)
(* their requests name in Proxy-Uri (proxyRequest and handleProxyResponse  *)
(* of middlewares.ts, _sendProxied and _sendReverseProxied of server.ts).  *)
(* It keeps no exchange of its own: what arrives is sent on with its       *)
(* message id and token, and a map from tokens to requests finds the way   *)
(* back.                                                                   *)
(*                                                                         *)
(* The target answers repeated requests from its cache; all it sees comes  *)
(* from the proxy.  A datagram under way arrives, once or several times,   *)
(* or is lost, and a client without response sends its request again.      *)
(* Proxy-Uris are well-formed, and requests have tokens.                   *)
(***************************************************************************)
EXTENDS Naturals, FiniteSets

CONSTANTS
    Clients,          \* addresses and ports
    Requests,         \* their requests
    Owner,            \* the client of each request
    Mid, Token,       \* its message id and token
    Proxied,          \* the requests with a Proxy-Uri; others are the proxy's own
    Streams,          \* the requests with an Observe option
    MaxCopies,        \* bound: how often a client sends a request
    MaxUnderWay,      \* bound: how many datagrams are under way at a time
    None

ASSUME ProxyAssumption ==
    /\ None \notin Requests
    /\ Owner \in [Requests -> Clients]
    /\ DOMAIN Mid = Requests /\ DOMAIN Token = Requests
    /\ Proxied \subseteq Requests /\ Streams \subseteq Requests
    /\ {MaxCopies, MaxUnderWay} \subseteq Nat

VARIABLES
    network,          \* the datagrams under way
    copies,           \* how often each request has been sent
    cached,           \* the target's _lru: whose response it holds, by id and token
    proxiedRequests,  \* _proxiedRequests: the request of each token, or None
    answered,         \* the requests whose client has got a response
    lost              \* history: the requests that lost a datagram since they were last sent

vars == <<network, copies, cached, proxiedRequests, answered, lost>>

Tokens == {Token[r] : r \in Requests}
Mids == {Mid[r] : r \in Requests}

\* A datagram on one of the four ways between client, proxy and target: a
\* request, or what answers it, to the client it is for.
Datagram(hop, of, to, code) == [hop |-> hop, of |-> of, to |-> to, code |-> code]
Asking(hop, r) == Datagram(hop, r, None, "request")

Init ==
    /\ network = {}
    /\ copies = [r \in Requests |-> 0]
    /\ cached = [key \in Mids \X Tokens |-> None]
    /\ proxiedRequests = [t \in Tokens |-> None]
    /\ answered = {}
    /\ lost = {}

HasRoom(datagrams) == Cardinality(datagrams) <= MaxUnderWay

\* Datagram d arrives and new ones leave; a copy of it may be still under way.
Arrives(d, new) ==
    /\ d \in network
    /\ \/ network' = (network \ {d}) \cup new
       \/ network' = network \cup new /\ HasRoom(network \cup new)
-----------------------------------------------------------------------------
\* A client sends its request, the first time or again.
Send(r) ==
    /\ copies[r] < MaxCopies /\ r \notin answered
    /\ copies' = [copies EXCEPT ![r] = @ + 1]
    /\ network' = network \cup {Asking("toProxy", r)} /\ HasRoom(network')
    /\ lost' = lost \ {r}
    /\ UNCHANGED <<cached, proxiedRequests, answered>>

Lose(d) ==
    /\ d \in network
    /\ network' = network \ {d}
    /\ lost' = lost \cup {d.of}
    /\ UNCHANGED <<copies, cached, proxiedRequests, answered>>

\* Faulty: a request that the target has received before is not entered again.
EnterOnce(r) ==
    proxiedRequests' = IF cached[<<Mid[r], Token[r]>>] = r THEN proxiedRequests
                       ELSE [proxiedRequests EXCEPT ![Token[r]] = r]

\* proxyRequest: the token is entered before the datagram leaves.
Enter(r) == proxiedRequests' = [proxiedRequests EXCEPT ![Token[r]] = r]

\* removeProxyOptions, _sendProxied
Forward(d) ==
    /\ d = Asking("toProxy", d.of) /\ d.of \in Proxied
    /\ Arrives(d, {Asking("toTarget", d.of)})
    /\ Enter(d.of)
    /\ UNCHANGED <<copies, cached, answered, lost>>

\* The socket fails: handleEnding answers with 5.00.  The entry stays.
ForwardFails(d) ==
    /\ d = Asking("toProxy", d.of) /\ d.of \in Proxied
    /\ Arrives(d, {Datagram("toClient", d.of, Owner[d.of], "error")})
    /\ Enter(d.of)
    /\ UNCHANGED <<copies, cached, answered, lost>>

\* The target, with the response it holds for a message id and token.  A
\* request to observe may be answered without Observe.
TargetReceive(d) ==
    LET key == <<Mid[d.of], Token[d.of]>>
        of == IF cached[key] # None THEN cached[key] ELSE d.of
    IN  \E code \in {"response"} \cup (IF of \in Streams THEN {"notification"} ELSE {}) :
            /\ d.hop = "toTarget"
            /\ Arrives(d, {Datagram("toProxy", of, None, code)})
            /\ cached' = [cached EXCEPT ![key] = of]
            /\ UNCHANGED <<copies, proxiedRequests, answered, lost>>

\* Another notification, or a last response without Observe.
TargetNotifies(r) ==
    /\ r \in Streams /\ cached[<<Mid[r], Token[r]>>] = r
    /\ \E code \in {"response", "notification"} :
           network' = network \cup {Datagram("toProxy", r, None, code)}
    /\ HasRoom(network')
    /\ UNCHANGED <<copies, cached, proxiedRequests, answered, lost>>

\* The entry stays as long as there may be notifications.
After(token, observe) ==
    IF observe THEN proxiedRequests ELSE [proxiedRequests EXCEPT ![token] = None]

\* The request whose client gets what has this request's token.
Wayback(r) == proxiedRequests[Token[r]]

Answering(d) == d.hop = "toProxy" /\ d.code # "request"

\* handleProxyResponse, _sendReverseProxied; _handle ignores a response.
Return(d) ==
    /\ Answering(d) /\ Wayback(d.of) # None
    /\ Arrives(d, {Datagram("toClient", d.of, Owner[Wayback(d.of)], d.code)})
    /\ proxiedRequests' = After(Token[d.of], d.code = "notification")
    /\ UNCHANGED <<copies, cached, answered, lost>>

\* An answer that nobody is entered for goes nowhere.
Ignore(d) ==
    /\ Answering(d) /\ Wayback(d.of) = None
    /\ Arrives(d, {})
    /\ UNCHANGED <<copies, cached, proxiedRequests, answered, lost>>

\* A request without Proxy-Uri passes the same middleware, and whatever has a
\* token of the map is sent on as if it were an answer.
Serve(d) ==
    /\ d = Asking("toProxy", d.of) /\ d.of \notin Proxied
    /\ Arrives(d, IF Wayback(d.of) = None THEN {}
                  ELSE {Datagram("toClient", d.of, Owner[Wayback(d.of)], "request")})
    /\ proxiedRequests' = After(Token[d.of], d.of \in Streams)
    /\ UNCHANGED <<copies, cached, answered, lost>>

\* An agent finds its request by the token, and ignores requests.
ClientReceive(d) ==
    /\ d.hop = "toClient"
    /\ Arrives(d, {})
    /\ answered' = answered \cup {r \in Requests :
           copies[r] > 0 /\ Owner[r] = d.to /\ Token[r] = Token[d.of] /\ d.code # "request"}
    /\ UNCHANGED <<copies, cached, proxiedRequests, lost>>
-----------------------------------------------------------------------------
Delivers(d) ==
    \/ Forward(d) \/ ForwardFails(d) \/ Serve(d) \/ TargetReceive(d)
    \/ Return(d) \/ Ignore(d) \/ ClientReceive(d)

Next ==
    \/ \E r \in Requests : Send(r) \/ TargetNotifies(r)
    \/ \E d \in network : Delivers(d) \/ Lose(d)

Spec == Init /\ [][Next]_vars

Hops == {"toProxy", "toTarget", "toClient"}

\* No datagram is under way for ever: it arrives or is lost.
Fairness ==
    \A r \in Requests, hop \in Hops, asks \in BOOLEAN :
        WF_vars(\E d \in network : /\ d.of = r /\ d.hop = hop /\ (d.code = "request") = asks
                                   /\ Delivers(d) \/ Lose(d))

FairSpec == Spec /\ Fairness
-----------------------------------------------------------------------------
(***************************************************************************)
(* "should return the target response to the original requestor"           *)
(* (test/proxy.ts:140).  With tokens that clients share it fails, and with *)
(* others nothing else could happen.                                       *)
(***************************************************************************)
ToTheAsker == \A d \in network : d.hop = "toClient" => d.to = Owner[d.of]

(***************************************************************************)
(* "the response from this option will, in turn, be redirected to the      *)
(* caller" (README.md:116): a proxied request gets a response, or the      *)
(* proxy's error, unless a datagram is lost after it was last sent.  What  *)
(* was lost before that does not matter: copies of a request find their    *)
(* way back again, whichever answers were sent back already.               *)
(***************************************************************************)
Relayed == \A r \in Proxied : copies[r] > 0 ~> r \in answered \/ r \in lost
=============================================================================
