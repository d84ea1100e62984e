---------------------------- MODULE Agent_proofs ----------------------------
(***************************************************************************)
(* Proofs about Agent, for every choice of its constants.  First for every *)
(* use an application makes of it (IInv), then for plain use (PInv).       *)
(***************************************************************************)
EXTENDS Agent, FiniteSetTheorems, TLAPS

Unicast(r) == req[r].kind # "multicast"

TimedOut(r) == "timeout" \in told[r]

\* An answer can find request r.
Registered(r) == \/ \E m \in MessageIds : agent.msgIdToReq[m] = r
                 \/ \E t \in Requests : agent.tkToReq[t] = r

\* Both maps lead to requests that were submitted under that id and token.
MapsSound ==
    /\ \A m \in MessageIds, r \in Requests : agent.msgIdToReq[m] = r => req[r].mid = m
    /\ \A t, r \in Requests :
           agent.tkToReq[t] = r => req[r].token = t /\ req[r].mid # None

\* What has become of request r.
Outcome(r) ==
    /\ req[r].kind = None => req[r].mid = None /\ req[r].response = "none"
    /\ req[r].mid = None => answers[r] = 0 /\ ~TimedOut(r)
    /\ Unicast(r) /\ answers[r] > 0 => answers[r] = 1 /\ req[r].response # "none"
    /\ r \in agent.armed => req[r].mid # None /\ (Unicast(r) => answers[r] = 0)
    /\ TimedOut(r) /\ Unicast(r) => answers[r] = 0
    /\ TimedOut(r) /\ turn # r => ~Registered(r)

IInv == TypeOK /\ MapsSound /\ \A r \in Requests : Outcome(r)

\* From agent a to b no sender is started and no map gains an entry.
Shrinks(a, b) ==
    /\ b \in Agents
    /\ b.armed \subseteq a.armed
    /\ \A m \in MessageIds : b.msgIdToReq[m] \in {a.msgIdToReq[m], None}
    /\ \A t \in Requests : b.tkToReq[t] \in {a.tkToReq[t], None}
-----------------------------------------------------------------------------
\* The methods of the Agent.

LEMMA ShrinksTransitive ==
    ASSUME NEW a, NEW b, NEW c, Shrinks(a, b), Shrinks(b, c)
    PROVE  Shrinks(a, c)
BY DEF Shrinks

LEMMA CloseSocketShrinks == ASSUME NEW a \in Agents PROVE Shrinks(a, CloseSocket(a))
BY DEF CloseSocket, Shrinks, Agents

LEMMA DoCloseShrinks == ASSUME NEW a \in Agents PROVE Shrinks(a, DoClose(a))
<1> DEFINE b == [a EXCEPT !.armed = @ \ Outstanding(a)]
<1>1. b \in Agents /\ Shrinks(a, b)
  BY DEF Shrinks, Agents
<1> HIDE DEF b
<1>2. Shrinks(b, CloseSocket(b))
  BY <1>1, CloseSocketShrinks
<1> QED BY <1>1, <1>2, ShrinksTransitive DEF DoClose, b

LEMMA CleanUpShrinks == ASSUME NEW a \in Agents PROVE Shrinks(a, CleanUp(a))
<1> DEFINE closing == a.closing \/ IsLast(a)
           less == a.requests - 1
           b == [a EXCEPT !.requests = less, !.closing = closing]
<1>1. closing \in BOOLEAN /\ less \in Int
  BY DEF Agents
<1> HIDE DEF closing, less
<1>2. b \in Agents /\ Shrinks(a, b)
  <2>1. b \in Agents
    BY <1>1 DEF Agents
  <2>2. b.armed = a.armed /\ b.msgIdToReq = a.msgIdToReq /\ b.tkToReq = a.tkToReq
    BY DEF Agents
  <2> HIDE DEF b
  <2> QED BY <2>1, <2>2 DEF Shrinks
<1> USE DEF closing, less
<1>3. CleanUp(a) = b \/ CleanUp(a) = DoClose(b)
  BY DEF CleanUp
<1> HIDE DEF b
<1> QED BY <1>2, <1>3, DoCloseShrinks, ShrinksTransitive

LEMMA HasSentShrinks == ASSUME NEW a \in Agents PROVE Shrinks(a, HasSent(a))
<1> DEFINE b == [a EXCEPT !.msgInFlight = @ - 1]
<1>1. b \in Agents /\ Shrinks(a, b)
  BY DEF Shrinks, Agents
<1>2. HasSent(a) = b \/ HasSent(a) = DoClose(b)
  BY DEF HasSent
<1> HIDE DEF b
<1> QED BY <1>1, <1>2, DoCloseShrinks, ShrinksTransitive

\* abort() takes the requests out of both maps.
LEMMA AbortShrinks ==
    ASSUME NEW a \in Agents, NEW R \in SUBSET Requests
    PROVE  /\ Shrinks(a, Abort(a, R))
           /\ \A r \in R : /\ \A m \in MessageIds : m = req[r].mid =>
                                  Abort(a, R).msgIdToReq[m] = None
                           /\ \A t \in Requests : t = req[r].token =>
                                  Abort(a, R).tkToReq[t] = None
<1> DEFINE n == Cardinality(R)
           last == a.requests \in 1..n
           closing == a.closing \/ last
           sending == [r \in Requests |-> IF r \in R THEN 0 ELSE a.sending[r]]
           armed == a.armed \ R
           inFlight == a.msgInFlight - n
           requests == a.requests - n
           mids == {req[r].mid : r \in R}
           tokens == {req[r].token : r \in R}
           b == [a EXCEPT !.armed = armed, !.sending = sending, !.msgInFlight = inFlight,
                          !.requests = requests, !.closing = closing]
           c == IF last /\ ~(a.msgInFlight - a.requests > 0) THEN DoClose(b) ELSE b
           d == [c EXCEPT !.msgIdToReq = [m \in MessageIds |-> IF m \in mids THEN None ELSE @[m]],
                          !.tkToReq = [t \in Requests |-> IF t \in tokens THEN None ELSE @[t]]]
<1>1. n \in Nat
  BY AgentAssumption, FS_Subset, FS_CardinalityType
<1>2. /\ closing \in BOOLEAN /\ sending \in [Requests -> Nat]
      /\ armed \in SUBSET Requests /\ armed \subseteq a.armed
      /\ inFlight \in Int /\ requests \in Int
  BY <1>1 DEF Agents
<1>3. Abort(a, R) = d
  BY DEF Abort
<1> HIDE DEF n, last, closing, sending, armed, inFlight, requests
<1>4. b \in Agents /\ Shrinks(a, b)
  <2>1. b \in Agents
    BY <1>2 DEF Agents
  <2>2. b.armed = armed /\ b.msgIdToReq = a.msgIdToReq /\ b.tkToReq = a.tkToReq
    BY DEF Agents
  <2> HIDE DEF b
  <2> QED BY <1>2, <2>1, <2>2 DEF Shrinks
<1> HIDE DEF b
<1>5. c \in Agents /\ Shrinks(a, c)
  <2>1. Shrinks(b, DoClose(b))
    BY <1>4, DoCloseShrinks
  <2>2. Shrinks(a, DoClose(b))
    BY <1>4, <2>1, ShrinksTransitive
  <2> QED BY <1>4, <2>2 DEF Shrinks
<1> HIDE DEF c
<1>6. /\ d \in Agents /\ d.armed = c.armed
      /\ \A m \in MessageIds : d.msgIdToReq[m] = IF m \in mids THEN None ELSE c.msgIdToReq[m]
      /\ \A t \in Requests : d.tkToReq[t] = IF t \in tokens THEN None ELSE c.tkToReq[t]
  BY <1>5 DEF Agents
<1> HIDE DEF d
<1>7. Shrinks(a, d)
  BY <1>5, <1>6 DEF Shrinks
<1> QED BY <1>3, <1>6, <1>7

LEMMA OpenedShrinks ==
    ASSUME NEW a \in Agents, NEW first \in FirstMessageIds
    PROVE  Shrinks(a, Opened(a, first))
<1>1. first \in MessageIds
  BY AgentAssumption
<1>2. CASE a.sock # "null"
  BY <1>2 DEF Shrinks, Opened, Agents
<1>3. CASE a.sock = "null"
  <2> DEFINE b == Opened(a, first)
             mids == EmptyMap(MessageIds)
             tokens == EmptyMap(Requests)
             zero == 0
  <2>1. b = [a EXCEPT !.sock = "open", !.closing = FALSE, !.msgInFlight = zero,
                      !.requests = zero, !.msgIdToReq = mids, !.tkToReq = tokens,
                      !.lastMessageId = first]
    BY <1>3 DEF Opened
  <2>2. /\ EmptyMap(MessageIds) \in [MessageIds -> Requests \cup {None}]
        /\ EmptyMap(Requests) \in [Requests -> Requests \cup {None}]
        /\ \A m \in MessageIds : EmptyMap(MessageIds)[m] = None
        /\ \A t \in Requests : EmptyMap(Requests)[t] = None
    BY DEF EmptyMap
  <2>3. zero \in Int
    OBVIOUS
  <2> HIDE DEF b, mids, tokens, zero
  <2>4. /\ b \in Agents /\ b.armed = a.armed
        /\ b.msgIdToReq = EmptyMap(MessageIds) /\ b.tkToReq = EmptyMap(Requests)
    <3>1. mids \in [MessageIds -> Requests \cup {None}]
          /\ tokens \in [Requests -> Requests \cup {None}]
      BY <2>2 DEF mids, tokens
    <3>2. b \in Agents
      BY <1>1, <2>1, <2>3, <3>1 DEF Agents
    <3>3. b.armed = a.armed /\ b.msgIdToReq = mids /\ b.tkToReq = tokens
      BY <2>1 DEF Agents
    <3> QED BY <3>2, <3>3 DEF mids, tokens
  <2>5. Shrinks(a, b)
    BY <2>2, <2>4 DEF Shrinks
  <2> QED BY <2>5 DEF b
<1> QED BY <1>2, <1>3

LEMMA StreamClosedShrinks ==
    ASSUME NEW a \in Agents, NEW r \in Requests, req \in [Requests -> OutgoingMessages]
    PROVE  Shrinks(a, StreamClosed(a, r))
<1> DEFINE b == IF req[r].streamToken = None THEN a
                ELSE [a EXCEPT !.tkToReq[req[r].streamToken] = None]
<1>1. req[r].streamToken \in Requests \cup {None}
  BY DEF OutgoingMessages
<1>2. b \in Agents /\ Shrinks(a, b)
  BY <1>1 DEF Shrinks, Agents
<1>3. StreamClosed(a, r) = CleanUp(b)
  BY DEF StreamClosed
<1> HIDE DEF b
<1> QED BY <1>2, <1>3, CleanUpShrinks, ShrinksTransitive

\* A request that is submitted is entered into both maps.
LEMMA SubmitFacts ==
    ASSUME NEW a \in Agents, NEW r \in Requests, NEW q \in OutgoingMessages
    PROVE  /\ NextMessageId(a) \in MessageIds
           /\ Submit(a, r, q) \in Agents
           /\ Submit(a, r, q).armed \subseteq a.armed \cup {r}
           /\ \A m \in MessageIds : Submit(a, r, q).msgIdToReq[m] =
                  IF m = NextMessageId(a) THEN r ELSE a.msgIdToReq[m]
           /\ \A t \in Requests : Submit(a, r, q).tkToReq[t] =
                  IF t = q.token THEN r ELSE a.tkToReq[t]
<1> DEFINE m == NextMessageId(a)
           b == [a EXCEPT !.lastMessageId = m, !.tkToReq[q.token] = r, !.msgIdToReq[m] = r]
<1>1. m \in MessageIds
  <2>1. a.lastMessageId + 1 \in Nat /\ MaxMessageId \in Nat \ {0}
    BY AgentAssumption DEF Agents, MessageIds
  <2>2. (a.lastMessageId + 1) % MaxMessageId \in 0..(MaxMessageId - 1)
    BY <2>1
  <2> QED BY <2>2 DEF NextMessageId, MessageIds
<1>2. q.token \in Requests
  BY DEF OutgoingMessages
<1> DEFINE s == Submit(a, r, q)
           sending == [a.sending EXCEPT ![r] = IF q.kind = "multicast" THEN @ ELSE @ + 1]
<1> HIDE DEF m
<1>3. /\ b \in Agents /\ b.armed = a.armed
      /\ \A i \in MessageIds : b.msgIdToReq[i] = IF i = m THEN r ELSE a.msgIdToReq[i]
      /\ \A t \in Requests : b.tkToReq[t] = IF t = q.token THEN r ELSE a.tkToReq[t]
  BY <1>1, <1>2 DEF Agents
<1>4. sending \in [Requests -> Nat]
  BY DEF Agents
<1>5. \/ s = b
      \/ s = [b EXCEPT !.thrown = TRUE]
      \/ s = [b EXCEPT !.msgInFlight = @ + 1, !.armed = @ \cup {r}, !.sending = sending]
  BY DEF Submit, m
<1> HIDE DEF b, s, sending
<1>6. /\ s \in Agents /\ s.armed \subseteq b.armed \cup {r}
      /\ s.msgIdToReq = b.msgIdToReq /\ s.tkToReq = b.tkToReq
  <2>1. CASE s = b
    BY <1>3, <2>1
  <2>2. CASE s = [b EXCEPT !.thrown = TRUE]
    BY <1>3, <2>2 DEF Agents
  <2>3. CASE s = [b EXCEPT !.msgInFlight = @ + 1, !.armed = @ \cup {r}, !.sending = sending]
    <3> DEFINE more == b.msgInFlight + 1
               armed == b.armed \cup {r}
    <3>1. s = [b EXCEPT !.msgInFlight = more, !.armed = armed, !.sending = sending]
      BY <2>3
    <3>2. more \in Int /\ armed \in SUBSET Requests
      BY <1>3 DEF Agents
    <3> HIDE DEF more, armed
    <3>3. s \in Agents
      BY <1>3, <1>4, <3>1, <3>2 DEF Agents
    <3>4. s.armed = armed /\ s.msgIdToReq = b.msgIdToReq /\ s.tkToReq = b.tkToReq
      BY <1>3, <3>1 DEF Agents
    <3> QED BY <3>3, <3>4 DEF armed
  <2> QED BY <1>5, <2>1, <2>2, <2>3
<1> QED BY <1>1, <1>3, <1>6 DEF s, m
\* The datagram p is one the peer may send: its fields have their types.
LEMMA PacketFacts ==
    ASSUME TypeOK, NEW r \in Requests, NEW p \in Packets(r)
    PROVE  /\ p.mid \in MessageIds /\ p.tk \in Requests \cup {None}
           /\ p.type \in {"ACK", "RST", "CON", "NON"}
<1>1. /\ req[r].mid \in MessageIds \cup {None} /\ req[r].token \in Requests
      /\ PeerMids \subseteq MessageIds
  BY AgentAssumption DEF TypeOK, OutgoingMessages
<1> QED BY <1>1 DEF Packets, Packet

LEMMA AcknowledgeShrinks ==
    ASSUME NEW a \in Agents, a.acks < MaxAcks, NEW p
    PROVE  Shrinks(a, Reply(a)) /\ Shrinks(a, Acknowledge(a, p))
<1> DEFINE more == a.msgInFlight + 1
           acks == a.acks + 1
           b == [a EXCEPT !.msgInFlight = more, !.acks = acks]
<1>1. more \in Int /\ acks \in 0..MaxAcks
  BY AgentAssumption DEF Agents
<1>2. Reply(a) = b
  BY DEF Reply
<1> HIDE DEF more, acks
<1>3. b \in Agents
  BY <1>1 DEF Agents
<1>4. b.armed = a.armed /\ b.msgIdToReq = a.msgIdToReq /\ b.tkToReq = a.tkToReq
  BY DEF Agents
<1> HIDE DEF b
<1>5. Shrinks(a, b) /\ Shrinks(a, a)
  BY <1>3, <1>4 DEF Shrinks
<1> QED BY <1>2, <1>5 DEF Acknowledge

\* The sender of the request is stopped.
LEMMA SettleShrinks ==
    ASSUME NEW a \in Agents, a.acks < MaxAcks, NEW r \in Requests,
           NEW p, p.mid \in MessageIds
    PROVE  Shrinks(a, Settle(a, p, r)) /\ r \notin Settle(a, p, r).armed
<1> DEFINE c == Acknowledge(a, p)
           b == [c EXCEPT !.armed = @ \ {r}]
<1>1. c \in Agents /\ Shrinks(a, c)
  BY AcknowledgeShrinks DEF Shrinks
<1>2. Settle(a, p, r) = b \/ Settle(a, p, r) = [b EXCEPT !.msgIdToReq[p.mid] = None]
  BY DEF Settle
<1> HIDE DEF c
<1>3. b \in Agents /\ Shrinks(c, b) /\ r \notin b.armed
  BY <1>1 DEF Shrinks, Agents
<1> HIDE DEF b
<1> DEFINE d == [b EXCEPT !.msgIdToReq[p.mid] = None]
<1>4. Shrinks(b, d) /\ r \notin d.armed
  BY <1>3 DEF Shrinks, Agents
<1> HIDE DEF d
<1>5. Shrinks(a, b) /\ Shrinks(a, d)
  BY <1>1, <1>3, <1>4, ShrinksTransitive
<1> QED BY <1>2, <1>3, <1>4, <1>5 DEF d

LEMMA DropTokenShrinks ==
    ASSUME NEW a \in Agents, NEW r \in Requests, NEW p, p.tk \in Requests \cup {None}
    PROVE  Shrinks(a, DropToken(a, p, r))
BY DEF DropToken, Shrinks, Agents
-----------------------------------------------------------------------------
\* The invariant is inductive.

LEMMA InitIInv == Init => IInv
<1> SUFFICES ASSUME Init PROVE IInv
  OBVIOUS
<1>1. PICK first \in FirstMessageIds :
        agent = [sock |-> "open", closing |-> FALSE, msgInFlight |-> 0, requests |-> 0,
                 msgIdToReq |-> EmptyMap(MessageIds), tkToReq |-> EmptyMap(Requests),
                 lastMessageId |-> first, armed |-> {},
                 sending |-> [r \in Requests |-> 0], acks |-> 0, thrown |-> FALSE]
  BY DEF Init
<1>2. /\ EmptyMap(MessageIds) \in [MessageIds -> Requests \cup {None}]
      /\ EmptyMap(Requests) \in [Requests -> Requests \cup {None}]
      /\ \A m \in MessageIds : EmptyMap(MessageIds)[m] = None
      /\ \A t \in Requests : EmptyMap(Requests)[t] = None
  BY DEF EmptyMap
<1>3. agent \in Agents
  <2>1. first \in MessageIds /\ 0 \in 0..MaxAcks
    BY AgentAssumption
  <2> QED BY <1>1, <1>2, <2>1 DEF Agents
<1>4. \A r \in Requests : /\ Unused(r) \in OutgoingMessages
                          /\ Unused(r).kind = None /\ Unused(r).mid = None
                          /\ Unused(r).response = "none"
  BY AgentAssumption DEF Unused, OutgoingMessages
<1>5. TypeOK
  BY <1>3, <1>4 DEF Init, TypeOK
<1>6. MapsSound
  BY <1>1, <1>2, AgentAssumption DEF MapsSound
<1>7. \A r \in Requests : Outcome(r)
  BY <1>1, <1>4 DEF Init, Outcome, TimedOut
<1> QED BY <1>5, <1>6, <1>7 DEF IInv

(***************************************************************************)
(* A step that submits nothing, delivers no response and gives nothing up. *)
(***************************************************************************)
LEMMA QuietStep ==
    ASSUME IInv, Shrinks(agent, agent'),
           req' \in [Requests -> OutgoingMessages],
           \A r \in Requests :
               /\ req'[r].kind = req[r].kind /\ req'[r].mid = req[r].mid
               /\ req'[r].token = req[r].token
               /\ req'[r].response = "none" <=> req[r].response = "none",
           turn' = turn \/ (turn' = "loop" /\ turn \notin Requests),
           answers' = answers,
           told' \in [Requests -> SUBSET {"ack", "timeout", "error"}],
           \A r \in Requests : TimedOut(r)' = TimedOut(r),
           confirmed' \subseteq Requests, asked' \in BOOLEAN
    PROVE  IInv'
<1> USE DEF IInv
<1>1. TypeOK'
  BY DEF TypeOK, Shrinks
<1>2. MapsSound'
  BY AgentAssumption DEF MapsSound, Shrinks
<1>3. ASSUME NEW r \in Requests PROVE Outcome(r)'
  <2>1. Registered(r)' => Registered(r)
    BY AgentAssumption DEF Registered, Shrinks
  <2>2. TimedOut(r)' /\ turn' # r => ~Registered(r)'
    BY <2>1, AgentAssumption DEF Outcome
  <2>3. Unicast(r)' = Unicast(r)
    BY DEF Unicast
  <2> QED BY <2>2, <2>3 DEF Outcome, Shrinks
<1> QED BY <1>1, <1>2, <1>3

\* end() of a request that had not been submitted.
LEMMA SubmitStep ==
    ASSUME IInv, NEW r \in Requests, NEW a, Shrinks(agent, a),
           NEW q \in OutgoingMessages, agent' = Submit(a, r, q),
           req[r].mid = None, q.kind # None,
           req' \in [Requests -> OutgoingMessages],
           req'[r].mid = NextMessageId(a), req'[r].token = q.token,
           req'[r].kind = q.kind, req'[r].response = req[r].response,
           req[r].kind # None => req[r].kind = q.kind,
           answers' = answers, answers[r] = 0,
           \A s \in Requests \ {r} :
               /\ req'[s].kind = req[s].kind /\ req'[s].mid = req[s].mid
               /\ req'[s].token = req[s].token
               /\ req'[s].response = "none" <=> req[s].response = "none",
           told' \in [Requests -> SUBSET {"ack", "timeout", "error"}],
           \A s \in Requests : TimedOut(s)' = TimedOut(s),
           UNCHANGED <<turn, confirmed>>, asked' \in BOOLEAN
    PROVE  IInv'
<1> USE DEF IInv
<1>1. a \in Agents
  BY DEF Shrinks
<1>2. /\ NextMessageId(a) \in MessageIds /\ agent' \in Agents
      /\ agent'.armed \subseteq agent.armed \cup {r}
      /\ \A m \in MessageIds : agent'.msgIdToReq[m] =
             IF m = NextMessageId(a) THEN r ELSE a.msgIdToReq[m]
      /\ \A t \in Requests : agent'.tkToReq[t] = IF t = q.token THEN r ELSE a.tkToReq[t]
  BY <1>1, SubmitFacts, SMTT(40) DEF Shrinks
<1>3. TypeOK'
  BY <1>2 DEF TypeOK
<1>4. NextMessageId(a) # None
  BY <1>2, AgentAssumption
<1>5. MapsSound'
  <2>1. ASSUME NEW m \in MessageIds, NEW s \in Requests, agent'.msgIdToReq[m] = s
        PROVE  req'[s].mid = m
    BY <1>2, <2>1, AgentAssumption DEF MapsSound, Shrinks
  <2>2. ASSUME NEW t \in Requests, NEW s \in Requests, agent'.tkToReq[t] = s
        PROVE  req'[s].token = t /\ req'[s].mid # None
    BY <1>2, <1>4, <2>2, AgentAssumption DEF MapsSound, Shrinks
  <2> QED BY <2>1, <2>2 DEF MapsSound
<1>6. ~TimedOut(r)
  BY DEF Outcome
<1>7. Outcome(r)'
  BY <1>2, <1>4, <1>6 DEF Outcome, Unicast
<1>8. ASSUME NEW s \in Requests \ {r} PROVE Outcome(s)'
  <2>1. Registered(s)' => Registered(s)
    BY <1>2, AgentAssumption DEF Registered, Shrinks
  <2>2. Unicast(s)' = Unicast(s)
    BY DEF Unicast
  <2>3. Outcome(s) /\ TimedOut(s)' = TimedOut(s)
    OBVIOUS
  <2> QED BY <1>2, <2>1, <2>2, <2>3 DEF Outcome
<1> QED BY <1>3, <1>5, <1>7, <1>8
-----------------------------------------------------------------------------
\* Calls of the application.

\* A request that request() returns has nothing to its name.
LEMMA FreshFacts ==
    ASSUME NEW r \in Requests, NEW t \in Requests, NEW kind \in AllKinds
    PROVE  /\ Fresh(r, kind, t) \in OutgoingMessages
           /\ Fresh(r, kind, t).kind = kind /\ Fresh(r, kind, t).mid = None
           /\ Fresh(r, kind, t).token = t /\ Fresh(r, kind, t).response = "none"
<1> DEFINE timer == (kind = "multicast")
<1>1. Fresh(r, kind, t) = [Unused(r) EXCEPT !.kind = kind, !.token = t, !.timer = timer]
  BY DEF Fresh
<1>2. Unused(r) \in OutgoingMessages /\ Unused(r).mid = None /\ Unused(r).response = "none"
  BY AgentAssumption DEF Unused, OutgoingMessages
<1>3. timer \in BOOLEAN
  OBVIOUS
<1> HIDE DEF timer
<1> QED BY <1>1, <1>2, <1>3, ZenonT(60) DEF OutgoingMessages

LEMMA SubmittedFacts ==
    ASSUME NEW a \in Agents, NEW q \in OutgoingMessages
    PROVE  LET s == Submitted(a, q)
           IN  /\ s \in OutgoingMessages /\ s.mid = NextMessageId(a)
               /\ s.kind = q.kind /\ s.token = q.token /\ s.response = q.response
<1> DEFINE left == IF q.kind \in {"non", "multicast"} THEN 0 ELSE Retries
           mid == NextMessageId(a)
<1>1. Submitted(a, q) = [q EXCEPT !.mid = mid, !.left = left]
  BY DEF Submitted
<1>2. left \in 0..Retries /\ mid \in MessageIds
  BY AgentAssumption, SubmitFacts DEF OutgoingMessages
<1> HIDE DEF left, mid
<1>3. [q EXCEPT !.mid = mid, !.left = left] \in OutgoingMessages
  BY <1>2 DEF OutgoingMessages
<1>4. LET s == [q EXCEPT !.mid = mid, !.left = left]
      IN  s.mid = mid /\ s.kind = q.kind /\ s.token = q.token /\ s.response = q.response
  BY DEF OutgoingMessages
<1> QED BY <1>1, <1>3, <1>4 DEF mid

LEMMA RequestStep ==
    ASSUME IInv, NEW r \in Requests, NEW kind \in Kinds, Request(r, kind)
    PROVE  IInv'
<1> USE DEF IInv
<1>1. PICK first \in FirstMessageIds :
          agent' = [Opened(agent, first) EXCEPT !.requests = @ + 1]
  BY DEF Request
<1> DEFINE a == Opened(agent, first)
<1>2. a \in Agents /\ Shrinks(agent, a)
  BY OpenedShrinks DEF TypeOK, Shrinks
<1> HIDE DEF a
<1>3. agent' = [a EXCEPT !.requests = @ + 1]
  BY <1>1 DEF a
<1>4. Shrinks(a, agent')
  BY <1>2, <1>3 DEF Shrinks, Agents
<1>5. Shrinks(agent, agent')
  BY <1>2, <1>4, ShrinksTransitive
<1>6. /\ req[r].kind = None /\ req' = [req EXCEPT ![r] = Fresh(r, kind, r)]
      /\ asked' = FALSE /\ UNCHANGED <<turn, answers, told, confirmed>>
  BY DEF Request, observed
<1>7. kind \in AllKinds /\ kind # None
  BY AgentAssumption
<1>8. /\ req'[r].kind = kind /\ req'[r].mid = None /\ req'[r].response = "none"
      /\ \A s \in Requests \ {r} : req'[s] = req[s]
      /\ req' \in [Requests -> OutgoingMessages]
  BY <1>6, <1>7, FreshFacts DEF TypeOK
<1>9. /\ req[r].mid = None /\ answers[r] = 0 /\ ~TimedOut(r)
      /\ r \notin agent.armed /\ ~Registered(r)
  BY <1>6, AgentAssumption DEF Outcome, Registered, MapsSound, TypeOK, OutgoingMessages
<1>10. TypeOK'
  BY <1>5, <1>6, <1>8 DEF TypeOK, Shrinks
<1>11. MapsSound'
  BY <1>5, <1>8, <1>9, AgentAssumption DEF MapsSound, Shrinks, Registered
<1>12. Outcome(r)'
  BY <1>5, <1>6, <1>7, <1>8, <1>9 DEF Outcome, TimedOut, Shrinks
<1>13. ASSUME NEW s \in Requests \ {r} PROVE Outcome(s)'
  <2>1. Registered(s)' => Registered(s)
    BY <1>5, AgentAssumption DEF Registered, Shrinks
  <2>2. Unicast(s)' = Unicast(s) /\ TimedOut(s)' = TimedOut(s)
    BY <1>6, <1>8 DEF Unicast, TimedOut
  <2> QED BY <1>5, <1>6, <1>8, <2>1, <2>2 DEF Outcome, Shrinks
<1> QED BY <1>10, <1>11, <1>12, <1>13

LEMMA EndStep == ASSUME IInv, NEW r \in Requests, End(r) PROVE IInv'
<1> USE DEF IInv
<1>1. /\ req[r].kind # None /\ req[r].mid = None
      /\ agent' = Submit(agent, r, req[r])
      /\ req' = [req EXCEPT ![r] = Submitted(agent, req[r])]
      /\ told' = [told EXCEPT ![r] = @ \cup IF r \in Unencodable THEN {"error"} ELSE {}]
      /\ UNCHANGED <<turn, answers, confirmed, asked>>
  BY DEF End
<1>2. Shrinks(agent, agent) /\ req[r] \in OutgoingMessages
  BY DEF TypeOK, Shrinks
<1>3. /\ req' \in [Requests -> OutgoingMessages]
      /\ req'[r].mid = NextMessageId(agent) /\ req'[r].token = req[r].token
      /\ req'[r].kind = req[r].kind /\ req'[r].response = req[r].response
      /\ \A s \in Requests \ {r} : req'[s] = req[s]
  BY <1>1, <1>2, SubmittedFacts DEF TypeOK
<1>4. told' \in [Requests -> SUBSET {"ack", "timeout", "error"}]
  BY <1>1 DEF TypeOK
<1>5. \A s \in Requests : TimedOut(s)' = TimedOut(s)
  BY <1>1 DEF TimedOut, TypeOK
<1>6. answers[r] = 0
  BY <1>1, <1>2 DEF Outcome
<1> QED BY <1>1, <1>2, <1>3, <1>4, <1>5, <1>6, SubmitStep DEF TypeOK

LEMMA CloseStep == ASSUME IInv, Close PROVE IInv'
<1> USE DEF IInv
<1>1. Shrinks(agent, agent')
  <2>1. agent \in Agents /\ Outstanding(agent) \in SUBSET Requests
    BY DEF TypeOK, Outstanding
  <2>2. agent' = DoClose(agent) \/ agent' = Abort(agent, Outstanding(agent))
    BY DEF Close
  <2> QED BY <2>1, <2>2, DoCloseShrinks, AbortShrinks
<1>2. /\ UNCHANGED <<req, turn, answers, told, confirmed>>
      /\ asked' = (agent.sock # "null")
  BY DEF Close, observed
<1>3. \A r \in Requests : TimedOut(r)' = TimedOut(r)
  BY <1>2 DEF TimedOut
<1>4. asked' \in BOOLEAN /\ req' = req /\ turn' = turn
  BY <1>2
<1>5. /\ req' \in [Requests -> OutgoingMessages] /\ confirmed' \subseteq Requests
      /\ told' \in [Requests -> SUBSET {"ack", "timeout", "error"}]
  BY <1>2 DEF TypeOK
<1> QED BY <1>1, <1>2, <1>3, <1>4, <1>5, QuietStep

\* A response that was handed over stays so.
LEMMA ResponseKept ==
    ASSUME TypeOK, NEW r \in Requests, NEW x \in {"closed", "ended", "message", "stream"},
           req' = [req EXCEPT ![r].response = x]
    PROVE  /\ req' \in [Requests -> OutgoingMessages]
           /\ \A s \in Requests :
                  /\ req'[s].kind = req[s].kind /\ req'[s].mid = req[s].mid
                  /\ req'[s].token = req[s].token
                  /\ req'[s].response = IF s = r THEN x ELSE req[s].response
<1> DEFINE q == [req[r] EXCEPT !.response = x]
<1>1. req \in [Requests -> OutgoingMessages] /\ req[r] \in OutgoingMessages
  BY DEF TypeOK
<1>2. /\ q \in OutgoingMessages /\ q.kind = req[r].kind /\ q.mid = req[r].mid
      /\ q.token = req[r].token /\ q.response = x
  BY <1>1 DEF OutgoingMessages
<1>3. req' = [req EXCEPT ![r] = q]
  OBVIOUS
<1> HIDE DEF q
<1> QED BY <1>1, <1>2, <1>3

LEMMA CloseStreamStep ==
    ASSUME IInv, NEW r \in Requests, CloseStream(r) \/ StreamEnds(r)
    PROVE  IInv'
<1> USE DEF IInv
<1>1. /\ agent' = StreamClosed(agent, r)
      /\ \E x \in {"closed", "ended"} : req' = [req EXCEPT ![r].response = x]
      /\ UNCHANGED <<turn, answers, told, confirmed, asked>>
  BY DEF CloseStream, StreamEnds, observed
<1>2. Shrinks(agent, agent')
  BY <1>1, StreamClosedShrinks DEF TypeOK
<1>3. /\ req' \in [Requests -> OutgoingMessages]
      /\ \A s \in Requests :
            /\ req'[s].kind = req[s].kind /\ req'[s].mid = req[s].mid
            /\ req'[s].token = req[s].token
            /\ req'[s].response = "none" <=> req[s].response = "none"
  <2>1. req[r].response # "none"
    BY DEF CloseStream, StreamEnds
  <2> QED BY <1>1, <2>1, ResponseKept, ZenonT(60)
<1>4. \A s \in Requests : TimedOut(s)' = TimedOut(s)
  BY <1>1 DEF TimedOut
<1>5. /\ asked' \in BOOLEAN /\ confirmed' \subseteq Requests
      /\ told' \in [Requests -> SUBSET {"ack", "timeout", "error"}]
  BY <1>1 DEF TypeOK
<1>6. turn' = turn /\ answers' = answers
  BY <1>1
<1> HIDE DEF IInv
<1> QED BY <1>2, <1>3, <1>4, <1>5, <1>6, QuietStep

LEMMA DeregisterStep ==
    ASSUME IInv, NEW r \in Requests, CloseAndDeregister(r)
    PROVE  IInv'
<1> USE DEF IInv
<1>1. PICK d \in Requests, first \in FirstMessageIds :
        LET q == Fresh(d, "deregister", req[r].token)
            a == [Opened(StreamClosed(agent, r), first) EXCEPT !.requests = @ + 1]
        IN  /\ req[d].kind = None
            /\ agent' = Submit(a, d, q)
            /\ req' = [req EXCEPT ![r].response = "closed", ![d] = Submitted(a, q)]
  BY DEF CloseAndDeregister
<1> DEFINE q == Fresh(d, "deregister", req[r].token)
           b == StreamClosed(agent, r)
           c == Opened(b, first)
           a == [c EXCEPT !.requests = @ + 1]
<1>2. /\ req[r].response = "stream" /\ UNCHANGED <<turn, answers, told, confirmed, asked>>
  BY DEF CloseAndDeregister, observed
<1>3. b \in Agents /\ Shrinks(agent, b)
  BY StreamClosedShrinks DEF TypeOK, Shrinks
<1> HIDE DEF b
<1>4. c \in Agents /\ Shrinks(b, c)
  BY <1>3, OpenedShrinks DEF Shrinks
<1> HIDE DEF c
<1>5. a \in Agents /\ Shrinks(c, a)
  BY <1>4 DEF Shrinks, Agents
<1>6. agent' = Submit(a, d, q) /\ req[d].kind = None
      /\ req' = [req EXCEPT ![r].response = "closed", ![d] = Submitted(a, q)]
  BY <1>1 DEF b, c
<1> HIDE DEF a
<1>7. Shrinks(agent, a)
  BY <1>3, <1>4, <1>5, ShrinksTransitive
<1>8. req[r] \in OutgoingMessages /\ req[d] \in OutgoingMessages
  BY DEF TypeOK
<1>9. /\ q \in OutgoingMessages /\ q.kind = "deregister" /\ q.response = "none"
  BY <1>8, FreshFacts DEF OutgoingMessages, AllKinds
<1>10. /\ Submitted(a, q) \in OutgoingMessages /\ Submitted(a, q).mid = NextMessageId(a)
       /\ Submitted(a, q).kind = q.kind /\ Submitted(a, q).token = q.token
       /\ Submitted(a, q).response = "none"
  BY <1>5, <1>9, SubmittedFacts
<1> HIDE DEF q
<1>11. q.kind # None
  BY <1>9, AgentAssumption DEF AllKinds
<1>12. /\ d # r /\ req[d].mid = None /\ req[d].response = "none"
       /\ answers[d] = 0
  BY <1>2, <1>6 DEF Outcome
<1> DEFINE x == [req[r] EXCEPT !.response = "closed"]
<1>13. /\ x \in OutgoingMessages /\ x.kind = req[r].kind /\ x.mid = req[r].mid
       /\ x.token = req[r].token /\ x.response = "closed"
  BY <1>8 DEF OutgoingMessages
<1>14. req' = [req EXCEPT ![r] = x, ![d] = Submitted(a, q)]
  BY <1>6
<1> HIDE DEF x
<1>15. /\ req' \in [Requests -> OutgoingMessages]
       /\ req'[d] = Submitted(a, q) /\ req'[r] = x
       /\ \A s \in Requests \ {d, r} : req'[s] = req[s]
  BY <1>10, <1>12, <1>13, <1>14 DEF TypeOK
<1>16. \A s \in Requests \ {d} :
           /\ req'[s].kind = req[s].kind /\ req'[s].mid = req[s].mid
           /\ req'[s].token = req[s].token
           /\ req'[s].response = "none" <=> req[s].response = "none"
  BY <1>2, <1>13, <1>15
<1>17. \A s \in Requests : TimedOut(s)' = TimedOut(s)
  BY <1>2 DEF TimedOut
<1> QED
  BY <1>2, <1>6, <1>7, <1>9, <1>10, <1>11, <1>12, <1>15, <1>16, <1>17, SubmitStep, SMTT(40)
  DEF TypeOK

LEMMA UserStep == ASSUME IInv, UserNext PROVE IInv'
BY RequestStep, EndStep, CloseStep, CloseStreamStep, DeregisterStep DEF UserNext
-----------------------------------------------------------------------------
\* Datagrams.

\* The request that a packet is found to belong to has been submitted, and
\* has not been given up.
LEMMA FoundFacts ==
    ASSUME IInv, NEW p, p.mid \in MessageIds, p.tk \in Requests \cup {None},
           NEW r \in Requests, Found(agent, p) = r, turn = "loop"
    PROVE  req[r].mid # None /\ req[r].kind # None /\ ~TimedOut(r)
<1> USE DEF IInv
<1>1. r # None /\ r # turn
  BY AgentAssumption
<1>2. Registered(r)
  BY <1>1 DEF Found, Registered
<1>3. req[r].mid # None
  BY <1>2, AgentAssumption DEF Registered, MapsSound
<1>4. ~TimedOut(r)
  BY <1>1, <1>2 DEF Outcome
<1> QED BY <1>3, <1>4 DEF Outcome

\* Those that only change the agent, or confirm or tell something harmless.
LEMMA ReceiveQuietStep ==
    ASSUME IInv, NEW s \in Requests, NEW p \in Packets(s),
           ReceiveUnknown(p) \/ ReceiveMismatch(p) \/ ReceiveAck(p) \/ ReceiveMore(p)
    PROVE  IInv'
<1> USE DEF IInv
<1>1. agent \in Agents /\ agent.acks < MaxAcks /\ turn = "loop"
  BY DEF ReceiveUnknown, ReceiveMismatch, ReceiveAck, ReceiveMore, Arrives, TypeOK
<1>2. p.mid \in MessageIds /\ p.tk \in Requests \cup {None}
  BY PacketFacts
<1>3. Shrinks(agent, agent')
  <2>1. CASE ReceiveUnknown(p) \/ ReceiveMismatch(p)
    BY <1>1, <2>1, AcknowledgeShrinks DEF ReceiveUnknown, ReceiveMismatch
  <2>2. CASE ReceiveAck(p) \/ ReceiveMore(p)
    <3>1. PICK r \in Requests : agent' = Settle(agent, p, r)
      BY <2>2 DEF ReceiveAck, ReceiveMore
    <3> QED BY <1>1, <1>2, <3>1, SettleShrinks
  <2> QED BY <2>1, <2>2
<1>4. UNCHANGED <<req, turn, answers, asked>>
  BY DEF ReceiveUnknown, ReceiveMismatch, ReceiveAck, ReceiveMore, observed
<1>5. confirmed' \subseteq Requests
  <2>1. CASE ReceiveMismatch(p)
    <3>1. p.type = "CON" => p.tk \in Requests
      BY AgentAssumption, <2>1, PacketFacts
      DEF Packets, Packet, TypeOK, OutgoingMessages
    <3> QED BY <2>1, <3>1 DEF ReceiveMismatch, TypeOK, Agents
  <2>2. CASE ~ReceiveMismatch(p)
    BY <2>2 DEF ReceiveUnknown, ReceiveAck, ReceiveMore, observed, TypeOK
  <2> QED BY <2>1, <2>2
<1>6. /\ told' \in [Requests -> SUBSET {"ack", "timeout", "error"}]
      /\ \A r \in Requests : TimedOut(r)' = TimedOut(r)
  <2>1. CASE told' = told
    BY <2>1 DEF TypeOK, TimedOut
  <2>2. CASE \E r \in Requests : told' = [told EXCEPT ![r] = @ \cup {"ack"}]
    BY <2>2 DEF TypeOK, TimedOut
  <2> QED
    BY <2>1, <2>2 DEF ReceiveUnknown, ReceiveMismatch, ReceiveAck, ReceiveMore, observed
<1>7. req' \in [Requests -> OutgoingMessages] /\ asked' \in BOOLEAN
  BY <1>4 DEF TypeOK
<1>8. turn' = turn /\ answers' = answers /\ req' = req
  BY <1>4
<1> QED BY <1>3, <1>5, <1>6, <1>7, <1>8, QuietStep

(***************************************************************************)
(* The response a request waits for.  Its sender is stopped, the request   *)
(* was not given up, and no other response was emitted before.             *)
(***************************************************************************)
LEMMA ResponseStep ==
    ASSUME IInv, NEW s \in Requests, NEW p \in Packets(s), ReceiveResponse(p)
    PROVE  IInv'
<1> USE DEF IInv
<1>1. /\ agent \in Agents /\ agent.acks < MaxAcks /\ turn = "loop"
      /\ turn' = "response" /\ UNCHANGED <<told, asked>>
  BY DEF ReceiveResponse, Arrives, TypeOK
<1>2. p.mid \in MessageIds /\ p.tk \in Requests \cup {None}
  BY PacketFacts
<1>3. PICK r \in Requests :
        /\ Found(agent, p) = r
        /\ ~Answered(r)
        /\ LET a == DropToken(Settle(agent, p, r), p, r)
           IN  agent' = IF CleansUp(r) THEN CleanUp(a) ELSE a
        /\ req' = [req EXCEPT
              ![r].response = IF req[r].kind = "multicast" THEN "none"
                              ELSE IF OpensStream(p, r) THEN "stream" ELSE "message",
              ![r].streamToken = IF OpensStream(p, r) THEN p.tk ELSE None]
        /\ answers' = [answers EXCEPT ![r] = @ + 1]
        /\ confirmed' = confirmed \cup IF p.type = "CON" THEN {r} ELSE {}
  BY DEF ReceiveResponse
<1>4. /\ req[r].mid # None /\ req[r].kind # None /\ ~TimedOut(r)
      /\ req[r].response = "none"
  BY <1>1, <1>2, <1>3, FoundFacts DEF Answered
<1>5. Shrinks(agent, agent') /\ r \notin agent'.armed
  <2> DEFINE b == Settle(agent, p, r)
             a == DropToken(b, p, r)
  <2>1. Shrinks(agent, b) /\ r \notin b.armed /\ b \in Agents
    BY <1>1, <1>2, SettleShrinks DEF Shrinks
  <2>2. agent' = a \/ agent' = CleanUp(a)
    BY <1>3
  <2> HIDE DEF b
  <2>3. Shrinks(b, a) /\ a \in Agents
    BY <1>2, <2>1, DropTokenShrinks DEF Shrinks
  <2> HIDE DEF a
  <2>4. Shrinks(agent, a) /\ r \notin a.armed
    BY <2>1, <2>3, ShrinksTransitive DEF Shrinks
  <2>5. Shrinks(agent, CleanUp(a)) /\ r \notin CleanUp(a).armed
    BY <2>3, <2>4, CleanUpShrinks, ShrinksTransitive DEF Shrinks
  <2> QED BY <2>2, <2>4, <2>5
<1> DEFINE x == IF req[r].kind = "multicast" THEN "none"
                ELSE IF OpensStream(p, r) THEN "stream" ELSE "message"
           y == IF OpensStream(p, r) THEN p.tk ELSE None
           q == [req[r] EXCEPT !.response = x, !.streamToken = y]
<1>6. /\ x \in {"none", "message", "stream"} /\ (Unicast(r) => x # "none")
      /\ y \in Requests \cup {None}
  BY <1>2 DEF Unicast
<1>7. req' = [req EXCEPT ![r] = q] /\ req[r] \in OutgoingMessages
  BY <1>3 DEF TypeOK
<1> HIDE DEF x, y
<1>8. /\ q \in OutgoingMessages /\ q.kind = req[r].kind /\ q.mid = req[r].mid
      /\ q.token = req[r].token /\ q.response = x
  BY <1>6, <1>7 DEF OutgoingMessages
<1> HIDE DEF q
<1>9. /\ req' \in [Requests -> OutgoingMessages] /\ req'[r] = q
      /\ \A t \in Requests \ {r} : req'[t] = req[t]
  BY <1>7, <1>8 DEF TypeOK
<1>10. /\ answers' \in [Requests -> Nat] /\ answers'[r] = answers[r] + 1
       /\ \A t \in Requests \ {r} : answers'[t] = answers[t]
  BY <1>3 DEF TypeOK
<1>11. TypeOK'
  BY <1>1, <1>3, <1>5, <1>9, <1>10 DEF TypeOK, Shrinks
<1>12. MapsSound'
  BY <1>5, <1>8, <1>9, AgentAssumption DEF MapsSound, Shrinks
<1>13. ASSUME NEW t \in Requests PROVE Registered(t)' => Registered(t)
  BY <1>5, AgentAssumption DEF Registered, Shrinks
<1>14. Outcome(r)'
  <2>1. TimedOut(r)' = TimedOut(r) /\ Unicast(r)' = Unicast(r)
    BY <1>1, <1>8, <1>9 DEF TimedOut, Unicast
  <2>2. Unicast(r) => answers[r] = 0
    BY <1>4 DEF Outcome, TypeOK
  <2>3. answers[r] + 1 > 0
    BY DEF TypeOK
  <2> QED BY <1>4, <1>5, <1>6, <1>8, <1>9, <1>10, <2>1, <2>2, <2>3 DEF Outcome
<1>15. ASSUME NEW t \in Requests \ {r} PROVE Outcome(t)'
  <2>1. TimedOut(t)' = TimedOut(t) /\ Unicast(t)' = Unicast(t)
    BY <1>1, <1>9 DEF TimedOut, Unicast
  <2>2. TimedOut(t) => ~Registered(t)'
    BY <1>1, <1>13, AgentAssumption DEF Outcome
  <2> QED BY <1>5, <1>9, <1>10, <2>1, <2>2 DEF Outcome, Shrinks
<1> QED BY <1>11, <1>12, <1>14, <1>15

LEMMA NetworkStep == ASSUME IInv, NetworkNext PROVE IInv'
BY ReceiveQuietStep, ResponseStep DEF NetworkNext
-----------------------------------------------------------------------------
\* The event loop.

LEMMA TimeOutStep == ASSUME IInv, NEW r \in Requests, TimeOut(r) PROVE IInv'
<1> USE DEF IInv
<1>1. /\ agent' = [agent EXCEPT !.armed = @ \ {r}] /\ r \in agent.armed
      /\ turn = "loop" /\ turn' = r
      /\ told' = [told EXCEPT ![r] = @ \cup {"timeout"}]
      /\ UNCHANGED <<req, answers, confirmed, asked>>
  BY DEF TimeOut, Idle
<1>2. agent' \in Agents /\ Shrinks(agent, agent')
  BY <1>1 DEF TypeOK, Shrinks, Agents
<1>3. /\ told' \in [Requests -> SUBSET {"ack", "timeout", "error"}]
      /\ \A s \in Requests \ {r} : TimedOut(s)' = TimedOut(s)
  BY <1>1 DEF TypeOK, TimedOut
<1>4. TypeOK'
  BY <1>1, <1>2, <1>3 DEF TypeOK
<1>5. MapsSound'
  BY <1>1, <1>2, AgentAssumption DEF MapsSound, Shrinks
<1>6. ASSUME NEW s \in Requests PROVE Registered(s)' => Registered(s)
  BY <1>2, AgentAssumption DEF Registered, Shrinks
<1>7. Outcome(r)'
  BY <1>1, <1>2 DEF Outcome, Unicast, Shrinks
<1>8. ASSUME NEW s \in Requests \ {r} PROVE Outcome(s)'
  <2>1. TimedOut(s) => ~Registered(s)'
    BY <1>1, <1>6, AgentAssumption DEF Outcome
  <2> QED BY <1>1, <1>2, <1>3, <2>1 DEF Outcome, Unicast, Shrinks
<1> QED BY <1>4, <1>5, <1>7, <1>8

\* abort() after 'timeout': no answer can find the request from now on.
LEMMA AbortStep == ASSUME IInv, AbortTimedOut PROVE IInv'
<1> USE DEF IInv
<1>1. PICK r \in Requests : r = turn
  BY DEF AbortTimedOut
<1>2. /\ turn' = "loop" /\ agent' = Abort(agent, {r})
      /\ UNCHANGED <<req, answers, told, confirmed, asked>>
  BY <1>1 DEF AbortTimedOut, observed
<1>3. /\ Shrinks(agent, agent')
      /\ \A m \in MessageIds : m = req[r].mid => agent'.msgIdToReq[m] = None
      /\ \A t \in Requests : t = req[r].token => agent'.tkToReq[t] = None
  BY <1>2, AbortShrinks DEF TypeOK
<1>4. UNCHANGED <<req, answers, told, confirmed, asked>> /\ turn' = "loop"
  BY <1>2
<1>5. TypeOK'
  BY <1>3, <1>4 DEF TypeOK, Shrinks
<1>6. MapsSound'
  BY <1>3, <1>4, AgentAssumption DEF MapsSound, Shrinks
<1>7. ASSUME NEW s \in Requests PROVE Registered(s)' => Registered(s)
  BY <1>3, AgentAssumption DEF Registered, Shrinks
<1>8. ~Registered(r)'
  BY <1>3, <1>6, <1>4, AgentAssumption DEF Registered, MapsSound
<1>9. ASSUME NEW s \in Requests PROVE Outcome(s)'
  <2>1. TimedOut(s)' = TimedOut(s) /\ Unicast(s)' = Unicast(s)
    BY <1>4 DEF TimedOut, Unicast
  <2>2. TimedOut(s) => ~Registered(s)'
    BY <1>1, <1>7, <1>8 DEF Outcome
  <2> QED BY <1>3, <1>4, <2>1, <2>2 DEF Outcome, Shrinks
<1> QED BY <1>5, <1>6, <1>9

\* Timers, callbacks of the socket, and the return of listeners.
LEMMA LoopQuietStep ==
    ASSUME IInv,
           \/ \E r \in Requests : Retransmit(r) \/ Sent(r) \/ MulticastTimer(r)
           \/ ListenersReturn \/ AckSent \/ SocketClosed
    PROVE  IInv'
<1> USE DEF IInv
<1>1. agent \in Agents /\ req \in [Requests -> OutgoingMessages]
  BY DEF TypeOK
<1>2. Shrinks(agent, agent')
  <2>1. ASSUME NEW r \in Requests, Retransmit(r) PROVE Shrinks(agent, agent')
    <3> DEFINE more == agent.msgInFlight + 1
               sending == [agent.sending EXCEPT ![r] = @ + 1]
    <3>1. \/ agent' = [agent EXCEPT !.thrown = TRUE]
          \/ agent' = [agent EXCEPT !.msgInFlight = more, !.sending = sending]
      BY <2>1 DEF Retransmit
    <3>2. more \in Int /\ sending \in [Requests -> Nat]
      BY <1>1 DEF Agents
    <3> HIDE DEF more, sending
    <3>3. agent' \in Agents
      BY <1>1, <3>1, <3>2, ZenonT(60) DEF Agents
    <3>4. /\ agent'.armed = agent.armed /\ agent'.msgIdToReq = agent.msgIdToReq
          /\ agent'.tkToReq = agent.tkToReq
      BY <1>1, <3>1 DEF Agents
    <3> QED BY <3>3, <3>4 DEF Shrinks
  <2>2. ASSUME NEW r \in Requests, Sent(r) PROVE Shrinks(agent, agent')
    <3> DEFINE b == [agent EXCEPT !.sending[r] = @ - 1]
    <3>1. b \in Agents /\ Shrinks(agent, b)
      BY <1>1, <2>2 DEF Sent, Shrinks, Agents
    <3>2. agent' = HasSent(b)
      BY <2>2 DEF Sent
    <3> HIDE DEF b
    <3> QED BY <3>1, <3>2, HasSentShrinks, ShrinksTransitive
  <2>3. ASSUME NEW r \in Requests, MulticastTimer(r) PROVE Shrinks(agent, agent')
    <3> DEFINE b == [agent EXCEPT !.tkToReq[req[r].token] = None,
                                  !.msgIdToReq[req[r].mid] = None]
    <3>1. b \in Agents /\ Shrinks(agent, b)
      BY <1>1, <2>3 DEF Shrinks, Agents
    <3>2. agent' = HasSent(b)
      BY <2>3 DEF MulticastTimer
    <3> HIDE DEF b
    <3> QED BY <3>1, <3>2, HasSentShrinks, ShrinksTransitive
  <2>4. CASE AckSent
    <3> DEFINE b == [agent EXCEPT !.acks = @ - 1]
    <3>1. b \in Agents /\ Shrinks(agent, b)
      BY <1>1, <2>4, AgentAssumption DEF AckSent, Shrinks, Agents
    <3>2. agent' = HasSent(b)
      BY <2>4 DEF AckSent
    <3> HIDE DEF b
    <3> QED BY <3>1, <3>2, HasSentShrinks, ShrinksTransitive
  <2>5. CASE SocketClosed
    <3> DEFINE sending == [r \in Requests |-> 0]
               none == 0
    <3>1. agent' = [agent EXCEPT !.sock = "null", !.acks = none, !.sending = sending]
      BY <2>5 DEF SocketClosed
    <3>2. sending \in [Requests -> Nat] /\ none \in 0..MaxAcks
      BY AgentAssumption
    <3> HIDE DEF sending, none
    <3>3. agent' \in Agents
      BY <1>1, <3>1, <3>2 DEF Agents
    <3>4. /\ agent'.armed = agent.armed /\ agent'.msgIdToReq = agent.msgIdToReq
          /\ agent'.tkToReq = agent.tkToReq
      BY <1>1, <3>1 DEF Agents
    <3> QED BY <3>3, <3>4 DEF Shrinks
  <2>6. CASE ListenersReturn
    BY <1>1, <2>6 DEF ListenersReturn, Shrinks
  <2> QED BY <2>1, <2>2, <2>3, <2>4, <2>5, <2>6
<1>3. /\ req' \in [Requests -> OutgoingMessages]
      /\ \A r \in Requests :
            /\ req'[r].kind = req[r].kind /\ req'[r].mid = req[r].mid
            /\ req'[r].token = req[r].token /\ req'[r].response = req[r].response
  <2>1. ASSUME NEW r \in Requests, Retransmit(r) PROVE <1>3!:
    <3> DEFINE left == req[r].left - 1
               q == [req[r] EXCEPT !.left = left]
    <3>1. req[r] \in OutgoingMessages /\ left \in 0..Retries
      <4>1. req[r] \in OutgoingMessages /\ req[r].left \in 0..Retries
        BY <1>1 DEF OutgoingMessages
      <4>2. req[r].left > 0
        BY <2>1 DEF Retransmit
      <4> QED BY <4>1, <4>2, AgentAssumption
    <3>2. req' = [req EXCEPT ![r] = q]
      BY <2>1 DEF Retransmit
    <3> HIDE DEF left
    <3>3. /\ q \in OutgoingMessages /\ q.kind = req[r].kind /\ q.mid = req[r].mid
          /\ q.token = req[r].token /\ q.response = req[r].response
      BY <3>1 DEF OutgoingMessages
    <3> HIDE DEF q
    <3> QED BY <1>1, <3>2, <3>3
  <2>2. ASSUME NEW r \in Requests, MulticastTimer(r) PROVE <1>3!:
    <3> DEFINE stopped == FALSE
               q == [req[r] EXCEPT !.timer = stopped]
    <3>1. req[r] \in OutgoingMessages /\ stopped \in BOOLEAN
      BY <1>1
    <3>2. req' = [req EXCEPT ![r] = q]
      BY <2>2 DEF MulticastTimer
    <3> HIDE DEF stopped
    <3>3. /\ q \in OutgoingMessages /\ q.kind = req[r].kind /\ q.mid = req[r].mid
          /\ q.token = req[r].token /\ q.response = req[r].response
      BY <3>1 DEF OutgoingMessages
    <3> HIDE DEF q
    <3> QED BY <1>1, <3>2, <3>3
  <2>3. CASE SocketClosed
    <3>1. req' = [r \in Requests |->
                     IF req[r].kind = None THEN req[r] ELSE [req[r] EXCEPT !.dead = TRUE]]
      BY <2>3 DEF SocketClosed
    <3>2. ASSUME NEW r \in Requests, NEW dead \in BOOLEAN
          PROVE  LET q == [req[r] EXCEPT !.dead = dead]
                 IN  /\ q \in OutgoingMessages /\ q.kind = req[r].kind
                     /\ q.mid = req[r].mid /\ q.token = req[r].token
                     /\ q.response = req[r].response
      BY <1>1 DEF OutgoingMessages
    <3> QED BY <1>1, <3>1, <3>2
  <2>4. CASE req' = req
    BY <1>1, <2>4
  <2> QED BY <2>1, <2>2, <2>3, <2>4 DEF Sent, ListenersReturn, AckSent
<1>4. /\ answers' = answers /\ told' = told /\ confirmed' = confirmed
      /\ turn' = turn \/ (turn' = "loop" /\ turn = "response")
  BY DEF Retransmit, Sent, MulticastTimer, ListenersReturn, AckSent, SocketClosed, observed
<1>5. asked' \in BOOLEAN
  BY DEF Retransmit, Sent, MulticastTimer, ListenersReturn, AckSent, SocketClosed, TypeOK
<1>6. /\ confirmed' \subseteq Requests
      /\ told' \in [Requests -> SUBSET {"ack", "timeout", "error"}]
  BY <1>4 DEF TypeOK
<1>7. \A r \in Requests : TimedOut(r)' = TimedOut(r)
  BY <1>4 DEF TimedOut
<1>8. turn' = turn \/ (turn' = "loop" /\ turn \notin Requests)
  BY <1>4, AgentAssumption
<1> QED BY <1>2, <1>3, <1>4, <1>5, <1>6, <1>7, <1>8, QuietStep

LEMMA LoopStep == ASSUME IInv, LoopNext PROVE IInv'
BY TimeOutStep, AbortStep, LoopQuietStep DEF LoopNext

LEMMA StutterStep == ASSUME IInv, UNCHANGED vars PROVE IInv'
BY DEF vars, IInv, TypeOK, MapsSound, Outcome, Unicast, TimedOut, Registered

LEMMA Inductive == Spec => []IInv
<1>1. ASSUME IInv, [Next]_vars PROVE IInv'
  BY <1>1, UserStep, NetworkStep, LoopStep, StutterStep DEF Next
<1> QED BY InitIInv, <1>1, PTL DEF Spec
-----------------------------------------------------------------------------
\* What the invariant gives, for every value of the constants.

\* The agent's variables keep their types.
THEOREM TypeCorrect == Spec => []TypeOK
BY Inductive, PTL DEF IInv

(***************************************************************************)
(* One 'response' for a unicast request, whatever is duplicated, delayed   *)
(* or reordered and whatever the application does meanwhile.               *)
(***************************************************************************)
THEOREM RespondsOnce == Spec => []AtMostOneResponse
<1>1. IInv => AtMostOneResponse
  BY DEF IInv, TypeOK, Outcome, Unicast, AtMostOneResponse
<1> QED BY <1>1, Inductive, PTL

(***************************************************************************)
(* A unicast request times out or is answered, never both: abort() takes   *)
(* it out of both maps, although others may have taken its entries.        *)
(***************************************************************************)
THEOREM EndsInOneWay == Spec => []OneOutcome
<1>1. IInv => OneOutcome
  BY DEF IInv, Outcome, Unicast, TimedOut, OneOutcome
<1> QED BY <1>1, Inductive, PTL
-----------------------------------------------------------------------------
(***************************************************************************)
(* The agent under plain use: unicast requests, listeners that do not call *)
(* back, streams that are only closed, and no close() of the application.  *)
(***************************************************************************)
PlainUse ==
    /\ Kinds \cap {"multicast"} = {}
    /\ ~CallsInListener /\ ~UserCloses
    /\ ClosesStreams \subseteq {"close"}

\* The next message id is not that of a request that is still retransmitted.
NextIdFree == \A r \in agent.armed : req[r].mid # NextMessageId(agent)

\* Request r is counted in _requests: it is not over, or nobody counts its end.
Counted(r) ==
    /\ req[r].kind # None /\ ~req[r].dead /\ ~TimedOut(r)
    /\ \/ req[r].response = "none"
       \/ req[r].kind = "observe" /\ req[r].response # "closed"

CountedRequests == {r \in Requests : Counted(r)}

\* A request that has timed out is counted until it has been aborted.
Exchanges == Cardinality(CountedRequests) + IF turn \in Requests THEN 1 ELSE 0

\* Datagrams of requests that the socket has been handed and has not sent.
Unsent(a) == UNION {{r} \X (1..a.sending[r]) : r \in Requests}

\* The counters of agent a, where n exchanges are under way.  Once a request
\* was aborted, the number of datagrams in flight is right no more.
Account(a, n, calm) ==
    /\ ~a.thrown
    /\ a.sock = "open" => a.requests = n
    /\ a.sock # "open" => n = 0
    /\ a.closing => a.requests = 0
    /\ a.sock = "closing" => a.msgInFlight <= 0
    /\ a.sock = "null" => a.acks = 0 /\ \A r \in Requests : a.sending[r] = 0
    /\ IsFiniteSet(Unsent(a))
    /\ calm => a.msgInFlight = a.acks + Cardinality(Unsent(a))

Calm == \A r \in Requests : ~TimedOut(r)

\* What a request looks like under plain use.
Plain(r) ==
    /\ req[r].kind \in {None, "con", "non", "observe"} /\ ~req[r].timer
    /\ req[r].token = r /\ req[r].streamToken \in {r, None}
    /\ req[r].response \in {"none", "message", "stream", "closed"}
    /\ req[r].response = "stream" => req[r].kind = "observe" /\ ~req[r].dead
    /\ req[r].response # "none" => answers[r] > 0
    /\ req[r].mid = None => told[r] = {} /\ ~req[r].dead
    /\ "error" \in told[r] => r \in Unencodable
    /\ req[r].kind = "observe" =>
          "observe" \in Kinds /\ (req[r].response = "message" => "notFound" \in Codes)

\* A request that waits is retransmitted and found by its token; and by its
\* message id, too, if free says that no other took it.
Pursued(r, free) ==
    /\ r \in agent.armed => Counted(r) /\ (free => agent.msgIdToReq[req[r].mid] = r)
    /\ Waiting(r) => /\ r \in agent.armed
                     /\ agent.tkToReq[req[r].token] = r
    /\ turn = r => TimedOut(r) /\ (free => agent.msgIdToReq[req[r].mid] = r)

\* The maps are new when the socket is.
FoundAlive == agent.sock # "null" => \A r \in Requests : Registered(r) => ~req[r].dead

PInv(free) ==
    /\ FoundAlive
    /\ Account(agent, Exchanges, Calm)
    /\ \A r \in Requests : Plain(r) /\ Pursued(r, free)
-----------------------------------------------------------------------------
\* What the methods of the Agent do to its counters.

LEMMA UnsentMore ==
    ASSUME NEW a, NEW b, a.sending \in [Requests -> Nat], NEW r \in Requests,
           b.sending = [a.sending EXCEPT ![r] = @ + 1], IsFiniteSet(Unsent(a))
    PROVE  /\ IsFiniteSet(Unsent(b))
           /\ Cardinality(Unsent(b)) = Cardinality(Unsent(a)) + 1
<1> DEFINE k == a.sending[r]
<1>1. k \in Nat /\ b.sending[r] = k + 1
  OBVIOUS
<1>2. <<r, k + 1>> \notin Unsent(a)
  BY <1>1 DEF Unsent
<1>3. Unsent(b) = Unsent(a) \cup {<<r, k + 1>>}
  <2>1. 1..(k + 1) = (1..k) \cup {k + 1}
    BY <1>1
  <2>2. \A s \in Requests : {s} \X (1..b.sending[s]) =
            ({s} \X (1..a.sending[s])) \cup IF s = r THEN {<<r, k + 1>>} ELSE {}
    BY <1>1, <2>1
  <2> HIDE DEF k
  <2> QED BY <2>2 DEF Unsent
<1> HIDE DEF k
<1>4. /\ IsFiniteSet(Unsent(a) \cup {<<r, k + 1>>})
      /\ Cardinality(Unsent(a) \cup {<<r, k + 1>>}) = Cardinality(Unsent(a)) + 1
  BY <1>2, FS_AddElement
<1> QED BY <1>3, <1>4

LEMMA UnsentLess ==
    ASSUME NEW a, NEW b, a.sending \in [Requests -> Nat], NEW r \in Requests,
           a.sending[r] > 0, b.sending = [a.sending EXCEPT ![r] = @ - 1],
           IsFiniteSet(Unsent(a))
    PROVE  /\ b.sending \in [Requests -> Nat] /\ IsFiniteSet(Unsent(b))
           /\ Cardinality(Unsent(a)) = Cardinality(Unsent(b)) + 1
<1>1. b.sending \in [Requests -> Nat]
  OBVIOUS
<1>2. \A s \in Requests : 1..b.sending[s] \subseteq 1..a.sending[s]
  OBVIOUS
<1>3. Unsent(b) \subseteq Unsent(a)
  BY <1>2 DEF Unsent
<1>4. IsFiniteSet(Unsent(b))
  BY <1>3, FS_Subset
<1>5. a.sending = [b.sending EXCEPT ![r] = @ + 1]
  OBVIOUS
<1> QED BY <1>1, <1>4, <1>5, UnsentMore

\* No datagram is left exactly if every count is zero.
LEMMA UnsentNone ==
    ASSUME NEW a, a.sending \in [Requests -> Nat], IsFiniteSet(Unsent(a))
    PROVE  Cardinality(Unsent(a)) = 0 <=> \A r \in Requests : a.sending[r] = 0
<1>1. Cardinality(Unsent(a)) = 0 <=> Unsent(a) = {}
  BY FS_EmptySet
<1>2. ASSUME Unsent(a) = {}, NEW r \in Requests PROVE a.sending[r] = 0
  <2>1. {r} \X (1..a.sending[r]) = {}
    BY <1>2 DEF Unsent
  <2>2. a.sending[r] > 0 => <<r, 1>> \in {r} \X (1..a.sending[r])
    OBVIOUS
  <2> QED BY <2>1, <2>2
<1>3. ASSUME \A r \in Requests : a.sending[r] = 0 PROVE Unsent(a) = {}
  BY <1>3 DEF Unsent
<1> QED BY <1>1, <1>2, <1>3

LEMMA AccountFrame ==
    ASSUME NEW a, NEW b, NEW n, NEW calm, Account(a, n, calm),
           b.thrown = a.thrown, b.sock = a.sock, b.requests = a.requests,
           b.closing = a.closing, b.msgInFlight = a.msgInFlight,
           b.acks = a.acks, b.sending = a.sending
    PROVE  Account(b, n, calm)
<1>1. Unsent(b) = Unsent(a)
  BY DEF Unsent
<1> QED BY <1>1 DEF Account

\* The socket is closed when no exchange is under way.
LEMMA DoCloseAccount ==
    ASSUME NEW a \in Agents, NEW calm, Account(a, 0, calm), a.sock = "open",
           a.msgInFlight <= 0
    PROVE  Account(DoClose(a), 0, calm)
<1> DEFINE armed == a.armed \ Outstanding(a)
           b == [a EXCEPT !.armed = armed]
           c == [b EXCEPT !.sock = IF @ = "open" THEN "closing" ELSE @]
<1>1. DoClose(a) = c
  BY DEF DoClose, CloseSocket, Agents
<1> HIDE DEF armed
<1>2. /\ c.sock = "closing" /\ c.thrown = a.thrown /\ c.requests = a.requests
      /\ c.closing = a.closing /\ c.msgInFlight = a.msgInFlight /\ c.acks = a.acks
      /\ c.sending = a.sending
  BY DEF Agents
<1> HIDE DEF c
<1>3. Unsent(c) = Unsent(a)
  BY <1>2 DEF Unsent
<1> QED BY <1>1, <1>2, <1>3 DEF Account

LEMMA CleanUpAccount ==
    ASSUME NEW a \in Agents, NEW n \in Nat \ {0}, NEW calm, Account(a, n, calm),
           a.sock = "open"
    PROVE  Account(CleanUp(a), n - 1, calm)
<1> DEFINE closing == a.closing \/ IsLast(a)
           less == a.requests - 1
           b == [a EXCEPT !.requests = less, !.closing = closing]
<1>1. closing \in BOOLEAN /\ less \in Int /\ less = n - 1
  BY DEF Agents, Account
<1>2. closing => less = 0
  BY DEF Account, IsLast, Agents
<1>3. CleanUp(a) = IF IsLast(a) /\ ~(a.msgInFlight > 0) THEN DoClose(b) ELSE b
  BY DEF CleanUp
<1> HIDE DEF closing, less
<1>4. /\ b \in Agents /\ b.sock = "open" /\ b.thrown = a.thrown /\ b.requests = less
      /\ b.closing = closing /\ b.msgInFlight = a.msgInFlight /\ b.acks = a.acks
      /\ b.sending = a.sending
  BY <1>1 DEF Agents
<1> HIDE DEF b
<1>5. Unsent(b) = Unsent(a)
  BY <1>4 DEF Unsent
<1>6. Account(b, n - 1, calm)
  BY <1>1, <1>2, <1>4, <1>5 DEF Account
<1>7. ASSUME IsLast(a), ~(a.msgInFlight > 0) PROVE Account(DoClose(b), n - 1, calm)
  <2>1. n - 1 = 0 /\ b.msgInFlight <= 0
    BY <1>4, <1>7 DEF Account, IsLast, Agents
  <2> QED BY <1>4, <1>6, <2>1, DoCloseAccount
<1> QED BY <1>3, <1>6, <1>7

\* One datagram more than the counter says has left: HasSent puts it right.
LEMMA HasSentAccount ==
    ASSUME NEW a \in Agents, NEW n \in Nat, NEW calm, a.sock # "null",
           NEW c \in Agents, Account(c, n, calm), a.thrown = c.thrown, a.sock = c.sock,
           a.requests = c.requests, a.closing = c.closing, a.msgInFlight = c.msgInFlight,
           IsFiniteSet(Unsent(a)),
           calm => a.msgInFlight = a.acks + Cardinality(Unsent(a)) + 1
    PROVE  Account(HasSent(a), n, calm)
<1> DEFINE less == a.msgInFlight - 1
           b == [a EXCEPT !.msgInFlight = less]
<1>1. less \in Int /\ less + 1 = a.msgInFlight
  BY DEF Agents
<1>2. HasSent(a) = IF b.closing /\ b.msgInFlight = 0 THEN DoClose(b) ELSE b
  BY DEF HasSent
<1> HIDE DEF less
<1>3. /\ b \in Agents /\ b.sock = a.sock /\ b.thrown = a.thrown /\ b.requests = a.requests
      /\ b.closing = a.closing /\ b.msgInFlight = less /\ b.acks = a.acks
      /\ b.sending = a.sending
  BY <1>1 DEF Agents
<1> HIDE DEF b
<1>4. Unsent(b) = Unsent(a)
  BY <1>3 DEF Unsent
<1>5. calm => less = a.acks + Cardinality(Unsent(a))
  <2>1. a.acks \in Nat /\ Cardinality(Unsent(a)) \in Nat
    BY FS_CardinalityType, AgentAssumption DEF Agents
  <2> QED BY <1>1, <2>1
<1>6. a.sock = "closing" => less <= 0 /\ less # 0
  <2>1. c.msgInFlight \in Int
    BY DEF Agents
  <2>2. a.sock = "closing" => c.msgInFlight <= 0
    BY DEF Account
  <2> QED BY <1>1, <2>1, <2>2
<1>7. Account(b, n, calm)
  BY <1>3, <1>4, <1>5, <1>6 DEF Account
<1>8. ASSUME b.closing, b.msgInFlight = 0 PROVE Account(DoClose(b), n, calm)
  <2>1. b.sock = "open"
    BY <1>3, <1>6, <1>8 DEF Agents
  <2>2. n = 0
    BY <1>7, <1>8, <2>1 DEF Account
  <2> QED BY <1>3, <1>7, <1>8, <2>1, <2>2, DoCloseAccount
<1> QED BY <1>2, <1>7, <1>8

LEMMA SentAccount ==
    ASSUME NEW a \in Agents, NEW n \in Nat, NEW calm, Account(a, n, calm),
           NEW r \in Requests, a.sending[r] > 0
    PROVE  Account(HasSent([a EXCEPT !.sending[r] = @ - 1]), n, calm)
<1> DEFINE sending == [a.sending EXCEPT ![r] = @ - 1]
           b == [a EXCEPT !.sending = sending]
<1>1. [a EXCEPT !.sending[r] = @ - 1] = b
  OBVIOUS
<1>2. /\ a.sending \in [Requests -> Nat] /\ sending \in [Requests -> Nat]
      /\ IsFiniteSet(Unsent(a)) /\ a.acks \in Nat
  BY AgentAssumption DEF Agents, Account
<1>3. b.sending = sending
  BY DEF Agents
<1>4. IsFiniteSet(Unsent(b)) /\ Cardinality(Unsent(a)) = Cardinality(Unsent(b)) + 1
  <2>1. b.sending = [a.sending EXCEPT ![r] = @ - 1]
    BY <1>3
  <2>2. a.sending \in [Requests -> Nat] /\ IsFiniteSet(Unsent(a)) /\ a.sending[r] > 0
    BY <1>2
  <2> HIDE DEF b, sending
  <2> QED BY <2>1, <2>2, UnsentLess
<1> HIDE DEF sending
<1>5. /\ b \in Agents /\ b.sock = a.sock /\ b.thrown = a.thrown /\ b.requests = a.requests
      /\ b.closing = a.closing /\ b.msgInFlight = a.msgInFlight /\ b.acks = a.acks
  BY <1>2 DEF Agents
<1> HIDE DEF b
<1>6. a.sock # "null"
  BY DEF Account, Agents
<1>7. calm => b.msgInFlight = b.acks + Cardinality(Unsent(b)) + 1
  <2>1. Cardinality(Unsent(b)) \in Nat
    BY <1>4, FS_CardinalityType
  <2>2. calm => a.msgInFlight = a.acks + Cardinality(Unsent(a))
    BY DEF Account
  <2> QED BY <1>2, <1>4, <1>5, <2>1, <2>2
<1>8. Account(HasSent(b), n, calm)
  BY <1>4, <1>5, <1>6, <1>7, HasSentAccount
<1> QED BY <1>1, <1>8

LEMMA AckSentAccount ==
    ASSUME NEW a \in Agents, NEW n \in Nat, NEW calm, Account(a, n, calm), a.acks > 0
    PROVE  Account(HasSent([a EXCEPT !.acks = @ - 1]), n, calm)
<1> DEFINE less == a.acks - 1
           b == [a EXCEPT !.acks = less]
<1>1. /\ less \in 0..MaxAcks /\ less + 1 = a.acks /\ less \in Nat
      /\ IsFiniteSet(Unsent(a))
  BY AgentAssumption DEF Agents, Account
<1>2. [a EXCEPT !.acks = @ - 1] = b
  OBVIOUS
<1> HIDE DEF less
<1>3. /\ b \in Agents /\ b.sock = a.sock /\ b.thrown = a.thrown /\ b.requests = a.requests
      /\ b.closing = a.closing /\ b.msgInFlight = a.msgInFlight /\ b.acks = less
      /\ b.sending = a.sending
  BY <1>1 DEF Agents
<1> HIDE DEF b
<1>4. Unsent(b) = Unsent(a)
  BY <1>3 DEF Unsent
<1>5. a.sock # "null"
  BY DEF Account
<1>6. calm => b.msgInFlight = b.acks + Cardinality(Unsent(b)) + 1
  <2>1. Cardinality(Unsent(a)) \in Nat
    BY <1>1, FS_CardinalityType
  <2>2. calm => a.msgInFlight = a.acks + Cardinality(Unsent(a))
    BY DEF Account
  <2> QED BY <1>1, <1>3, <1>4, <2>1, <2>2
<1>7. Account(HasSent(b), n, calm)
  BY <1>1, <1>3, <1>4, <1>5, <1>6, HasSentAccount
<1> QED BY <1>2, <1>7

LEMMA ReplyAccount ==
    ASSUME NEW a \in Agents, NEW n, NEW calm, Account(a, n, calm), a.sock = "open",
           a.acks < MaxAcks
    PROVE  Account(Reply(a), n, calm)
<1> DEFINE more == a.msgInFlight + 1
           acks == a.acks + 1
           b == [a EXCEPT !.msgInFlight = more, !.acks = acks]
<1>1. Reply(a) = b
  BY DEF Reply
<1>2. calm => more = acks + Cardinality(Unsent(a))
  <2>1. a.acks \in Nat /\ Cardinality(Unsent(a)) \in Nat
    BY FS_CardinalityType, AgentAssumption DEF Agents, Account
  <2>2. calm => a.msgInFlight = a.acks + Cardinality(Unsent(a))
    BY DEF Account
  <2> QED BY <2>1, <2>2
<1> HIDE DEF more, acks
<1>3. /\ b.sock = a.sock /\ b.thrown = a.thrown /\ b.requests = a.requests
      /\ b.closing = a.closing /\ b.msgInFlight = more /\ b.acks = acks
      /\ b.sending = a.sending
  BY DEF Agents
<1> HIDE DEF b
<1>4. Unsent(b) = Unsent(a)
  BY <1>3 DEF Unsent
<1> QED BY <1>1, <1>2, <1>3, <1>4 DEF Account

\* Another datagram of request r is handed to the socket.
LEMMA HandedAccount ==
    ASSUME NEW a \in Agents, NEW n, NEW calm, Account(a, n, calm), a.sock = "open",
           NEW r \in Requests, NEW b, b.sock = a.sock, b.thrown = a.thrown,
           b.requests = a.requests, b.closing = a.closing, b.acks = a.acks,
           b.msgInFlight = a.msgInFlight + 1,
           b.sending = [a.sending EXCEPT ![r] = @ + 1]
    PROVE  Account(b, n, calm)
<1>1. a.sending \in [Requests -> Nat] /\ IsFiniteSet(Unsent(a)) /\ a.acks \in Nat
  BY AgentAssumption DEF Agents, Account
<1>2. IsFiniteSet(Unsent(b)) /\ Cardinality(Unsent(b)) = Cardinality(Unsent(a)) + 1
  BY <1>1, UnsentMore
<1>3. calm => b.msgInFlight = b.acks + Cardinality(Unsent(b))
  <2>1. Cardinality(Unsent(a)) \in Nat
    BY <1>1, FS_CardinalityType
  <2>2. calm => a.msgInFlight = a.acks + Cardinality(Unsent(a))
    BY DEF Account
  <2> QED BY <1>1, <1>2, <2>1, <2>2
<1> QED BY <1>2, <1>3 DEF Account

LEMMA SubmitAccount ==
    ASSUME NEW a \in Agents, NEW n, NEW calm, Account(a, n, calm), a.sock = "open",
           NEW r \in Requests, NEW q \in OutgoingMessages,
           ~q.dead, q.kind # "multicast"
    PROVE  Account(Submit(a, r, q), n, calm)
<1> DEFINE m == NextMessageId(a)
           tokens == [a.tkToReq EXCEPT ![q.token] = r]
           ids == [a.msgIdToReq EXCEPT ![m] = r]
           b == [a EXCEPT !.lastMessageId = m, !.tkToReq = tokens, !.msgIdToReq = ids]
           more == a.msgInFlight + 1
           armed == a.armed \cup {r}
           sending == [a.sending EXCEPT ![r] = @ + 1]
           c == [b EXCEPT !.msgInFlight = more, !.armed = armed, !.sending = sending]
<1>1. Submit(a, r, q) = b \/ Submit(a, r, q) = c
  <2>1. b.msgInFlight = a.msgInFlight /\ b.armed = a.armed /\ b.sending = a.sending
    BY DEF Agents
  <2> QED BY <2>1 DEF Submit
<1> HIDE DEF m, tokens, ids
<1>2. /\ b.sock = a.sock /\ b.thrown = a.thrown /\ b.requests = a.requests
      /\ b.closing = a.closing /\ b.msgInFlight = a.msgInFlight /\ b.acks = a.acks
      /\ b.sending = a.sending
  BY DEF Agents
<1>3. Account(b, n, calm)
  BY <1>2, AccountFrame
<1> HIDE DEF more, armed, sending
<1>4. /\ c.sock = a.sock /\ c.thrown = a.thrown /\ c.requests = a.requests
      /\ c.closing = a.closing /\ c.msgInFlight = more /\ c.acks = a.acks
      /\ c.sending = sending
  BY DEF Agents
<1> HIDE DEF b, c
<1>5. Account(c, n, calm)
  BY <1>4, HandedAccount DEF more, sending
<1> QED BY <1>1, <1>3, <1>5

\* request(): one exchange more, on a new socket if need be.
LEMMA OpenedAccount ==
    ASSUME NEW a \in Agents, NEW n \in Nat, NEW calm, Account(a, n, calm),
           a.sock # "closing", NEW first \in FirstMessageIds
    PROVE  Account([Opened(a, first) EXCEPT !.requests = @ + 1], n + 1, calm)
<1>1. CASE a.sock = "open"
  <2> DEFINE more == a.requests + 1
             closing == FALSE
             b == [a EXCEPT !.closing = closing, !.requests = more]
  <2>1. [Opened(a, first) EXCEPT !.requests = @ + 1] = b
    BY <1>1 DEF Opened, Agents
  <2>2. more = n + 1 /\ ~closing
    BY <1>1 DEF Account
  <2> HIDE DEF more, closing
  <2>3. /\ b.sock = a.sock /\ b.thrown = a.thrown /\ b.requests = more
        /\ b.closing = closing /\ b.msgInFlight = a.msgInFlight /\ b.acks = a.acks
        /\ b.sending = a.sending
    BY DEF Agents
  <2> HIDE DEF b
  <2>4. Unsent(b) = Unsent(a)
    BY <2>3 DEF Unsent
  <2>5. Account(b, n + 1, calm)
    BY <1>1, <2>2, <2>3, <2>4 DEF Account
  <2> QED BY <2>1, <2>5
<1>2. CASE a.sock = "null"
  <2> DEFINE zero == 0
             one == 1
             closing == FALSE
             ids == EmptyMap(MessageIds)
             tokens == EmptyMap(Requests)
             b == [a EXCEPT !.sock = "open", !.closing = closing, !.msgInFlight = zero,
                            !.requests = one, !.msgIdToReq = ids, !.tkToReq = tokens,
                            !.lastMessageId = first]
  <2>1. [Opened(a, first) EXCEPT !.requests = @ + 1] = b
    <3> DEFINE c == [a EXCEPT !.sock = "open", !.closing = closing, !.msgInFlight = zero,
                              !.requests = zero, !.msgIdToReq = ids, !.tkToReq = tokens,
                              !.lastMessageId = first]
    <3>1. Opened(a, first) = c
      BY <1>2 DEF Opened
    <3>2. zero + 1 = one
      OBVIOUS
    <3> HIDE DEF zero, one, closing, ids, tokens
    <3>3. c.requests = zero
      BY DEF Agents
    <3>4. [c EXCEPT !.requests = c.requests + 1] = b
      BY <3>2, <3>3 DEF Agents
    <3> QED BY <3>1, <3>4
  <2>2. n = 0 /\ one = n + 1 /\ ~closing /\ zero = 0
    BY <1>2 DEF Account
  <2> HIDE DEF zero, one, closing, ids, tokens
  <2>3. /\ b.sock = "open" /\ b.thrown = a.thrown /\ b.requests = one
        /\ b.closing = closing /\ b.msgInFlight = zero /\ b.acks = a.acks
        /\ b.sending = a.sending
    BY DEF Agents
  <2> HIDE DEF b
  <2>4. Unsent(b) = Unsent(a)
    BY <2>3 DEF Unsent
  <2>5. IsFiniteSet(Unsent(a)) /\ a.acks = 0 /\ \A r \in Requests : a.sending[r] = 0
    BY <1>2 DEF Account
  <2>6. Cardinality(Unsent(a)) = 0
    BY <2>5, UnsentNone DEF Agents
  <2>7. Account(b, n + 1, calm)
    BY <2>2, <2>3, <2>4, <2>5, <2>6 DEF Account
  <2> QED BY <2>1, <2>7
<1> QED BY <1>1, <1>2 DEF Agents

\* abort() of a request that has timed out: one exchange less.
LEMMA AbortAccount ==
    ASSUME NEW a \in Agents, NEW n \in Nat \ {0}, NEW calm, Account(a, n, calm),
           a.sock = "open", NEW r \in Requests, NEW aborted, ~aborted
    PROVE  Account(Abort(a, {r}), n - 1, aborted)
<1> DEFINE one == Cardinality({r})
           last == a.requests \in 1..one
           closing == a.closing \/ last
           sending == [s \in Requests |-> IF s \in {r} THEN 0 ELSE a.sending[s]]
           armed == a.armed \ {r}
           inFlight == a.msgInFlight - one
           requests == a.requests - one
           b == [a EXCEPT !.armed = armed, !.sending = sending, !.msgInFlight = inFlight,
                          !.requests = requests, !.closing = closing]
           c == IF last /\ ~(a.msgInFlight - a.requests > 0) THEN DoClose(b) ELSE b
           mids == {req[s].mid : s \in {r}}
           tokens == {req[s].token : s \in {r}}
           ids == [m \in MessageIds |-> IF m \in mids THEN None ELSE c.msgIdToReq[m]]
           owners == [t \in Requests |-> IF t \in tokens THEN None ELSE c.tkToReq[t]]
           d == [c EXCEPT !.msgIdToReq = ids, !.tkToReq = owners]
<1>1. one = 1
  BY FS_Singleton
<1>2. Abort(a, {r}) = d
  BY DEF Abort
<1>3. a.requests = n /\ (last <=> n = 1) /\ inFlight = a.msgInFlight - 1 /\ requests = n - 1
  BY <1>1 DEF Account
<1>4. /\ closing \in BOOLEAN /\ sending \in [Requests -> Nat]
      /\ armed \in SUBSET Requests /\ inFlight \in Int /\ requests \in Int
  BY <1>1, <1>3 DEF Agents
<1>5. closing => n = 1
  BY <1>3 DEF Account
<1>6. IsFiniteSet(Unsent(b))
  <2>1. b.sending = sending
    BY DEF Agents
  <2>2. \A s \in Requests : 1..sending[s] \subseteq 1..a.sending[s]
    OBVIOUS
  <2> HIDE DEF b, sending
  <2>3. Unsent(b) \subseteq Unsent(a)
    BY <2>1, <2>2 DEF Unsent
  <2> QED BY <2>3, FS_Subset DEF Account
<1>7. last /\ ~(a.msgInFlight - a.requests > 0) => inFlight <= 0
  BY <1>3 DEF Agents
<1> HIDE DEF closing, sending, armed, inFlight, requests, last
<1>8. /\ b \in Agents /\ b.sock = "open" /\ b.thrown = a.thrown /\ b.requests = requests
      /\ b.closing = closing /\ b.msgInFlight = inFlight
  BY <1>4 DEF Agents
<1> HIDE DEF b
<1>9. Account(b, n - 1, aborted)
  BY <1>3, <1>5, <1>6, <1>8 DEF Account
<1>10. Account(c, n - 1, aborted) /\ c \in Agents
  <2>1. CASE last /\ ~(a.msgInFlight - a.requests > 0)
    <3>1. n - 1 = 0 /\ b.msgInFlight <= 0
      BY <1>3, <1>7, <1>8, <2>1
    <3>2. Account(DoClose(b), n - 1, aborted)
      BY <1>8, <1>9, <3>1, DoCloseAccount
    <3>3. DoClose(b) \in Agents
      BY <1>8, DoCloseShrinks DEF Shrinks
    <3> QED BY <2>1, <3>2, <3>3
  <2>2. CASE ~(last /\ ~(a.msgInFlight - a.requests > 0))
    BY <1>8, <1>9, <2>2
  <2> QED BY <2>1, <2>2
<1> HIDE DEF c, ids, owners
<1>11. /\ d.sock = c.sock /\ d.thrown = c.thrown /\ d.requests = c.requests
       /\ d.closing = c.closing /\ d.msgInFlight = c.msgInFlight /\ d.acks = c.acks
       /\ d.sending = c.sending
  BY <1>10 DEF Agents
<1> HIDE DEF d
<1>12. Account(d, n - 1, aborted)
  BY <1>10, <1>11, AccountFrame
<1> QED BY <1>2, <1>12

LEMMA SocketClosedAccount ==
    ASSUME NEW a \in Agents, NEW calm, Account(a, 0, calm), a.sock = "closing"
    PROVE  Account([a EXCEPT !.sock = "null", !.acks = 0,
                             !.sending = [r \in Requests |-> 0]], 0, calm)
<1> DEFINE zero == 0
           sending == [r \in Requests |-> 0]
           b == [a EXCEPT !.sock = "null", !.acks = zero, !.sending = sending]
<1>1. calm => a.msgInFlight = 0
  <2>1. a.acks \in Nat /\ Cardinality(Unsent(a)) \in Nat
    BY FS_CardinalityType, AgentAssumption DEF Agents, Account
  <2>2. a.msgInFlight <= 0 /\ (calm => a.msgInFlight = a.acks + Cardinality(Unsent(a)))
    BY DEF Account
  <2> QED BY <2>1, <2>2
<1>2. b.sending = sending
  BY DEF Agents
<1>3. Unsent(b) = {} /\ IsFiniteSet(Unsent(b)) /\ Cardinality(Unsent(b)) = 0
  BY <1>2, FS_EmptySet DEF Unsent
<1>4. sending \in [Requests -> Nat] /\ \A r \in Requests : sending[r] = 0
  OBVIOUS
<1> HIDE DEF sending
<1>5. /\ b.sock = "null" /\ b.thrown = a.thrown /\ b.requests = a.requests
      /\ b.closing = a.closing /\ b.msgInFlight = a.msgInFlight /\ b.acks = zero
      /\ b.sending = sending
  BY DEF Agents
<1> HIDE DEF b
<1>6. Account(b, 0, calm)
  BY <1>1, <1>3, <1>4, <1>5 DEF Account
<1> QED BY <1>6 DEF b, sending
-----------------------------------------------------------------------------
\* What the methods leave of a request they are not about.

\* Request s is retransmitted by b as it was by a, and found as before, unless
\* the socket is being closed.
Follows(a, b, s, free) ==
    /\ s \in b.armed => s \in a.armed
    /\ s \in a.armed /\ b.sock = "open" =>
          /\ s \in b.armed
          /\ free => \A m \in MessageIds : a.msgIdToReq[m] = s => b.msgIdToReq[m] = s
          /\ \A t \in Requests : a.tkToReq[t] = s => b.tkToReq[t] = s

LEMMA FollowsTransitive ==
    ASSUME NEW free \in BOOLEAN,
           NEW a, NEW b, NEW c, NEW s, Follows(a, b, s, free), Follows(b, c, s, free),
           c.sock = "open" => b.sock = "open"
    PROVE  Follows(a, c, s, free)
BY DEF Follows

\* It is enough that the senders and the maps are the same.
LEMMA FollowsFrame ==
    ASSUME NEW free \in BOOLEAN,
           NEW a, NEW b, b.armed = a.armed, b.msgIdToReq = a.msgIdToReq,
           b.tkToReq = a.tkToReq
    PROVE  \A s : Follows(a, b, s, free)
BY DEF Follows

LEMMA DoCloseFollows ==
    ASSUME NEW free \in BOOLEAN, NEW a \in Agents, a.sock # "null"
    PROVE  DoClose(a).sock # "open" /\ \A s : Follows(a, DoClose(a), s, free)
<1> DEFINE armed == a.armed \ Outstanding(a)
           b == [a EXCEPT !.armed = armed]
           thrown == TRUE
           c == [b EXCEPT !.sock = IF @ = "open" THEN "closing" ELSE @]
           d == [b EXCEPT !.thrown = thrown]
<1>1. DoClose(a) = c \/ (DoClose(a) = d /\ a.sock = "closing")
  BY DEF DoClose, CloseSocket, Agents
<1>2. armed \subseteq a.armed
  OBVIOUS
<1> HIDE DEF armed, thrown
<1>3. /\ c.sock = "closing" /\ c.armed = armed
      /\ c.msgIdToReq = a.msgIdToReq /\ c.tkToReq = a.tkToReq
  BY DEF Agents
<1>4. /\ d.sock = a.sock /\ d.armed = armed
      /\ d.msgIdToReq = a.msgIdToReq /\ d.tkToReq = a.tkToReq
  BY DEF Agents
<1> HIDE DEF c, d
<1> QED BY <1>1, <1>2, <1>3, <1>4 DEF Follows

LEMMA CleanUpFollows ==
    ASSUME NEW free \in BOOLEAN,
           NEW a \in Agents, a.sock = "open"
    PROVE  \A s : Follows(a, CleanUp(a), s, free)
<1> DEFINE closing == a.closing \/ IsLast(a)
           less == a.requests - 1
           b == [a EXCEPT !.requests = less, !.closing = closing]
<1>1. closing \in BOOLEAN /\ less \in Int
  BY DEF Agents
<1>2. CleanUp(a) = b \/ CleanUp(a) = DoClose(b)
  BY DEF CleanUp
<1> HIDE DEF closing, less
<1>3. /\ b \in Agents /\ b.sock = "open" /\ b.armed = a.armed
      /\ b.msgIdToReq = a.msgIdToReq /\ b.tkToReq = a.tkToReq
  BY <1>1 DEF Agents
<1> HIDE DEF b
<1> QED BY <1>2, <1>3, DoCloseFollows, FollowsFrame, FollowsTransitive

LEMMA HasSentFollows ==
    ASSUME NEW free \in BOOLEAN, NEW a \in Agents, a.sock # "null"
    PROVE  /\ \A s : Follows(a, HasSent(a), s, free)
           /\ HasSent(a).sock = "open" => a.sock = "open"
<1> DEFINE less == a.msgInFlight - 1
           b == [a EXCEPT !.msgInFlight = less]
<1>1. less \in Int
  BY DEF Agents
<1>2. HasSent(a) = b \/ HasSent(a) = DoClose(b)
  BY DEF HasSent
<1> HIDE DEF less
<1>3. /\ b \in Agents /\ b.sock = a.sock /\ b.armed = a.armed
      /\ b.msgIdToReq = a.msgIdToReq /\ b.tkToReq = a.tkToReq
  BY <1>1 DEF Agents
<1> HIDE DEF b
<1>4. DoClose(b).sock # "open" /\ \A s : Follows(b, DoClose(b), s, free)
  BY <1>3, DoCloseFollows
<1>5. \A s : Follows(a, b, s, free)
  BY <1>3, FollowsFrame
<1> QED BY <1>2, <1>3, <1>4, <1>5, FollowsTransitive

LEMMA AbortFollows ==
    ASSUME NEW free \in BOOLEAN,
           IInv, PInv(free), NEW r \in Requests, agent.sock = "open",
           free => agent.msgIdToReq[req[r].mid] = r, req[r].mid \in MessageIds
    PROVE  \A s \in Requests \ {r} : Follows(agent, Abort(agent, {r}), s, free)
<1> USE DEF IInv
<1> DEFINE one == Cardinality({r})
           last == agent.requests \in 1..one
           closing == agent.closing \/ last
           sending == [s \in Requests |-> IF s \in {r} THEN 0 ELSE agent.sending[s]]
           armed == agent.armed \ {r}
           inFlight == agent.msgInFlight - one
           requests == agent.requests - one
           b == [agent EXCEPT !.armed = armed, !.sending = sending, !.msgInFlight = inFlight,
                              !.requests = requests, !.closing = closing]
           c == IF last /\ ~(agent.msgInFlight - agent.requests > 0) THEN DoClose(b) ELSE b
           mids == {req[s].mid : s \in {r}}
           tokens == {req[s].token : s \in {r}}
           ids == [m \in MessageIds |-> IF m \in mids THEN None ELSE c.msgIdToReq[m]]
           owners == [t \in Requests |-> IF t \in tokens THEN None ELSE c.tkToReq[t]]
           d == [c EXCEPT !.msgIdToReq = ids, !.tkToReq = owners]
<1>1. agent \in Agents
  BY DEF TypeOK
<1>2. one = 1
  BY FS_Singleton
<1>3. Abort(agent, {r}) = d
  BY DEF Abort
<1>4. /\ closing \in BOOLEAN /\ sending \in [Requests -> Nat]
      /\ armed \in SUBSET Requests /\ inFlight \in Int /\ requests \in Int
  BY <1>1, <1>2 DEF Agents
<1>5. armed = agent.armed \ {r}
  OBVIOUS
<1> HIDE DEF closing, sending, armed, inFlight, requests, last
<1>6. /\ b \in Agents /\ b.sock = "open" /\ b.armed = armed
      /\ b.msgIdToReq = agent.msgIdToReq /\ b.tkToReq = agent.tkToReq
  BY <1>1, <1>4 DEF Agents
<1> HIDE DEF b
<1>7. c \in Agents /\ \A s : Follows(b, c, s, free)
  <2>1. DoClose(b) \in Agents /\ \A s : Follows(b, DoClose(b), s, free)
    BY <1>6, DoCloseShrinks, DoCloseFollows DEF Shrinks
  <2>2. \A s : Follows(b, b, s, free)
    BY FollowsFrame
  <2> QED BY <1>6, <2>1, <2>2
<1> HIDE DEF c
<1>8. /\ d.sock = c.sock /\ d.armed = c.armed
      /\ \A m \in MessageIds : d.msgIdToReq[m] = IF m \in mids THEN None ELSE c.msgIdToReq[m]
      /\ \A t \in Requests : d.tkToReq[t] = IF t \in tokens THEN None ELSE c.tkToReq[t]
  BY <1>7 DEF Agents
<1>9. mids = {req[r].mid} /\ tokens = {r}
  BY DEF PInv, Plain
<1> HIDE DEF d, mids, tokens, ids, owners
<1>10. ASSUME NEW s \in Requests \ {r} PROVE Follows(agent, d, s, free)
  <2>1. free => \A m \in MessageIds : agent.msgIdToReq[m] = s => m \notin mids
    BY <1>9
  <2>2. \A t \in Requests : agent.tkToReq[t] = s => t \notin tokens
    BY <1>9 DEF MapsSound, PInv, Plain
  <2>3. Follows(b, c, s, free)
    BY <1>7
  <2> QED BY <1>5, <1>6, <1>8, <2>1, <2>2, <2>3 DEF Follows
<1> QED BY <1>3, <1>10

\* The request that a packet belongs to is the only one it concerns.
LEMMA SettleFollows ==
    ASSUME NEW free \in BOOLEAN,
           NEW a \in Agents, NEW r \in Requests, NEW p, p.mid \in MessageIds,
           Found(a, p) = r, a.acks < MaxAcks
    PROVE  /\ Settle(a, p, r) \in Agents /\ Settle(a, p, r).sock = a.sock
           /\ r \notin Settle(a, p, r).armed
           /\ \A s \in Requests \ {r} : Follows(a, Settle(a, p, r), s, free)
<1> DEFINE c == Acknowledge(a, p)
           armed == c.armed \ {r}
           b == [c EXCEPT !.armed = armed]
           d == [b EXCEPT !.msgIdToReq[p.mid] = None]
<1>1. Settle(a, p, r) \in Agents /\ r \notin Settle(a, p, r).armed
  BY SettleShrinks DEF Shrinks
<1>2. /\ c \in Agents /\ c.sock = a.sock /\ c.armed = a.armed
      /\ c.msgIdToReq = a.msgIdToReq /\ c.tkToReq = a.tkToReq
  <2>1. c \in Agents
    BY AcknowledgeShrinks DEF Shrinks
  <2>2. c = a \/ c = [a EXCEPT !.msgInFlight = @ + 1, !.acks = @ + 1]
    BY DEF Acknowledge, Reply
  <2> QED BY <2>1, <2>2 DEF Agents
<1>3. Settle(a, p, r) = b \/ Settle(a, p, r) = d
  BY DEF Settle
<1>4. armed \in SUBSET Requests /\ armed = a.armed \ {r}
  BY <1>2 DEF Agents
<1> HIDE DEF c, armed
<1>5. /\ b \in Agents /\ b.sock = a.sock /\ b.armed = armed
      /\ b.msgIdToReq = a.msgIdToReq /\ b.tkToReq = a.tkToReq
  BY <1>2, <1>4 DEF Agents
<1> HIDE DEF b
<1>6. /\ d.sock = a.sock /\ d.armed = armed /\ d.tkToReq = a.tkToReq
      /\ \A m \in MessageIds \ {p.mid} : d.msgIdToReq[m] = a.msgIdToReq[m]
  BY <1>5 DEF Agents
<1> HIDE DEF d
<1>7. \A s \in Requests \ {r} : a.msgIdToReq[p.mid] # s
  BY AgentAssumption DEF Found
<1>8. \A s \in Requests \ {r} : Follows(a, b, s, free) /\ Follows(a, d, s, free)
  BY <1>4, <1>5, <1>6, <1>7 DEF Follows
<1> QED BY <1>1, <1>3, <1>5, <1>6, <1>8

\* The entry of request r's own token is taken away.
LEMMA TokenFollows ==
    ASSUME NEW free \in BOOLEAN, IInv, PInv(free), NEW r \in Requests, NEW a \in Agents,
           \A s \in Requests : Follows(agent, a, s, free) \/ s = r,
           \A t \in Requests : a.tkToReq[t] \in {agent.tkToReq[t], None},
           a.sock = "open" => agent.sock = "open"
    PROVE  \A s \in Requests \ {r} : Follows(agent, [a EXCEPT !.tkToReq[r] = None], s, free)
<1> DEFINE b == [a EXCEPT !.tkToReq[r] = None]
<1>1. /\ b.sock = a.sock /\ b.armed = a.armed /\ b.msgIdToReq = a.msgIdToReq
      /\ \A t \in Requests \ {r} : b.tkToReq[t] = a.tkToReq[t]
  BY DEF Agents
<1> HIDE DEF b
<1>2. \A s \in Requests \ {r} : agent.tkToReq[r] # s
  BY DEF IInv, PInv, Plain, MapsSound
<1>3. \A s \in Requests \ {r} : Follows(agent, b, s, free)
  BY <1>1, <1>2 DEF Follows
<1> QED BY <1>3 DEF b
-----------------------------------------------------------------------------
\* Which requests are counted.

LEMMA CountedFinite == ASSUME TypeOK PROVE IsFiniteSet(CountedRequests) /\ Exchanges \in Nat
<1>1. IsFiniteSet(CountedRequests)
  BY AgentAssumption, FS_Subset DEF CountedRequests
<1>2. Cardinality(CountedRequests) \in Nat
  BY <1>1, FS_CardinalityType
<1> QED BY <1>1, <1>2 DEF Exchanges

\* While an exchange is counted, the socket is open.
LEMMA CountedOpen ==
    ASSUME NEW a, NEW calm, NEW S, IsFiniteSet(S), NEW t \in {0, 1},
           Account(a, Cardinality(S) + t, calm)
    PROVE  S # {} \/ t = 1 => a.sock = "open"
<1>1. Cardinality(S) \in Nat /\ (Cardinality(S) = 0 => S = {})
  BY FS_CardinalityType, FS_EmptySet
<1>2. a.sock # "open" => Cardinality(S) + t = 0
  BY DEF Account
<1> QED BY <1>1, <1>2

LEMMA OpenNow ==
    ASSUME TypeOK, Account(agent, Exchanges, Calm)
    PROVE  /\ \A s \in Requests : Counted(s) => agent.sock = "open"
           /\ turn \in Requests => agent.sock = "open"
<1> DEFINE t == IF turn \in Requests THEN 1 ELSE 0
<1>1. t \in {0, 1} /\ Exchanges = Cardinality(CountedRequests) + t
  BY DEF Exchanges
<1>2. turn \in Requests => t = 1
  OBVIOUS
<1> HIDE DEF t
<1>3. CountedRequests # {} \/ t = 1 => agent.sock = "open"
  BY <1>1, CountedFinite, CountedOpen
<1> QED BY <1>2, <1>3 DEF CountedRequests

\* The number of exchanges when request r alone may change, from what is
\* counted before and after.
Tally(r, counted) == IF counted THEN Cardinality(CountedRequests \ {r}) + 1
                     ELSE Cardinality(CountedRequests \ {r})

LEMMA TallyNow ==
    ASSUME TypeOK, NEW r \in Requests, NEW counted \in BOOLEAN, Counted(r) <=> counted
    PROVE  Cardinality(CountedRequests) = Tally(r, counted)
<1>1. IsFiniteSet(CountedRequests \ {r})
  BY CountedFinite, FS_RemoveElement
<1>2. CASE counted
  <2>1. CountedRequests = (CountedRequests \ {r}) \cup {r} /\ r \notin CountedRequests \ {r}
    BY <1>2 DEF CountedRequests
  <2>2. Cardinality((CountedRequests \ {r}) \cup {r}) = Cardinality(CountedRequests \ {r}) + 1
    BY <1>1, FS_AddElement
  <2> QED BY <1>2, <2>1, <2>2 DEF Tally
<1>3. CASE ~counted
  <2>1. CountedRequests = CountedRequests \ {r}
    BY <1>3 DEF CountedRequests
  <2> QED BY <1>3, <2>1 DEF Tally
<1> QED BY <1>2, <1>3

\* What is counted of the other requests does not change.
LEMMA TallyNext ==
    ASSUME TypeOK', NEW r \in Requests, NEW counted \in BOOLEAN, Counted(r)' <=> counted,
           \A s \in Requests \ {r} : Counted(s)' <=> Counted(s)
    PROVE  Cardinality(CountedRequests') = Tally(r, counted)
<1>1. CountedRequests' \ {r} = CountedRequests \ {r}
  BY DEF CountedRequests
<1>2. IsFiniteSet(CountedRequests')
  BY AgentAssumption, FS_Subset DEF CountedRequests
<1>3. IsFiniteSet(CountedRequests \ {r})
  BY <1>1, <1>2, FS_RemoveElement
<1>4. CASE counted
  <2>1. CountedRequests' = (CountedRequests \ {r}) \cup {r} /\ r \notin CountedRequests \ {r}
    BY <1>1, <1>4 DEF CountedRequests
  <2>2. Cardinality((CountedRequests \ {r}) \cup {r}) = Cardinality(CountedRequests \ {r}) + 1
    BY <1>3, FS_AddElement
  <2> QED BY <1>4, <2>1, <2>2 DEF Tally
<1>5. CASE ~counted
  <2>1. CountedRequests' = CountedRequests \ {r}
    BY <1>1, <1>5 DEF CountedRequests
  <2> QED BY <1>5, <2>1 DEF Tally
<1> QED BY <1>4, <1>5

\* A request that the step is not about.
Untouched(s) ==
    /\ req'[s] = req[s] /\ told'[s] = told[s] /\ answers'[s] = answers[s]

LEMMA PlainFrame ==
    ASSUME NEW s \in Requests, Plain(s), Untouched(s)
    PROVE  /\ Plain(s)' /\ (Counted(s)' <=> Counted(s)) /\ (Waiting(s)' <=> Waiting(s))
           /\ TimedOut(s)' <=> TimedOut(s)
BY DEF Untouched, Plain, Counted, Waiting, Unfinished, TimedOut

\* Who waits is counted.
LEMMA WaitingCounted ==
    ASSUME NEW s \in Requests, Plain(s), Waiting(s) PROVE Counted(s)
BY DEF Plain, Counted, Waiting, Unfinished, TimedOut

LEMMA PursuedFrame ==
    ASSUME NEW free \in BOOLEAN,
           TypeOK, Account(agent, Exchanges, Calm), NEW s \in Requests,
           Plain(s), Pursued(s, free),
           Counted(s)' => agent'.sock = "open",
           Plain(s)', req'[s].mid = req[s].mid, req'[s].token = req[s].token,
           Waiting(s)' => Waiting(s) /\ Counted(s)',
           s \in agent'.armed /\ Counted(s) => Counted(s)',
           s \in agent'.armed => s \in agent.armed, turn' # s,
           agent.sock = "open" => Follows(agent, agent', s, free),
           req[s].mid \in MessageIds \cup {None}, req[s].token \in Requests,
           Counted(s) => req[s].mid \in MessageIds \/ s \notin agent.armed
    PROVE  Pursued(s, free)'
<1>1. Counted(s) => agent.sock = "open"
  BY OpenNow
<1>2. ASSUME s \in agent'.armed 
      PROVE  Counted(s)' /\ (free => agent'.msgIdToReq[req'[s].mid] = s)
  BY <1>1, <1>2 DEF Pursued, Follows
<1>3. ASSUME Waiting(s)' PROVE s \in agent'.armed /\ agent'.tkToReq[req'[s].token] = s
  <2>1. s \in agent.armed /\ Counted(s) /\ agent.tkToReq[req[s].token] = s
    BY <1>3, WaitingCounted DEF Pursued
  <2>2. agent.sock = "open" /\ agent'.sock = "open"
    BY <1>1, <1>3, <2>1
  <2> QED BY <2>1, <2>2 DEF Follows
<1> QED BY <1>2, <1>3 DEF Pursued

\* A step that is about request r alone.
LEMMA OneStep ==
    ASSUME NEW free \in BOOLEAN, IInv, PInv(free), TypeOK', NEW r \in Requests,
           \A s \in Requests \ {r} :
               /\ Untouched(s) /\ turn' # s
               /\ s \in agent'.armed => s \in agent.armed
               /\ agent.sock = "open" => Follows(agent, agent', s, free),
           FoundAlive', Account(agent', Exchanges', Calm'), Plain(r)', Pursued(r, free)'
    PROVE  PInv(free)'
<1> USE DEF IInv
<1>1. \A s \in Requests : Counted(s)' => agent'.sock = "open"
  <2> DEFINE t == IF turn' \in Requests THEN 1 ELSE 0
  <2>1. t \in {0, 1} /\ Exchanges' = Cardinality(CountedRequests') + t
    BY DEF Exchanges
  <2>2. IsFiniteSet(CountedRequests')
    BY AgentAssumption, FS_Subset DEF CountedRequests
  <2> HIDE DEF t
  <2>3. CountedRequests' # {} => agent'.sock = "open"
    BY <2>1, <2>2, CountedOpen
  <2> QED BY <2>3 DEF CountedRequests
<1>2. ASSUME NEW s \in Requests \ {r} PROVE Plain(s)' /\ Pursued(s, free)'
  <2>1. Plain(s) /\ Pursued(s, free) /\ Untouched(s) /\ turn' # s
    BY DEF PInv
  <2>2. Plain(s)' /\ (Counted(s)' <=> Counted(s)) /\ (Waiting(s)' <=> Waiting(s))
    BY <2>1, PlainFrame
  <2>3. Waiting(s)' => Counted(s)'
    BY <2>1, <2>2, WaitingCounted
  <2>4. req'[s] = req[s]
    BY <2>1 DEF Untouched
  <2>5. req[s].mid \in MessageIds \cup {None} /\ req[s].token \in Requests
    BY DEF TypeOK, OutgoingMessages
  <2>6. s \notin agent.armed \/ req[s].mid \in MessageIds
    BY <2>5 DEF Outcome
  <2> QED BY <1>1, <2>1, <2>2, <2>3, <2>4, <2>5, <2>6, PursuedFrame DEF PInv
<1> QED BY <1>2 DEF PInv

\* A step after which the maps have no more entries than before.
LEMMA FoundAliveFrame ==
    ASSUME FoundAlive, Shrinks(agent, agent'), agent'.sock # "null" => agent.sock # "null",
           \A s \in Requests : req'[s].dead => req[s].dead
    PROVE  FoundAlive'
<1>1. \A s \in Requests : Registered(s)' => Registered(s)
  BY AgentAssumption DEF Registered, Shrinks
<1> QED BY <1>1 DEF FoundAlive

\* A step that changes nothing but the agent.
LEMMA QuietPlain ==
    ASSUME NEW free \in BOOLEAN, IInv, PInv(free), TypeOK', Shrinks(agent, agent'),
           agent'.sock # "null" => agent.sock # "null",
           UNCHANGED <<req, told, answers>>, turn' \notin Requests, turn \notin Requests,
           agent.sock = "open" => \A s \in Requests : Follows(agent, agent', s, free),
           Account(agent', Exchanges, Calm)
    PROVE  PInv(free)'
<1> USE DEF IInv
<1>1. \A s \in Requests : Plain(s) /\ Pursued(s, free) /\ Untouched(s)
  BY DEF PInv, Untouched
<1>2. \A s \in Requests : /\ Plain(s)' /\ (Counted(s)' <=> Counted(s))
                          /\ (Waiting(s)' <=> Waiting(s)) /\ (TimedOut(s)' <=> TimedOut(s))
  BY <1>1, PlainFrame
<1>3. CountedRequests' = CountedRequests /\ Exchanges' = Exchanges /\ (Calm' <=> Calm)
  BY <1>2 DEF CountedRequests, Exchanges, Calm
<1>4. Account(agent', Exchanges', Calm')
  BY <1>3 DEF Account
<1>5. FoundAlive'
  BY FoundAliveFrame DEF PInv
<1>6. ASSUME NEW r \in Requests PROVE Pursued(r, free)'
  <2>1. Waiting(r)' => Counted(r)'
    BY <1>1, <1>2, WaitingCounted
  <2>2. req[r].mid \in MessageIds \cup {None} /\ req[r].token \in Requests
    BY DEF TypeOK, OutgoingMessages
  <2>3. r \notin agent.armed \/ req[r].mid \in MessageIds
    BY <2>2 DEF Outcome
  <2>4. r \in agent'.armed => r \in agent.armed
    BY DEF Shrinks
  <2>5. Counted(r)' => agent'.sock = "open"
    <3> DEFINE t == 0
    <3>1. Exchanges = Cardinality(CountedRequests) + t
      <4>1. Cardinality(CountedRequests) \in Nat
        BY CountedFinite, FS_CardinalityType
      <4> QED BY <4>1 DEF Exchanges
    <3>2. t \in {0, 1} /\ IsFiniteSet(CountedRequests)
      BY CountedFinite
    <3> HIDE DEF t
    <3>3. CountedRequests # {} => agent'.sock = "open"
      BY <3>1, <3>2, CountedOpen
    <3> QED BY <1>2, <3>3 DEF CountedRequests
  <2> QED BY <1>1, <1>2, <2>1, <2>2, <2>3, <2>4, <2>5, PursuedFrame DEF PInv
<1> QED BY <1>2, <1>4, <1>5, <1>6 DEF PInv
-----------------------------------------------------------------------------
\* Calls of the application keep the invariant.

LEMMA PlainRequest ==
    ASSUME NEW free \in BOOLEAN,
           PlainUse, IInv, IInv', PInv(free), NEW r \in Requests, NEW kind \in Kinds,
           Request(r, kind)
    PROVE  PInv(free)'
<1> USE DEF IInv
<1>1. PICK first \in FirstMessageIds :
          agent' = [Opened(agent, first) EXCEPT !.requests = @ + 1]
  BY DEF Request
<1>2. /\ turn = "loop" /\ turn' = "loop" /\ agent.sock # "closing"
      /\ req[r].kind = None /\ req' = [req EXCEPT ![r] = Fresh(r, kind, r)]
      /\ UNCHANGED <<answers, told>>
  BY DEF Request, CanCall, PlainUse, observed
<1>3. agent \in Agents /\ turn \notin Requests /\ turn' \notin Requests
  BY <1>2, AgentAssumption DEF TypeOK
<1>4. kind \in {"con", "non", "observe"} /\ kind # None
  BY AgentAssumption DEF PlainUse, AllKinds
<1> DEFINE q == Fresh(r, kind, r)
<1>5. /\ q.kind = kind /\ q.mid = None /\ ~q.timer /\ q.token = r /\ q.streamToken = None
      /\ q.response = "none" /\ ~q.dead
  BY <1>4 DEF Fresh, Unused
<1> HIDE DEF q
<1>6. req'[r] = q /\ \A s \in Requests \ {r} : req'[s] = req[s]
  BY <1>2 DEF q, TypeOK
<1>7. /\ req[r].mid = None /\ told[r] = {} /\ r \notin agent.armed
  BY <1>2 DEF Outcome, PInv, Plain
<1>8. ~Counted(r) /\ Counted(r)' /\ ~TimedOut(r)' /\ ~TimedOut(r)
  BY <1>2, <1>4, <1>5, <1>6, <1>7 DEF Counted, TimedOut
<1>9. \A s \in Requests \ {r} : Untouched(s)
  BY <1>2, <1>6 DEF Untouched
<1>10. Exchanges' = Exchanges + 1
  <2>1. PICK no \in BOOLEAN, yes \in BOOLEAN : ~no /\ yes
    OBVIOUS
  <2>2. Cardinality(CountedRequests) = Tally(r, no)
    BY <1>8, <2>1, TallyNow
  <2>3. \A s \in Requests \ {r} : Counted(s)' <=> Counted(s)
    BY <1>9, PlainFrame DEF PInv
  <2>4. Cardinality(CountedRequests') = Tally(r, yes)
    BY <1>8, <2>1, <2>3, TallyNext
  <2>5. Cardinality(CountedRequests) \in Nat
    BY CountedFinite, FS_CardinalityType
  <2>6. Cardinality(CountedRequests') = Cardinality(CountedRequests) + 1
    BY <2>1, <2>2, <2>4 DEF Tally
  <2> QED BY <1>3, <2>5, <2>6 DEF Exchanges
<1>11. Calm' <=> Calm
  BY <1>2 DEF Calm, TimedOut
<1>12. Account(agent', Exchanges', Calm')
  <2>1. Account(agent', Exchanges + 1, Calm)
    BY <1>1, <1>2, <1>3, CountedFinite, OpenedAccount DEF PInv
  <2> QED BY <1>10, <1>11, <2>1 DEF Account
<1>13. agent'.armed = agent.armed
  <2>1. Opened(agent, first) \in Agents
    BY <1>3, OpenedShrinks DEF Shrinks
  <2>2. Opened(agent, first).armed = agent.armed
    BY <1>3 DEF Opened, Agents
  <2> QED BY <1>1, <2>1, <2>2 DEF Agents
<1>14. ASSUME agent.sock = "open"
       PROVE  agent'.msgIdToReq = agent.msgIdToReq /\ agent'.tkToReq = agent.tkToReq
  <2>1. Opened(agent, first) = [agent EXCEPT !.closing = FALSE]
    BY <1>14 DEF Opened
  <2> QED BY <1>1, <1>3, <2>1 DEF Agents
<1>15. agent.sock = "open" => \A s : Follows(agent, agent', s, free)
  BY <1>13, <1>14, FollowsFrame
<1>16. FoundAlive'
  <2>1. CASE agent.sock = "open"
    <3>1. \A s \in Requests : Registered(s)' => Registered(s)
      BY <1>14, <2>1 DEF Registered
    <3>2. \A s \in Requests : req'[s].dead => req[s].dead
      BY <1>5, <1>6
    <3> QED BY <2>1, <3>1, <3>2 DEF FoundAlive, PInv
  <2>2. CASE agent.sock = "null"
    <3> DEFINE ids == EmptyMap(MessageIds)
               tokens == EmptyMap(Requests)
    <3>1. Opened(agent, first) =
              [agent EXCEPT !.sock = "open", !.closing = FALSE, !.msgInFlight = 0,
                            !.requests = 0, !.msgIdToReq = ids, !.tkToReq = tokens,
                            !.lastMessageId = first]
      BY <2>2 DEF Opened
    <3> HIDE DEF ids, tokens
    <3>2. agent'.msgIdToReq = ids /\ agent'.tkToReq = tokens
      BY <1>1, <1>3, <3>1 DEF Agents
    <3>3. \A s \in Requests : ~Registered(s)'
      BY <3>2, AgentAssumption DEF Registered, ids, tokens, EmptyMap
    <3> QED BY <3>3 DEF FoundAlive
  <2> QED BY <1>2, <1>3, <2>1, <2>2 DEF Agents
<1>17. Plain(r)'
  BY <1>2, <1>4, <1>5, <1>6, <1>7 DEF Plain
<1>18. Pursued(r, free)'
  BY <1>3, <1>5, <1>6, <1>7, <1>13 DEF Pursued, Waiting
<1> QED BY <1>3, <1>9, <1>12, <1>13, <1>15, <1>16, <1>17, <1>18, OneStep

\* What end() enters where, if the socket is open.
LEMMA SubmitArms ==
    ASSUME NEW a \in Agents, NEW r \in Requests, NEW q \in OutgoingMessages,
           ~q.dead, a.sock = "open"
    PROVE  /\ Submit(a, r, q).sock = a.sock /\ a.armed \subseteq Submit(a, r, q).armed
           /\ r \notin Unencodable => r \in Submit(a, r, q).armed
<1> DEFINE m == NextMessageId(a)
           tokens == [a.tkToReq EXCEPT ![q.token] = r]
           ids == [a.msgIdToReq EXCEPT ![m] = r]
           b == [a EXCEPT !.lastMessageId = m, !.tkToReq = tokens, !.msgIdToReq = ids]
           more == a.msgInFlight + 1
           armed == a.armed \cup {r}
           sending == [a.sending EXCEPT ![r] = IF q.kind = "multicast" THEN @ ELSE @ + 1]
           c == [b EXCEPT !.msgInFlight = more, !.armed = armed, !.sending = sending]
<1>1. Submit(a, r, q) = IF r \in Unencodable THEN b ELSE c
  <2>1. b.msgInFlight = a.msgInFlight /\ b.armed = a.armed /\ b.sending = a.sending
    BY DEF Agents
  <2> QED BY <2>1 DEF Submit
<1> HIDE DEF m, tokens, ids
<1>2. b.sock = a.sock /\ b.armed = a.armed
  BY DEF Agents
<1> HIDE DEF more, sending, armed
<1>3. c.sock = a.sock /\ c.armed = armed
  BY DEF Agents
<1> HIDE DEF b, c
<1> QED BY <1>1, <1>2, <1>3 DEF armed

LEMMA PlainEnd ==
    ASSUME NEW free \in BOOLEAN,
           PlainUse, IInv, IInv', PInv(free), free => NextIdFree, NEW r \in Requests, End(r)
    PROVE  PInv(free)'
<1> USE DEF IInv
<1> DEFINE m == NextMessageId(agent)
           error == IF r \in Unencodable THEN {"error"} ELSE {}
<1>1. /\ turn = "loop" /\ turn' = "loop" /\ req[r].kind # None /\ req[r].mid = None
      /\ agent' = Submit(agent, r, req[r])
      /\ req' = [req EXCEPT ![r] = Submitted(agent, req[r])]
      /\ told' = [told EXCEPT ![r] = @ \cup error]
      /\ answers' = answers
  BY DEF End, CanCall, PlainUse
<1>2. /\ agent \in Agents /\ turn \notin Requests /\ turn' \notin Requests
      /\ req[r] \in OutgoingMessages
  BY <1>1, AgentAssumption DEF TypeOK
<1>3. /\ Plain(r) /\ told[r] = {} /\ ~req[r].dead /\ answers[r] = 0
      /\ r \notin agent.armed
  BY <1>1 DEF PInv, Plain, Outcome
<1>4. Counted(r) /\ ~TimedOut(r) /\ req[r].response = "none"
  BY <1>1, <1>3 DEF Plain, Counted, TimedOut
<1>5. agent.sock = "open"
  BY <1>4, OpenNow DEF PInv
<1>6. /\ m \in MessageIds /\ m # None
      /\ agent'.armed \subseteq agent.armed \cup {r}
      /\ \A i \in MessageIds : agent'.msgIdToReq[i] = IF i = m THEN r ELSE agent.msgIdToReq[i]
      /\ \A t \in Requests : agent'.tkToReq[t] =
             IF t = req[r].token THEN r ELSE agent.tkToReq[t]
  BY <1>1, <1>2, SubmitFacts, AgentAssumption
<1>7. /\ agent'.sock = "open" /\ agent.armed \subseteq agent'.armed
      /\ r \notin Unencodable => r \in agent'.armed
  BY <1>1, <1>2, <1>3, <1>5, SubmitArms
<1> HIDE DEF m
<1> DEFINE q == Submitted(agent, req[r])
<1>8. /\ q.mid = m /\ q.kind = req[r].kind /\ q.timer = req[r].timer
      /\ q.token = req[r].token /\ q.streamToken = req[r].streamToken
      /\ q.response = req[r].response /\ q.dead = req[r].dead
  BY <1>2 DEF Submitted, OutgoingMessages, m
<1> HIDE DEF q
<1>9. req'[r] = q /\ \A s \in Requests \ {r} : req'[s] = req[s]
  BY <1>1 DEF q, TypeOK
<1>10. told'[r] = error /\ \A s \in Requests \ {r} : told'[s] = told[s]
  BY <1>1, <1>3 DEF TypeOK
<1>11. "timeout" \notin error /\ ("error" \in error => r \in Unencodable)
  OBVIOUS
<1> HIDE DEF error
<1>12. Counted(r)' /\ ~TimedOut(r)'
  BY <1>4, <1>8, <1>9, <1>10, <1>11 DEF Counted, TimedOut
<1>13. \A s \in Requests \ {r} : Untouched(s)
  BY <1>1, <1>9, <1>10 DEF Untouched
<1>14. \A s \in Requests : (Counted(s)' <=> Counted(s)) /\ (TimedOut(s)' <=> TimedOut(s))
  BY <1>4, <1>12, <1>13, PlainFrame DEF PInv
<1>15. Exchanges' = Exchanges /\ (Calm' <=> Calm)
  <2>1. CountedRequests' = CountedRequests
    BY <1>14 DEF CountedRequests
  <2> QED BY <1>2, <1>14, <2>1 DEF Exchanges, Calm
<1>16. Account(agent', Exchanges', Calm')
  <2>1. req[r].kind # "multicast"
    BY <1>3, <1>1 DEF Plain
  <2>2. Account(agent', Exchanges, Calm)
    BY <1>1, <1>2, <1>3, <1>5, <2>1, SubmitAccount DEF PInv
  <2> QED BY <1>15, <2>2 DEF Account
<1>17. \A s \in Requests \ {r} : Follows(agent, agent', s, free)
  <2> SUFFICES ASSUME NEW s \in Requests \ {r}, s \in agent.armed
               PROVE  /\ \A i \in MessageIds :
                             free /\ agent.msgIdToReq[i] = s => agent'.msgIdToReq[i] = s
                      /\ \A t \in Requests : agent.tkToReq[t] = s => agent'.tkToReq[t] = s
    BY <1>6, <1>7 DEF Follows
  <2>1. free => req[s].mid # m
    BY DEF NextIdFree, m
  <2>2. free => agent.msgIdToReq[m] # s
    BY <1>6, <2>1 DEF MapsSound
  <2>3. agent.tkToReq[r] # s
    BY DEF MapsSound, PInv, Plain
  <2> QED BY <1>3, <1>6, <2>2, <2>3 DEF Plain
<1>18. FoundAlive'
  <2>1. \A s \in Requests \ {r} : Registered(s)' => Registered(s)
    BY <1>6 DEF Registered
  <2> QED BY <1>3, <1>5, <1>8, <1>9, <2>1 DEF FoundAlive, PInv
<1>19. Plain(r)'
  BY <1>3, <1>4, <1>6, <1>8, <1>9, <1>10, <1>11 DEF Plain
<1>20. Pursued(r, free)'
  <2>1. agent'.msgIdToReq[req'[r].mid] = r /\ agent'.tkToReq[req'[r].token] = r
    BY <1>3, <1>6, <1>8, <1>9 DEF Plain
  <2> QED BY <1>2, <1>7, <1>12, <2>1 DEF Pursued, Waiting
<1> QED BY <1>2, <1>6, <1>13, <1>16, <1>17, <1>18, <1>19, <1>20, OneStep

\* One exchange less: request r is not counted any more.
LEMMA OneLess ==
    ASSUME TypeOK, TypeOK', NEW r \in Requests, Counted(r), ~Counted(r)',
           \A s \in Requests \ {r} : Counted(s)' <=> Counted(s),
           turn \notin Requests
    PROVE  /\ Exchanges \in Nat \ {0}
           /\ turn' \notin Requests => Exchanges' = Exchanges - 1
           /\ turn' \in Requests => Exchanges' = Exchanges
<1>1. PICK no \in BOOLEAN, yes \in BOOLEAN : ~no /\ yes
  OBVIOUS
<1>2. Cardinality(CountedRequests) = Tally(r, yes)
  BY <1>1, TallyNow
<1>3. Cardinality(CountedRequests') = Tally(r, no)
  BY <1>1, TallyNext
<1>4. Cardinality(CountedRequests \ {r}) \in Nat
  BY CountedFinite, FS_RemoveElement, FS_CardinalityType
<1>5. Cardinality(CountedRequests) = Cardinality(CountedRequests') + 1
  BY <1>1, <1>2, <1>3 DEF Tally
<1>6. Cardinality(CountedRequests') \in Nat
  BY <1>1, <1>3, <1>4 DEF Tally
<1> QED BY <1>5, <1>6 DEF Exchanges

LEMMA PlainCloseStream ==
    ASSUME NEW free \in BOOLEAN,
           PlainUse, IInv, IInv', PInv(free), NEW r \in Requests, CloseStream(r)
    PROVE  PInv(free)'
<1> USE DEF IInv
<1>1. /\ turn = "loop" /\ turn' = "loop" /\ req[r].response = "stream"
      /\ agent' = StreamClosed(agent, r)
      /\ req' = [req EXCEPT ![r].response = "closed"]
      /\ told' = told /\ answers' = answers
  BY DEF CloseStream, CanCall, PlainUse, observed
<1>2. /\ agent \in Agents /\ turn \notin Requests /\ turn' \notin Requests
      /\ req[r] \in OutgoingMessages
  BY <1>1, AgentAssumption DEF TypeOK
<1>3. Plain(r) /\ req[r].kind = "observe" /\ ~req[r].dead /\ answers[r] > 0
  BY <1>1 DEF PInv, Plain
<1>4. ~TimedOut(r) /\ r \notin agent.armed /\ req[r].mid # None
  BY <1>3 DEF Outcome, Unicast, TypeOK
<1>5. Counted(r)
  BY <1>1, <1>3, <1>4, AgentAssumption DEF Counted, AllKinds
<1>6. agent.sock = "open"
  BY <1>5, OpenNow DEF PInv
<1> DEFINE closed == "closed"
           q == [req[r] EXCEPT !.response = closed]
<1>7. /\ q.mid = req[r].mid /\ q.kind = req[r].kind /\ q.timer = req[r].timer
      /\ q.token = req[r].token /\ q.streamToken = req[r].streamToken
      /\ q.response = "closed" /\ q.dead = req[r].dead
  BY <1>2 DEF OutgoingMessages
<1>8. req' = [req EXCEPT ![r] = q]
  BY <1>1
<1> HIDE DEF q
<1>9. req'[r] = q /\ \A s \in Requests \ {r} : req'[s] = req[s]
  BY <1>8 DEF TypeOK
<1>10. \A s \in Requests \ {r} : Untouched(s)
  BY <1>1, <1>9 DEF Untouched
<1>11. \A s \in Requests \ {r} : Counted(s)' <=> Counted(s)
  BY <1>10, PlainFrame DEF PInv
<1>12. ~Counted(r)'
  BY <1>7, <1>9 DEF Counted
<1>13. Exchanges \in Nat \ {0} /\ Exchanges' = Exchanges - 1
  BY <1>2, <1>5, <1>11, <1>12, OneLess
<1>14. Calm' <=> Calm
  BY <1>1 DEF Calm, TimedOut
<1> DEFINE tokens == [agent.tkToReq EXCEPT ![r] = None]
           b == [agent EXCEPT !.tkToReq = tokens]
           a == IF req[r].streamToken = None THEN agent ELSE b
<1>15. StreamClosed(agent, r) = CleanUp(a)
  <2>1. req[r].streamToken \in {r, None}
    BY <1>3 DEF Plain
  <2> QED BY <2>1 DEF StreamClosed
<1>16. /\ tokens \in [Requests -> Requests \cup {None}]
       /\ \A t \in Requests : tokens[t] \in {agent.tkToReq[t], None}
  BY <1>2 DEF Agents
<1>17. \A s \in Requests \ {r} : Follows(agent, b, s, free)
  <2>1. \A s \in Requests : Follows(agent, agent, s, free)
    BY FollowsFrame
  <2> QED BY <1>2, <2>1, TokenFollows
<1> HIDE DEF tokens
<1>18. /\ b \in Agents /\ b.sock = agent.sock /\ b.thrown = agent.thrown
       /\ b.requests = agent.requests /\ b.closing = agent.closing
       /\ b.msgInFlight = agent.msgInFlight /\ b.acks = agent.acks
       /\ b.sending = agent.sending /\ b.armed = agent.armed
       /\ b.msgIdToReq = agent.msgIdToReq /\ b.tkToReq = tokens
  BY <1>2, <1>16 DEF Agents
<1> HIDE DEF b
<1>19. Shrinks(agent, b) /\ Shrinks(agent, agent)
  BY <1>2, <1>16, <1>18 DEF Shrinks
<1>20. /\ a \in Agents /\ a.sock = "open" /\ Account(a, Exchanges, Calm)
       /\ Shrinks(agent, a) /\ \A s \in Requests \ {r} : Follows(agent, a, s, free)
  <2>1. Account(b, Exchanges, Calm)
    BY <1>18, AccountFrame DEF PInv
  <2>2. \A s \in Requests : Follows(agent, agent, s, free)
    BY FollowsFrame
  <2> QED BY <1>2, <1>6, <1>17, <1>18, <1>19, <2>1, <2>2 DEF PInv
<1> HIDE DEF a
<1>21. Account(agent', Exchanges', Calm')
  <2>1. Account(CleanUp(a), Exchanges - 1, Calm)
    BY <1>13, <1>20, CleanUpAccount
  <2> QED BY <1>1, <1>13, <1>14, <1>15, <2>1 DEF Account
<1>22. \A s \in Requests \ {r} : Follows(agent, agent', s, free)
  BY <1>1, <1>6, <1>15, <1>20, CleanUpFollows, FollowsTransitive
<1>23. Shrinks(agent, agent')
  BY <1>1, <1>15, <1>20, CleanUpShrinks, ShrinksTransitive
<1>24. FoundAlive'
  BY <1>6, <1>7, <1>9, <1>23, FoundAliveFrame DEF PInv
<1>25. Plain(r)'
  BY <1>1, <1>3, <1>4, <1>7, <1>9 DEF Plain
<1>26. Pursued(r, free)'
  <2>1. r \notin agent'.armed
    BY <1>4, <1>23 DEF Shrinks
  <2>2. ~Waiting(r)'
    BY <1>1, <1>3 DEF Waiting, TypeOK
  <2> QED BY <1>2, <2>1, <2>2 DEF Pursued
<1>27. agent'.armed \subseteq agent.armed
  BY <1>23 DEF Shrinks
<1> QED BY <1>2, <1>10, <1>21, <1>22, <1>24, <1>25, <1>26, <1>27, OneStep

LEMMA PlainUserStep ==
    ASSUME NEW free \in BOOLEAN,
           PlainUse, IInv, IInv', PInv(free), free => NextIdFree, UserNext
    PROVE  PInv(free)'
<1>1. ASSUME NEW r \in Requests, CloseAndDeregister(r) \/ StreamEnds(r) \/ Close PROVE FALSE
  BY <1>1 DEF PlainUse, CloseAndDeregister, StreamEnds, Close
<1>2. ~Close
  BY DEF PlainUse, Close
<1> QED BY <1>1, <1>2, PlainRequest, PlainEnd, PlainCloseStream DEF UserNext
-----------------------------------------------------------------------------
\* Datagrams keep the invariant.

\* What may be in a datagram of the peer: the empty ones bear no token.
LEMMA PacketCodes ==
    ASSUME NEW r \in Requests, NEW p \in Packets(r)
    PROVE  /\ p.code = "empty" => p.tk = None
           /\ p.code # "empty" => p.tk = req[r].token
           /\ p.code \in Codes \cup {"empty"}
<1>1. "empty" \notin Codes
  BY AgentAssumption
<1> QED BY <1>1 DEF Packets, Packet

LEMMA AcknowledgeAccount ==
    ASSUME NEW a \in Agents, NEW n, NEW calm, Account(a, n, calm), a.sock = "open",
           a.acks < MaxAcks, NEW p
    PROVE  Account(Acknowledge(a, p), n, calm)
BY ReplyAccount DEF Acknowledge

LEMMA AcknowledgeFollows ==
    ASSUME NEW free \in BOOLEAN, NEW a \in Agents, NEW p
    PROVE  /\ \A s : Follows(a, Reply(a), s, free) /\ Follows(a, Acknowledge(a, p), s, free)
           /\ Reply(a).sock = a.sock /\ Acknowledge(a, p).sock = a.sock
<1> DEFINE b == Reply(a)
<1>1. /\ b.sock = a.sock /\ b.armed = a.armed
      /\ b.msgIdToReq = a.msgIdToReq /\ b.tkToReq = a.tkToReq
  BY DEF Reply, Agents
<1> HIDE DEF b
<1>2. \A s : Follows(a, b, s, free) /\ Follows(a, a, s, free)
  BY <1>1, FollowsFrame
<1> QED BY <1>1, <1>2 DEF Acknowledge, b

LEMMA SettleAccount ==
    ASSUME NEW a \in Agents, NEW n, NEW calm, Account(a, n, calm), a.sock = "open",
           a.acks < MaxAcks, NEW p, NEW r \in Requests
    PROVE  Account(Settle(a, p, r), n, calm)
<1> DEFINE c == Acknowledge(a, p)
           armed == c.armed \ {r}
           b == [c EXCEPT !.armed = armed]
           ids == [b.msgIdToReq EXCEPT ![p.mid] = None]
           d == [b EXCEPT !.msgIdToReq = ids]
<1>1. c \in Agents /\ Account(c, n, calm)
  BY AcknowledgeShrinks, AcknowledgeAccount DEF Shrinks
<1>2. Settle(a, p, r) = b \/ Settle(a, p, r) = d
  BY DEF Settle
<1> HIDE DEF c, armed
<1>3. /\ b.sock = c.sock /\ b.thrown = c.thrown /\ b.requests = c.requests
      /\ b.closing = c.closing /\ b.msgInFlight = c.msgInFlight /\ b.acks = c.acks
      /\ b.sending = c.sending
  BY <1>1 DEF Agents
<1> HIDE DEF ids
<1>4. /\ d.sock = b.sock /\ d.thrown = b.thrown /\ d.requests = b.requests
      /\ d.closing = b.closing /\ d.msgInFlight = b.msgInFlight /\ d.acks = b.acks
      /\ d.sending = b.sending
  BY <1>1 DEF Agents
<1> HIDE DEF b, d
<1> QED BY <1>1, <1>2, <1>3, <1>4, AccountFrame

\* Nobody waits for it, or it is acknowledged and dropped.
LEMMA PlainStray ==
    ASSUME NEW free \in BOOLEAN,
           IInv, IInv', PInv(free), NEW p, ReceiveUnknown(p) \/ ReceiveMismatch(p)
    PROVE  PInv(free)'
<1> USE DEF IInv
<1>1. /\ agent.sock = "open" /\ turn = "loop" /\ turn' = "loop" /\ agent.acks < MaxAcks
      /\ UNCHANGED <<req, told, answers>>
      /\ agent' = Reply(agent) \/ agent' = Acknowledge(agent, p)
  BY DEF ReceiveUnknown, ReceiveMismatch, Arrives, observed
<1>2. agent \in Agents /\ turn \notin Requests /\ turn' \notin Requests
  BY <1>1, AgentAssumption DEF TypeOK
<1>3. Shrinks(agent, agent')
  BY <1>1, <1>2, AcknowledgeShrinks
<1>4. Account(agent', Exchanges, Calm)
  BY <1>1, <1>2, ReplyAccount, AcknowledgeAccount DEF PInv
<1>5. \A s \in Requests : Follows(agent, agent', s, free)
  BY <1>1, <1>2, AcknowledgeFollows
<1> QED BY <1>1, <1>2, <1>3, <1>4, <1>5, QuietPlain

\* The sender of the request that was found is stopped.
LEMMA PlainSettle ==
    ASSUME NEW free \in BOOLEAN,
           IInv, IInv', PInv(free), NEW s \in Requests, NEW p \in Packets(s),
           ReceiveAck(p) \/ ReceiveMore(p)
    PROVE  PInv(free)'
<1> USE DEF IInv
<1>1. /\ agent.sock = "open" /\ turn = "loop" /\ turn' = "loop" /\ agent.acks < MaxAcks
      /\ req' = req /\ answers' = answers
  BY DEF ReceiveAck, ReceiveMore, Arrives, observed
<1>2. /\ agent \in Agents /\ turn \notin Requests /\ turn' \notin Requests
      /\ p.mid \in MessageIds /\ p.tk \in Requests \cup {None}
  BY <1>1, AgentAssumption, PacketFacts DEF TypeOK
<1>3. PICK r \in Requests :
          /\ Found(agent, p) = r /\ agent' = Settle(agent, p, r)
          /\ \/ told' = [told EXCEPT ![r] = @ \cup {"ack"}]
             \/ told' = told /\ req[r].response # "none"
  BY DEF ReceiveAck, ReceiveMore, Answered, observed
<1>4. req[r].mid # None /\ Plain(r)
  BY <1>1, <1>2, <1>3, FoundFacts DEF PInv
<1>5. /\ Shrinks(agent, agent') /\ agent'.sock = "open" /\ r \notin agent'.armed
      /\ \A t \in Requests \ {r} : Follows(agent, agent', t, free)
  BY <1>1, <1>2, <1>3, SettleFollows, SettleShrinks
<1>6. /\ \A t \in Requests \ {r} : told'[t] = told[t]
      /\ told'[r] = told[r] \cup {"ack"} \/ told'[r] = told[r]
      /\ told'[r] # {} \/ req[r].response # "none"
  BY <1>3, SMTT(40) DEF TypeOK
<1>7. \A t \in Requests \ {r} : Untouched(t)
  BY <1>1, <1>6 DEF Untouched
<1>8. \A t \in Requests : TimedOut(t)' <=> TimedOut(t)
  BY <1>6 DEF TimedOut
<1>9. \A t \in Requests : Counted(t)' <=> Counted(t)
  BY <1>1, <1>8 DEF Counted
<1>10. Exchanges' = Exchanges /\ (Calm' <=> Calm)
  <2>1. CountedRequests' = CountedRequests
    BY <1>9 DEF CountedRequests
  <2> QED BY <1>2, <1>8, <2>1 DEF Exchanges, Calm
<1>11. Account(agent', Exchanges', Calm')
  <2>1. Account(agent', Exchanges, Calm)
    BY <1>1, <1>2, <1>3, SettleAccount DEF PInv
  <2> QED BY <1>10, <2>1 DEF Account
<1>12. FoundAlive'
  BY <1>1, <1>5, FoundAliveFrame DEF PInv
<1>13. Plain(r)'
  BY <1>1, <1>4, <1>6 DEF Plain
<1>14. Pursued(r, free)'
  <2>1. ~Waiting(r)'
    BY <1>1, <1>4, <1>6 DEF Waiting, Plain, TypeOK
  <2> QED BY <1>2, <1>5, <2>1 DEF Pursued
<1>15. agent'.armed \subseteq agent.armed
  BY <1>5 DEF Shrinks
<1> QED BY <1>2, <1>5, <1>7, <1>11, <1>12, <1>13, <1>14, <1>15, OneStep

\* The response of a request: it is over, unless it observes.
LEMMA PlainResponse ==
    ASSUME NEW free \in BOOLEAN,
           IInv, IInv', PInv(free), NEW s \in Requests, NEW p \in Packets(s), ReceiveResponse(p)
    PROVE  PInv(free)'
<1> USE DEF IInv
<1>1. /\ agent.sock = "open" /\ turn = "loop" /\ turn' = "response" /\ agent.acks < MaxAcks
      /\ told' = told
  BY DEF ReceiveResponse, Arrives
<1>2. /\ agent \in Agents /\ turn \notin Requests /\ turn' \notin Requests
      /\ p.mid \in MessageIds /\ p.tk \in Requests \cup {None}
  BY <1>1, AgentAssumption, PacketFacts DEF TypeOK
<1>3. PICK r \in Requests :
        /\ Found(agent, p) = r
        /\ IsResponse(p, r) /\ ~Answered(r)
        /\ LET a == DropToken(Settle(agent, p, r), p, r)
           IN  agent' = IF CleansUp(r) THEN CleanUp(a) ELSE a
        /\ req' = [req EXCEPT
              ![r].response = IF req[r].kind = "multicast" THEN "none"
                              ELSE IF OpensStream(p, r) THEN "stream" ELSE "message",
              ![r].streamToken = IF OpensStream(p, r) THEN p.tk ELSE None]
        /\ answers' = [answers EXCEPT ![r] = @ + 1]
  BY DEF ReceiveResponse
<1>4. /\ req[r].mid # None /\ req[r].kind # None /\ ~TimedOut(r) /\ Plain(r)
      /\ req[r].response = "none"
  BY <1>1, <1>2, <1>3, FoundFacts DEF Answered, PInv
<1>5. ~req[r].dead
  <2>1. Registered(r)
    BY <1>2, <1>3, AgentAssumption DEF Found, Registered
  <2> QED BY <1>1, <2>1 DEF FoundAlive, PInv
<1>6. Counted(r)
  BY <1>4, <1>5 DEF Counted
<1>7. p.tk \in {r, None} /\ p.code \in Codes \cup {"empty"}
  <2>1. p.code = "empty" => p.tk = None
    BY PacketCodes
  <2>2. p.code # "empty" => p.tk = req[r].token
    BY <1>3 DEF IsResponse, Mismatch
  <2> QED BY <1>4, <2>1, <2>2, PacketCodes DEF Plain
<1> DEFINE b == Settle(agent, p, r)
           tokens == [b.tkToReq EXCEPT ![r] = None]
           c == [b EXCEPT !.tkToReq = tokens]
           a == DropToken(b, p, r)
<1>8. /\ Shrinks(agent, b) /\ b \in Agents /\ b.sock = "open" /\ r \notin b.armed
      /\ \A t \in Requests \ {r} : Follows(agent, b, t, free)
  BY <1>1, <1>2, <1>3, SettleFollows, SettleShrinks
<1>9. Account(b, Exchanges, Calm)
  BY <1>1, <1>2, SettleAccount DEF PInv
<1>10. a = b \/ a = c
  BY <1>7 DEF DropToken
<1>11. agent' = IF CleansUp(r) THEN CleanUp(a) ELSE a
  BY <1>3
<1>12. Shrinks(b, a) /\ a \in Agents
  BY <1>2, <1>8, DropTokenShrinks DEF Shrinks
<1> HIDE DEF b
<1>13. \A t \in Requests \ {r} : Follows(agent, c, t, free)
  BY <1>1, <1>8, TokenFollows DEF Shrinks
<1>14. tokens \in [Requests -> Requests \cup {None}]
  BY <1>8 DEF Agents
<1> HIDE DEF tokens, a
<1>15. /\ c.sock = b.sock /\ c.thrown = b.thrown
       /\ c.requests = b.requests /\ c.closing = b.closing
       /\ c.msgInFlight = b.msgInFlight /\ c.acks = b.acks
       /\ c.sending = b.sending
  BY <1>8 DEF Agents
<1> HIDE DEF c
<1>16. Account(c, Exchanges, Calm)
  BY <1>9, <1>15, AccountFrame
<1>17. /\ Account(a, Exchanges, Calm) /\ a.sock = "open"
       /\ \A t \in Requests \ {r} : Follows(agent, a, t, free)
  BY <1>8, <1>9, <1>10, <1>13, <1>15, <1>16
<1>18. Shrinks(agent, a) /\ r \notin a.armed
  BY <1>8, <1>12, ShrinksTransitive DEF Shrinks
<1>19. Shrinks(agent, agent') /\ r \notin agent'.armed
  <2>1. Shrinks(a, CleanUp(a))
    BY <1>12, CleanUpShrinks
  <2>2. Shrinks(agent, CleanUp(a)) /\ r \notin CleanUp(a).armed
    BY <1>18, <2>1, ShrinksTransitive DEF Shrinks
  <2> QED BY <1>11, <1>18, <2>2
<1>20. \A t \in Requests \ {r} : Follows(agent, agent', t, free)
  BY <1>11, <1>12, <1>17, CleanUpFollows, FollowsTransitive
<1> DEFINE x == IF OpensStream(p, r) THEN "stream" ELSE "message"
           y == IF OpensStream(p, r) THEN p.tk ELSE None
           q == [req[r] EXCEPT !.response = x, !.streamToken = y]
<1>21. req' = [req EXCEPT ![r] = q]
  <2>1. req[r].kind # "multicast"
    BY <1>4, AgentAssumption DEF Plain, AllKinds
  <2> QED BY <1>3, <2>1
<1>22. /\ x \in {"stream", "message"} /\ y \in {r, None}
       /\ x = "stream" => req[r].kind = "observe"
       /\ x = "message" /\ req[r].kind = "observe" => "notFound" \in Codes
  BY <1>7 DEF OpensStream
<1> HIDE DEF x, y
<1>23. /\ q.mid = req[r].mid /\ q.kind = req[r].kind /\ q.timer = req[r].timer
       /\ q.token = req[r].token /\ q.streamToken = y
       /\ q.response = x /\ q.dead = req[r].dead
  <2>1. req[r] \in OutgoingMessages
    BY DEF TypeOK
  <2> QED BY <2>1 DEF OutgoingMessages
<1> HIDE DEF q
<1>24. req'[r] = q /\ \A t \in Requests \ {r} : req'[t] = req[t]
  BY <1>21 DEF TypeOK
<1>25. /\ answers'[r] = answers[r] + 1 /\ answers[r] \in Nat
       /\ \A t \in Requests \ {r} : answers'[t] = answers[t]
  BY <1>3 DEF TypeOK
<1>26. \A t \in Requests \ {r} : Untouched(t)
  BY <1>1, <1>24, <1>25 DEF Untouched
<1>27. \A t \in Requests \ {r} : Counted(t)' <=> Counted(t)
  BY <1>26, PlainFrame DEF PInv
<1>28. ~TimedOut(r)' /\ (Calm' <=> Calm)
  BY <1>1, <1>4 DEF Calm, TimedOut
<1>29. Account(agent', Exchanges', Calm')
  <2>1. CASE CleansUp(r)
    <3>1. ~Counted(r)'
      BY <1>22, <1>23, <1>24, <2>1 DEF Counted, CleansUp
    <3>2. Exchanges \in Nat \ {0} /\ Exchanges' = Exchanges - 1
      BY <1>2, <1>6, <1>27, <3>1, OneLess
    <3>3. Account(CleanUp(a), Exchanges - 1, Calm)
      BY <1>12, <1>17, <3>2, CleanUpAccount
    <3> QED BY <1>11, <1>28, <2>1, <3>2, <3>3 DEF Account
  <2>2. CASE ~CleansUp(r)
    <3>1. req[r].kind = "observe"
      BY <1>4, <2>2 DEF Plain, CleansUp
    <3>2. Counted(r)'
      BY <1>4, <1>5, <1>22, <1>23, <1>24, <1>28, <3>1 DEF Counted
    <3>3. CountedRequests' = CountedRequests
      BY <1>6, <1>27, <3>2 DEF CountedRequests
    <3>4. Exchanges' = Exchanges
      BY <1>2, <3>3 DEF Exchanges
    <3> QED BY <1>11, <1>17, <1>28, <2>2, <3>4 DEF Account
  <2> QED BY <2>1, <2>2
<1>30. FoundAlive'
  BY <1>1, <1>19, <1>23, <1>24, FoundAliveFrame DEF PInv
<1>31. Plain(r)'
  <2>1. answers'[r] > 0
    BY <1>25
  <2> QED BY <1>1, <1>4, <1>5, <1>22, <1>23, <1>24, <2>1 DEF Plain
<1>32. Pursued(r, free)'
  <2>1. ~Waiting(r)'
    BY <1>25 DEF Waiting
  <2> QED BY <1>2, <1>19, <2>1 DEF Pursued
<1>33. agent'.armed \subseteq agent.armed
  BY <1>19 DEF Shrinks
<1> QED BY <1>2, <1>20, <1>26, <1>29, <1>30, <1>31, <1>32, <1>33, OneStep

LEMMA PlainNetworkStep ==
    ASSUME NEW free \in BOOLEAN, IInv, IInv', PInv(free), NetworkNext
    PROVE  PInv(free)'
BY PlainStray, PlainSettle, PlainResponse DEF NetworkNext
-----------------------------------------------------------------------------
\* The event loop keeps the invariant.

LEMMA PlainRetransmit ==
    ASSUME NEW free \in BOOLEAN,
           IInv, IInv', PInv(free), NEW r \in Requests, Retransmit(r)
    PROVE  PInv(free)'
<1> USE DEF IInv
<1>1. /\ turn = "loop" /\ turn' = "loop" /\ r \in agent.armed
      /\ req' = [req EXCEPT ![r].left = @ - 1]
      /\ told' = told /\ answers' = answers
  BY DEF Retransmit, Idle, observed
<1>2. /\ agent \in Agents /\ turn \notin Requests /\ turn' \notin Requests
      /\ req[r] \in OutgoingMessages
  BY <1>1, AgentAssumption DEF TypeOK
<1>3. Plain(r) /\ Pursued(r, free) /\ Counted(r) /\ ~req[r].dead
  BY <1>1 DEF PInv, Pursued, Counted
<1>4. agent.sock = "open"
  BY <1>3, OpenNow DEF PInv
<1> DEFINE more == agent.msgInFlight + 1
           sending == [agent.sending EXCEPT ![r] = @ + 1]
           b == [agent EXCEPT !.msgInFlight = more, !.sending = sending]
           less == req[r].left - 1
           q == [req[r] EXCEPT !.left = less]
<1>5. agent' = b
  BY <1>3 DEF Retransmit
<1>6. req' = [req EXCEPT ![r] = q]
  BY <1>1
<1> HIDE DEF less, more, sending
<1>7. /\ q.mid = req[r].mid /\ q.kind = req[r].kind /\ q.timer = req[r].timer
      /\ q.token = req[r].token /\ q.streamToken = req[r].streamToken
      /\ q.response = req[r].response /\ q.dead = req[r].dead
  BY <1>2 DEF OutgoingMessages
<1>8. /\ b.sock = agent.sock /\ b.thrown = agent.thrown /\ b.requests = agent.requests
      /\ b.closing = agent.closing /\ b.msgInFlight = more /\ b.acks = agent.acks
      /\ b.sending = sending /\ b.armed = agent.armed
      /\ b.msgIdToReq = agent.msgIdToReq /\ b.tkToReq = agent.tkToReq
  BY <1>2 DEF Agents
<1> HIDE DEF q, b
<1>9. req'[r] = q /\ \A s \in Requests \ {r} : req'[s] = req[s]
  BY <1>6 DEF TypeOK
<1>10. \A s \in Requests \ {r} : Untouched(s)
  BY <1>1, <1>9 DEF Untouched
<1>11. \A s \in Requests : (Counted(s)' <=> Counted(s)) /\ (TimedOut(s)' <=> TimedOut(s))
  <2>1. (Counted(r)' <=> Counted(r)) /\ (TimedOut(r)' <=> TimedOut(r))
    BY <1>1, <1>7, <1>9 DEF Counted, TimedOut
  <2> QED BY <1>10, <2>1, PlainFrame DEF PInv
<1>12. Exchanges' = Exchanges /\ (Calm' <=> Calm)
  <2>1. CountedRequests' = CountedRequests
    BY <1>11 DEF CountedRequests
  <2> QED BY <1>2, <1>11, <2>1 DEF Exchanges, Calm
<1>13. Account(agent', Exchanges', Calm')
  <2>1. Account(b, Exchanges, Calm)
    BY <1>2, <1>4, <1>8, HandedAccount DEF PInv, more, sending
  <2> QED BY <1>5, <1>12, <2>1 DEF Account
<1>14. \A s : Follows(agent, agent', s, free)
  BY <1>5, <1>8, FollowsFrame
<1>15. FoundAlive'
  <2>1. \A s \in Requests : (Registered(s)' <=> Registered(s)) /\ (req'[s].dead <=> req[s].dead)
    BY <1>5, <1>7, <1>8, <1>9 DEF Registered
  <2> QED BY <1>4, <2>1 DEF FoundAlive, PInv
<1>16. Plain(r)'
  BY <1>1, <1>3, <1>7, <1>9 DEF Plain
<1>17. Pursued(r, free)'
  <2>1. Waiting(r)' => Waiting(r)
    BY <1>1, <1>7, <1>9 DEF Waiting, Unfinished
  <2> QED BY <1>2, <1>3, <1>5, <1>7, <1>8, <1>9, <1>11, <2>1 DEF Pursued
<1>18. agent'.armed = agent.armed
  BY <1>5, <1>8
<1> QED BY <1>2, <1>10, <1>13, <1>14, <1>15, <1>16, <1>17, <1>18, OneStep

LEMMA PlainTimeOut ==
    ASSUME NEW free \in BOOLEAN,
           IInv, IInv', PInv(free), NEW r \in Requests, TimeOut(r) PROVE PInv(free)'
<1> USE DEF IInv
<1>1. /\ turn = "loop" /\ turn' = r /\ r \in agent.armed
      /\ agent' = [agent EXCEPT !.armed = @ \ {r}]
      /\ told' = [told EXCEPT ![r] = @ \cup {"timeout"}]
      /\ req' = req /\ answers' = answers
  BY DEF TimeOut, Idle
<1>2. agent \in Agents /\ turn \notin Requests /\ turn' \in Requests
  BY <1>1, AgentAssumption DEF TypeOK
<1>3. /\ Plain(r) /\ Counted(r) /\ (free => agent.msgIdToReq[req[r].mid] = r)
      /\ req[r].mid # None
  BY <1>1 DEF PInv, Pursued, Outcome
<1>4. agent.sock = "open"
  BY <1>3, OpenNow DEF PInv
<1>5. /\ agent'.sock = agent.sock /\ agent'.thrown = agent.thrown
      /\ agent'.requests = agent.requests /\ agent'.closing = agent.closing
      /\ agent'.msgInFlight = agent.msgInFlight /\ agent'.acks = agent.acks
      /\ agent'.sending = agent.sending /\ agent'.armed = agent.armed \ {r}
      /\ agent'.msgIdToReq = agent.msgIdToReq /\ agent'.tkToReq = agent.tkToReq
  BY <1>1, <1>2 DEF Agents
<1>6. /\ told'[r] = told[r] \cup {"timeout"}
      /\ \A s \in Requests \ {r} : told'[s] = told[s]
  BY <1>1 DEF TypeOK
<1>7. \A s \in Requests \ {r} : Untouched(s)
  BY <1>1, <1>6 DEF Untouched
<1>8. \A s \in Requests \ {r} : Counted(s)' <=> Counted(s)
  BY <1>7, PlainFrame DEF PInv
<1>9. TimedOut(r)' /\ ~Counted(r)' /\ ~Calm'
  BY <1>6 DEF TimedOut, Counted, Calm
<1>10. Exchanges' = Exchanges
  BY <1>2, <1>3, <1>8, <1>9, OneLess
<1>11. Account(agent', Exchanges', Calm')
  <2>1. Account(agent', Exchanges, Calm)
    BY <1>5, AccountFrame DEF PInv
  <2> QED BY <1>9, <1>10, <2>1 DEF Account
<1>12. \A s \in Requests \ {r} : Follows(agent, agent', s, free)
  BY <1>5 DEF Follows
<1>13. FoundAlive'
  <2>1. \A s \in Requests : Registered(s)' <=> Registered(s)
    BY <1>5 DEF Registered
  <2> QED BY <1>1, <1>4, <2>1 DEF FoundAlive, PInv
<1>14. Plain(r)'
  BY <1>1, <1>3, <1>6 DEF Plain
<1>15. Pursued(r, free)'
  BY <1>1, <1>3, <1>5, <1>6, <1>9 DEF Pursued, Waiting
<1>16. \A s \in Requests \ {r} : turn' # s
  BY <1>1
<1> QED BY <1>5, <1>7, <1>11, <1>12, <1>13, <1>14, <1>15, <1>16, OneStep

LEMMA PlainAbort ==
    ASSUME NEW free \in BOOLEAN,
           IInv, IInv', PInv(free), AbortTimedOut PROVE PInv(free)'
<1> USE DEF IInv
<1>1. PICK r \in Requests : turn = r
  BY DEF AbortTimedOut
<1>2. /\ turn' = "loop" /\ agent' = Abort(agent, {r})
      /\ UNCHANGED <<req, told, answers>>
  BY <1>1 DEF AbortTimedOut, observed
<1>3. agent \in Agents /\ turn' \notin Requests
  BY <1>2, AgentAssumption DEF TypeOK
<1>4. TimedOut(r) /\ (free => agent.msgIdToReq[req[r].mid] = r) /\ Plain(r)
  BY <1>1 DEF PInv, Pursued
<1>5. req[r].mid \in MessageIds
  BY <1>4 DEF Outcome, TypeOK, OutgoingMessages
<1>6. agent.sock = "open"
  BY <1>1, OpenNow DEF PInv
<1>7. r \notin agent.armed /\ ~Waiting(r)
  BY <1>4 DEF PInv, Pursued, Counted, Waiting, TimedOut
<1>8. Shrinks(agent, agent')
  BY <1>2, <1>3, AbortShrinks
<1>9. \A s \in Requests \ {r} : Follows(agent, agent', s, free)
  BY <1>2, <1>4, <1>5, <1>6, AbortFollows
<1>10. \A s \in Requests : Untouched(s)
  BY <1>2 DEF Untouched
<1>11. \A s \in Requests : (Counted(s)' <=> Counted(s)) /\ (TimedOut(s)' <=> TimedOut(s))
  BY <1>10, PlainFrame DEF PInv
<1>12. Exchanges \in Nat \ {0} /\ Exchanges' = Exchanges - 1
  <2>1. CountedRequests' = CountedRequests
    BY <1>11 DEF CountedRequests
  <2>2. Cardinality(CountedRequests) \in Nat
    BY CountedFinite, FS_CardinalityType
  <2>3. turn \in Requests /\ turn' \notin Requests
    BY <1>1, <1>3
  <2> QED BY <2>1, <2>2, <2>3 DEF Exchanges
<1>13. ~Calm'
  BY <1>4, <1>11 DEF Calm
<1>14. Account(agent', Exchanges', Calm')
  <2>1. PICK aborted \in BOOLEAN : ~aborted
    OBVIOUS
  <2>2. Account(Abort(agent, {r}), Exchanges - 1, aborted)
    BY <1>3, <1>6, <1>12, <2>1, AbortAccount DEF PInv
  <2> QED BY <1>2, <1>12, <1>13, <2>2 DEF Account
<1>15. FoundAlive'
  BY <1>2, <1>6, <1>8, FoundAliveFrame DEF PInv
<1>16. Plain(r)' /\ ~Waiting(r)'
  BY <1>4, <1>7, <1>10, PlainFrame
<1>17. agent'.armed \subseteq agent.armed
  BY <1>8 DEF Shrinks
<1>18. Pursued(r, free)'
  BY <1>3, <1>7, <1>16, <1>17 DEF Pursued
<1> QED BY <1>3, <1>9, <1>10, <1>14, <1>15, <1>16, <1>17, <1>18, OneStep

\* Callbacks of the socket, and the return of the 'response' listeners.
LEMMA PlainCallback ==
    ASSUME NEW free \in BOOLEAN, IInv, IInv', PInv(free),
           ListenersReturn \/ AckSent \/ \E r \in Requests : Sent(r)
    PROVE  PInv(free)'
<1> USE DEF IInv
<1>1. /\ UNCHANGED <<req, told, answers>> /\ turn \in {"loop", "response"}
      /\ turn' = "loop"
  BY DEF ListenersReturn, AckSent, Sent, observed
<1>2. agent \in Agents /\ turn \notin Requests /\ turn' \notin Requests
  BY <1>1, AgentAssumption DEF TypeOK
<1>3. Account(agent, Exchanges, Calm) /\ Exchanges \in Nat
  BY CountedFinite DEF PInv
<1>4. CASE ListenersReturn
  <2>1. agent' = agent
    BY <1>4 DEF ListenersReturn
  <2>2. Shrinks(agent, agent') /\ \A s : Follows(agent, agent', s, free)
    BY <1>2, <2>1 DEF Shrinks, Follows
  <2> QED BY <1>1, <1>2, <1>3, <2>1, <2>2, QuietPlain
<1>5. ASSUME AckSent \/ \E r \in Requests : Sent(r) PROVE PInv(free)'
  <2> DEFINE Before(b) ==
        /\ agent' = HasSent(b) /\ b.sock = agent.sock /\ b.armed = agent.armed
        /\ b.msgIdToReq = agent.msgIdToReq /\ b.tkToReq = agent.tkToReq
        /\ Account(HasSent(b), Exchanges, Calm) /\ agent.sock # "null"
  <2>1. PICK b \in Agents : Before(b)
    <3>1. CASE AckSent
      <4> DEFINE less == agent.acks - 1
                 b == [agent EXCEPT !.acks = less]
      <4>1. agent.acks > 0 /\ agent' = HasSent(b)
        BY <3>1 DEF AckSent
      <4>2. Account(HasSent(b), Exchanges, Calm)
        <5>1. Account(HasSent([agent EXCEPT !.acks = @ - 1]), Exchanges, Calm)
          BY <1>2, <1>3, <4>1, AckSentAccount
        <5> QED BY <5>1
      <4>3. less \in 0..MaxAcks
        BY <1>2, <4>1, AgentAssumption DEF Agents
      <4>4. agent.sock # "null"
        BY <1>3, <4>1 DEF Account
      <4> HIDE DEF less
      <4>5. /\ b \in Agents /\ b.sock = agent.sock
            /\ b.armed = agent.armed /\ b.msgIdToReq = agent.msgIdToReq
            /\ b.tkToReq = agent.tkToReq
        BY <1>2, <4>3 DEF Agents
      <4> QED BY <4>1, <4>2, <4>4, <4>5
    <3>2. ASSUME NEW r \in Requests, Sent(r)
          PROVE  \E b \in Agents : Before(b)
      <4> DEFINE sending == [agent.sending EXCEPT ![r] = @ - 1]
                 b == [agent EXCEPT !.sending = sending]
      <4>1. agent.sending[r] > 0 /\ agent' = HasSent(b)
        BY <3>2 DEF Sent
      <4>2. Account(HasSent(b), Exchanges, Calm)
        <5>1. Account(HasSent([agent EXCEPT !.sending[r] = @ - 1]), Exchanges, Calm)
          BY <1>2, <1>3, <4>1, SentAccount
        <5> QED BY <5>1
      <4>3. sending \in [Requests -> Nat]
        BY <1>2, <4>1 DEF Agents
      <4>4. agent.sock # "null"
        BY <1>3, <4>1 DEF Account
      <4> HIDE DEF sending
      <4>5. /\ b \in Agents /\ b.sock = agent.sock
            /\ b.armed = agent.armed /\ b.msgIdToReq = agent.msgIdToReq
            /\ b.tkToReq = agent.tkToReq
        BY <1>2, <4>3 DEF Agents
      <4> QED BY <4>1, <4>2, <4>4, <4>5
    <3> QED BY <1>5, <3>1, <3>2
  <2>2. Shrinks(agent, agent')
    <3>1. Shrinks(agent, b)
      BY <2>1 DEF Shrinks
    <3> QED BY <2>1, <3>1, HasSentShrinks, ShrinksTransitive
  <2>3. \A s : Follows(agent, agent', s, free)
    <3>1. \A s : Follows(agent, b, s, free)
      BY <2>1, FollowsFrame
    <3> QED BY <2>1, <3>1, HasSentFollows, FollowsTransitive
  <2> QED BY <1>1, <1>2, <2>1, <2>2, <2>3, QuietPlain
<1> QED BY <1>4, <1>5

\* The socket closes when no exchange is counted, so none is lost with it.
LEMMA PlainSocketClosed ==
    ASSUME NEW free \in BOOLEAN, IInv, IInv', PInv(free), SocketClosed PROVE PInv(free)'
<1> USE DEF IInv
<1>1. /\ turn = "loop" /\ turn' = "loop" /\ agent.sock = "closing"
      /\ agent' = [agent EXCEPT !.sock = "null", !.acks = 0,
                                !.sending = [r \in Requests |-> 0]]
      /\ req' = [r \in Requests |->
                    IF req[r].kind = None THEN req[r] ELSE [req[r] EXCEPT !.dead = TRUE]]
      /\ told' = told /\ answers' = answers
  BY DEF SocketClosed, observed
<1>2. agent \in Agents /\ turn \notin Requests /\ turn' \notin Requests
  BY <1>1, AgentAssumption DEF TypeOK
<1>3. \A r \in Requests : ~Counted(r)
  BY <1>1, OpenNow DEF PInv
<1>4. CountedRequests = {} /\ Exchanges = 0
  <2>1. CountedRequests = {}
    BY <1>3 DEF CountedRequests
  <2> QED BY <1>2, <2>1, FS_EmptySet DEF Exchanges
<1>5. Account(agent', 0, Calm)
  BY <1>1, <1>2, <1>4, SocketClosedAccount DEF PInv
<1> DEFINE zero == 0
           sending == [r \in Requests |-> 0]
<1>6. agent' = [agent EXCEPT !.sock = "null", !.acks = zero, !.sending = sending]
  BY <1>1
<1> HIDE DEF zero, sending
<1>7. agent'.sock = "null" /\ agent'.armed = agent.armed
  BY <1>2, <1>6 DEF Agents
<1>8. ASSUME NEW r \in Requests
      PROVE  /\ req'[r].kind = req[r].kind /\ req'[r].mid = req[r].mid
             /\ req'[r].timer = req[r].timer /\ req'[r].token = req[r].token
             /\ req'[r].streamToken = req[r].streamToken
             /\ req'[r].response = req[r].response
             /\ req[r].kind # None => req'[r].dead
             /\ req[r].kind = None => req'[r] = req[r]
  <2> DEFINE dead == TRUE
             q == [req[r] EXCEPT !.dead = dead]
  <2>1. req[r] \in OutgoingMessages
    BY DEF TypeOK
  <2>2. req'[r] = IF req[r].kind = None THEN req[r] ELSE q
    BY <1>1
  <2>3. dead
    OBVIOUS
  <2> HIDE DEF dead
  <2>4. /\ q.mid = req[r].mid /\ q.kind = req[r].kind /\ q.timer = req[r].timer
        /\ q.token = req[r].token /\ q.streamToken = req[r].streamToken
        /\ q.response = req[r].response /\ q.dead = dead
    BY <2>1 DEF OutgoingMessages
  <2> HIDE DEF q
  <2> QED BY <2>2, <2>3, <2>4
<1>9. ASSUME NEW r \in Requests PROVE ~Counted(r)' /\ ~Waiting(r)'
  BY <1>8 DEF Counted, Waiting, Unfinished
<1>10. Exchanges' = 0 /\ (Calm' <=> Calm)
  <2>1. CountedRequests' = {}
    BY <1>9 DEF CountedRequests
  <2> QED BY <1>1, <1>2, <2>1, FS_EmptySet DEF Exchanges, Calm, TimedOut
<1>11. Account(agent', Exchanges', Calm')
  BY <1>5, <1>10 DEF Account
<1>12. FoundAlive'
  BY <1>7 DEF FoundAlive
<1>13. ASSUME NEW r \in Requests PROVE Plain(r)'
  <2>1. Plain(r) /\ ~Counted(r)
    BY <1>3 DEF PInv
  <2>2. req[r].response # "stream"
    <3> SUFFICES ASSUME req[r].response = "stream" PROVE FALSE
      OBVIOUS
    <3>1. req[r].kind = "observe" /\ ~req[r].dead /\ answers[r] > 0
      BY <2>1 DEF Plain
    <3>2. ~TimedOut(r)
      BY <3>1 DEF Outcome, Unicast, TypeOK
    <3> QED BY <2>1, <3>1, <3>2, AgentAssumption DEF Counted, AllKinds
  <2>3. req[r].mid = None => req[r].kind = None
    <3> SUFFICES ASSUME req[r].mid = None, req[r].kind # None PROVE FALSE
      OBVIOUS
    <3>1. ~req[r].dead /\ ~TimedOut(r) /\ answers[r] = 0
      BY DEF Outcome, Plain, PInv
    <3>2. req[r].response = "none"
      BY <2>1, <3>1 DEF Plain
    <3> QED BY <2>1, <3>1, <3>2 DEF Counted
  <2> QED BY <1>1, <1>8, <2>1, <2>2, <2>3 DEF Plain
<1>14. ASSUME NEW r \in Requests PROVE Pursued(r, free)'
  <2>1. r \notin agent'.armed
    BY <1>3, <1>7 DEF PInv, Pursued
  <2> QED BY <1>2, <1>9, <2>1 DEF Pursued
<1> QED BY <1>11, <1>12, <1>13, <1>14 DEF PInv

LEMMA PlainLoopStep ==
    ASSUME NEW free \in BOOLEAN, IInv, IInv', PInv(free), LoopNext
    PROVE  PInv(free)'
<1>1. ASSUME NEW r \in Requests, MulticastTimer(r) PROVE FALSE
  BY <1>1 DEF MulticastTimer, PInv, Plain
<1> QED BY <1>1, PlainRetransmit, PlainTimeOut, PlainAbort, PlainCallback,
           PlainSocketClosed DEF LoopNext

LEMMA PlainStutter ==
    ASSUME NEW free \in BOOLEAN, IInv, IInv', PInv(free), UNCHANGED vars
    PROVE  PInv(free)'
<1>1. UNCHANGED <<agent, req, turn, answers, told>>
  BY DEF vars
<1> QED BY <1>1 DEF PInv, FoundAlive, Registered, Account, Unsent, Exchanges,
                CountedRequests, Counted, Calm, TimedOut, Plain, Pursued, Waiting,
                Unfinished

LEMMA InitPInv ==
    ASSUME NEW free \in BOOLEAN
    PROVE  Init => PInv(free)
<1> SUFFICES ASSUME Init PROVE PInv(free)
  OBVIOUS
<1>1. PICK first \in FirstMessageIds :
        agent = [sock |-> "open", closing |-> FALSE, msgInFlight |-> 0, requests |-> 0,
                 msgIdToReq |-> EmptyMap(MessageIds), tkToReq |-> EmptyMap(Requests),
                 lastMessageId |-> first, armed |-> {},
                 sending |-> [r \in Requests |-> 0], acks |-> 0, thrown |-> FALSE]
  BY DEF Init
<1>2. \A r \in Requests : req[r] = Unused(r) /\ told[r] = {} /\ answers[r] = 0
  BY DEF Init
<1>3. turn = "loop" /\ turn \notin Requests
  BY AgentAssumption DEF Init
<1>4. ASSUME NEW r \in Requests
      PROVE  /\ req[r].kind = None /\ req[r].mid = None /\ req[r].token = r
             /\ ~req[r].timer /\ ~req[r].dead /\ req[r].response = "none"
             /\ req[r].streamToken = None
  <2> DEFINE no == FALSE
             q == [kind |-> None, mid |-> None, token |-> r, left |-> 0, timer |-> no,
                   dead |-> no, response |-> "none", streamToken |-> None]
  <2>1. req[r] = q /\ ~no
    BY <1>2 DEF Unused
  <2> HIDE DEF no
  <2>2. /\ q.kind = None /\ q.mid = None /\ q.token = r /\ q.timer = no /\ q.dead = no
        /\ q.response = "none" /\ q.streamToken = None
    OBVIOUS
  <2> HIDE DEF q
  <2> QED BY <2>1, <2>2
<1>5. \A r \in Requests : ~Counted(r) /\ ~TimedOut(r) /\ ~Waiting(r)
  BY <1>2, <1>4 DEF Counted, TimedOut, Waiting, Unfinished
<1>6. Exchanges = 0 /\ Calm
  <2>1. CountedRequests = {}
    BY <1>5 DEF CountedRequests
  <2> QED BY <1>3, <1>5, <2>1, FS_EmptySet DEF Exchanges, Calm
<1>7. /\ agent.sock = "open" /\ agent.requests = 0 /\ ~agent.closing
      /\ agent.msgInFlight = 0 /\ agent.acks = 0 /\ ~agent.thrown /\ agent.armed = {}
      /\ agent.sending = [r \in Requests |-> 0]
  BY <1>1
<1>8. Unsent(agent) = {}
  BY <1>7 DEF Unsent
<1>9. Account(agent, Exchanges, Calm)
  BY <1>6, <1>7, <1>8, FS_EmptySet DEF Account
<1>10. FoundAlive
  BY <1>4 DEF FoundAlive
<1>11. \A r \in Requests : Plain(r) /\ Pursued(r, free)
  BY <1>2, <1>3, <1>4, <1>5, <1>7, AgentAssumption DEF Plain, Pursued, AllKinds
<1> QED BY <1>9, <1>10, <1>11 DEF PInv

\* Under plain use the counters are right, whatever message ids are.
LEMMA PlainStep ==
    ASSUME NEW free \in BOOLEAN, PlainUse, IInv, IInv', PInv(free), free => NextIdFree,
           [Next]_vars
    PROVE  PInv(free)'
BY PlainUserStep, PlainNetworkStep, PlainLoopStep, PlainStutter DEF Next

LEMMA PlainInductive == ASSUME PlainUse PROVE Spec => []PInv(FALSE)
<1>1. ASSUME IInv, IInv', PInv(FALSE), [Next]_vars PROVE PInv(FALSE)'
  BY <1>1, PlainStep
<1>2. Init => PInv(FALSE)
  BY InitPInv
<1> QED BY <1>1, <1>2, Inductive, PTL DEF Spec

LEMMA PlainFreeInductive == ASSUME PlainUse PROVE Spec /\ []NextIdFree => []PInv(TRUE)
<1>1. ASSUME IInv, IInv', PInv(TRUE), NextIdFree, [Next]_vars PROVE PInv(TRUE)'
  BY <1>1, PlainStep
<1>2. Init => PInv(TRUE)
  BY InitPInv
<1> QED BY <1>1, <1>2, Inductive, PTL DEF Spec
-----------------------------------------------------------------------------
\* What the counters give.

\* What is unfinished is counted.
LEMMA UnfinishedCounted ==
    ASSUME NEW r \in Requests, Plain(r), Unfinished(r) PROVE Counted(r)
BY DEF Plain, Unfinished, Counted, TimedOut

(***************************************************************************)
(* _requests is the number of unfinished exchanges, so that cleanUp() is   *)
(* called once for each, if every packet can be encoded and no observe     *)
(* request is answered with a plain response, whose end nobody counts.     *)
(***************************************************************************)
THEOREM RequestsAreCounted ==
    ASSUME PlainUse, Unencodable = {}, "notFound" \notin Codes \/ "observe" \notin Kinds
    PROVE  Spec => []CountsUnfinished
<1>1. ASSUME IInv, PInv(FALSE) PROVE CountsUnfinished
  <2>1. ASSUME NEW r \in Requests PROVE Unfinished(r) <=> Counted(r)
    <3>1. Plain(r) /\ "error" \notin told[r]
      BY <1>1 DEF PInv, Plain
    <3>2. told[r] \cap {"timeout", "error"} = {} <=> ~TimedOut(r)
      BY <3>1 DEF TimedOut
    <3>3. Counted(r) => Unfinished(r)
      BY <3>1, <3>2 DEF Plain, Unfinished, Counted
    <3> QED BY <3>1, <3>3, UnfinishedCounted
  <2>2. {r \in Requests : Unfinished(r)} = CountedRequests
    BY <2>1 DEF CountedRequests
  <2> QED BY <1>1, <2>2 DEF CountsUnfinished, PInv, Account, Exchanges
<1> QED BY <1>1, Inductive, PlainInductive, PTL

(***************************************************************************)
(* The socket is never closed under a request that waits for its response  *)
(* or an observe stream that waits for notifications.                      *)
(***************************************************************************)
THEOREM ClosesWhenIdle == ASSUME PlainUse PROVE Spec => []ClosesOnlyWhenIdle
<1>1. ASSUME IInv, PInv(FALSE) PROVE ClosesOnlyWhenIdle
  BY <1>1, UnfinishedCounted, OpenNow DEF IInv, PInv, ClosesOnlyWhenIdle
<1> QED BY <1>1, Inductive, PlainInductive, PTL

(***************************************************************************)
(* When the socket is closed nothing handed to it is left, as long as no   *)
(* request was aborted.                                                    *)
(***************************************************************************)
THEOREM EverythingIsSent == ASSUME PlainUse PROVE Spec => []LeavesNothingUnsent
<1>1. ASSUME IInv, PInv(FALSE) PROVE LeavesNothingUnsent
  <2> SUFFICES ASSUME agent.sock = "closing", \A r \in Requests : "timeout" \notin told[r]
               PROVE  agent.acks = 0 /\ \A r \in Requests : agent.sending[r] = 0
    BY DEF LeavesNothingUnsent
  <2>1. Calm
    BY DEF Calm, TimedOut
  <2>2. /\ agent.msgInFlight <= 0 /\ IsFiniteSet(Unsent(agent))
        /\ agent.msgInFlight = agent.acks + Cardinality(Unsent(agent))
    BY <1>1, <2>1 DEF PInv, Account
  <2>3. agent.acks \in Nat /\ agent.sending \in [Requests -> Nat]
    BY <1>1, AgentAssumption DEF IInv, TypeOK, Agents
  <2>4. Cardinality(Unsent(agent)) \in Nat
    BY <2>2, FS_CardinalityType
  <2>5. agent.acks = 0 /\ Cardinality(Unsent(agent)) = 0
    BY <2>2, <2>3, <2>4
  <2> QED BY <2>2, <2>3, <2>5, UnsentNone
<1> QED BY <1>1, Inductive, PlainInductive, PTL

\* No timer, listener or callback uses a socket that is closed or closing.
THEOREM NoThrow == ASSUME PlainUse PROVE Spec => []NeverThrows
<1>1. PInv(FALSE) => NeverThrows
  BY DEF PInv, Account, NeverThrows
<1> QED BY <1>1, PlainInductive, PTL

(***************************************************************************)
(* A request that was told nothing is retransmitted, and its answer found  *)
(* by message id and by token, unless the 16-bit counter comes round to    *)
(* the id of a request that is still retransmitted.                        *)
(***************************************************************************)
THEOREM WaitsAreRetried == ASSUME PlainUse PROVE Spec /\ []NextIdFree => []NeverForgotten
<1>1. PInv(TRUE) => NeverForgotten
  BY DEF PInv, Pursued, NeverForgotten
<1> QED BY <1>1, PlainFreeInductive, PTL
=============================================================================
