--------------------------- MODULE Server_proofs ----------------------------
(***************************************************************************)
(* Proofs about Server, for every choice of its constants.                 *)
(***************************************************************************)
EXTENDS Server, FiniteSetTheorems, SequenceTheorems, TLAPS

\* A sender can only be stopped through the cache: none that runs is lost
\* from it, and a closed server has emptied it.
SendersCached ==
    /\ armed \subseteq lru
    /\ ~open => armed = {} /\ \A e \in Executions : execs[e].dead

\* No acknowledgement has been made for execution e.
Unacknowledged(e) == \A b \in Buffers : msgs[b].exec = e => msgs[b].type # "ACK"

\* The notifications of a NON observe request are sent as acknowledgements.
Exempt(e) == execs[e].req.observe /\ ~execs[e].req.confirmable

\* An execution that can still acknowledge its request has not done so, and
\* the piggyback timer only runs while it can.
MayAcknowledge ==
    \A e \in Executions :
        LET x == execs[e]
        IN  /\ x.timer => ~x.ended /\ ~x.req.observe /\ x.packet.ack
            /\ x.packet.ack /\ ~x.ended /\ ~Exempt(e) =>
                   x.req.confirmable /\ x.packet.mid = x.req.mid /\ Unacknowledged(e)

IInv == TypeOK /\ SendersCached /\ MayAcknowledge /\ AcknowledgesOnce
-----------------------------------------------------------------------------
\* Facts about message ids and keys.

LEMMA MidsAreDigits ==
    /\ Mids \subseteq Seq(0..15)
    /\ NoMid \notin Seq(0..15)
    /\ <<>> \in Seq(0..15)
<1>1. ASSUME NEW m \in Mids PROVE m \in Seq(0..15)
  <2>1. CASE \E q \in Requests : m = q.mid
    BY <2>1, ServerAssumption
  <2>2. CASE \E i \in 1..Len(ServerMids) : m = ServerMids[i]
    <3>1. m \in Seq(0..9)
      BY <2>2, ServerAssumption, ElementOfSeq
    <3>2. \A i \in 1..Len(m) : m[i] \in 0..15
      <4> TAKE i \in 1..Len(m)
      <4>1. m[i] \in 0..9
        BY <3>1, ElementOfSeq
      <4> QED BY <4>1
    <3> QED BY <3>1, <3>2
  <2> QED BY <2>1, <2>2 DEF Mids
<1>2. NoMid \notin Seq(0..15)
  BY DEF NoMid
<1> QED BY <1>1, <1>2

LEMMA FreshMidIsMid == ASSUME NEW n \in Nat PROVE FreshMid(n) \in Mids
<1>1. ServerMids \in Seq(Seq(0..9)) /\ Len(ServerMids) \in Nat \ {0}
  BY ServerAssumption, EmptySeq
<1>2. (n % Len(ServerMids)) + 1 \in 1..Len(ServerMids)
  BY <1>1
<1> QED BY <1>2 DEF FreshMid, Mids

LEMMA RequestFacts ==
    ASSUME NEW q \in RequestRecords
    PROVE  /\ q.client \in Clients /\ q.mid \in Mids /\ q.token \in Seq(0..15)
           /\ q.confirmable \in BOOLEAN /\ q.observe \in BOOLEAN
<1>1. CASE q \in Requests
  BY <1>1, ServerAssumption DEF Clients, Mids
<1>2. CASE \E r \in Requests, m \in Mids : q = EmptyRequest(r.client, m)
  BY <1>2, MidsAreDigits DEF EmptyRequest, Clients
<1> QED BY <1>1, <1>2 DEF RequestRecords

\* An execution is an element of its record type.
LEMMA ExecutionFacts ==
    ASSUME TypeOK, NEW e \in Executions
    PROVE  /\ execs[e] \in ResponseRecords
           /\ execs[e].req \in RequestRecords
           /\ Len(execs) \in Nat /\ e \in 1..MaxExecutions
<1>1. execs \in Seq(ResponseRecords) /\ Len(execs) <= MaxExecutions /\ e \in 1..Len(execs)
  BY DEF TypeOK, Executions
<1>2. execs[e] \in ResponseRecords /\ Len(execs) \in Nat
  BY <1>1, ElementOfSeq, LenProperties
<1>3. execs[e].req \in RequestRecords
  BY <1>2 DEF ResponseRecords
<1> QED BY <1>1, <1>2, <1>3, ServerAssumption

\* Replacing one execution.
LEMMA UpdateFacts ==
    ASSUME TypeOK, NEW e \in Executions, NEW x \in ResponseRecords
    PROVE  /\ [execs EXCEPT ![e] = x] \in Seq(ResponseRecords)
           /\ Len([execs EXCEPT ![e] = x]) = Len(execs)
           /\ \A d \in Executions :
                  [execs EXCEPT ![e] = x][d] = IF d = e THEN x ELSE execs[d]
BY ExceptSeq DEF TypeOK, Executions
-----------------------------------------------------------------------------
\* What every caller of SendResponse needs to know about it.
LEMMA SendFacts ==
    ASSUME TypeOK, NEW e \in Executions, NEW packet \in PacketRecords,
           NEW empty \in BOOLEAN, SendResponse(e, packet, empty)
    PROVE  /\ msgs' \in Seq(BufferRecords)
           /\ Len(msgs') = Len(msgs) + 1 /\ Len(msgs) \in Nat
           /\ \A b \in Buffers : msgs'[b] = msgs[b]
           /\ LET n == msgs'[Len(msgs) + 1]
              IN  n.exec = e /\ n.type = Type(packet) /\ n.mid = MidOf(packet)
           /\ fresh' \in Nat /\ thrown' \in BOOLEAN
           /\ lru' \subseteq lru \cup {Len(msgs) + 1}
           /\ armed' \subseteq armed \cup {Len(msgs) + 1}
           /\ armed \subseteq lru => armed' \subseteq lru'
           /\ execs[e].dead => armed' \subseteq armed
<1> DEFINE q == execs[e].req
           sent == IsSent(packet)
           key == ToKey(q.client, MidOf(packet), KeyToken(packet, q.token, empty))
           b == Len(msgs) + 1
           n == [exec |-> e, type |-> Type(packet), mid |-> MidOf(packet),
                 empty |-> empty, key |-> key, sent |-> sent /\ ~execs[e].dead]
<1>1. /\ msgs' = Append(msgs, n)
      /\ fresh' = IF packet.mid = NoMid THEN fresh + 1 ELSE fresh
      /\ lru' = (lru \ Disposed(key)) \cup {b}
      /\ armed' = (armed \ Disposed(key)) \cup (IF sent /\ ~execs[e].dead THEN {b} ELSE {})
      /\ thrown' = (sent /\ execs[e].dead)
  BY DEF SendResponse
<1>2. MidOf(packet) \in Mids
  BY FreshMidIsMid DEF MidOf, PacketRecords, TypeOK
<1>3. key \in Clients \X Seq(0..15)
  <2>1. q.client \in Clients /\ q.token \in Seq(0..15)
    BY ExecutionFacts, RequestFacts
  <2>2. KeyToken(packet, q.token, empty) \in Seq(0..15)
    BY <2>1, MidsAreDigits DEF KeyToken
  <2>3. MidOf(packet) \o KeyToken(packet, q.token, empty) \in Seq(0..15)
    BY <1>2, <2>2, MidsAreDigits, ConcatProperties
  <2> QED BY <2>1, <2>3 DEF ToKey
<1>4. execs[e].dead \in BOOLEAN /\ sent \in BOOLEAN
  <2>1. execs[e].dead \in BOOLEAN
    BY ExecutionFacts DEF ResponseRecords
  <2>2. sent \in BOOLEAN
    BY ServerAssumption DEF IsSent, PacketRecords
  <2> QED BY <2>1, <2>2
<1>5. Type(packet) \in {"CON", "NON", "ACK"}
  BY DEF Type
<1>6. n \in BufferRecords
  BY <1>2, <1>3, <1>4, <1>5, ExecutionFacts DEF BufferRecords
<1> HIDE DEF n, key, sent, q
<1>7. /\ msgs' \in Seq(BufferRecords) /\ Len(msgs') = Len(msgs) + 1 /\ Len(msgs) \in Nat
      /\ \A c \in Buffers : msgs'[c] = msgs[c]
      /\ msgs'[Len(msgs) + 1] = n
  BY <1>1, <1>6, AppendProperties, LenProperties DEF TypeOK, Buffers
<1>8. n.exec = e /\ n.type = Type(packet) /\ n.mid = MidOf(packet)
  BY DEF n
<1>9. fresh' \in Nat
  BY <1>1 DEF TypeOK
<1>10. thrown' \in BOOLEAN
  BY <1>1, <1>4
<1>11. /\ lru' \subseteq lru \cup {b} /\ armed' \subseteq armed \cup {b}
       /\ armed \subseteq lru => armed' \subseteq lru'
       /\ execs[e].dead => armed' \subseteq armed
  BY <1>1
<1> QED BY <1>7, <1>8, <1>9, <1>10, <1>11

\* The response object made for a request.
LEMMA ResponseFacts ==
    ASSUME NEW q \in RequestRecords
    PROVE  Response(q) \in ResponseRecords
<1>1. q.confirmable \in BOOLEAN /\ q.observe \in BOOLEAN /\ q.mid \in Mids
  BY RequestFacts
<1>2. (q.confirmable /\ ~q.observe) \in BOOLEAN
  OBVIOUS
<1>3. 0 \in 0..MaxWrites
  BY ServerAssumption
<1> QED BY <1>1, <1>2, <1>3 DEF Response, ResponseRecords, PacketRecords
-----------------------------------------------------------------------------
\* The invariant is inductive.

LEMMA InitIInv == Init => IInv
<1> SUFFICES ASSUME Init PROVE IInv
  OBVIOUS
<1>1. execs = <<>> /\ msgs = <<>> /\ Len(execs) = 0 /\ Len(msgs) = 0
  BY DEF Init
<1>2. execs \in Seq(ResponseRecords) /\ msgs \in Seq(BufferRecords)
  BY <1>1, EmptySeq
<1>3. Executions = {} /\ Buffers = {}
  BY <1>1 DEF Executions, Buffers
<1>4. TypeOK
  <2>1. 0 <= MaxExecutions
    BY ServerAssumption
  <2> QED BY <1>1, <1>2, <1>3, <2>1 DEF Init, TypeOK, Loop
<1> QED
  BY <1>3, <1>4 DEF Init, IInv, SendersCached, MayAcknowledge, AcknowledgesOnce

(***************************************************************************)
(* A step that sends a buffer for execution e, after which e cannot        *)
(* acknowledge its request any more: End, Write, Finish and AckTimer.      *)
(***************************************************************************)
LEMMA SendStep ==
    ASSUME IInv, NEW e \in Executions, NEW packet \in PacketRecords,
           NEW empty \in BOOLEAN, SendResponse(e, packet, empty),
           NEW x \in ResponseRecords, execs' = [execs EXCEPT ![e] = x],
           x.req = execs[e].req, x.dead = execs[e].dead, ~x.timer,
           x.ended \/ ~x.packet.ack \/ Exempt(e),
           Type(packet) = "ACK" /\ ~Exempt(e) =>
               /\ execs[e].req.confirmable
               /\ packet.mid = execs[e].req.mid
               /\ Unacknowledged(e),
           UNCHANGED <<open, turn, observed>>
    PROVE  IInv'
<1> DEFINE b == Len(msgs) + 1
<1> USE DEF IInv
<1>1. /\ execs' \in Seq(ResponseRecords) /\ Len(execs') = Len(execs)
      /\ \A d \in Executions : execs'[d] = IF d = e THEN x ELSE execs[d]
  BY UpdateFacts
<1>2. Executions' = Executions
  BY <1>1 DEF Executions
<1>3. \A d \in Executions : execs'[d].req = execs[d].req /\ execs'[d].dead = execs[d].dead
  BY <1>1
<1>4. /\ msgs' \in Seq(BufferRecords)
      /\ Len(msgs') = b /\ Len(msgs) \in Nat
      /\ \A c \in Buffers : msgs'[c] = msgs[c]
      /\ msgs'[b].exec = e /\ msgs'[b].type = Type(packet) /\ msgs'[b].mid = MidOf(packet)
      /\ fresh' \in Nat /\ thrown' \in BOOLEAN
      /\ lru' \subseteq lru \cup {b} /\ armed' \subseteq armed \cup {b}
      /\ armed \subseteq lru => armed' \subseteq lru'
      /\ execs[e].dead => armed' \subseteq armed
  BY SendFacts
<1>5. Buffers' = Buffers \cup {b} /\ b \notin Buffers
  BY <1>4 DEF Buffers
<1>6. \A c \in Buffers : msgs[c].exec \in Executions
  BY DEF TypeOK
<1>7. TypeOK'
  <2>1. \A c \in Buffers' : msgs'[c].exec \in Executions'
    BY <1>2, <1>4, <1>5, <1>6
  <2>2. (acknowledged \cup rejected \cup timedOut \subseteq Buffers)'
    BY <1>5 DEF TypeOK, observed
  <2>3. (replayed \subseteq Requests \X Buffers)'
    BY <1>5 DEF TypeOK, observed
  <2>4. lru' \subseteq Buffers' /\ armed' \subseteq Buffers'
    BY <1>4, <1>5 DEF TypeOK
  <2>5. Len(execs') <= MaxExecutions
    BY <1>1 DEF TypeOK
  <2>6. open' \in BOOLEAN /\ turn' \in {Loop} \cup Executions'
    BY <1>2 DEF TypeOK
  <2> QED BY <1>1, <1>4, <2>1, <2>2, <2>3, <2>4, <2>5, <2>6 DEF TypeOK
<1>8. SendersCached'
  BY <1>2, <1>3, <1>4 DEF SendersCached
<1>9. \A d \in Executions : d # e /\ Unacknowledged(d) => Unacknowledged(d)'
  BY <1>4, <1>5 DEF Unacknowledged
<1>10. MayAcknowledge'
  <2> SUFFICES ASSUME NEW d \in Executions
               PROVE  /\ execs'[d].timer => ~execs'[d].ended /\ ~execs'[d].req.observe
                                             /\ execs'[d].packet.ack
                      /\ execs'[d].packet.ack /\ ~execs'[d].ended /\ ~Exempt(d)' =>
                             /\ execs'[d].req.confirmable
                             /\ execs'[d].packet.mid = execs'[d].req.mid
                             /\ Unacknowledged(d)'
    BY <1>2 DEF MayAcknowledge
  <2>1. Exempt(d)' <=> Exempt(d)
    BY <1>3 DEF Exempt
  <2>2. CASE d = e
    BY <1>1, <2>1, <2>2
  <2>3. CASE d # e
    BY <1>1, <1>9, <2>1, <2>3 DEF MayAcknowledge
  <2> QED BY <2>2, <2>3
<1>11. AcknowledgesOnce'
  <2> SUFFICES ASSUME NEW c \in Buffers', msgs'[c].type = "ACK",
                      execs'[msgs'[c].exec].req.observe =>
                          execs'[msgs'[c].exec].req.confirmable
               PROVE  LET d == msgs'[c].exec
                      IN  /\ execs'[d].req.confirmable
                          /\ msgs'[c].mid = execs'[d].req.mid
                          /\ \A z \in Buffers' :
                                msgs'[z].exec = d /\ msgs'[z].type = "ACK" => z = c
    BY DEF AcknowledgesOnce
  <2> DEFINE d == msgs'[c].exec
  <2>1. d \in Executions
    BY <1>4, <1>5, <1>6
  <2>2. execs'[d].req = execs[d].req /\ ~Exempt(d)
    BY <1>3, <2>1 DEF Exempt
  <2>3. CASE c = b
    <3>1. d = e /\ Type(packet) = "ACK"
      BY <1>4, <2>3
    <3>2. /\ execs[e].req.confirmable /\ packet.mid = execs[e].req.mid
          /\ Unacknowledged(e)
      BY <2>2, <3>1
    <3>3. execs[e].req.mid # NoMid
      BY ExecutionFacts, RequestFacts, MidsAreDigits
    <3>4. msgs'[b].mid = execs[e].req.mid
      BY <1>4, <3>2, <3>3 DEF MidOf
    <3>5. \A z \in Buffers : msgs'[z].exec = e => msgs'[z].type # "ACK"
      BY <1>4, <3>2 DEF Unacknowledged
    <3> QED BY <1>5, <2>2, <2>3, <3>1, <3>2, <3>4, <3>5
  <2>4. CASE c \in Buffers
    <3>1. msgs'[c] = msgs[c]
      BY <1>4, <2>4
    <3>2. /\ execs[d].req.confirmable /\ msgs[c].mid = execs[d].req.mid
          /\ \A z \in Buffers : msgs[z].exec = d /\ msgs[z].type = "ACK" => z = c
      BY <2>2, <2>4, <3>1 DEF AcknowledgesOnce, Exempt
    <3>3. ~(msgs'[b].exec = d /\ msgs'[b].type = "ACK")
      <4> SUFFICES ASSUME d = e, Type(packet) = "ACK" PROVE FALSE
        BY <1>4
      <4> QED BY <2>2, <2>4, <3>1 DEF Unacknowledged
    <3> QED BY <1>4, <1>5, <2>2, <3>1, <3>2, <3>3
  <2> QED BY <1>5, <2>3, <2>4
<1> QED BY <1>7, <1>8, <1>10, <1>11

(***************************************************************************)
(* A step that makes no buffer: it may end observations, stop senders and  *)
(* drop what the cache holds.                                              *)
(***************************************************************************)
LEMMA QuietStep ==
    ASSUME IInv, UNCHANGED <<open, msgs, fresh, thrown>>,
           execs' = execs \/ \E e \in Executions :
               execs[e].req.observe /\ execs' = [execs EXCEPT ![e].ended = TRUE],
           lru' \subseteq lru, armed' \subseteq armed, armed' \subseteq lru',
           turn' \in {Loop} \cup Executions,
           acknowledged' \cup rejected' \cup timedOut' \subseteq Buffers,
           replayed' \subseteq Requests \X Buffers
    PROVE  IInv'
<1> USE DEF IInv
<1>1. /\ execs' \in Seq(ResponseRecords) /\ Len(execs') = Len(execs)
      /\ \A d \in Executions :
            /\ execs'[d].req = execs[d].req /\ execs'[d].dead = execs[d].dead
            /\ execs'[d].timer = execs[d].timer /\ execs'[d].packet = execs[d].packet
            /\ execs'[d].ended # execs[d].ended =>
                   execs'[d].ended /\ execs[d].req.observe
  <2>1. CASE execs' = execs
    BY <2>1 DEF TypeOK
  <2>2. ASSUME NEW e \in Executions, execs[e].req.observe,
               execs' = [execs EXCEPT ![e].ended = TRUE]
        PROVE  <1>1!:
    <3> DEFINE x == [execs[e] EXCEPT !.ended = TRUE]
    <3>1. execs[e] \in ResponseRecords
      BY ExecutionFacts
    <3>2. /\ x \in ResponseRecords /\ x.ended /\ x.req = execs[e].req
          /\ x.dead = execs[e].dead /\ x.timer = execs[e].timer
          /\ x.packet = execs[e].packet
      BY <3>1 DEF ResponseRecords
    <3> HIDE DEF x
    <3>3. execs' = [execs EXCEPT ![e] = x]
      BY <2>2 DEF x
    <3>4. /\ execs' \in Seq(ResponseRecords) /\ Len(execs') = Len(execs)
          /\ \A d \in Executions : execs'[d] = IF d = e THEN x ELSE execs[d]
      BY <3>2, <3>3, UpdateFacts
    <3>5. execs'[e] = x /\ \A d \in Executions : d # e => execs'[d] = execs[d]
      BY <3>4
    <3> QED BY <2>2, <3>2, <3>4, <3>5
  <2> QED BY <2>1, <2>2
<1>2. Executions' = Executions /\ Buffers' = Buffers
  BY <1>1 DEF Executions, Buffers
<1>3. TypeOK'
  <2>1. \A b \in Buffers' : msgs'[b].exec \in Executions'
    BY <1>2 DEF TypeOK
  <2>2. lru' \subseteq Buffers' /\ armed' \subseteq Buffers'
    BY <1>2 DEF TypeOK
  <2> QED BY <1>1, <1>2, <2>1, <2>2 DEF TypeOK
<1>4. SendersCached'
  BY <1>1, <1>2 DEF SendersCached
<1>5. MayAcknowledge'
  <2>1. \A d \in Executions : Unacknowledged(d)' = Unacknowledged(d)
    BY <1>2 DEF Unacknowledged
  <2>2. \A d \in Executions : Exempt(d)' = Exempt(d)
    BY <1>1 DEF Exempt
  <2> QED BY <1>1, <1>2, <2>1, <2>2 DEF MayAcknowledge
<1>6. AcknowledgesOnce'
  BY <1>1, <1>2, SMTT(40) DEF AcknowledgesOnce, TypeOK
<1> QED BY <1>3, <1>4, <1>5, <1>6
-----------------------------------------------------------------------------
\* The actions.

\* A new execution has acknowledged nothing.
LEMMA HandleStep ==
    ASSUME IInv, open, NEW q \in RequestRecords, Handle(q),
           UNCHANGED <<open, msgs, lru, armed, fresh, thrown>>,
           acknowledged' \cup rejected' \cup timedOut' \subseteq Buffers,
           replayed' = replayed
    PROVE  IInv'
<1> USE DEF IInv
<1> DEFINE n == Len(execs) + 1
<1>1. Len(execs) < MaxExecutions /\ execs' = Append(execs, Response(q)) /\ turn' = n
  BY DEF Handle
<1>2. /\ execs' \in Seq(ResponseRecords) /\ Len(execs') = n /\ Len(execs) \in Nat
      /\ execs'[n] = Response(q)
      /\ \A d \in Executions : execs'[d] = execs[d]
  BY <1>1, ResponseFacts, AppendProperties, LenProperties DEF TypeOK, Executions
<1>3. Executions' = Executions \cup {n} /\ n \notin Executions /\ Buffers' = Buffers
  BY <1>2 DEF Executions, Buffers
<1>4. TypeOK'
  <2>1. \A b \in Buffers' : msgs'[b].exec \in Executions'
    BY <1>3 DEF TypeOK
  <2>2. Len(execs') <= MaxExecutions
    BY <1>1, <1>2, ServerAssumption
  <2> QED BY <1>1, <1>2, <1>3, <2>1, <2>2 DEF TypeOK
<1>5. SendersCached'
  BY DEF SendersCached
<1>6. MayAcknowledge'
  <2> SUFFICES ASSUME NEW d \in Executions'
               PROVE  /\ execs'[d].timer => ~execs'[d].ended /\ ~execs'[d].req.observe
                                             /\ execs'[d].packet.ack
                      /\ execs'[d].packet.ack /\ ~execs'[d].ended /\ ~Exempt(d)' =>
                             /\ execs'[d].req.confirmable
                             /\ execs'[d].packet.mid = execs'[d].req.mid
                             /\ Unacknowledged(d)'
    BY DEF MayAcknowledge
  <2>1. CASE d \in Executions
    <3>1. execs'[d] = execs[d] /\ Exempt(d)' = Exempt(d)
                               /\ Unacknowledged(d)' = Unacknowledged(d)
      BY <1>2, <1>3, <2>1 DEF Unacknowledged, Exempt
    <3> QED BY <2>1, <3>1 DEF MayAcknowledge
  <2>2. CASE d = n
    <3>1. Unacknowledged(d)'
      BY <1>3, <2>2 DEF TypeOK, Unacknowledged
    <3>2. execs'[d] = Response(q)
      BY <1>2, <2>2
    <3>3. q.confirmable \in BOOLEAN /\ q.observe \in BOOLEAN
      BY RequestFacts
    <3>4. /\ execs'[d].timer => ~execs'[d].ended /\ ~execs'[d].req.observe
                                 /\ execs'[d].packet.ack
          /\ execs'[d].packet.ack => execs'[d].req.confirmable
          /\ execs'[d].packet.mid = execs'[d].req.mid
      <4>1. /\ execs'[d].timer = (q.confirmable /\ ~q.observe) /\ execs'[d].ended = FALSE
            /\ execs'[d].req = q /\ execs'[d].packet.ack = q.confirmable
            /\ execs'[d].packet.mid = q.mid
        BY <3>2 DEF Response
      <4> QED BY <3>3, <4>1
    <3> QED BY <3>1, <3>4
  <2> QED BY <1>3, <2>1, <2>2
<1>7. AcknowledgesOnce'
  BY <1>2, <1>3 DEF AcknowledgesOnce, TypeOK
<1> QED BY <1>4, <1>5, <1>6, <1>7

LEMMA NetworkStep == ASSUME IInv, NetworkNext PROVE IInv'
<1>1. ASSUME NEW q \in Requests, ReceiveRequest(q) PROVE IInv'
  <2>1. q \in RequestRecords
    BY DEF RequestRecords
  <2>2. acknowledged' \cup rejected' \cup timedOut' \subseteq Buffers
    BY <1>1 DEF ReceiveRequest, observed, IInv, TypeOK
  <2> QED BY <1>1, <2>1, <2>2, HandleStep DEF ReceiveRequest, observed
<1>2. ASSUME NEW q \in Requests, ReceiveDuplicate(q) PROVE IInv'
  <2>1. replayed' \subseteq Requests \X Buffers
    BY <1>2 DEF ReceiveDuplicate, Peek, IInv, TypeOK
  <2> QED BY <1>2, <2>1, QuietStep DEF ReceiveDuplicate, IInv, TypeOK, SendersCached
<1>3. ASSUME NEW b \in Buffers, ReceiveAck(b) PROVE IInv'
  BY <1>3, QuietStep DEF ReceiveAck, StopSending, IInv, TypeOK, SendersCached
<1>6. ASSUME NEW b \in Buffers, IgnoreAck(b) PROVE IInv'
  BY <1>6, QuietStep DEF IgnoreAck, IInv, TypeOK, SendersCached
<1>4. ASSUME NEW b \in Buffers, ReceiveReset(b) PROVE IInv'
  <2>1. PICK c \in Peek(AnswerKey(b)) :
            /\ execs' = IF execs[msgs[c].exec].req.observe
                         THEN [execs EXCEPT ![msgs[c].exec].ended = TRUE] ELSE execs
            /\ StopSending(c)
    BY <1>4 DEF ReceiveReset
  <2>2. msgs[c].exec \in Executions
    BY DEF Peek, IInv, TypeOK
  <2> QED
    BY <1>4, <2>1, <2>2, QuietStep
    DEF ReceiveReset, StopSending, IInv, TypeOK, SendersCached
<1>5. ASSUME NEW b \in Buffers, ReceiveUnknownReset(b) PROVE IInv'
  <2> DEFINE q == EmptyRequest(execs[msgs[b].exec].req.client, msgs[b].mid)
  <2>1. msgs[b] \in BufferRecords /\ msgs[b].exec \in Executions
    BY ElementOfSeq DEF IInv, TypeOK, Buffers
  <2>2. execs[msgs[b].exec].req.client \in Clients
    BY <2>1, ExecutionFacts, RequestFacts DEF IInv
  <2>3. q \in RequestRecords
    BY <2>1, <2>2 DEF RequestRecords, Clients, BufferRecords
  <2>4. acknowledged' \cup rejected' \cup timedOut' \subseteq Buffers
    BY <1>5 DEF ReceiveUnknownReset, IInv, TypeOK
  <2>5. open /\ Handle(q) /\ UNCHANGED <<open, msgs, lru, armed, fresh, thrown, replayed>>
    BY <1>5 DEF ReceiveUnknownReset
  <2> HIDE DEF q
  <2> QED BY <2>3, <2>4, <2>5, HandleStep
<1> QED BY <1>1, <1>2, <1>3, <1>4, <1>5, <1>6 DEF NetworkNext

LEMMA EndStep == ASSUME IInv, NEW e \in Executions, End(e) PROVE IInv'
<1> DEFINE x == [execs[e] EXCEPT !.ended = TRUE, !.timer = FALSE]
<1>1. execs[e] \in ResponseRecords
  BY ExecutionFacts DEF IInv
<1>2. /\ x \in ResponseRecords /\ x.req = execs[e].req /\ x.dead = execs[e].dead
      /\ ~x.timer /\ x.ended
  BY <1>1 DEF ResponseRecords
<1>3. execs' = [execs EXCEPT ![e] = x]
  BY DEF End
<1>4. execs[e].packet \in PacketRecords
  BY <1>1 DEF ResponseRecords
<1>5. Type(execs[e].packet) = "ACK" /\ ~Exempt(e) =>
          /\ execs[e].req.confirmable
          /\ execs[e].packet.mid = execs[e].req.mid
          /\ Unacknowledged(e)
  BY DEF End, IInv, MayAcknowledge, Type
<1>6. SendResponse(e, execs[e].packet, FALSE) /\ UNCHANGED <<open, turn, observed>>
  BY DEF End
<1> HIDE DEF x
<1> QED BY <1>2, <1>3, <1>4, <1>5, <1>6, SendStep

LEMMA WriteStep == ASSUME IInv, NEW e \in Executions, Write(e) PROVE IInv'
<1> DEFINE p == [mid |-> NoMid, confirmable |-> execs[e].req.confirmable,
                 ack |-> ~execs[e].req.confirmable]
           x == [execs[e] EXCEPT !.writes = @ + 1, !.packet = p]
<1>1. execs[e] \in ResponseRecords /\ execs[e].req.confirmable \in BOOLEAN
  BY ExecutionFacts, RequestFacts DEF IInv
<1>2. p \in PacketRecords
  BY <1>1 DEF PacketRecords
<1>3. execs[e].writes + 1 \in 0..MaxWrites
  BY <1>1, ServerAssumption DEF Write, ResponseRecords
<1>4. ~execs[e].timer /\ execs[e].req.observe
  BY DEF Write, IInv, MayAcknowledge
<1>5. /\ x \in ResponseRecords /\ x.req = execs[e].req /\ x.dead = execs[e].dead
      /\ ~x.timer /\ x.packet = p
  BY <1>1, <1>2, <1>3, <1>4 DEF ResponseRecords
<1>6. ~x.packet.ack \/ Exempt(e)
  <2>1. CASE execs[e].req.confirmable
    <3>1. p.ack = FALSE
      BY <2>1
    <3> QED BY <1>5, <3>1
  <2>2. CASE ~execs[e].req.confirmable
    BY <1>4, <2>2 DEF Exempt
  <2> QED BY <2>1, <2>2
<1>7. execs' = [execs EXCEPT ![e] = x]
  BY DEF Write
<1>8. execs[e].packet \in PacketRecords
  BY <1>1 DEF ResponseRecords
<1>9. Type(execs[e].packet) = "ACK" /\ ~Exempt(e) =>
          /\ execs[e].req.confirmable
          /\ execs[e].packet.mid = execs[e].req.mid
          /\ Unacknowledged(e)
  BY DEF Write, IInv, MayAcknowledge, Type
<1>10. SendResponse(e, execs[e].packet, FALSE) /\ UNCHANGED <<open, turn, observed>>
  BY DEF Write
<1> HIDE DEF x
<1> QED BY <1>5, <1>6, <1>7, <1>8, <1>9, <1>10, SendStep

LEMMA FinishStep == ASSUME IInv, NEW e \in Executions, Finish(e) PROVE IInv'
<1>1. CASE execs[e].writes = 0
  <2> DEFINE x == [execs[e] EXCEPT !.ended = TRUE]
  <2>1. execs[e] \in ResponseRecords
    BY ExecutionFacts DEF IInv
  <2>2. ~execs[e].timer
    BY DEF Finish, IInv, MayAcknowledge
  <2>3. /\ x \in ResponseRecords /\ x.req = execs[e].req /\ x.dead = execs[e].dead
        /\ ~x.timer /\ x.ended
    BY <2>1, <2>2 DEF ResponseRecords
  <2>4. execs' = [execs EXCEPT ![e] = x]
    BY DEF Finish, EndStream
  <2>5. execs[e].packet \in PacketRecords
    BY <2>1 DEF ResponseRecords
  <2>6. Type(execs[e].packet) = "ACK" /\ ~Exempt(e) =>
            /\ execs[e].req.confirmable
            /\ execs[e].packet.mid = execs[e].req.mid
            /\ Unacknowledged(e)
    BY DEF Finish, IInv, MayAcknowledge, Type
  <2>7. SendResponse(e, execs[e].packet, FALSE) /\ UNCHANGED <<open, turn, observed>>
    BY <1>1 DEF Finish, EndStream
  <2> HIDE DEF x
  <2> QED BY <2>3, <2>4, <2>5, <2>6, <2>7, SendStep
<1>2. CASE execs[e].writes # 0
  BY <1>2, QuietStep
  DEF Finish, EndStream, observed, IInv, TypeOK, SendersCached
<1> QED BY <1>1, <1>2

\* The piggyback timer: from now on the response is a message of its own.
LEMMA AckTimerStep == ASSUME IInv, NEW e \in Executions, AckTimer(e) PROVE IInv'
<1> DEFINE p == [mid |-> NoMid, confirmable |-> TRUE, ack |-> FALSE]
           a == [mid |-> execs[e].req.mid, confirmable |-> FALSE, ack |-> TRUE]
           x == [execs[e] EXCEPT !.timer = FALSE, !.packet = p]
<1>1. execs[e] \in ResponseRecords /\ execs[e].req.mid \in Mids
  BY ExecutionFacts, RequestFacts DEF IInv
<1>2. p \in PacketRecords /\ a \in PacketRecords
  BY <1>1 DEF PacketRecords
<1>3. /\ x \in ResponseRecords /\ x.req = execs[e].req /\ x.dead = execs[e].dead
      /\ ~x.timer /\ ~x.packet.ack
  BY <1>1, <1>2 DEF ResponseRecords
<1>4. execs' = [execs EXCEPT ![e] = x]
  BY DEF AckTimer
<1>5. ~Exempt(e) => /\ execs[e].req.confirmable /\ a.mid = execs[e].req.mid
                    /\ Unacknowledged(e)
  BY DEF AckTimer, IInv, MayAcknowledge
<1>6. SendResponse(e, a, TRUE) /\ UNCHANGED <<open, turn, observed>>
  BY DEF AckTimer, GenAck
<1> HIDE DEF x, a
<1> QED BY <1>2, <1>3, <1>4, <1>5, <1>6, SendStep

\* The cache holds every sender that runs: clearing it resets them all.
LEMMA CloseStep == ASSUME IInv, Close PROVE IInv'
<1> USE DEF IInv
<1>1. /\ lru' = {} /\ armed' = {} /\ ~open'
      /\ execs' = [e \in Executions |-> [execs[e] EXCEPT !.dead = TRUE]]
      /\ UNCHANGED <<msgs, fresh, turn, thrown, observed>>
  BY DEF Close, SendersCached
<1>2. Len(execs) \in Nat /\ Executions = 1..Len(execs)
  BY LenProperties DEF TypeOK, Executions
<1>3. \A e \in Executions :
          /\ execs'[e] \in ResponseRecords /\ execs'[e].dead
          /\ execs'[e].req = execs[e].req /\ execs'[e].timer = execs[e].timer
          /\ execs'[e].packet = execs[e].packet /\ execs'[e].ended = execs[e].ended
  <2> TAKE e \in Executions
  <2>1. execs[e] \in ResponseRecords
    BY ExecutionFacts
  <2> QED BY <1>1, <2>1 DEF ResponseRecords
<1>4. execs' \in Seq(ResponseRecords) /\ Len(execs') = Len(execs)
  BY <1>1, <1>2, <1>3
<1>5. Executions' = Executions /\ Buffers' = Buffers
  BY <1>1, <1>4 DEF Executions, Buffers
<1>6. TypeOK'
  <2>1. turn' = turn /\ UNCHANGED <<acknowledged, rejected, timedOut, replayed>>
    BY <1>1 DEF observed
  <2>2. open' \in BOOLEAN
    BY <1>1 DEF Close
  <2> QED BY <1>1, <1>4, <1>5, <2>1, <2>2 DEF TypeOK
<1>7. SendersCached'
  BY <1>1, <1>3, <1>5 DEF SendersCached
<1>8. MayAcknowledge' /\ AcknowledgesOnce'
  <2>1. \A e \in Executions : /\ Unacknowledged(e)' = Unacknowledged(e)
                              /\ Exempt(e)' = Exempt(e)
    BY <1>1, <1>3, <1>5 DEF Unacknowledged, Exempt
  <2>2. MayAcknowledge'
    BY <1>3, <1>5, <2>1 DEF MayAcknowledge
  <2>3. AcknowledgesOnce'
    BY <1>1, <1>3, <1>5 DEF AcknowledgesOnce, TypeOK
  <2> QED BY <2>2, <2>3
<1> QED BY <1>6, <1>7, <1>8

LEMMA ListenStep == ASSUME IInv, Listen PROVE IInv'
<1> USE DEF IInv
<1>1. open' = TRUE /\ UNCHANGED <<execs, msgs, lru, armed, fresh, turn, thrown, observed>>
  BY DEF Listen
<1>2. TypeOK' /\ SendersCached'
  BY <1>1 DEF TypeOK, SendersCached, Executions, Buffers, observed
<1>3. MayAcknowledge' /\ AcknowledgesOnce'
  BY <1>1 DEF MayAcknowledge, AcknowledgesOnce, Unacknowledged, Exempt, Executions, Buffers
<1> QED BY <1>2, <1>3

LEMMA TimeOutStep == ASSUME IInv, NEW b \in Buffers, TimeOut(b) PROVE IInv'
<1>1. msgs[b].exec \in Executions
  BY DEF IInv, TypeOK
<1> QED BY <1>1, QuietStep DEF TimeOut, IInv, TypeOK, SendersCached

LEMMA ReturnStep == ASSUME IInv, ListenersReturn PROVE IInv'
BY QuietStep DEF ListenersReturn, observed, IInv, TypeOK, SendersCached

LEMMA StutterStep == ASSUME IInv, UNCHANGED vars PROVE IInv'
BY DEF vars, IInv, TypeOK, SendersCached, MayAcknowledge, AcknowledgesOnce,
       Unacknowledged, Exempt, Executions, Buffers

LEMMA Inductive == Spec => []IInv
<1>1. ASSUME IInv, [Next]_vars PROVE IInv'
  <2>1. CASE UserNext
    BY <1>1, <2>1, EndStep, WriteStep, FinishStep, ReturnStep, CloseStep, ListenStep
    DEF UserNext
  <2>2. CASE TimerNext
    BY <1>1, <2>2, AckTimerStep, TimeOutStep DEF TimerNext
  <2> QED BY <1>1, <2>1, <2>2, NetworkStep, StutterStep DEF Next
<1> QED BY InitIInv, <1>1, PTL DEF Spec
-----------------------------------------------------------------------------
\* What the invariant gives, for every value of the constants.

\* The server's variables keep their types.
THEOREM TypeCorrect == Spec => []TypeOK
BY Inductive, PTL DEF IInv

(***************************************************************************)
(* However responses overwrite and evict each other in the cache, and are  *)
(* acknowledged, rejected or given up, close() finds every running sender. *)
(***************************************************************************)
THEOREM SendersStop == Spec => []CloseStopsSenders
<1>1. IInv => CloseStopsSenders
  BY DEF IInv, SendersCached, CloseStopsSenders
<1> QED BY <1>1, Inductive, PTL

(***************************************************************************)
(* _ackTimer, end() and write() acknowledge a confirmable request at most  *)
(* once between them, with its message id, whatever order they come in.    *)
(***************************************************************************)
THEOREM AcknowledgedOnce == Spec => []AcknowledgesOnce
BY Inductive, PTL DEF IInv
-----------------------------------------------------------------------------
(***************************************************************************)
(* What is cached under which key.  A packet has the message id of its     *)
(* request, or none until it is generated; only the latter may be          *)
(* confirmable.  A phantom, the RST that is taken for a request, is        *)
(* answered under its own message id only.                                 *)
(***************************************************************************)
Fits(packet, q) ==
    /\ packet.mid \in {q.mid, NoMid}
    /\ packet.confirmable => packet.mid = NoMid
    /\ q.empty => packet.mid = q.mid

PacketsSound == \A e \in Executions : Fits(execs[e].packet, execs[e].req)

OwnMid(m) == \E i \in 1..Len(ServerMids) : m = ServerMids[i]

\* What buffer m is when it was generated for request q.
Answers(m, q) ==
    /\ m.mid = q.mid \/ OwnMid(m.mid)
    /\ q.empty => m.mid = q.mid
    /\ \E t \in {q.token, <<>>} : m.key = ToKey(q.client, m.mid, t)
    /\ m.type = "CON" => m.key = ToKey(q.client, m.mid, <<>>)

BuffersSound == \A b \in Buffers : Answers(msgs[b], execs[msgs[b].exec].req)

RInv == PacketsSound /\ BuffersSound

\* Executions go on: none is forgotten, revived or taken back.
Continues ==
    /\ Executions' = Executions
    /\ \A e \in Executions : /\ execs'[e].req = execs[e].req
                             /\ execs[e].dead => execs'[e].dead
                             /\ execs[e].ended => execs'[e].ended

\* No buffer is generated, no packet changes.
Calm ==
    /\ Continues
    /\ \A e \in Executions : execs'[e].packet = execs[e].packet
    /\ msgs' = msgs /\ fresh' = fresh /\ lru' \subseteq lru

\* A response is sent for execution e, which becomes x.
Sends(e, packet, empty, x) ==
    /\ packet \in PacketRecords /\ empty \in BOOLEAN /\ x \in ResponseRecords
    /\ SendResponse(e, packet, empty)
    /\ Fits(packet, execs[e].req) /\ Fits(x.packet, execs[e].req)
    /\ execs' = [execs EXCEPT ![e] = x]
    /\ x.req = execs[e].req /\ x.dead = execs[e].dead
    /\ execs[e].ended => x.ended
    /\ UNCHANGED observed
-----------------------------------------------------------------------------
LEMMA PhantomFacts ==
    ASSUME NEW q \in RequestRecords
    PROVE  \/ q \in Requests /\ ~q.empty
           \/ /\ q.empty /\ q.token = <<>>
              /\ ~q.confirmable /\ ~q.observe
BY ServerAssumption DEF RequestRecords, EmptyRequest

LEMMA BufferFacts ==
    ASSUME TypeOK, NEW b \in Buffers
    PROVE  /\ msgs[b] \in BufferRecords /\ msgs[b].mid \in Mids
           /\ msgs[b].exec \in Executions
           /\ execs[msgs[b].exec].req \in RequestRecords
<1>1. msgs[b] \in BufferRecords /\ msgs[b].exec \in Executions
  BY ElementOfSeq DEF TypeOK, Buffers
<1>2. msgs[b].mid \in Mids
  BY <1>1 DEF BufferRecords
<1> QED BY <1>1, <1>2, ExecutionFacts

\* Everything a step changes that sends a buffer.
LEMMA SendDetails ==
    ASSUME TypeOK, NEW e \in Executions, NEW packet, NEW empty, NEW x,
           Sends(e, packet, empty, x)
    PROVE  LET b == Len(msgs) + 1
               q == execs[e].req
               key == ToKey(q.client, MidOf(packet), KeyToken(packet, q.token, empty))
               goes == IsSent(packet) /\ ~execs[e].dead
           IN  /\ Buffers' = Buffers \cup {b} /\ b \notin Buffers
               /\ \A c \in Buffers : msgs'[c] = msgs[c]
               /\ msgs'[b] = [exec |-> e, type |-> Type(packet), mid |-> MidOf(packet),
                              empty |-> empty, key |-> key, sent |-> goes]
               /\ lru' = (lru \ Disposed(key)) \cup {b}
               /\ armed' = (armed \ Disposed(key)) \cup (IF goes THEN {b} ELSE {})
               /\ fresh' = IF packet.mid = NoMid THEN fresh + 1 ELSE fresh
               /\ Continues
               /\ execs'[e] = x /\ \A d \in Executions : d # e => execs'[d] = execs[d]
               /\ \A d \in Executions : execs'[d].dead = execs[d].dead
<1> DEFINE b == Len(msgs) + 1
           q == execs[e].req
           key == ToKey(q.client, MidOf(packet), KeyToken(packet, q.token, empty))
           goes == IsSent(packet) /\ ~execs[e].dead
           n == [exec |-> e, type |-> Type(packet), mid |-> MidOf(packet),
                 empty |-> empty, key |-> key, sent |-> goes]
<1>1. /\ msgs' = Append(msgs, n)
      /\ fresh' = IF packet.mid = NoMid THEN fresh + 1 ELSE fresh
      /\ lru' = (lru \ Disposed(key)) \cup {b}
      /\ armed' = (armed \ Disposed(key)) \cup (IF goes THEN {b} ELSE {})
  BY DEF Sends, SendResponse
<1>2. /\ packet \in PacketRecords /\ empty \in BOOLEAN /\ x \in ResponseRecords
      /\ SendResponse(e, packet, empty) /\ execs' = [execs EXCEPT ![e] = x]
      /\ x.req = execs[e].req /\ x.dead = execs[e].dead
      /\ execs[e].ended => x.ended
  BY DEF Sends
<1>3. /\ Len(msgs') = b /\ Len(msgs) \in Nat /\ \A c \in Buffers : msgs'[c] = msgs[c]
  BY <1>2, SendFacts
<1> HIDE DEF n, key, goes
<1>4. msgs'[b] = n
  BY <1>1 DEF TypeOK
<1>5. Buffers' = Buffers \cup {b} /\ b \notin Buffers
  BY <1>3 DEF Buffers
<1>6. /\ Len(execs') = Len(execs)
      /\ \A d \in Executions : execs'[d] = IF d = e THEN x ELSE execs[d]
  BY <1>2, UpdateFacts
<1>7. Executions' = Executions
  BY <1>6 DEF Executions
<1>8. execs'[e] = x /\ \A d \in Executions : d # e => execs'[d] = execs[d]
  BY <1>6
<1>9. Continues
  BY <1>2, <1>7, <1>8 DEF Continues
<1>10. \A d \in Executions : execs'[d].dead = execs[d].dead
  BY <1>2, <1>8
<1>11. msgs'[b] = [exec |-> e, type |-> Type(packet), mid |-> MidOf(packet),
                   empty |-> empty, key |-> key, sent |-> goes]
  BY <1>4 DEF n
<1> QED BY <1>1, <1>3, <1>5, <1>8, <1>9, <1>10, <1>11 DEF key, goes
-----------------------------------------------------------------------------
\* Each way to send a response is one of Sends.

LEMMA EndSends ==
    ASSUME IInv, RInv, NEW e \in Executions, End(e)
    PROVE  \E x : Sends(e, execs[e].packet, FALSE, x) /\ x.ended /\ x.writes = execs[e].writes
<1> DEFINE x == [execs[e] EXCEPT !.ended = TRUE, !.timer = FALSE]
<1>1. execs[e] \in ResponseRecords /\ Fits(execs[e].packet, execs[e].req)
  BY ExecutionFacts DEF IInv, RInv, PacketsSound
<1>2. /\ x \in ResponseRecords /\ x.req = execs[e].req /\ x.dead = execs[e].dead
      /\ x.ended /\ x.packet = execs[e].packet /\ x.writes = execs[e].writes
  BY <1>1 DEF ResponseRecords
<1>3. execs' = [execs EXCEPT ![e] = x]
  BY DEF End
<1>4. execs[e].packet \in PacketRecords
  BY <1>1 DEF ResponseRecords
<1>5. SendResponse(e, execs[e].packet, FALSE) /\ UNCHANGED observed
  BY DEF End
<1> HIDE DEF x
<1>6. Sends(e, execs[e].packet, FALSE, x)
  BY <1>1, <1>2, <1>3, <1>4, <1>5 DEF Sends
<1> QED BY <1>2, <1>6

LEMMA WriteSends ==
    ASSUME IInv, RInv, NEW e \in Executions, Write(e)
    PROVE  \E x : Sends(e, execs[e].packet, FALSE, x) /\ x.writes = execs[e].writes + 1
<1> DEFINE p == [mid |-> NoMid, confirmable |-> execs[e].req.confirmable,
                 ack |-> ~execs[e].req.confirmable]
           x == [execs[e] EXCEPT !.writes = @ + 1, !.packet = p]
<1>1. /\ execs[e] \in ResponseRecords /\ Fits(execs[e].packet, execs[e].req)
      /\ execs[e].req \in RequestRecords /\ execs[e].req.confirmable \in BOOLEAN
  BY ExecutionFacts, RequestFacts DEF IInv, RInv, PacketsSound
<1>2. p \in PacketRecords
  BY <1>1 DEF PacketRecords
<1>3. execs[e].writes + 1 \in 0..MaxWrites
  BY <1>1, ServerAssumption DEF Write, ResponseRecords
<1>4. /\ x \in ResponseRecords /\ x.req = execs[e].req /\ x.dead = execs[e].dead
      /\ x.ended = execs[e].ended /\ x.packet = p /\ x.writes = execs[e].writes + 1
  BY <1>1, <1>2, <1>3 DEF ResponseRecords
<1>5. Fits(p, execs[e].req)
  <2>1. execs[e].req.observe
    BY DEF Write
  <2>2. ~execs[e].req.empty
    BY <1>1, <2>1, PhantomFacts
  <2> QED BY <2>1, <2>2 DEF Fits
<1>6. execs' = [execs EXCEPT ![e] = x]
  BY DEF Write
<1>7. execs[e].packet \in PacketRecords
  BY <1>1 DEF ResponseRecords
<1>8. SendResponse(e, execs[e].packet, FALSE) /\ UNCHANGED observed
  BY DEF Write
<1> HIDE DEF x
<1>9. Sends(e, execs[e].packet, FALSE, x)
  BY <1>1, <1>4, <1>5, <1>6, <1>7, <1>8 DEF Sends
<1> QED BY <1>4, <1>9

LEMMA FinishSends ==
    ASSUME IInv, RInv, NEW e \in Executions, Finish(e), execs[e].writes = 0
    PROVE  \E x : Sends(e, execs[e].packet, FALSE, x) /\ x.ended /\ x.writes = execs[e].writes
<1> DEFINE x == [execs[e] EXCEPT !.ended = TRUE]
<1>1. execs[e] \in ResponseRecords /\ Fits(execs[e].packet, execs[e].req)
  BY ExecutionFacts DEF IInv, RInv, PacketsSound
<1>2. /\ x \in ResponseRecords /\ x.req = execs[e].req /\ x.dead = execs[e].dead
      /\ x.ended /\ x.packet = execs[e].packet /\ x.writes = execs[e].writes
  BY <1>1 DEF ResponseRecords
<1>3. execs' = [execs EXCEPT ![e] = x]
  BY DEF Finish, EndStream
<1>4. execs[e].packet \in PacketRecords
  BY <1>1 DEF ResponseRecords
<1>5. SendResponse(e, execs[e].packet, FALSE) /\ UNCHANGED observed
  BY DEF Finish, EndStream
<1> HIDE DEF x
<1>6. Sends(e, execs[e].packet, FALSE, x)
  BY <1>1, <1>2, <1>3, <1>4, <1>5 DEF Sends
<1> QED BY <1>2, <1>6

LEMMA AckTimerSends ==
    ASSUME IInv, RInv, NEW e \in Executions, AckTimer(e)
    PROVE  \E x : Sends(e, GenAck(execs[e].req), TRUE, x)
<1> DEFINE p == [mid |-> NoMid, confirmable |-> TRUE, ack |-> FALSE]
           x == [execs[e] EXCEPT !.timer = FALSE, !.packet = p]
<1>1. /\ execs[e] \in ResponseRecords /\ execs[e].req \in RequestRecords
      /\ execs[e].req.mid \in Mids
  BY ExecutionFacts, RequestFacts DEF IInv
<1>2. p \in PacketRecords /\ GenAck(execs[e].req) \in PacketRecords
  BY <1>1 DEF PacketRecords, GenAck
<1>3. /\ x \in ResponseRecords /\ x.req = execs[e].req /\ x.dead = execs[e].dead
      /\ x.ended = execs[e].ended /\ x.packet = p
  BY <1>1, <1>2 DEF ResponseRecords
<1>4. execs' = [execs EXCEPT ![e] = x]
  BY DEF AckTimer
<1>5. execs[e].req.confirmable /\ ~execs[e].req.observe
  BY DEF AckTimer, IInv, MayAcknowledge, Exempt
<1>6. Fits(p, execs[e].req)
  <2>1. ~execs[e].req.empty
    BY <1>1, <1>5, PhantomFacts
  <2> QED BY <1>5, <2>1 DEF Fits
<1>7. Fits(GenAck(execs[e].req), execs[e].req)
  BY <1>5 DEF Fits, GenAck
<1>8. SendResponse(e, GenAck(execs[e].req), TRUE) /\ UNCHANGED observed
  BY DEF AckTimer
<1> HIDE DEF x
<1>9. Sends(e, GenAck(execs[e].req), TRUE, x)
  BY <1>2, <1>3, <1>4, <1>6, <1>7, <1>8 DEF Sends
<1> QED BY <1>9

\* Of one execution no more than this changes outside of Sends.
LEMMA EndedContinues ==
    ASSUME TypeOK,
           execs' = execs \/ \E e \in Executions : execs' = [execs EXCEPT ![e].ended = TRUE]
    PROVE  Continues /\ \A e \in Executions : /\ execs'[e].packet = execs[e].packet
                                              /\ execs'[e].dead = execs[e].dead
                                              /\ execs'[e].writes = execs[e].writes
<1>1. CASE execs' = execs
  BY <1>1 DEF Continues, Executions
<1>2. ASSUME NEW e \in Executions, execs' = [execs EXCEPT ![e].ended = TRUE]
      PROVE  Continues /\ \A d \in Executions : /\ execs'[d].packet = execs[d].packet
                                                /\ execs'[d].dead = execs[d].dead
                                                /\ execs'[d].writes = execs[d].writes
  <2> DEFINE x == [execs[e] EXCEPT !.ended = TRUE]
  <2>1. execs[e] \in ResponseRecords
    BY ExecutionFacts
  <2>2. /\ x \in ResponseRecords /\ x.ended /\ x.req = execs[e].req
        /\ x.dead = execs[e].dead /\ x.packet = execs[e].packet
        /\ x.writes = execs[e].writes
    BY <2>1 DEF ResponseRecords
  <2> HIDE DEF x
  <2>3. execs' = [execs EXCEPT ![e] = x]
    BY <1>2 DEF x
  <2>4. /\ Len(execs') = Len(execs)
        /\ \A d \in Executions : execs'[d] = IF d = e THEN x ELSE execs[d]
    BY <2>2, <2>3, UpdateFacts
  <2>5. execs'[e] = x /\ \A d \in Executions : d # e => execs'[d] = execs[d]
    BY <2>4
  <2>6. \A d \in Executions :
            /\ execs'[d].req = execs[d].req /\ execs'[d].dead = execs[d].dead
            /\ execs'[d].packet = execs[d].packet /\ execs'[d].writes = execs[d].writes
            /\ execs[d].ended => execs'[d].ended
    <3> TAKE d \in Executions
    <3>1. CASE d = e
      BY <2>2, <2>5, <3>1
    <3>2. CASE d # e
      BY <2>5, <3>2
    <3> QED BY <3>1, <3>2
  <2> QED BY <2>4, <2>6 DEF Continues, Executions
<1> QED BY <1>1, <1>2
-----------------------------------------------------------------------------
\* The steps of the server, by what they do to the buffers.
CalmStep ==
    \/ \E q \in Requests : ReceiveDuplicate(q)
    \/ \E b \in Buffers : ReceiveAck(b) \/ IgnoreAck(b) \/ ReceiveReset(b) \/ TimeOut(b)
    \/ \E e \in Executions : Finish(e) /\ execs[e].writes # 0
    \/ ListenersReturn \/ Close \/ Listen \/ UNCHANGED vars

Accepts ==
    \E q \in RequestRecords : Handle(q) /\ UNCHANGED <<msgs, lru, armed, fresh>>

Responds == \E e \in Executions : \E packet, empty, x : Sends(e, packet, empty, x)

LEMMA CloseContinues ==
    ASSUME TypeOK, Close
    PROVE  Continues /\ \A e \in Executions : /\ execs'[e].packet = execs[e].packet
                                              /\ execs'[e].dead
                                              /\ execs'[e].writes = execs[e].writes
<1>1. execs' = [e \in Executions |-> [execs[e] EXCEPT !.dead = TRUE]]
  BY DEF Close
<1>2. Len(execs) \in Nat /\ Executions = 1..Len(execs)
  BY LenProperties DEF TypeOK, Executions
<1>3. \A e \in Executions :
          /\ execs'[e] \in ResponseRecords /\ execs'[e].dead
          /\ execs'[e].req = execs[e].req /\ execs'[e].writes = execs[e].writes
          /\ execs'[e].packet = execs[e].packet /\ execs'[e].ended = execs[e].ended
  <2> TAKE e \in Executions
  <2>1. execs[e] \in ResponseRecords
    BY ExecutionFacts
  <2> QED BY <1>1, <2>1 DEF ResponseRecords
<1>4. Len(execs') = Len(execs)
  <2>1. execs' \in Seq(ResponseRecords)
    BY <1>1, <1>2, <1>3
  <2>2. DOMAIN execs' = 1..Len(execs)
    BY <1>1, <1>2
  <2> QED BY <1>2, <2>1, <2>2, LenProperties
<1> QED BY <1>3, <1>4 DEF Continues, Executions

LEMMA CalmSteps ==
    ASSUME TypeOK, CalmStep
    PROVE  /\ Calm
           /\ \A e \in Executions : execs'[e].writes = execs[e].writes
<1>1. CASE Close
  BY <1>1, CloseContinues DEF Close, Calm
<1>2. CASE ~Close
  <2>1. /\ execs' = execs \/ \E e \in Executions : execs' = [execs EXCEPT ![e].ended = TRUE]
        /\ msgs' = msgs /\ fresh' = fresh /\ lru' \subseteq lru
    <3>1. ASSUME NEW b \in Buffers, ReceiveReset(b) PROVE <2>1
      <4>1. PICK c \in Peek(AnswerKey(b)) :
                /\ execs' = IF execs[msgs[c].exec].req.observe
                             THEN [execs EXCEPT ![msgs[c].exec].ended = TRUE] ELSE execs
                /\ StopSending(c)
        BY <3>1 DEF ReceiveReset
      <4>2. msgs[c].exec \in Executions
        BY DEF Peek, TypeOK
      <4> QED BY <3>1, <4>1, <4>2 DEF ReceiveReset, StopSending
    <3>2. ASSUME NEW b \in Buffers, TimeOut(b) PROVE <2>1
      <4>1. msgs[b].exec \in Executions
        BY DEF TypeOK
      <4> QED BY <3>2, <4>1 DEF TimeOut
    <3>3. ASSUME NEW b \in Buffers, ReceiveAck(b) \/ IgnoreAck(b) PROVE <2>1
      BY <3>3 DEF ReceiveAck, IgnoreAck, StopSending
    <3>4. ASSUME NEW e \in Executions, Finish(e), execs[e].writes # 0 PROVE <2>1
      BY <3>4 DEF Finish, EndStream
    <3> QED
      BY <1>2, <3>1, <3>2, <3>3, <3>4
      DEF CalmStep, ReceiveDuplicate, ListenersReturn, Listen, vars
  <2> QED BY <2>1, EndedContinues DEF Calm
<1> QED BY <1>1, <1>2

\* Every step is one of the three.
LEMMA Steps ==
    ASSUME IInv, RInv, [Next]_vars
    PROVE  \/ CalmStep
           \/ Accepts
           \/ Responds
<1>1. ASSUME NEW q \in Requests, ReceiveRequest(q) PROVE Accepts
  <2>1. q \in RequestRecords
    BY DEF RequestRecords
  <2> QED BY <1>1, <2>1 DEF ReceiveRequest, Accepts
<1>2. ASSUME NEW b \in Buffers, ReceiveUnknownReset(b) PROVE Accepts
  <2>1. PICK r \in Requests : r.client = execs[msgs[b].exec].req.client
    BY BufferFacts, RequestFacts DEF IInv, Clients
  <2>2. EmptyRequest(execs[msgs[b].exec].req.client, msgs[b].mid) \in RequestRecords
    BY <2>1, BufferFacts DEF RequestRecords, IInv
  <2> QED BY <1>2, <2>2 DEF ReceiveUnknownReset, Accepts
<1>3. ASSUME NEW e \in Executions, End(e) \/ Write(e) PROVE Responds
  BY <1>3, EndSends, WriteSends DEF Responds
<1>4. ASSUME NEW e \in Executions, Finish(e) PROVE CalmStep \/ Responds
  <2>1. CASE execs[e].writes = 0
    BY <1>4, <2>1, FinishSends DEF Responds
  <2>2. CASE execs[e].writes # 0
    BY <1>4, <2>2 DEF CalmStep
  <2> QED BY <2>1, <2>2
<1>5. ASSUME NEW e \in Executions, AckTimer(e) PROVE Responds
  BY <1>5, AckTimerSends DEF Responds
<1>6. CASE NetworkNext
  BY <1>1, <1>2, <1>6 DEF NetworkNext, CalmStep
<1>7. CASE UserNext
  BY <1>3, <1>4, <1>7 DEF UserNext, CalmStep
<1>8. CASE TimerNext
  BY <1>5, <1>8 DEF TimerNext, CalmStep
<1>9. CASE UNCHANGED vars
  BY <1>9 DEF CalmStep
<1> QED BY <1>6, <1>7, <1>8, <1>9 DEF Next

LEMMA HandleFacts ==
    ASSUME TypeOK, NEW q \in RequestRecords, Handle(q)
    PROVE  LET n == Len(execs) + 1
           IN  /\ Executions' = Executions \cup {n} /\ n \notin Executions
               /\ execs'[n] = Response(q) /\ turn' = n
               /\ \A e \in Executions : execs'[e] = execs[e]
<1>1. execs' = Append(execs, Response(q)) /\ turn' = Len(execs) + 1
  BY DEF Handle
<1>2. /\ Len(execs') = Len(execs) + 1 /\ Len(execs) \in Nat
      /\ execs'[Len(execs) + 1] = Response(q)
      /\ \A e \in Executions : execs'[e] = execs[e]
  BY <1>1, ResponseFacts, AppendProperties, LenProperties DEF TypeOK, Executions
<1>3. Executions' = Executions \cup {Len(execs) + 1} /\ Len(execs) + 1 \notin Executions
  BY <1>2 DEF Executions
<1> QED BY <1>1, <1>2, <1>3

\* What lru.set disposes of leaves no second buffer under the key.
LEMMA DisposedFacts ==
    ASSUME TypeOK, NEW key
    PROVE  /\ \A b \in lru \ Disposed(key) : msgs[b].key # key
           /\ Cardinality(lru) < Capacity => Disposed(key) = Peek(key)
<1>1. CASE Peek(key) # {}
  BY <1>1 DEF Disposed, Peek
<1>2. CASE Peek(key) = {}
  <2>1. \A b \in lru : msgs[b].key # key
    BY <1>2 DEF Peek
  <2>2. Cardinality(lru) < Capacity => ~(Cardinality(lru) >= Capacity)
    <3>1. IsFiniteSet(Buffers)
      BY LenProperties, FS_Interval DEF TypeOK, Buffers
    <3>2. Cardinality(lru) \in Nat
      BY <3>1, FS_Subset, FS_CardinalityType DEF TypeOK
    <3> QED BY <3>2, ServerAssumption
  <2> QED BY <1>2, <2>1, <2>2 DEF Disposed
<1> QED BY <1>1, <1>2
-----------------------------------------------------------------------------
\* RInv is inductive.

LEMMA KeyIs ==
    ASSUME NEW packet, NEW token, NEW empty
    PROVE  /\ KeyToken(packet, token, empty) \in {token, <<>>}
           /\ Type(packet) = "CON" => KeyToken(packet, token, empty) = <<>>
BY DEF KeyToken, Type

LEMMA MidIs ==
    ASSUME TypeOK, NEW packet, NEW q \in RequestRecords, Fits(packet, q)
    PROVE  \/ packet.mid = q.mid /\ packet.mid # NoMid /\ MidOf(packet) = q.mid
           \/ /\ packet.mid = NoMid /\ MidOf(packet) = FreshMid(fresh)
              /\ ~q.empty /\ OwnMid(MidOf(packet))
<1>1. q.mid # NoMid
  BY RequestFacts, MidsAreDigits
<1>2. OwnMid(FreshMid(fresh))
  <2>1. Len(ServerMids) \in Nat \ {0} /\ fresh \in Nat
    BY ServerAssumption, EmptySeq DEF TypeOK
  <2>2. (fresh % Len(ServerMids)) + 1 \in 1..Len(ServerMids)
    BY <2>1
  <2> QED BY <2>2 DEF FreshMid, OwnMid
<1> QED BY <1>1, <1>2 DEF Fits, MidOf

LEMMA SendFits ==
    ASSUME IInv, RInv, NEW e \in Executions, NEW packet, NEW empty, NEW x,
           Sends(e, packet, empty, x)
    PROVE  RInv'
<1> DEFINE b == Len(msgs) + 1
           q == execs[e].req
           key == ToKey(q.client, MidOf(packet), KeyToken(packet, q.token, empty))
           goes == IsSent(packet) /\ ~execs[e].dead
<1>1. TypeOK /\ q \in RequestRecords /\ Fits(packet, q) /\ Fits(x.packet, q) /\ x.req = q
  BY ExecutionFacts DEF IInv, Sends
<1>2. /\ Buffers' = Buffers \cup {b} /\ b \notin Buffers
      /\ \A c \in Buffers : msgs'[c] = msgs[c]
      /\ msgs'[b] = [exec |-> e, type |-> Type(packet), mid |-> MidOf(packet),
                     empty |-> empty, key |-> key, sent |-> goes]
      /\ lru' = (lru \ Disposed(key)) \cup {b}
      /\ Continues
      /\ execs'[e] = x /\ \A d \in Executions : d # e => execs'[d] = execs[d]
  BY <1>1, SendDetails
<1>3. Executions' = Executions /\ \A d \in Executions : execs'[d].req = execs[d].req
  BY <1>2 DEF Continues
<1>4. PacketsSound'
  <2> SUFFICES ASSUME NEW d \in Executions PROVE Fits(execs'[d].packet, execs'[d].req)
    BY <1>3 DEF PacketsSound
  <2>1. CASE d = e
    BY <1>1, <1>2, <2>1
  <2>2. CASE d # e
    BY <1>2, <2>2 DEF RInv, PacketsSound
  <2> QED BY <2>1, <2>2
<1> HIDE DEF key, goes
<1>5. Answers(msgs'[b], q)
  <2>1. MidOf(packet) = q.mid \/ OwnMid(MidOf(packet))
    BY <1>1, MidIs
  <2>2. q.empty => MidOf(packet) = q.mid
    BY <1>1, MidIs
  <2>3. \E t \in {q.token, <<>>} : key = ToKey(q.client, MidOf(packet), t)
    BY KeyIs DEF key
  <2>4. Type(packet) = "CON" => key = ToKey(q.client, MidOf(packet), <<>>)
    BY KeyIs DEF key
  <2> QED BY <1>2, <2>1, <2>2, <2>3, <2>4 DEF Answers
<1>6. BuffersSound'
  <2> SUFFICES ASSUME NEW c \in Buffers' PROVE Answers(msgs'[c], execs'[msgs'[c].exec].req)
    BY DEF BuffersSound
  <2>1. CASE c = b
    <3>1. msgs'[b].exec = e
      BY <1>2
    <3> QED BY <1>3, <1>5, <2>1, <3>1
  <2>2. CASE c \in Buffers
    <3>1. msgs[c].exec \in Executions
      BY <1>1, <2>2, BufferFacts
    <3> QED BY <1>2, <1>3, <2>2, <3>1 DEF RInv, BuffersSound
  <2> QED BY <1>2, <2>1, <2>2
<1> QED BY <1>4, <1>6 DEF RInv

LEMMA HandleFits == ASSUME IInv, RInv, Accepts PROVE RInv'
<1>1. PICK q \in RequestRecords : Handle(q) /\ UNCHANGED <<msgs, lru, armed, fresh>>
  BY DEF Accepts
<1> DEFINE n == Len(execs) + 1
<1>2. /\ Executions' = Executions \cup {n} /\ n \notin Executions
      /\ execs'[n] = Response(q)
      /\ \A e \in Executions : execs'[e] = execs[e]
  BY <1>1, HandleFacts DEF IInv
<1>3. Fits(Response(q).packet, q) /\ Response(q).req = q
  BY DEF Response, Fits
<1>4. PacketsSound'
  BY <1>2, <1>3 DEF RInv, PacketsSound
<1>5. Buffers' = Buffers
  BY <1>1 DEF Buffers
<1>6. BuffersSound'
  BY <1>1, <1>2, <1>5 DEF RInv, BuffersSound, IInv, TypeOK
<1> QED BY <1>4, <1>6 DEF RInv

LEMMA CalmFits == ASSUME IInv, RInv, Calm PROVE RInv'
<1>1. Buffers' = Buffers /\ msgs' = msgs
  BY DEF Calm, Buffers
<1>2. /\ Executions' = Executions /\ lru' \subseteq lru
      /\ \A e \in Executions : execs'[e].req = execs[e].req /\ execs'[e].packet = execs[e].packet
  BY DEF Calm, Continues
<1>3. PacketsSound'
  BY <1>2 DEF RInv, PacketsSound
<1>4. BuffersSound'
  BY <1>1, <1>2 DEF RInv, BuffersSound, IInv, TypeOK
<1> QED BY <1>3, <1>4 DEF RInv

LEMMA InitFits == Init => RInv
<1> SUFFICES ASSUME Init PROVE RInv
  OBVIOUS
<1>1. Executions = {} /\ Buffers = {} /\ lru = {}
  BY EmptySeq DEF Init, Executions, Buffers
<1> QED BY <1>1 DEF RInv, PacketsSound, BuffersSound

LEMMA StepFits == ASSUME IInv, RInv, [Next]_vars PROVE RInv'
<1>1. CASE CalmStep
  BY <1>1, CalmSteps, CalmFits DEF IInv
<1>2. CASE Responds
  BY <1>2, SendFits DEF Responds
<1> QED BY <1>1, <1>2, HandleFits, Steps

LEMMA RInvHolds == Spec => []RInv
BY InitFits, StepFits, Inductive, PTL DEF Spec
-----------------------------------------------------------------------------
(***************************************************************************)
(* A request that was answered from the cache was answered with what was   *)
(* cached under its key, and that is only ever a message made for it.      *)
(***************************************************************************)
RepliesCached == \A r \in replayed : msgs[r[2]].key = RequestKey(r[1])

LEMMA KeyFinds ==
    ASSUME KeysTellApart, IInv, RInv, NEW q \in Requests, NEW b \in Buffers,
           msgs[b].key = RequestKey(q)
    PROVE  execs[msgs[b].exec].req = q
<1> DEFINE r == execs[msgs[b].exec].req
           m == msgs[b]
<1>1. r \in RequestRecords /\ m.mid \in Mids /\ Answers(m, r)
  BY BufferFacts DEF IInv, RInv, BuffersSound
<1>2. PICK t \in {r.token, <<>>} : m.key = ToKey(r.client, m.mid, t)
  BY <1>1 DEF Answers
<1>3. PICK s \in Requests : s.client = r.client
  BY <1>1, RequestFacts DEF Clients
<1>4. t # <<>>
  BY <1>1, <1>2, <1>3 DEF KeysTellApart
<1>5. r \in Requests /\ t = r.token
  BY <1>1, <1>2, <1>4, PhantomFacts
<1>6. ~OwnMid(m.mid)
  <2> SUFFICES ASSUME NEW i \in 1..Len(ServerMids), m.mid = ServerMids[i] PROVE FALSE
    BY DEF OwnMid
  <2>1. RequestKey(q) = ToKey(r.client, ServerMids[i], r.token)
    BY <1>2, <1>5
  <2> QED BY <1>5, <2>1 DEF KeysTellApart
<1>7. m.key = RequestKey(r)
  BY <1>1, <1>2, <1>5, <1>6 DEF Answers, RequestKey
<1> QED BY <1>5, <1>7 DEF KeysTellApart

(***************************************************************************)
(* A duplicate is answered with a message made for that very request:      *)
(* whichever client it comes from, whatever else is cached, however often  *)
(* the cache evicts and the application restarts the server.  Only keys    *)
(* that fall together could break it.                                      *)
(***************************************************************************)
THEOREM DuplicatesGetTheirReply == ASSUME KeysTellApart PROVE Spec => []RepliesMatch
<1>1. Init => RepliesCached
  BY DEF Init, RepliesCached
<1>2. IInv /\ RInv /\ RepliesCached /\ [Next]_vars => RepliesCached'
  <2> SUFFICES ASSUME IInv, RInv, RepliesCached, [Next]_vars PROVE RepliesCached'
    OBVIOUS
  <2>1. replayed \subseteq Requests \X Buffers
    BY DEF IInv, TypeOK
  <2>2. \A b \in Buffers : b \in Buffers' /\ msgs'[b] = msgs[b]
    <3>1. CASE CalmStep
      BY <3>1, CalmSteps DEF Calm, Buffers, IInv
    <3>2. CASE Accepts
      BY <3>2 DEF Accepts, Buffers
    <3>3. CASE Responds
      <4>1. PICK e \in Executions : \E packet, empty, x : Sends(e, packet, empty, x)
        BY <3>3 DEF Responds
      <4>2. PICK packet, empty, x : Sends(e, packet, empty, x)
        BY <4>1
      <4> QED BY <4>2, SendDetails DEF IInv
    <3> QED BY <3>1, <3>2, <3>3, Steps
  <2>3. \A r \in replayed : msgs'[r[2]] = msgs[r[2]]
    BY <2>1, <2>2
  <2>4. CASE replayed' = replayed
    BY <2>3, <2>4 DEF RepliesCached
  <2>5. ASSUME NEW q \in Requests, ReceiveDuplicate(q) PROVE RepliesCached'
    <3>1. PICK b \in Peek(ToKey(q.client, q.mid, q.token)) : replayed' = replayed \cup {<<q, b>>}
      BY <2>5 DEF ReceiveDuplicate
    <3>2. b \in Buffers /\ msgs[b].key = RequestKey(q)
      BY DEF Peek, IInv, TypeOK, RequestKey
    <3>3. msgs'[b].key = RequestKey(q)
      BY <2>2, <3>2
    <3> QED BY <2>3, <3>1, <3>3 DEF RepliesCached
  <2>6. replayed' = replayed \/ \E q \in Requests : ReceiveDuplicate(q)
    BY DEF Next, NetworkNext, UserNext, TimerNext, ReceiveRequest, ReceiveAck, IgnoreAck,
           ReceiveReset, ReceiveUnknownReset, End, Write, Finish, ListenersReturn, Close, Listen, AckTimer,
           TimeOut, observed, vars
  <2> QED BY <2>4, <2>5, <2>6
<1>3. IInv /\ RInv /\ RepliesCached => RepliesMatch
  <2> SUFFICES ASSUME IInv, RInv, RepliesCached, NEW r \in replayed
               PROVE  execs[msgs[r[2]].exec].req = r[1]
    BY DEF RepliesMatch
  <2>1. r[1] \in Requests /\ r[2] \in Buffers
    BY DEF IInv, TypeOK
  <2>2. msgs[r[2]].key = RequestKey(r[1])
    BY DEF RepliesCached
  <2> QED BY <2>1, <2>2, KeyFinds
<1> QED BY <1>1, <1>2, <1>3, RInvHolds, Inductive, PTL DEF Spec

-----------------------------------------------------------------------------
(***************************************************************************)
(* Retransmission.  Whatever an instance numbers its messages with: what   *)
(* is said of a message whose key is its own holds as long as the cache    *)
(* never fills up.                                                         *)
(***************************************************************************)
Uncrowded == Cardinality(lru) < Capacity

\* A confirmable message of its own key that the server has sent and still
\* has the socket to repeat.
Pursued(b) ==
    /\ msgs[b].sent /\ msgs[b].type = "CON" /\ Alone(b)
    /\ ~execs[msgs[b].exec].dead

\* It leaves the cache when it is answered, and not before.
Remembered ==
    \A b \in Buffers : Pursued(b) => (b \in lru <=> b \notin acknowledged \cup rejected)

SInv ==
    /\ Remembered /\ RetransmitsUntilAnswered /\ RejectionEndsStream
    /\ \A b \in rejected : msgs[b].sent
-----------------------------------------------------------------------------
LEMMA InitAlone == Init => SInv
<1> SUFFICES ASSUME Init PROVE SInv
  OBVIOUS
<1>1. Buffers = {} /\ rejected = {}
  BY EmptySeq DEF Init, Buffers
<1> QED BY <1>1 DEF SInv, Remembered, RetransmitsUntilAnswered, RejectionEndsStream

\* A confirmable message is cached under the key that its answer is looked up
\* with, so that the answer finds it and nothing else.
LEMMA AnswerFinds ==
    ASSUME IInv, RInv, NEW d \in Buffers, msgs[d].type = "CON"
    PROVE  msgs[d].key = AnswerKey(d)
BY DEF RInv, BuffersSound, Answers, AnswerKey

LEMMA FindsItself ==
    ASSUME IInv, RInv, NEW d \in Buffers, msgs[d].type = "CON", Alone(d),
           NEW b \in Buffers, NEW c \in Peek(AnswerKey(b))
    PROVE  c = d <=> b = d
<1>1. c \in Buffers /\ msgs[c].key = AnswerKey(b)
  BY DEF Peek, IInv, TypeOK
<1>2. msgs[d].key = AnswerKey(d)
  BY AnswerFinds
<1>3. ASSUME c = d PROVE b = d
  <2>1. AnswerKey(d) = AnswerKey(b)
    BY <1>1, <1>2, <1>3
  <2> QED BY <2>1 DEF Alone
<1>4. ASSUME b = d PROVE c = d
  BY <1>1, <1>4 DEF Alone
<1> QED BY <1>3, <1>4

\* A message that is alone now has been alone before.
LEMMA AloneBefore ==
    ASSUME TypeOK, \A c \in Buffers : c \in Buffers' /\ msgs'[c] = msgs[c],
           \A e \in Executions : execs'[e].req = execs[e].req,
           NEW b \in Buffers
    PROVE  /\ AnswerKey(b)' = AnswerKey(b)
           /\ Alone(b)' => Alone(b)
<1>1. \A c \in Buffers : msgs[c].exec \in Executions
  BY BufferFacts
<1>2. \A c \in Buffers : AnswerKey(c)' = AnswerKey(c)
  BY <1>1 DEF AnswerKey
<1>3. ASSUME Alone(b)', NEW c \in Buffers, AnswerKey(b) \in {msgs[c].key, AnswerKey(c)}
      PROVE  c = b
  <2>1. c \in Buffers' /\ AnswerKey(b)' \in {msgs'[c].key, AnswerKey(c)'}
    BY <1>2, <1>3
  <2> QED BY <1>3, <2>1 DEF Alone
<1> QED BY <1>2, <1>3 DEF Alone

(***************************************************************************)
(* Steps that send nothing: the messages in A are acknowledged, those in R *)
(* rejected, those in T given up, and of the messages that are pursued the *)
(* cache and the senders forget these and no others.                       *)
(***************************************************************************)
LEMMA KeepStep ==
    ASSUME IInv, RInv, SInv, msgs' = msgs,
           \A e \in Executions : /\ execs'[e].req = execs[e].req
                                 /\ execs[e].dead => execs'[e].dead
                                 /\ execs[e].ended => execs'[e].ended,
           NEW A \in SUBSET Buffers, NEW R \in SUBSET Buffers, NEW T \in SUBSET Buffers,
           acknowledged' = acknowledged \cup A, rejected' = rejected \cup R,
           timedOut' = timedOut \cup T,
           \A b \in R : msgs[b].sent,
           \A b \in Buffers : Pursued(b) /\ ~execs'[msgs[b].exec].dead =>
               /\ b \in lru' <=> b \in lru /\ b \notin A \cup R
               /\ b \in armed' <=> b \in armed /\ b \notin A \cup R \cup T
               /\ b \in R /\ b \in lru /\ execs[msgs[b].exec].req.observe =>
                      execs'[msgs[b].exec].ended
    PROVE  SInv'
<1>1. Buffers' = Buffers
  BY DEF Buffers
<1>2. \A b \in Buffers : msgs[b].exec \in Executions
  BY BufferFacts DEF IInv
<1>3. \A b \in Buffers : Pursued(b)' => Pursued(b) /\ ~execs'[msgs[b].exec].dead
  <2> TAKE b \in Buffers
  <2>1. Alone(b)' => Alone(b)
    BY <1>1, AloneBefore DEF IInv
  <2>2. ~execs'[msgs[b].exec].dead => ~execs[msgs[b].exec].dead
    BY <1>2
  <2> QED BY <2>1, <2>2 DEF Pursued
<1>4. Remembered'
  BY <1>1, <1>3 DEF SInv, Remembered
<1>5. RetransmitsUntilAnswered'
  <2> SUFFICES ASSUME NEW b \in Buffers, Pursued(b)'
               PROVE  b \in armed' <=> b \notin (acknowledged \cup rejected \cup timedOut)'
    BY <1>1 DEF RetransmitsUntilAnswered, Pursued
  <2>1. Pursued(b) /\ ~execs'[msgs[b].exec].dead
    BY <1>3
  <2>2. b \in armed <=> b \notin acknowledged \cup rejected \cup timedOut
    BY <2>1 DEF SInv, RetransmitsUntilAnswered, Pursued
  <2> QED BY <2>1, <2>2
<1>6. \A b \in rejected' : msgs'[b].sent
  BY DEF SInv
<1>7. RejectionEndsStream'
  <2> SUFFICES ASSUME NEW b \in rejected', b \notin acknowledged', msgs[b].type = "CON",
                      execs'[msgs[b].exec].req.observe, Alone(b)',
                      ~execs'[msgs[b].exec].dead
               PROVE  execs'[msgs[b].exec].ended
    BY DEF RejectionEndsStream
  <2>1. b \in Buffers /\ msgs[b].exec \in Executions
    BY <1>2 DEF IInv, TypeOK
  <2>2. Pursued(b)' /\ Pursued(b) /\ execs[msgs[b].exec].req.observe
    <3>1. Pursued(b)'
      BY <1>6 DEF Pursued
    <3> QED BY <1>3, <2>1, <3>1
  <2>3. CASE b \in rejected
    BY <2>1, <2>2, <2>3 DEF SInv, RejectionEndsStream, Pursued
  <2>4. CASE b \notin rejected
    <3>1. b \in R /\ b \notin acknowledged
      BY <2>4
    <3>2. b \in lru
      BY <2>1, <2>2, <2>4, <3>1 DEF SInv, Remembered
    <3> QED BY <2>1, <2>2, <3>1, <3>2
  <2> QED BY <2>3, <2>4
<1> QED BY <1>4, <1>5, <1>6, <1>7 DEF SInv

\* What is sent takes the place of no message that is alone.
LEMMA SendAlone ==
    ASSUME IInv, RInv, SInv, Uncrowded,
           NEW e \in Executions, NEW packet, NEW empty, NEW x, Sends(e, packet, empty, x)
    PROVE  SInv'
<1> DEFINE n == Len(msgs) + 1
           q == execs[e].req
           key == ToKey(q.client, MidOf(packet), KeyToken(packet, q.token, empty))
           goes == IsSent(packet) /\ ~execs[e].dead
<1>1. /\ Buffers' = Buffers \cup {n} /\ n \notin Buffers
      /\ \A c \in Buffers : msgs'[c] = msgs[c]
      /\ msgs'[n] = [exec |-> e, type |-> Type(packet), mid |-> MidOf(packet),
                     empty |-> empty, key |-> key, sent |-> goes]
      /\ lru' = (lru \ Disposed(key)) \cup {n}
      /\ armed' = (armed \ Disposed(key)) \cup (IF goes THEN {n} ELSE {})
      /\ Continues
      /\ \A d \in Executions : execs'[d].dead = execs[d].dead
  BY SendDetails DEF IInv
<1>2. /\ Executions' = Executions
      /\ \A d \in Executions : /\ execs'[d].req = execs[d].req
                               /\ execs[d].ended => execs'[d].ended
  BY <1>1 DEF Continues
<1>3. Disposed(key) = Peek(key)
  BY DisposedFacts DEF Uncrowded, IInv
<1>4. acknowledged' = acknowledged /\ rejected' = rejected /\ timedOut' = timedOut
  BY DEF Sends, observed
<1>5. acknowledged \cup rejected \cup timedOut \subseteq Buffers
  BY DEF IInv, TypeOK
<1>6. msgs'[n].key = key /\ msgs'[n].sent = goes
  BY <1>1
<1>7. \A b \in Buffers : msgs[b].exec \in Executions
  BY BufferFacts DEF IInv
<1> HIDE DEF n, key, goes
<1>8. ASSUME NEW b \in Buffers, Pursued(b)'
      PROVE  /\ Pursued(b)
             /\ b \in lru' <=> b \in lru
             /\ b \in armed' <=> b \in armed
  <2>1. AnswerKey(b)' = AnswerKey(b) /\ Alone(b)
    BY <1>1, <1>2, <1>8, AloneBefore DEF IInv, Pursued
  <2>2. Pursued(b)
    BY <1>1, <1>7, <1>8, <2>1 DEF Pursued
  <2>3. AnswerKey(b)' # msgs'[n].key /\ b # n
    BY <1>1, <1>8 DEF Pursued, Alone
  <2>4. msgs[b].key = AnswerKey(b)
    BY <2>2, AnswerFinds DEF Pursued
  <2>5. b \notin Disposed(key)
    BY <1>3, <1>6, <2>1, <2>3, <2>4 DEF Peek
  <2> QED BY <1>1, <2>2, <2>3, <2>5
<1>9. Remembered'
  <2> SUFFICES ASSUME NEW b \in Buffers', Pursued(b)'
               PROVE  b \in lru' <=> b \notin acknowledged' \cup rejected'
    BY DEF Remembered
  <2>1. CASE b = n
    BY <1>1, <1>4, <1>5, <2>1
  <2>2. CASE b \in Buffers
    BY <1>4, <1>8, <2>2 DEF SInv, Remembered
  <2> QED BY <1>1, <2>1, <2>2
<1>10. RetransmitsUntilAnswered'
  <2> SUFFICES ASSUME NEW b \in Buffers', Pursued(b)'
               PROVE  b \in armed' <=> b \notin (acknowledged \cup rejected \cup timedOut)'
    BY DEF RetransmitsUntilAnswered, Pursued
  <2>1. CASE b = n
    <3>1. goes
      BY <1>6, <2>1 DEF Pursued
    <3> QED BY <1>1, <1>4, <1>5, <2>1, <3>1
  <2>2. CASE b \in Buffers
    <3>1. Pursued(b) /\ (b \in armed' <=> b \in armed)
      BY <1>8, <2>2
    <3>2. b \in armed <=> b \notin acknowledged \cup rejected \cup timedOut
      BY <2>2, <3>1 DEF SInv, RetransmitsUntilAnswered, Pursued
    <3> QED BY <1>4, <3>1, <3>2
  <2> QED BY <1>1, <2>1, <2>2
<1>11. \A b \in rejected' : msgs'[b].sent
  BY <1>1, <1>4, <1>5 DEF SInv
<1>12. RejectionEndsStream'
  <2> SUFFICES ASSUME NEW b \in rejected', b \notin acknowledged', msgs'[b].type = "CON",
                      execs'[msgs'[b].exec].req.observe, Alone(b)',
                      ~execs'[msgs'[b].exec].dead
               PROVE  execs'[msgs'[b].exec].ended
    BY DEF RejectionEndsStream
  <2>1. b \in Buffers /\ b \in rejected \ acknowledged
    BY <1>4, <1>5
  <2>2. msgs'[b] = msgs[b] /\ msgs[b].exec \in Executions
    BY <1>1, <1>7, <2>1
  <2>3. Alone(b)
    BY <1>1, <1>2, <2>1, AloneBefore DEF IInv
  <2>4. execs[msgs[b].exec].ended \/ execs[msgs[b].exec].dead
    BY <1>2, <2>1, <2>2, <2>3 DEF SInv, RejectionEndsStream
  <2> QED BY <1>1, <1>2, <2>2, <2>4
<1> QED BY <1>9, <1>10, <1>11, <1>12 DEF SInv

\* A step that neither sends nor stops anything, unless it closes all sockets.
LEMMA OtherAlone ==
    ASSUME IInv, RInv, SInv, msgs' = msgs,
           \A e \in Executions : /\ execs'[e].req = execs[e].req
                                 /\ execs[e].dead => execs'[e].dead
                                 /\ execs[e].ended => execs'[e].ended,
           UNCHANGED <<acknowledged, rejected, timedOut>>,
           \/ lru' = lru /\ armed' = armed
           \/ \A e \in Executions : execs'[e].dead
    PROVE  SInv'
<1> DEFINE none == {}
<1>1. none \in SUBSET Buffers /\ \A b : b \notin none
  OBVIOUS
<1>2. /\ acknowledged' = acknowledged \cup none /\ rejected' = rejected \cup none
      /\ timedOut' = timedOut \cup none
  OBVIOUS
<1>3. \A b \in Buffers : msgs[b].exec \in Executions
  BY BufferFacts DEF IInv
<1> HIDE DEF none
<1> QED BY <1>1, <1>2, <1>3, KeepStep

LEMMA NetworkAlone == ASSUME IInv, RInv, SInv, NetworkNext PROVE SInv'
<1>1. ASSUME NEW q \in Requests, ReceiveRequest(q) PROVE SInv'
  <2>1. q \in RequestRecords /\ Handle(q)
    BY <1>1 DEF RequestRecords, ReceiveRequest
  <2>2. \A e \in Executions : execs'[e] = execs[e]
    BY <2>1, HandleFacts DEF IInv
  <2> QED BY <1>1, <2>2, OtherAlone DEF ReceiveRequest, observed
<1>2. ASSUME NEW q \in Requests, ReceiveDuplicate(q) PROVE SInv'
  BY <1>2, OtherAlone DEF ReceiveDuplicate
<1>3. ASSUME NEW b \in Buffers, ReceiveAck(b) PROVE SInv'
  <2>1. PICK c \in Peek(AnswerKey(b)) : StopSending(c)
    BY <1>3 DEF ReceiveAck
  <2>2. \A d \in Buffers : Pursued(d) => (c = d <=> b = d)
    BY <2>1, FindsItself DEF Pursued
  <2>3. lru' = lru \ {c} /\ armed' = armed \ {c}
    BY <2>1 DEF StopSending
  <2>4. /\ acknowledged' = acknowledged \cup {b} /\ rejected' = rejected \cup {}
        /\ timedOut' = timedOut \cup {}
        /\ execs' = execs /\ msgs' = msgs
    BY <1>3 DEF ReceiveAck
  <2>5. PICK A \in SUBSET Buffers : A = {b}
    OBVIOUS
  <2>6. PICK none \in SUBSET Buffers : none = {}
    OBVIOUS
  <2>7. \A d \in Buffers : Pursued(d) /\ ~execs'[msgs[d].exec].dead =>
             /\ d \in lru' <=> d \in lru /\ d \notin A \cup none
             /\ d \in armed' <=> d \in armed /\ d \notin A \cup none \cup none
             /\ d \in none /\ d \in lru /\ execs[msgs[d].exec].req.observe =>
                    execs'[msgs[d].exec].ended
    BY <2>2, <2>3, <2>5, <2>6
  <2>8. /\ acknowledged' = acknowledged \cup A /\ rejected' = rejected \cup none
        /\ timedOut' = timedOut \cup none
    BY <2>4, <2>5, <2>6
  <2>9. \A d \in none : msgs[d].sent
    BY <2>6
  <2>10. msgs' = msgs /\ execs' = execs
    BY <2>4
  <2> QED BY <2>7, <2>8, <2>9, <2>10, KeepStep
<1>4. ASSUME NEW b \in Buffers, IgnoreAck(b) PROVE SInv'
  <2>1. \A d \in Buffers : Pursued(d) /\ d \in lru => d # b
    BY <1>4, AnswerFinds DEF Pursued, IgnoreAck, Peek
  <2>2. armed \subseteq lru
    BY DEF IInv, SendersCached
  <2>3. /\ acknowledged' = acknowledged \cup {b} /\ rejected' = rejected \cup {}
        /\ timedOut' = timedOut \cup {} /\ UNCHANGED <<execs, msgs, lru, armed>>
    BY <1>4 DEF IgnoreAck
  <2>4. PICK A \in SUBSET Buffers : A = {b}
    OBVIOUS
  <2>5. PICK none \in SUBSET Buffers : none = {}
    OBVIOUS
  <2> QED BY <2>1, <2>2, <2>3, <2>4, <2>5, KeepStep
<1>5. ASSUME NEW b \in Buffers, ReceiveReset(b) PROVE SInv'
  <2>1. PICK c \in Peek(AnswerKey(b)) :
            /\ execs' = IF execs[msgs[c].exec].req.observe
                         THEN [execs EXCEPT ![msgs[c].exec].ended = TRUE] ELSE execs
            /\ StopSending(c)
    BY <1>5 DEF ReceiveReset
  <2>2. msgs[c].exec \in Executions
    BY DEF Peek, IInv, TypeOK
  <2>3. Continues /\ \A e \in Executions : execs'[e].dead = execs[e].dead
    BY <2>1, <2>2, EndedContinues DEF IInv
  <2>4. execs[msgs[c].exec].req.observe => execs'[msgs[c].exec].ended
    <3> SUFFICES ASSUME execs[msgs[c].exec].req.observe PROVE execs'[msgs[c].exec].ended
      OBVIOUS
    <3> DEFINE e == msgs[c].exec
               x == [execs[e] EXCEPT !.ended = TRUE]
    <3>1. execs' = [execs EXCEPT ![e] = x]
      BY <2>1
    <3>2. x \in ResponseRecords /\ x.ended
      BY <2>2, ExecutionFacts DEF IInv, ResponseRecords
    <3> HIDE DEF x
    <3>3. execs'[e] = x
      BY <2>2, <3>1, <3>2, UpdateFacts DEF IInv
    <3> QED BY <3>2, <3>3
  <2>5. \A d \in Buffers : Pursued(d) => (c = d <=> b = d)
    BY <2>1, FindsItself DEF Pursued
  <2>6. lru' = lru \ {c} /\ armed' = armed \ {c}
    BY <2>1 DEF StopSending
  <2>7. /\ acknowledged' = acknowledged \cup {} /\ rejected' = rejected \cup {b}
        /\ timedOut' = timedOut \cup {} /\ msgs' = msgs /\ msgs[b].sent
    BY <1>5 DEF ReceiveReset, Rejectable
  <2>8. PICK R \in SUBSET Buffers : R = {b}
    OBVIOUS
  <2>9. PICK none \in SUBSET Buffers : none = {}
    OBVIOUS
  <2>10. \A e \in Executions : /\ execs'[e].req = execs[e].req
                               /\ execs[e].dead => execs'[e].dead
                               /\ execs[e].ended => execs'[e].ended
    BY <2>3 DEF Continues
  <2>11. \A d \in Buffers : Pursued(d) /\ d \in R /\ execs[msgs[d].exec].req.observe =>
             execs'[msgs[d].exec].ended
    BY <2>4, <2>5, <2>8
  <2>12. \A d \in Buffers : Pursued(d) /\ ~execs'[msgs[d].exec].dead =>
             /\ d \in lru' <=> d \in lru /\ d \notin none \cup R
             /\ d \in armed' <=> d \in armed /\ d \notin none \cup R \cup none
             /\ d \in R /\ d \in lru /\ execs[msgs[d].exec].req.observe =>
                    execs'[msgs[d].exec].ended
    BY <2>5, <2>6, <2>8, <2>9, <2>11
  <2>13. /\ acknowledged' = acknowledged \cup none /\ rejected' = rejected \cup R
        /\ timedOut' = timedOut \cup none
    BY <2>7, <2>8, <2>9
  <2>14. msgs' = msgs /\ \A d \in R : msgs[d].sent
    BY <2>7, <2>8
  <2> QED BY <2>10, <2>12, <2>13, <2>14, KeepStep
<1>6. ASSUME NEW b \in Buffers, ReceiveUnknownReset(b) PROVE SInv'
  <2> DEFINE q == EmptyRequest(execs[msgs[b].exec].req.client, msgs[b].mid)
  <2>1. PICK r \in Requests : r.client = execs[msgs[b].exec].req.client
    BY BufferFacts, RequestFacts DEF IInv, Clients
  <2>2. q \in RequestRecords
    BY <2>1, BufferFacts DEF RequestRecords, IInv
  <2>3. Handle(q) /\ Peek(ToKey(q.client, q.mid, q.token)) = {}
    BY <1>6 DEF ReceiveUnknownReset, Handle
  <2>4. ToKey(q.client, q.mid, q.token) = AnswerKey(b)
    BY DEF EmptyRequest, AnswerKey
  <2>5. \A d \in Buffers : Pursued(d) /\ d \in lru => d # b
    BY <2>3, <2>4, AnswerFinds DEF Pursued, Peek
  <2> HIDE DEF q
  <2>6. \A e \in Executions : execs'[e] = execs[e]
    BY <2>2, <2>3, HandleFacts DEF IInv
  <2>7. armed \subseteq lru
    BY DEF IInv, SendersCached
  <2>8. /\ acknowledged' = acknowledged \cup {} /\ rejected' = rejected \cup {b}
        /\ timedOut' = timedOut \cup {} /\ UNCHANGED <<msgs, lru, armed>> /\ msgs[b].sent
    BY <1>6 DEF ReceiveUnknownReset, Rejectable
  <2>9. PICK R \in SUBSET Buffers : R = {b}
    OBVIOUS
  <2>10. PICK none \in SUBSET Buffers : none = {}
    OBVIOUS
  <2> QED BY <2>5, <2>6, <2>7, <2>8, <2>9, <2>10, KeepStep
<1> QED BY <1>1, <1>2, <1>3, <1>4, <1>5, <1>6 DEF NetworkNext

LEMMA StepAlone == ASSUME IInv, RInv, SInv, Uncrowded, [Next]_vars PROVE SInv'
<1>1. ASSUME NEW e \in Executions, End(e) \/ Write(e) PROVE SInv'
  BY <1>1, EndSends, WriteSends, SendAlone
<1>2. ASSUME NEW e \in Executions, AckTimer(e) PROVE SInv'
  BY <1>2, AckTimerSends, SendAlone
<1>3. ASSUME UNCHANGED <<msgs, lru, armed, acknowledged, rejected, timedOut>>,
             execs' = execs \/ \E e \in Executions : execs' = [execs EXCEPT ![e].ended = TRUE]
      PROVE  SInv'
  <2>1. Continues /\ \A e \in Executions : execs'[e].dead = execs[e].dead
    BY <1>3, EndedContinues DEF IInv
  <2> QED BY <1>3, <2>1, OtherAlone DEF Continues
<1>4. ASSUME NEW e \in Executions, Finish(e) PROVE SInv'
  <2>1. CASE execs[e].writes = 0
    BY <1>4, <2>1, FinishSends, SendAlone
  <2>2. CASE execs[e].writes # 0
    BY <1>3, <1>4, <2>2 DEF Finish, EndStream, observed
  <2> QED BY <2>1, <2>2
<1>5. ASSUME NEW b \in Buffers, TimeOut(b) PROVE SInv'
  <2>1. msgs[b].exec \in Executions
    BY BufferFacts DEF IInv
  <2>2. Continues /\ \A e \in Executions : execs'[e].dead = execs[e].dead
    BY <1>5, <2>1, EndedContinues DEF TimeOut, IInv
  <2>3. /\ armed' = armed \ {b} /\ timedOut' = timedOut \cup {b} /\ lru' = lru
        /\ acknowledged' = acknowledged \cup {} /\ rejected' = rejected \cup {}
        /\ msgs' = msgs
    BY <1>5 DEF TimeOut
  <2>4. PICK T \in SUBSET Buffers : T = {b}
    OBVIOUS
  <2>5. PICK none \in SUBSET Buffers : none = {}
    OBVIOUS
  <2>6. \A d \in Buffers : Pursued(d) /\ ~execs'[msgs[d].exec].dead =>
             /\ d \in lru' <=> d \in lru /\ d \notin none \cup none
             /\ d \in armed' <=> d \in armed /\ d \notin none \cup none \cup T
             /\ d \in none /\ d \in lru /\ execs[msgs[d].exec].req.observe =>
                    execs'[msgs[d].exec].ended
    BY <2>3, <2>4, <2>5
  <2>7. /\ acknowledged' = acknowledged \cup none /\ rejected' = rejected \cup none
        /\ timedOut' = timedOut \cup T
    BY <2>3, <2>4, <2>5
  <2>8. \A d \in none : msgs[d].sent
    BY <2>5
  <2>9. msgs' = msgs /\ \A d \in Executions : /\ execs'[d].req = execs[d].req
                                              /\ execs[d].dead => execs'[d].dead
                                              /\ execs[d].ended => execs'[d].ended
    BY <2>2, <2>3 DEF Continues
  <2> QED BY <2>6, <2>7, <2>8, <2>9, KeepStep
<1>6. CASE Close
  <2>1. Continues /\ \A e \in Executions : execs'[e].dead
    BY <1>6, CloseContinues DEF IInv
  <2> QED BY <1>6, <2>1, OtherAlone DEF Close, observed, Continues
<1>7. CASE ListenersReturn \/ Listen \/ UNCHANGED vars
  BY <1>3, <1>7 DEF ListenersReturn, Listen, vars, observed
<1>8. CASE UserNext
  BY <1>1, <1>4, <1>6, <1>7, <1>8 DEF UserNext
<1>9. CASE TimerNext
  BY <1>2, <1>5, <1>9 DEF TimerNext
<1> QED BY <1>7, <1>8, <1>9, NetworkAlone DEF Next

LEMMA SInvHolds == Spec /\ []Uncrowded => []SInv
<1>1. IInv /\ RInv /\ SInv /\ Uncrowded /\ [Next]_vars => SInv'
  BY StepAlone
<1> QED BY <1>1, InitAlone, Inductive, RInvHolds, PTL DEF Spec
-----------------------------------------------------------------------------
(***************************************************************************)
(* A confirmable response is retransmitted until it is acknowledged,       *)
(* rejected or given up, and no longer, unless the server is closed: the   *)
(* cache leads its answer to it, however requests and responses are        *)
(* numbered, if no other message of the server's has its key.              *)
(***************************************************************************)
THEOREM Retransmits == Spec /\ []Uncrowded => []RetransmitsUntilAnswered
<1>1. SInv => RetransmitsUntilAnswered
  BY DEF SInv
<1> QED BY <1>1, SInvHolds, PTL

(***************************************************************************)
(* The RST to a confirmable notification ends its stream, however late it  *)
(* comes and whichever notifications were acknowledged, rejected or given  *)
(* up before.                                                              *)
(***************************************************************************)
THEOREM RejectionEnds == Spec /\ []Uncrowded => []RejectionEndsStream
<1>1. SInv => RejectionEndsStream
  BY DEF SInv
<1> QED BY <1>1, SInvHolds, PTL

-----------------------------------------------------------------------------
(***************************************************************************)
(* One execution per request, where listeners answer before they return,   *)
(* clients send no RST and the server is not closed.                       *)
(***************************************************************************)
Answered(e) == execs[e].ended \/ execs[e].writes > 0

\* The first response of execution e has the request's message id.
Untouched(e) == execs[e].packet.mid = execs[e].req.mid /\ ~execs[e].packet.confirmable

\* A duplicate of e's request would be answered from the cache.
Cached(e) == \E b \in lru : msgs[b].key = RequestKey(execs[e].req)

OnceSound(e) ==
    /\ execs[e].req \in Requests
    /\ turn = e \/ Answered(e)
    /\ ~execs[e].req.observe => execs[e].writes = 0
    /\ IF Answered(e) THEN Cached(e) ELSE Untouched(e)

OInv ==
    /\ \A e \in Executions : OnceSound(e)
    /\ \A b \in Buffers : Answered(msgs[b].exec)
    /\ ExecutedOnce
-----------------------------------------------------------------------------
LEMMA InitOnce == Init => OInv
<1> SUFFICES ASSUME Init PROVE OInv
  OBVIOUS
<1>1. Executions = {} /\ Buffers = {}
  BY EmptySeq DEF Init, Executions, Buffers
<1> QED BY <1>1 DEF OInv, ExecutedOnce

\* Sending caches what is sent and takes the place of what had the same key.
LEMMA SendCaches ==
    ASSUME IInv, RInv, NEW e \in Executions, NEW packet, NEW empty, NEW x,
           Sends(e, packet, empty, x), Uncrowded, NEW d \in Executions, Cached(d)
    PROVE  Cached(d)'
<1> DEFINE b == Len(msgs) + 1
           q == execs[e].req
           key == ToKey(q.client, MidOf(packet), KeyToken(packet, q.token, empty))
           goes == IsSent(packet) /\ ~execs[e].dead
<1>1. /\ \A c \in Buffers : msgs'[c] = msgs[c]
      /\ msgs'[b] = [exec |-> e, type |-> Type(packet), mid |-> MidOf(packet),
                     empty |-> empty, key |-> key, sent |-> goes]
      /\ lru' = (lru \ Disposed(key)) \cup {b}
      /\ Continues
  BY SendDetails DEF IInv
<1>2. Disposed(key) = Peek(key)
  BY DisposedFacts DEF IInv, Uncrowded
<1>3. PICK c \in lru : msgs[c].key = RequestKey(execs[d].req)
  BY DEF Cached
<1>4. c \in Buffers
  BY DEF IInv, TypeOK
<1>5. msgs'[b].key = key
  BY <1>1
<1>6. execs'[d].req = execs[d].req
  BY <1>1 DEF Continues
<1> HIDE DEF key, b
<1>7. CASE c \in Peek(key)
  <2>1. msgs'[b].key = RequestKey(execs[d].req) /\ b \in lru'
    BY <1>1, <1>3, <1>5, <1>7 DEF Peek
  <2> QED BY <1>6, <2>1 DEF Cached, RequestKey, ToKey
<1>8. CASE c \notin Peek(key)
  <2>1. msgs'[c].key = RequestKey(execs[d].req) /\ c \in lru'
    BY <1>1, <1>2, <1>3, <1>4, <1>8
  <2> QED BY <1>6, <2>1 DEF Cached, RequestKey, ToKey
<1> QED BY <1>7, <1>8

LEMMA SendOnce ==
    ASSUME IInv, RInv, OInv, Uncrowded, NEW e \in Executions, NEW x,
           Sends(e, execs[e].packet, FALSE, x), turn' = turn,
           x.ended \/ x.writes > 0,
           ~execs[e].req.observe => x.writes = 0
    PROVE  OInv'
<1>0. PICK empty \in BOOLEAN : empty = FALSE /\ Sends(e, execs[e].packet, empty, x)
  OBVIOUS
<1> DEFINE b == Len(msgs) + 1
           q == execs[e].req
           packet == execs[e].packet
           key == ToKey(q.client, MidOf(packet), KeyToken(packet, q.token, empty))
           goes == IsSent(packet) /\ ~execs[e].dead
<1>1. /\ Buffers' = Buffers \cup {b} /\ \A c \in Buffers : msgs'[c] = msgs[c]
      /\ msgs'[b] = [exec |-> e, type |-> Type(packet), mid |-> MidOf(packet),
                     empty |-> empty, key |-> key, sent |-> goes]
      /\ lru' = (lru \ Disposed(key)) \cup {b}
      /\ Continues
      /\ execs'[e] = x /\ \A d \in Executions : d # e => execs'[d] = execs[d]
  BY <1>0, SendDetails DEF IInv
<1>2. msgs'[b].key = key /\ msgs'[b].exec = e
  BY <1>1
<1>3. Executions' = Executions /\ \A d \in Executions : execs'[d].req = execs[d].req
  BY <1>1 DEF Continues
<1>4. Answered(e)'
  BY <1>1 DEF Answered
<1>5. \A d \in Executions : Answered(d) => Answered(d)'
  BY <1>1, <1>4 DEF Answered
<1>6. Cached(e)'
  <2>1. CASE Answered(e)
    <3>1. Cached(e)
      BY <2>1 DEF OInv, OnceSound
    <3> QED BY <1>0, <3>1, SendCaches
  <2>2. CASE ~Answered(e)
    <3>1. packet.mid = q.mid /\ ~packet.confirmable
      BY <2>2 DEF OInv, OnceSound, Untouched
    <3>2. MidOf(packet) = q.mid
      BY <3>1, ExecutionFacts, RequestFacts, MidsAreDigits DEF MidOf, IInv
    <3>3. KeyToken(packet, q.token, empty) = q.token
      BY <1>0, <3>1 DEF KeyToken, Type
    <3>4. msgs'[b].key = RequestKey(q)
      BY <1>2, <3>2, <3>3 DEF RequestKey
    <3> QED BY <1>1, <1>3, <3>4 DEF Cached, RequestKey, ToKey
  <2> QED BY <2>1, <2>2
<1> HIDE DEF b, key
<1>7. ASSUME NEW d \in Executions PROVE OnceSound(d)'
  <2>1. CASE d = e
    BY <1>1, <1>3, <1>4, <1>6, <2>1 DEF OInv, OnceSound
  <2>2. CASE d # e
    <3>1. execs'[d] = execs[d]
      BY <1>1, <2>2
    <3>2. Answered(d)' = Answered(d) /\ Untouched(d)' = Untouched(d)
      BY <3>1 DEF Answered, Untouched
    <3>3. Cached(d) => Cached(d)'
      BY <1>0, SendCaches
    <3> QED BY <3>1, <3>2, <3>3 DEF OInv, OnceSound
  <2> QED BY <2>1, <2>2
<1>8. (\A c \in Buffers : Answered(msgs[c].exec))'
  <2> SUFFICES ASSUME NEW c \in Buffers' PROVE Answered(msgs[c].exec)'
    OBVIOUS
  <2>1. CASE c = b
    BY <1>2, <1>4, <2>1 DEF Answered
  <2>2. CASE c \in Buffers
    <3>1. msgs[c].exec \in Executions /\ msgs'[c] = msgs[c] /\ Answered(msgs[c].exec)
      BY <1>1, <2>2, BufferFacts DEF IInv, OInv
    <3> QED BY <1>5, <3>1 DEF Answered
  <2> QED BY <1>1, <2>1, <2>2
<1>9. ExecutedOnce'
  BY <1>3 DEF OInv, ExecutedOnce
<1> QED BY <1>3, <1>7, <1>8, <1>9 DEF OInv

\* A request that is handled has no execution yet: it would be cached.
LEMMA HandleOnce ==
    ASSUME IInv, OInv, Idle, NEW q \in Requests, Handle(q), UNCHANGED <<msgs, lru>>
    PROVE  OInv'
<1>0. PICK n : n = Len(execs) + 1
  OBVIOUS
<1>1. q \in RequestRecords /\ q.confirmable \in BOOLEAN /\ q.observe \in BOOLEAN
  BY RequestFacts DEF RequestRecords
<1>2. /\ Executions' = Executions \cup {n} /\ n \notin Executions
      /\ execs'[n] = Response(q) /\ turn' = n
      /\ \A e \in Executions : execs'[e] = execs[e]
      /\ Peek(RequestKey(q)) = {}
  BY <1>0, <1>1, HandleFacts DEF IInv, Handle, RequestKey
<1>3. \A e \in Executions : Answered(e)
  BY DEF OInv, OnceSound, Idle, Loop, Executions, IInv, TypeOK
<1>4. \A e \in Executions : execs[e].req # q
  BY <1>2, <1>3 DEF OInv, OnceSound, Cached, Peek
<1>5. OnceSound(n)'
  <2>1. /\ execs'[n].req = q /\ execs'[n].writes = 0 /\ execs'[n].ended = FALSE
        /\ execs'[n].packet.mid = q.mid /\ execs'[n].packet.confirmable = FALSE
    BY <1>2 DEF Response
  <2>2. ~Answered(n)' /\ Untouched(n)'
    BY <2>1 DEF Answered, Untouched
  <2> QED BY <1>2, <2>1, <2>2 DEF OnceSound
<1>6. ASSUME NEW e \in Executions PROVE OnceSound(e)'
  <2>1. Answered(e)' /\ Cached(e)'
    BY <1>2, <1>3 DEF OInv, OnceSound, Answered, Cached, RequestKey, ToKey
  <2> QED BY <1>2, <2>1 DEF OInv, OnceSound
<1>7. (\A b \in Buffers : Answered(msgs[b].exec))'
  <2>1. \A b \in Buffers : msgs[b].exec \in Executions
    BY BufferFacts DEF IInv
  <2> QED BY <1>2, <1>3, <2>1 DEF Answered, Buffers
<1>8. ExecutedOnce'
  <2>1. execs'[n].req = q
    BY <1>2 DEF Response
  <2> QED BY <1>2, <1>4, <2>1 DEF OInv, ExecutedOnce
<1> QED BY <1>2, <1>5, <1>6, <1>7, <1>8 DEF OInv

\* What else happens leaves the entries of requests in the cache, and ends
\* only what has been answered.
LEMMA CalmOnce ==
    ASSUME IInv, OInv, Calm,
           \A e \in Executions : execs'[e].writes = execs[e].writes,
           \A e \in Executions : execs'[e].ended # execs[e].ended => Answered(e),
           turn' \in {turn, Loop}, turn' # turn => Answered(turn),
           \A b \in lru \ lru' : \A q \in Requests : msgs[b].key # RequestKey(q)
    PROVE  OInv'
<1>1. /\ Executions' = Executions /\ Buffers' = Buffers /\ msgs' = msgs /\ lru' \subseteq lru
      /\ \A e \in Executions : /\ execs'[e].req = execs[e].req
                               /\ execs'[e].packet = execs[e].packet
                               /\ execs[e].ended => execs'[e].ended
  BY DEF Calm, Continues, Buffers
<1>2. \A e \in Executions : Answered(e)' <=> Answered(e)
  BY <1>1 DEF Answered
<1>3. ASSUME NEW e \in Executions PROVE OnceSound(e)'
  <2>1. Untouched(e)' = Untouched(e)
    BY <1>1 DEF Untouched
  <2>2. Cached(e) => Cached(e)'
    BY <1>1 DEF OInv, OnceSound, Cached, RequestKey, ToKey
  <2>3. turn' = e \/ Answered(e)'
    BY <1>2 DEF OInv, OnceSound
  <2> QED BY <1>1, <1>2, <2>1, <2>2, <2>3 DEF OInv, OnceSound
<1>4. (\A b \in Buffers : Answered(msgs[b].exec))'
  BY <1>1, <1>2, BufferFacts DEF OInv, IInv
<1>5. ExecutedOnce'
  BY <1>1 DEF OInv, ExecutedOnce
<1> QED BY <1>1, <1>3, <1>4, <1>5 DEF OInv

LEMMA StepOnce ==
    ASSUME KeysTellApart, ~Slow, ~ClientsReset, ~ServerCloses,
           IInv, RInv, OInv, Uncrowded, [Next]_vars
    PROVE  OInv'
<1>1. ASSUME NEW q \in Requests, ReceiveRequest(q) PROVE OInv'
  BY <1>1, HandleOnce DEF ReceiveRequest
<1>2. ASSUME CalmStep, execs' = execs, turn' = turn, lru' = lru PROVE OInv'
  <2>1. Calm
    BY <1>2, CalmSteps DEF IInv
  <2> QED BY <1>2, <2>1, CalmOnce
<1>3. ASSUME NEW q \in Requests, ReceiveDuplicate(q) PROVE OInv'
  BY <1>2, <1>3 DEF CalmStep, ReceiveDuplicate
<1>4. ASSUME NEW b \in Buffers, ReceiveAck(b) PROVE OInv'
  <2>1. PICK c \in Peek(AnswerKey(b)) : lru' = lru \ {c}
    BY <1>4 DEF ReceiveAck, StopSending
  <2>2. Calm
    BY <1>4, CalmSteps DEF CalmStep, IInv
  <2>3. ASSUME NEW q \in Requests PROVE msgs[c].key # RequestKey(q)
    <3>1. msgs[b].mid \in Mids /\ execs[msgs[b].exec].req \in Requests
      BY BufferFacts DEF IInv, OInv, OnceSound
    <3>2. msgs[c].key = ToKey(execs[msgs[b].exec].req.client, msgs[b].mid, <<>>)
      BY DEF Peek, AnswerKey
    <3> QED BY <3>1, <3>2 DEF KeysTellApart
  <2>4. execs' = execs /\ turn' = turn
    BY <1>4 DEF ReceiveAck
  <2> QED BY <2>1, <2>2, <2>3, <2>4, CalmOnce
<1>5. /\ \A b \in Buffers : ~ReceiveReset(b) /\ ~ReceiveUnknownReset(b)
      /\ \A b \in Buffers : IgnoreAck(b) => CalmStep /\ execs' = execs /\ turn' = turn /\ lru' = lru
  BY DEF ReceiveReset, ReceiveUnknownReset, Rejectable, CalmStep, IgnoreAck
<1>6. ASSUME NEW e \in Executions, End(e) PROVE OInv'
  <2>1. PICK x : Sends(e, execs[e].packet, FALSE, x) /\ x.ended /\ x.writes = execs[e].writes
    BY <1>6, EndSends
  <2>2. turn' = turn /\ (~execs[e].req.observe => x.writes = 0)
    BY <1>6, <2>1 DEF End, OInv, OnceSound
  <2> QED BY <2>1, <2>2, SendOnce
<1>7. ASSUME NEW e \in Executions, Write(e) PROVE OInv'
  <2>1. PICK x : Sends(e, execs[e].packet, FALSE, x) /\ x.writes = execs[e].writes + 1
    BY <1>7, WriteSends
  <2>2. turn' = turn /\ execs[e].req.observe
    BY <1>7 DEF Write
  <2>3. x.writes > 0
    BY <2>1, ExecutionFacts DEF IInv, ResponseRecords
  <2> QED BY <2>1, <2>2, <2>3, SendOnce
<1>8. ASSUME NEW e \in Executions, Finish(e), execs[e].writes = 0 PROVE OInv'
  <2>1. PICK x : Sends(e, execs[e].packet, FALSE, x) /\ x.ended /\ x.writes = execs[e].writes
    BY <1>8, FinishSends
  <2>2. turn' = turn /\ x.writes = 0
    BY <1>8, <2>1 DEF Finish
  <2> QED BY <2>1, <2>2, SendOnce
<1>9. ASSUME NEW e \in Executions, execs' = [execs EXCEPT ![e].ended = TRUE], Answered(e),
             CalmStep, turn' = turn, lru' = lru
      PROVE  OInv'
  <2>1. Calm /\ \A d \in Executions : execs'[d].writes = execs[d].writes
    BY <1>9, CalmSteps DEF IInv
  <2>2. \A d \in Executions : d # e => execs'[d] = execs[d]
    BY <1>9 DEF IInv, TypeOK, Executions
  <2>3. \A d \in Executions : execs'[d].ended # execs[d].ended => Answered(d)
    BY <1>9, <2>2
  <2> QED BY <1>9, <2>1, <2>3, CalmOnce
<1>10. ASSUME NEW e \in Executions, Finish(e), execs[e].writes # 0 PROVE OInv'
  <2>1. Answered(e)
    BY <1>10, ExecutionFacts DEF IInv, ResponseRecords, Answered
  <2> QED BY <1>9, <1>10, <2>1 DEF CalmStep, Finish, EndStream
<1>11. CASE ListenersReturn
  <2>1. /\ turn # Loop /\ (execs[turn].ended \/ execs[turn].writes > 0) /\ turn' = Loop
        /\ execs' = execs /\ lru' = lru
    BY <1>11 DEF ListenersReturn
  <2>2. Calm
    BY <1>11, CalmSteps DEF CalmStep, IInv
  <2> QED BY <2>1, <2>2, CalmOnce DEF Answered
<1>12. ~Close
  BY DEF Close
<1>13. ASSUME NEW e \in Executions, AckTimer(e) PROVE FALSE
  <2>1. turn = Loop /\ execs[e].timer
    BY <1>13 DEF AckTimer, Idle
  <2>2. ~execs[e].ended /\ ~execs[e].req.observe
    BY <2>1 DEF IInv, MayAcknowledge
  <2>3. Answered(e) /\ execs[e].writes = 0
    BY <2>1, <2>2 DEF OInv, OnceSound, Loop, Executions
  <2> QED BY <2>2, <2>3 DEF Answered
<1>14. ASSUME NEW b \in Buffers, TimeOut(b) PROVE OInv'
  <2>1. msgs[b].exec \in Executions /\ Answered(msgs[b].exec)
    BY BufferFacts DEF IInv, OInv
  <2>2. /\ turn' = turn /\ lru' = lru
        /\ execs' = execs \/ execs' = [execs EXCEPT ![msgs[b].exec].ended = TRUE]
    BY <1>14 DEF TimeOut
  <2> QED BY <1>2, <1>9, <1>14, <2>1, <2>2 DEF CalmStep
<1>15. CASE Listen \/ UNCHANGED vars
  BY <1>2, <1>15 DEF CalmStep, Listen, vars
<1>16. CASE NetworkNext
  BY <1>1, <1>2, <1>3, <1>4, <1>5, <1>16 DEF NetworkNext
<1>17. CASE UserNext
  BY <1>6, <1>7, <1>8, <1>10, <1>11, <1>12, <1>15, <1>17 DEF UserNext
<1>18. CASE TimerNext
  BY <1>13, <1>14, <1>18 DEF TimerNext
<1> QED BY <1>15, <1>16, <1>17, <1>18 DEF Next

(***************************************************************************)
(* However often a request arrives, its listeners run once, if they answer *)
(* before they return: the answer stays in the cache, as long as it does   *)
(* not fill up, for no acknowledgement is looked up under a request's key. *)
(***************************************************************************)
THEOREM RunsOnce ==
    ASSUME KeysTellApart, ~Slow, ~ClientsReset, ~ServerCloses
    PROVE  Spec /\ []Uncrowded => []ExecutedOnce
<1>1. IInv /\ RInv /\ OInv /\ Uncrowded /\ [Next]_vars => OInv'
  BY StepOnce
<1>2. OInv => ExecutedOnce
  BY DEF OInv
<1> QED BY <1>1, <1>2, InitOnce, Inductive, RInvHolds, PTL DEF Spec
=============================================================================
