-------------------------- MODULE RetrySend_proofs --------------------------
(***************************************************************************)
(* Proofs about RetrySend, for every choice of its constants.              *)
(***************************************************************************)
EXTENDS RetrySend, TLAPS

\* The latest time of the retransmission armed at the k-th attempt, and the
\* longest delay it can be armed with.
Span(k) == AckTimeoutMax * (2^k - 1)
LongestDelay(k) == AckTimeoutMax * 2^(k - 1)

\* The attempt that armed the running retransmission timer.
RetryCounted ==
    Running(bOffTimer) =>
        /\ message = lastMessageId
        /\ avoidBackoff # "yes"
        /\ sendAttemp \in 1..RetryLimit
        /\ copies <= sendAttemp

\* How far the back-off has grown, for the default limit.
BackoffBounded ==
    RetryLimit <= MaxRetransmit =>
        /\ sendAttemp = 0 => currentTime <= AckTimeoutMax
        /\ sendAttemp \in 1..RetryLimit => currentTime <= LongestDelay(sendAttemp)
        /\ Running(bOffTimer) => elapsed + bOffTimer <= Span(sendAttemp)

\* 'timeout' comes exactly one time-out after the last send().
TimeoutFixed == Running(timer) => elapsed + timer = Timeout(avoidBackoff)

IInv ==
    /\ TypeOK
    /\ BoundedCopies
    /\ RetransmitsOnlyWhileOpen
    /\ RetryCounted
    /\ BackoffBounded
    /\ TimeoutFixed
-----------------------------------------------------------------------------
\* Facts about deriveTimings.

LEMMA SpanFacts ==
    ASSUME NEW k \in 0..MaxRetransmit
    PROVE  /\ Span(k) \in Nat
           /\ Span(k) <= MaxTransmitSpan
           /\ Span(k + 1) = Span(k) + LongestDelay(k + 1)
           /\ LongestDelay(k + 1) \in Nat
           /\ k > 0 => LongestDelay(k + 1) = 2 * LongestDelay(k)
           /\ LongestDelay(1) = AckTimeoutMax
           /\ Span(1) = AckTimeoutMax
<1> DEFINE x == 2^k  y == 2^MaxRetransmit
<1>1. x \in Nat \ {0} /\ y \in Nat \ {0} /\ x <= y /\ 2^(k+1) = 2 * x
  BY PowersOfTwo, ParametersAssumption
<1>2. AckTimeoutMax \in Nat /\ MaxRetransmit \in Nat
  BY ParametersAssumption
<1>3. AckTimeoutMax * (x - 1) \in Nat
  BY <1>1, <1>2
<1>4. AckTimeoutMax * (x - 1) <= AckTimeoutMax * (y - 1)
  BY <1>1, <1>2
<1>5. AckTimeoutMax * (2 * x - 1) = AckTimeoutMax * (x - 1) + AckTimeoutMax * x
  BY <1>1, <1>2
<1>6. k + 1 - 1 = k
  OBVIOUS
<1>7. LongestDelay(k + 1) = AckTimeoutMax * x
  BY <1>6 DEF LongestDelay
<1>8. AckTimeoutMax * x \in Nat
  BY <1>1, <1>2
<1>9. k > 0 => LongestDelay(k + 1) = 2 * LongestDelay(k)
  <2> SUFFICES ASSUME k > 0 PROVE LongestDelay(k + 1) = 2 * LongestDelay(k)
    OBVIOUS
  <2>1. k - 1 \in 0..MaxRetransmit /\ k - 1 + 1 = k
    BY <1>2
  <2>2. x = 2 * 2^(k - 1) /\ 2^(k - 1) \in Nat
    BY <2>1, PowersOfTwo
  <2>3. AckTimeoutMax * (2 * 2^(k - 1)) = 2 * (AckTimeoutMax * 2^(k - 1))
    BY <2>2, <1>2
  <2> QED BY <1>7, <2>2, <2>3 DEF LongestDelay
<1>10. LongestDelay(1) = AckTimeoutMax /\ Span(1) = AckTimeoutMax
  <2>1. 2^0 = 1 /\ 2^(0 + 1) = 2 * 2^0
    BY PowersOfTwo, <1>2
  <2>2. 1 - 1 = 0 /\ 0 + 1 = 1
    OBVIOUS
  <2> QED BY <2>1, <2>2, <1>2 DEF LongestDelay, Span
<1> QED
  BY <1>1, <1>3, <1>4, <1>5, <1>7, <1>8, <1>9, <1>10 DEF Span, MaxTransmitSpan

LEMMA TimeoutFacts ==
    /\ MaxTransmitSpan \in Nat
    /\ MaxRTT \in Nat \ {0}
    /\ ExchangeLifetime \in Nat
    /\ MaxTransmitSpan < ExchangeLifetime
<1>1. MaxRetransmit \in 0..MaxRetransmit
  BY ParametersAssumption
<1>2. Span(MaxRetransmit) \in Nat /\ Span(MaxRetransmit) = MaxTransmitSpan
  BY <1>1, SpanFacts DEF Span, MaxTransmitSpan
<1>3. MaxRTT \in Nat \ {0}
  BY ParametersAssumption DEF MaxRTT
<1> QED BY <1>2, <1>3 DEF ExchangeLifetime
-----------------------------------------------------------------------------
\* The invariant is inductive: one lemma per action that arms a timer.

LEMMA InitIInv == Init => IInv
<1> SUFFICES ASSUME Init PROVE IInv
  OBVIOUS
<1>1. TypeOK
  <2>1. currentTime \in Nat \ {0} /\ 0 \in 0..MaxSends
    BY ParametersAssumption, SenderAssumption DEF Init, FirstDelays
  <2> QED BY <2>1 DEF Init, TypeOK, Avoidances
<1>2. BoundedCopies /\ RetransmitsOnlyWhileOpen /\ RetryCounted /\ TimeoutFixed
  BY SenderAssumption
  DEF Init, BoundedCopies, RetransmitsOnlyWhileOpen, RetryCounted,
      TimeoutFixed, Running
<1>3. BackoffBounded
  BY ParametersAssumption DEF Init, BackoffBounded, FirstDelays, Running
<1> QED BY <1>1, <1>2, <1>3 DEF IInv

\* send(), whatever was sent before and with whichever arguments.
LEMMA SendStep ==
    ASSUME IInv, NEW m \in MessageIds, NEW avoid \in Avoidances, Send(m, avoid)
    PROVE  IInv'
<1> USE DEF Cleared, Running, Off
<1>1. /\ message' = m /\ avoidBackoff' = avoid /\ lastMessageId' = m
      /\ timer' = Timeout(avoid) /\ elapsed' = 0 /\ copies' = 1
      /\ sends' = sends + 1 /\ sends < MaxSends
  BY DEF Send, Transmit
<1>2. m \in Nat /\ MaxSends \in Nat /\ RetryLimit \in Nat
  BY SenderAssumption
<1>3. AckTimeout \in Nat \ {0} /\ AckTimeoutMax \in Nat /\ MaxRetransmit \in Nat
  BY ParametersAssumption
<1>4. currentTime' \in Nat \ {0}
  BY <1>3 DEF Send, Transmit, Delays, FirstDelays, IInv, TypeOK
<1>5. timer' \in Nat
  BY <1>1, TimeoutFacts DEF Timeout
<1>6. sends' \in 0..MaxSends
  BY <1>1, <1>2 DEF IInv, TypeOK
<1>7. CASE avoid = "yes"
  <2>1. sendAttemp' = Attempt(m) - 1 /\ bOffTimer' = Off
    BY <1>7 DEF Send, Transmit
  <2>2. sendAttemp' \in Nat /\ (m = lastMessageId => sendAttemp' = sendAttemp)
                            /\ (m # lastMessageId => sendAttemp' = 0)
    BY <2>1 DEF Attempt, IInv, TypeOK
  <2>3. BackoffBounded'
    <3> SUFFICES ASSUME RetryLimit <= MaxRetransmit
                 PROVE  /\ sendAttemp' = 0 => currentTime' <= AckTimeoutMax
                        /\ sendAttemp' \in 1..RetryLimit =>
                               currentTime' <= LongestDelay(sendAttemp')
      BY <2>1 DEF BackoffBounded, LongestDelay
    <3>1. CASE m = lastMessageId
      BY <3>1, <2>2 DEF Send, Transmit, Delays, IInv, BackoffBounded
    <3>2. CASE m # lastMessageId
      BY <3>2, <2>2, <1>3 DEF Send, Transmit, Delays, FirstDelays
    <3> QED BY <3>1, <3>2
  <2>4. TypeOK'
    BY <1>1, <1>2, <1>4, <1>5, <1>6, <2>1, <2>2 DEF TypeOK
  <2> QED
    BY <1>1, <1>2, <2>1, <2>3, <2>4, TimeoutFacts
    DEF IInv, BoundedCopies, RetransmitsOnlyWhileOpen, RetryCounted,
        TimeoutFixed, Timeout
<1>8. CASE avoid # "yes"
  <2>1. /\ sendAttemp' = Attempt(m)
        /\ bOffTimer' = IF Attempt(m) <= RetryLimit THEN currentTime' ELSE Off
    BY <1>8 DEF Send, Transmit, Retries
  <2>2. sendAttemp' \in Nat /\ sendAttemp' >= 1
                            /\ (m = lastMessageId => sendAttemp' = sendAttemp + 1)
                            /\ (m # lastMessageId => sendAttemp' = 1)
    BY <2>1 DEF Attempt, IInv, TypeOK
  <2>3. BackoffBounded'
    <3> SUFFICES ASSUME RetryLimit <= MaxRetransmit, sendAttemp' \in 1..RetryLimit
                 PROVE  /\ currentTime' <= LongestDelay(sendAttemp')
                        /\ currentTime' <= Span(sendAttemp')
      BY <1>1, <1>2, <1>4, <2>1, <2>2 DEF BackoffBounded
    <3>1. CASE m # lastMessageId \/ sendAttemp = 0
      <4>1. sendAttemp' = 1
        BY <3>1, <2>2
      <4>2. currentTime' <= AckTimeoutMax
        BY <3>1, <1>3 DEF Send, Transmit, Delays, FirstDelays, IInv, BackoffBounded
      <4>3. LongestDelay(1) = AckTimeoutMax /\ Span(1) = AckTimeoutMax
        BY <1>3, SpanFacts, 0 \in 0..MaxRetransmit
      <4> QED BY <4>1, <4>2, <4>3
    <3>2. CASE m = lastMessageId /\ sendAttemp # 0
      <4> DEFINE k == sendAttemp
      <4>1. k \in 1..RetryLimit /\ k \in 0..MaxRetransmit /\ k - 1 \in 0..MaxRetransmit
        BY <3>2, <2>2, <1>2, <1>3 DEF IInv, TypeOK
      <4>2. currentTime' = currentTime /\ currentTime <= LongestDelay(k)
        BY <3>2, <4>1 DEF Send, Transmit, Delays, IInv, BackoffBounded
      <4>3. LongestDelay(k + 1) = 2 * LongestDelay(k) /\ LongestDelay(k + 1) \in Nat
            /\ Span(k + 1) = Span(k) + LongestDelay(k + 1) /\ Span(k) \in Nat
        BY <4>1, SpanFacts
      <4>4. k - 1 + 1 = k
        BY <4>1
      <4>5. LongestDelay(k) \in Nat
        BY <4>1, <4>4, SpanFacts
      <4>6. sendAttemp' = k + 1
        BY <3>2, <2>2
      <4>7. currentTime \in Nat
        BY DEF IInv, TypeOK
      <4> HIDE DEF k
      <4> QED BY <4>2, <4>3, <4>5, <4>6, <4>7
    <3> QED BY <3>1, <3>2
  <2>4. TypeOK'
    BY <1>1, <1>2, <1>4, <1>5, <1>6, <2>1, <2>2 DEF TypeOK
  <2>5. RetryCounted' /\ RetransmitsOnlyWhileOpen' /\ BoundedCopies'
    BY <1>1, <1>2, <1>8, <2>1, <2>2, TimeoutFacts
    DEF RetryCounted, RetransmitsOnlyWhileOpen, BoundedCopies, Timeout
  <2>6. TimeoutFixed'
    BY <1>1, TimeoutFacts DEF TimeoutFixed, Timeout
  <2> QED BY <2>3, <2>4, <2>5, <2>6 DEF IInv
<1> QED BY <1>7, <1>8

\* A retransmission: the attempt grows by one and the delay doubles.
LEMMA BOffStep == ASSUME IInv, BOff PROVE IInv'
<1> USE DEF Running, Off
<1> DEFINE k == sendAttemp
<1>1. /\ bOffTimer = 0 /\ message = lastMessageId /\ avoidBackoff # "yes"
      /\ k \in 1..RetryLimit /\ copies <= k /\ timer # Off
  BY DEF BOff, IInv, RetryCounted, RetransmitsOnlyWhileOpen
<1>2. /\ lastMessageId' = lastMessageId /\ currentTime' = 2 * currentTime
      /\ sendAttemp' = k + 1 /\ copies' = copies + 1
      /\ bOffTimer' = IF k + 1 <= RetryLimit THEN 2 * currentTime ELSE Off
      /\ UNCHANGED <<message, avoidBackoff, timer, elapsed, sends>>
  BY <1>1 DEF BOff, Transmit, Delays, Attempt, Retries
<1>3. RetryLimit \in Nat /\ MaxRetransmit \in Nat
  BY ParametersAssumption, SenderAssumption
<1>4. TypeOK'
  BY <1>1, <1>2, <1>3 DEF IInv, TypeOK
<1>5. RetryCounted' /\ RetransmitsOnlyWhileOpen' /\ BoundedCopies'
  BY <1>1, <1>2, <1>3
  DEF IInv, TypeOK, RetryCounted, RetransmitsOnlyWhileOpen, BoundedCopies
<1>6. TimeoutFixed'
  BY <1>2 DEF IInv, TimeoutFixed, Timeout
<1>7. BackoffBounded'
  <2> SUFFICES ASSUME RetryLimit <= MaxRetransmit, k + 1 <= RetryLimit
               PROVE  /\ 2 * currentTime <= LongestDelay(k + 1)
                      /\ elapsed + 2 * currentTime <= Span(k + 1)
    BY <1>1, <1>2, <1>3 DEF BackoffBounded
  <2>1. k \in 0..MaxRetransmit /\ k - 1 \in 0..MaxRetransmit /\ k - 1 + 1 = k
    BY <1>1, <1>3
  <2>2. currentTime <= LongestDelay(k) /\ elapsed + 0 <= Span(k)
    BY <1>1 DEF IInv, BackoffBounded
  <2>3. LongestDelay(k + 1) = 2 * LongestDelay(k) /\ LongestDelay(k + 1) \in Nat
        /\ Span(k + 1) = Span(k) + LongestDelay(k + 1) /\ Span(k) \in Nat
    BY <1>1, <2>1, SpanFacts
  <2>4. LongestDelay(k) \in Nat
    BY <2>1, SpanFacts
  <2>5. currentTime \in Nat /\ elapsed \in Nat
    BY DEF IInv, TypeOK
  <2> HIDE DEF k
  <2> QED BY <2>2, <2>3, <2>4, <2>5
<1> QED BY <1>4, <1>5, <1>6, <1>7 DEF IInv

(***************************************************************************)
(* 'timeout': a retransmission cannot still be scheduled, because the      *)
(* owner clears it or because maxTransmitSpan is over.                     *)
(***************************************************************************)
LEMMA GiveUpStep == ASSUME IInv, GiveUp PROVE IInv' /\ bOffTimer' = Off
<1> USE DEF Running, Off, Cleared
<1>1. bOffTimer' = Off
  <2> SUFFICES ASSUME ~AbortOnTimeout, bOffTimer # Off PROVE FALSE
    BY SenderAssumption DEF GiveUp
  <2>1. RetryLimit <= MaxRetransmit /\ RetryLimit \in Nat /\ MaxRetransmit \in Nat
    BY LimitAssumption, ParametersAssumption, SenderAssumption
  <2>2. avoidBackoff # "yes" /\ sendAttemp \in 1..RetryLimit
    BY DEF IInv, RetryCounted
  <2>3. elapsed + 0 = ExchangeLifetime
    BY <2>2 DEF GiveUp, IInv, TimeoutFixed, Timeout
  <2>4. elapsed + bOffTimer <= Span(sendAttemp)
    BY <2>1 DEF IInv, BackoffBounded
  <2>5. sendAttemp \in 0..MaxRetransmit
    BY <2>1, <2>2
  <2>6. Span(sendAttemp) <= MaxTransmitSpan /\ Span(sendAttemp) \in Nat
    BY <2>5, SpanFacts
  <2>7. elapsed \in Nat /\ bOffTimer \in Nat
    BY DEF IInv, TypeOK
  <2> QED BY <2>3, <2>4, <2>6, <2>7, TimeoutFacts
<1>2. /\ timer' = Off
      /\ UNCHANGED <<message, avoidBackoff, lastMessageId, sendAttemp, currentTime,
                     elapsed, copies, sends>>
  BY DEF GiveUp
<1> QED
  BY <1>1, <1>2
  DEF IInv, TypeOK, BoundedCopies, RetransmitsOnlyWhileOpen,
      RetryCounted, BackoffBounded, TimeoutFixed

LEMMA ResetStep == ASSUME IInv, Reset PROVE IInv'
  BY DEF Reset, Cleared, Running, Off, IInv, TypeOK, BoundedCopies,
         RetransmitsOnlyWhileOpen, RetryCounted, BackoffBounded, TimeoutFixed

LEMMA TickStep == ASSUME IInv, Tick PROVE IInv'
<1> USE DEF Running, Off
<1>1. TypeOK'
  BY DEF Tick, IInv, TypeOK
<1>2. /\ UNCHANGED <<message, avoidBackoff, lastMessageId, sendAttemp, currentTime,
                     copies, sends>>
      /\ bOffTimer' # Off => bOffTimer # Off /\ elapsed' + bOffTimer' = elapsed + bOffTimer
      /\ timer' # Off => timer # Off /\ elapsed' + timer' = elapsed + timer
      /\ timer # Off => timer' # Off
  BY DEF Tick, IInv, TypeOK
<1>3. BackoffBounded' /\ TimeoutFixed'
  BY <1>2 DEF IInv, BackoffBounded, TimeoutFixed, Timeout
<1>4. BoundedCopies' /\ RetransmitsOnlyWhileOpen' /\ RetryCounted'
  BY <1>2
  DEF IInv, BoundedCopies, RetransmitsOnlyWhileOpen, RetryCounted
<1> QED BY <1>1, <1>3, <1>4 DEF IInv

LEMMA StutterStep == ASSUME IInv, UNCHANGED vars PROVE IInv'
  BY DEF vars, IInv, TypeOK, BoundedCopies, RetransmitsOnlyWhileOpen,
         RetryCounted, BackoffBounded, TimeoutFixed, Timeout, Running

LEMMA Inductive == Spec => []IInv
<1>1. ASSUME IInv, [Next]_vars PROVE IInv'
  <2>1. ASSUME NEW m \in MessageIds, NEW avoid \in Avoidances, Send(m, avoid) PROVE IInv'
    BY <1>1, <2>1, SendStep
  <2> QED
    BY <1>1, <2>1, BOffStep, GiveUpStep, ResetStep, TickStep, StutterStep DEF Next
<1> QED BY InitIInv, <1>1, PTL DEF Spec
-----------------------------------------------------------------------------
\* What the invariant gives, for every value of the constants.

THEOREM TypeCorrect == Spec => []TypeOK
BY Inductive, PTL DEF IInv

(***************************************************************************)
(* _sendAttemp bounds the copies of a message although it survives the     *)
(* sends of one message id.                                                *)
(***************************************************************************)
THEOREM CopiesAreBounded == Spec => []BoundedCopies
BY Inductive, PTL DEF IInv

\* retry_send.ts and parameters.ts agree on when the last copy is sent.
THEOREM SpanRespected == Spec => []WithinTransmitSpan
<1>1. IInv => WithinTransmitSpan
  <2> SUFFICES ASSUME IInv, RetryLimit <= MaxRetransmit, Running(bOffTimer)
               PROVE  elapsed + bOffTimer <= MaxTransmitSpan
    BY DEF WithinTransmitSpan
  <2>1. sendAttemp \in 0..MaxRetransmit
    BY ParametersAssumption, SenderAssumption DEF IInv, RetryCounted
  <2>2. Span(sendAttemp) <= MaxTransmitSpan /\ Span(sendAttemp) \in Nat
    BY <2>1, SpanFacts
  <2>3. elapsed + bOffTimer <= Span(sendAttemp)
    BY DEF IInv, BackoffBounded
  <2>4. elapsed \in Nat /\ bOffTimer \in Nat
    BY DEF IInv, TypeOK, Running
  <2> QED BY <2>2, <2>3, <2>4, TimeoutFacts
<1> QED BY <1>1, Inductive, PTL

\* Nothing is retransmitted outside an open exchange.
THEOREM OpenWhileRetransmitting == Spec => []RetransmitsOnlyWhileOpen
BY Inductive, PTL DEF IInv

(***************************************************************************)
(* RetrySend, with its timers and counters, implements the abstract sender *)
(* that repeats a message a bounded number of times while it is open.      *)
(***************************************************************************)
THEOREM Refinement == Spec => ImplementsSender
<1> USE DEF Running, Off
<1>1. Init => Abstract!Init
  BY DEF Init, Abstract!Init
<1>2. ASSUME IInv, [Next]_vars PROVE [Abstract!Next]_(Abstract!vars)
  <2>1. ASSUME NEW m \in MessageIds, NEW avoid \in Avoidances, Send(m, avoid)
        PROVE  Abstract!Send
    <3>1. timer' # -1
      BY <2>1, TimeoutFacts DEF Send, Timeout
    <3>2. IInv'
      BY <1>2, <2>1, SendStep
    <3>3. bOffTimer' # -1 => RetryLimit + 1 - sendAttemp' \in 0..RetryLimit
      BY <3>2, SenderAssumption DEF IInv, RetryCounted
    <3> QED BY <2>1, <3>1, <3>3, SenderAssumption DEF Send, Abstract!Send
  <2>2. CASE BOff
    <3>1. /\ bOffTimer = 0 /\ timer # -1 /\ timer' = timer
          /\ sendAttemp \in 1..RetryLimit /\ message = lastMessageId
      BY <1>2, <2>2 DEF BOff, IInv, RetryCounted, RetransmitsOnlyWhileOpen
    <3>2. sendAttemp' = sendAttemp + 1
      BY <2>2, <3>1 DEF BOff, Transmit, Attempt
    <3>3. bOffTimer' = IF sendAttemp + 1 <= RetryLimit THEN 2 * currentTime ELSE Off
      BY <2>2, <3>1 DEF BOff, Transmit, Attempt, Retries, Delays
    <3>4. currentTime \in Nat /\ RetryLimit \in Nat
      BY <1>2, SenderAssumption DEF IInv, TypeOK
    <3>5. Abstract!Retransmit
      BY <2>2, <3>1, <3>2, <3>3, <3>4 DEF BOff, Abstract!Retransmit
    <3> QED BY <3>5 DEF Abstract!Next
  <2>3. CASE GiveUp
    <3>1. bOffTimer' = Off /\ timer' = Off /\ copies' = copies
      BY <1>2, <2>3, GiveUpStep DEF GiveUp
    <3> QED BY <3>1 DEF Abstract!Next, Abstract!Close
  <2>4. CASE Reset
    BY <2>4 DEF Reset, Cleared, Abstract!Next, Abstract!Close
  <2>5. CASE Tick
    <3>1. (bOffTimer' # -1) = (bOffTimer # -1) /\ (timer' # -1) = (timer # -1)
      BY <1>2, <2>5 DEF Tick, IInv, TypeOK
    <3> QED BY <2>5, <3>1 DEF Tick, Abstract!vars
  <2>6. CASE UNCHANGED vars
    BY <2>6 DEF vars, Abstract!vars
  <2> QED BY <1>2, <2>1, <2>2, <2>3, <2>4, <2>5, <2>6 DEF Next, Abstract!Next
<1> QED
  BY <1>1, <1>2, Inductive, PTL DEF Spec, Abstract!Spec, ImplementsSender
=============================================================================
