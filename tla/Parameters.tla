----------------------------- MODULE Parameters -----------------------------
(***************************************************************************)
(* Protocol parameters (src/lib/parameters.ts).  Times are whole ticks;    *)
(* AckTimeoutMax stands for ackTimeout * ackRandomFactor, the upper end of *)
(* the random first retransmission delay.                                  *)
(***************************************************************************)
EXTENDS Integers

CONSTANTS
    AckTimeout,       \* ackTimeout
    AckTimeoutMax,    \* ackTimeout * ackRandomFactor
    MaxRetransmit,    \* maxRetransmit
    MaxLatency        \* maxLatency

ASSUME ParametersAssumption ==
    /\ AckTimeout \in Nat \ {0}
    /\ AckTimeoutMax \in Nat /\ AckTimeoutMax >= AckTimeout
    /\ MaxRetransmit \in Nat
    /\ MaxLatency \in Nat

(***************************************************************************)
(* Arithmetic that the proofs need of the exponentials below and that the  *)
(* provers do not know.                                                    *)
(***************************************************************************)
ASSUME PowersOfTwo ==
    /\ 2^0 = 1
    /\ \A n \in 0..MaxRetransmit : 2^n \in Nat \ {0} /\ 2^(n+1) = 2 * 2^n
    /\ \A m, n \in 0..MaxRetransmit : m <= n => 2^m <= 2^n

\* deriveTimings: the time in which every retransmission happens.
MaxTransmitSpan == AckTimeoutMax * (2^MaxRetransmit - 1)

\* deriveTimings: from the first transmission to giving up on an answer.
MaxTransmitWait == AckTimeoutMax * (2^(MaxRetransmit + 1) - 1)

\* deriveTimings: processingDelay = ackTimeout.
MaxRTT == 2 * MaxLatency + AckTimeout

\* deriveTimings: how long a confirmable message's state is kept.
ExchangeLifetime == MaxTransmitSpan + MaxRTT

\* Faulty: a random factor that reaches down to zero.
FirstDelaysFromZero == 0..AckTimeoutMax

\* RetrySend's constructor and _send: ackTimeout * (1 .. ackRandomFactor).
FirstDelays == AckTimeout..AckTimeoutMax
=============================================================================
