----------------------------- MODULE RetrySend ------------------------------
(***************************************************************************)
(* The retransmitting sender (src/lib/retry_send.ts): one per outgoing     *)
(* request in the Agent, one per cached response in the Server.            *)
(*                                                                         *)
(* A timer is its remaining time, or Off.  bOffTimer and timer are the     *)
(* timers the object's two handles refer to: send() and _bOff clear or     *)
(* have used up the timer of a handle before they overwrite it.  Timers    *)
(* that are due fire in any order.                                         *)
(***************************************************************************)
EXTENDS Parameters

CONSTANTS
    MessageIds,       \* message ids a caller may put in the message it sends
    RetryLimit,       \* _maxRetransmit: maxRetransmit or the caller's override
    AbortOnTimeout,   \* the owner resets the sender on 'timeout' (Agent: TRUE)
    MaxSends          \* bound: calls of send() in a behaviour

ASSUME SenderAssumption ==
    /\ MessageIds \subseteq Nat
    /\ RetryLimit \in Nat
    /\ AbortOnTimeout \in BOOLEAN
    /\ MaxSends \in Nat

(***************************************************************************)
(* Only the Agent lets the caller override the limit (options.retrySend),  *)
(* and the Agent aborts the request on 'timeout'.                          *)
(***************************************************************************)
ASSUME LimitAssumption == AbortOnTimeout \/ RetryLimit <= MaxRetransmit

VARIABLES
    message,          \* _message: its message id
    avoidBackoff,     \* the argument of the last send()
    lastMessageId,    \* _lastMessageId
    sendAttemp,       \* _sendAttemp
    currentTime,      \* _currentTime
    bOffTimer,        \* _bOffTimer
    timer,            \* _timer
    elapsed,          \* history: time since the last send()
    copies,           \* history: transmissions since the last send()
    sends             \* history: calls of send() so far

vars == <<message, avoidBackoff, lastMessageId, sendAttemp, currentTime,
          bOffTimer, timer, elapsed, copies, sends>>

Off == -1
NoMessage == -1
Avoidances == {"yes", "no", "unset"}      \* true, false, undefined

Running(t) == t # Off

Init ==
    /\ message = NoMessage
    /\ avoidBackoff = "unset"
    /\ lastMessageId = NoMessage
    /\ sendAttemp = 0
    /\ currentTime \in FirstDelays
    /\ bOffTimer = Off
    /\ timer = Off
    /\ elapsed = 0
    /\ copies = 0
    /\ sends = 0
-----------------------------------------------------------------------------
\* clearTimeout, as reset() applies it to both handles.
Cleared(t) == Off

\* Faulty: the back-off is not restarted for a new message.
DelaysKept(m, time) == {time}

\* The delays _send may arm bOffTimer with, given the current one.
Delays(m, time) == IF m # lastMessageId THEN FirstDelays ELSE {time}

\* _sendAttemp after the increment in _send.
Attempt(m) == IF m # lastMessageId THEN 1 ELSE sendAttemp + 1

\* Faulty: the attempt is counted after the comparison.
RetriesOneMore(attempt) == attempt <= RetryLimit + 1

\* Whether _send arms bOffTimer at that attempt.
Retries(attempt) == attempt <= RetryLimit

(***************************************************************************)
(* _send(avoid): transmit m and arm the next retransmission.  time is      *)
(* _currentTime and previous is bOffTimer at the call.                     *)
(***************************************************************************)
Transmit(m, avoid, time, previous) ==
    /\ lastMessageId' = m
    /\ currentTime' \in Delays(m, time)
    /\ \/ /\ avoid = "yes"
          /\ sendAttemp' = Attempt(m) - 1
          /\ bOffTimer' = previous
       \/ /\ avoid # "yes"
          /\ sendAttemp' = Attempt(m)
          /\ bOffTimer' = IF Retries(Attempt(m)) THEN currentTime' ELSE previous

\* Faulty: the short delay for every message.
TimeoutShort(avoid) == MaxRTT

\* The delay of the timer that ends the exchange.
Timeout(avoid) == IF avoid = "yes" THEN MaxRTT ELSE ExchangeLifetime

Send(m, avoid) ==
    /\ sends < MaxSends
    /\ message' = m
    /\ avoidBackoff' = avoid
    /\ Transmit(m, avoid, currentTime, Cleared(bOffTimer))
    /\ timer' = Timeout(avoid)
    /\ elapsed' = 0
    /\ copies' = 1
    /\ sends' = sends + 1

\* _bOff: the retransmission timer fires.
BOff ==
    /\ bOffTimer = 0
    /\ Transmit(message, "unset", 2 * currentTime, Off)
    /\ copies' = copies + 1
    /\ UNCHANGED <<message, avoidBackoff, timer, elapsed, sends>>

\* Faulty: only a caller that wants the error is told.
GiveUpOnError ==
    /\ timer = 0 /\ avoidBackoff = "no"
    /\ timer' = Off
    /\ bOffTimer' = IF AbortOnTimeout THEN Cleared(bOffTimer) ELSE bOffTimer
    /\ UNCHANGED <<message, avoidBackoff, lastMessageId, sendAttemp, currentTime,
                   elapsed, copies, sends>>

(***************************************************************************)
(* The callback of the timer that ends the exchange: 'timeout' is emitted, *)
(* and an owner that aborts the request calls reset().                     *)
(***************************************************************************)
GiveUp ==
    /\ timer = 0
    /\ timer' = Off
    /\ bOffTimer' = IF AbortOnTimeout THEN Cleared(bOffTimer) ELSE bOffTimer
    /\ UNCHANGED <<message, avoidBackoff, lastMessageId, sendAttemp, currentTime,
                   elapsed, copies, sends>>

\* reset(): an answer came, or the owner is done with the message.
Reset ==
    /\ bOffTimer' = Cleared(bOffTimer)
    /\ timer' = Cleared(timer)
    /\ UNCHANGED <<message, avoidBackoff, lastMessageId, sendAttemp, currentTime,
                   elapsed, copies, sends>>

\* One tick of time; a timer that is due fires before time goes on.
Tick ==
    /\ Running(bOffTimer) \/ Running(timer)
    /\ bOffTimer # 0 /\ timer # 0
    /\ bOffTimer' = IF Running(bOffTimer) THEN bOffTimer - 1 ELSE Off
    /\ timer' = IF Running(timer) THEN timer - 1 ELSE Off
    /\ elapsed' = elapsed + 1
    /\ UNCHANGED <<message, avoidBackoff, lastMessageId, sendAttemp, currentTime,
                   copies, sends>>

Next ==
    \/ \E m \in MessageIds, avoid \in Avoidances : Send(m, avoid)
    \/ BOff
    \/ GiveUp
    \/ Reset
    \/ Tick

Spec == Init /\ [][Next]_vars

\* Node's event loop: time passes and due timers fire.
Fairness == WF_vars(Tick) /\ WF_vars(BOff) /\ WF_vars(GiveUp)

FairSpec == Spec /\ Fairness
-----------------------------------------------------------------------------
TypeOK ==
    /\ message \in MessageIds \cup {NoMessage}
    /\ avoidBackoff \in Avoidances
    /\ lastMessageId \in MessageIds \cup {NoMessage}
    /\ sendAttemp \in Nat
    /\ currentTime \in Nat \ {0}
    /\ bOffTimer \in Nat \cup {Off}
    /\ timer \in Nat \cup {Off}
    /\ elapsed \in Nat
    /\ copies \in Nat
    /\ sends \in 0..MaxSends

(***************************************************************************)
(* However often one sender is reused, and even when the same message is   *)
(* sent again, a send puts at most 1 + RetryLimit copies on the wire, and  *)
(* exactly one when back-off is avoided (non-confirmable messages).        *)
(***************************************************************************)
BoundedCopies ==
    /\ copies <= 1 + RetryLimit
    /\ avoidBackoff = "yes" => copies <= 1

(***************************************************************************)
(* With the default limit every retransmission falls within                *)
(* maxTransmitSpan of the first one, so that none is due after the         *)
(* exchange lifetime: the doubling in _bOff, the restart of the back-off   *)
(* for a new message and deriveTimings agree.                              *)
(***************************************************************************)
WithinTransmitSpan ==
    RetryLimit <= MaxRetransmit /\ Running(bOffTimer) =>
        elapsed + bOffTimer <= MaxTransmitSpan

(***************************************************************************)
(* A retransmission is only ever scheduled inside an open exchange: never  *)
(* after reset() and never after 'timeout'.                                *)
(***************************************************************************)
RetransmitsOnlyWhileOpen == Running(bOffTimer) => Running(timer)

(***************************************************************************)
(* The sender implements the timer-free promise of Sender.                 *)
(***************************************************************************)
Abstract == INSTANCE Sender WITH
    Limit <- RetryLimit,
    waiting <- Running(timer),
    copies <- copies,
    left <- IF Running(bOffTimer) THEN RetryLimit + 1 - sendAttemp ELSE 0

ImplementsSender == Abstract!Spec

(***************************************************************************)
(* Every exchange ends: by an answer (Reset) or by giving up, whatever is  *)
(* retransmitted in between.                                               *)
(***************************************************************************)
EndsExchange == Running(timer) ~> ~Running(timer)
=============================================================================
