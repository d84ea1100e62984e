----------------------------- MODULE Observation ----------------------------
(***************************************************************************)
(* The order of notifications: ObserveWriteStream numbers them             *)
(* (src/lib/observe_write_stream.ts) and ObserveReadStream filters what    *)
(* arrives (src/lib/observe_read_stream.ts).  Between them the network     *)
(* loses, repeats and reorders notifications, none of which is under way   *)
(* for longer than MaxAge, retransmissions included.                       *)
(*                                                                         *)
(* Each notification has an index, which only the model knows, and the     *)
(* number the writer puts in its Observe option.  The constants stand for  *)
(* 16777215, 0x1000000, 1 << 23 and 128 seconds.  At most one notification *)
(* is written per tick.                                                    *)
(***************************************************************************)
EXTENDS Integers

CONSTANTS
    LastCounter,      \* where _counter starts over
    Modulus,          \* of the reader's arithmetic
    Window,           \* differences below it mean "newer"
    FreshAfter,       \* a notification is new after this time, whatever its number
    MaxAge,           \* how long a notification may be under way
    MaxWrites         \* bound: notifications written

ASSUME ObservationAssumption ==
    /\ LastCounter \in Nat /\ LastCounter > 1
    /\ Modulus \in Nat \ {0}
    /\ Window \in 1..Modulus
    /\ FreshAfter \in Nat /\ MaxAge \in Nat /\ MaxWrites \in Nat

(***************************************************************************)
(* What the order of notifications rests on.  The numbers go up to one     *)
(* less than the modulus, as in the code (0 is not used again).  The rest  *)
(* is asked of the network and the application: nothing is under way for   *)
(* longer than the silence that makes any number new, although a           *)
(* confirmable notification of the code may be (45 s of retransmissions    *)
(* and 100 s of latency are more than 128 s), and what is written in the   *)
(* meantime fits into either half of the numbers.                          *)
(***************************************************************************)
ASSUME Proportions ==
    /\ Modulus = LastCounter + 1
    /\ MaxAge <= FreshAfter
    /\ MaxAge + FreshAfter + 2 < Window
    /\ MaxAge + 2 <= Modulus - Window

VARIABLES
    counter,          \* _counter of the writer
    written,          \* index of the last notification
    inFlight,         \* notifications under way
    wrote,            \* the writer has written in this tick
    readable,         \* the reader has not been closed
    lastId,           \* _lastId of the reader, or Unset
    sinceLast,        \* Date.now() - _lastTime, up to FreshAfter + 1
    shown,            \* index of the last notification pushed to the application
    pushes,           \* history: how many were pushed
    missed            \* history: a notification newer than shown was dropped

vars == <<counter, written, inFlight, wrote, readable, lastId, sinceLast,
          shown, pushes, missed>>
writer == <<counter, written, inFlight, wrote>>
reader == <<readable, lastId, sinceLast, shown, pushes, missed>>

Unset == -1
Longest == FreshAfter + 1      \* any time longer than FreshAfter

Init ==
    /\ counter = 0
    /\ written = 0
    /\ inFlight = {}
    /\ wrote = FALSE
    /\ readable = TRUE
    /\ lastId = Unset
    /\ sinceLast = Longest
    /\ shown = 0
    /\ pushes = 0
    /\ missed = FALSE
-----------------------------------------------------------------------------
\* Faulty: the counter never starts over.
NextCounterUnbounded(c) == c

\* _counter after the number c has been written.
NextCounter(c) == IF c = LastCounter THEN 1 ELSE c

Write ==
    /\ written < MaxWrites /\ ~wrote
    /\ written' = written + 1
    /\ counter' = NextCounter(counter + 1)
    /\ inFlight' = inFlight \cup
           {[index |-> written + 1, observe |-> counter + 1, age |-> 0]}
    /\ wrote' = TRUE
    /\ UNCHANGED reader

\* How far a number is ahead of the last one accepted.
Ahead(observe, last) == (observe - last) % Modulus

\* Faulty: equal numbers pass; only the numbers count.
IsNewerOrSame(observe, last, since) == Ahead(observe, last) < Window \/ since > FreshAfter
IsNewerByNumber(observe, last, since) ==
    Ahead(observe, last) > 0 /\ Ahead(observe, last) < Window

\* The filter of append().
IsNewer(observe, last, since) ==
    \/ Ahead(observe, last) > 0 /\ Ahead(observe, last) < Window
    \/ since > FreshAfter

\* What _lastId is when the first notification is compared.
Last(observe) == IF lastId = Unset THEN observe - 1 ELSE lastId

\* append(): a notification that the filter lets through is pushed.
Accept(n) ==
    /\ readable
    /\ IsNewer(n.observe, Last(n.observe), sinceLast)
    /\ lastId' = n.observe
    /\ sinceLast' = 0
    /\ shown' = n.index
    /\ pushes' = pushes + 1
    /\ UNCHANGED <<readable, missed>>
    /\ UNCHANGED writer

Drop(n) ==
    /\ readable
    /\ ~IsNewer(n.observe, Last(n.observe), sinceLast)
    /\ missed' = (missed \/ n.index > shown)
    /\ UNCHANGED <<readable, lastId, sinceLast, shown, pushes>>
    /\ UNCHANGED writer

\* close(): append() does nothing any more.
Close ==
    /\ readable
    /\ readable' = FALSE
    /\ UNCHANGED <<lastId, sinceLast, shown, pushes, missed>>
    /\ UNCHANGED writer

\* Time passes; what has been under way for too long is lost.
Tick ==
    /\ inFlight' = {[n EXCEPT !.age = @ + 1] : n \in {m \in inFlight : m.age < MaxAge}}
    /\ sinceLast' = IF sinceLast < Longest THEN sinceLast + 1 ELSE Longest
    /\ wrote' = FALSE
    /\ UNCHANGED <<counter, written, readable, lastId, shown, pushes, missed>>

Next ==
    \/ Write
    \/ \E n \in inFlight : Accept(n) \/ Drop(n)
    \/ Close
    \/ Tick

Spec == Init /\ [][Next]_vars
-----------------------------------------------------------------------------
TypeOK ==
    /\ counter \in 0..LastCounter
    /\ written \in 0..MaxWrites
    /\ \A n \in inFlight :
        n.index \in 1..written /\ n.observe \in 1..LastCounter /\ n.age \in 0..MaxAge
    /\ {wrote, readable, missed} \subseteq BOOLEAN
    /\ lastId \in 1..LastCounter \cup {Unset}
    /\ sinceLast \in 0..Longest
    /\ shown \in 0..written
    /\ pushes \in 0..written

(***************************************************************************)
(* The application sees notifications in the order they were written, and  *)
(* none twice, however they are reordered and repeated and although their  *)
(* numbers start over.                                                     *)
(***************************************************************************)
InOrder == [][pushes' # pushes => shown' > shown]_vars

(***************************************************************************)
(* A notification newer than everything seen is never dropped: neither     *)
(* when the numbers start over, nor after so many were lost that its       *)
(* number looks old.                                                       *)
(***************************************************************************)
NeverDropsNews == ~missed
=============================================================================
