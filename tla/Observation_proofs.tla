------------------------- MODULE Observation_proofs -------------------------
(***************************************************************************)
(* Proofs about Observation.  The numbers of two notifications that are    *)
(* not too far apart differ by the distance between their indices, or by   *)
(* two more modulo Modulus if the numbers started over in between.         *)
(***************************************************************************)
EXTENDS Observation, TLAPS

Period == LastCounter - 1

\* The notification with this index and number was written d before the next one.
Numbered(index, observe, d) ==
    /\ d = written + 1 - index
    /\ counter + 1 - observe = d \/ counter + 1 - observe = d - Period
    /\ observe = 1 <=> index = 1

\* One that may still be written in this tick.
Slack == IF wrote THEN 0 ELSE 1

\* A notification under way is as old as what was written since needs.
FlightSound ==
    \A n \in inFlight :
        /\ n.index \in 1..written /\ n.observe \in 1..LastCounter /\ n.age \in 0..MaxAge
        /\ written + Slack - n.index <= n.age
        /\ Numbered(n.index, n.observe, written + 1 - n.index)

\* What the reader knows of the last notification, as long as it counts.
ReaderSound ==
    /\ lastId = Unset => shown = 0 /\ sinceLast = Longest
    /\ sinceLast <= FreshAfter =>
          /\ lastId # Unset
          /\ written + Slack - shown <= MaxAge + sinceLast
          /\ Numbered(shown, lastId, written + 1 - shown)

\* What was written before it is older than the silence.
OlderThanSilence == \A n \in inFlight : n.index <= shown => n.age >= sinceLast

Typed ==
    /\ counter \in 0..(LastCounter - 1) /\ (counter = 0 <=> written = 0)
    /\ written \in Nat /\ written <= MaxWrites
    /\ wrote \in BOOLEAN /\ readable \in BOOLEAN /\ missed \in BOOLEAN
    /\ lastId \in 1..LastCounter \/ lastId = Unset
    /\ sinceLast \in 0..Longest
    /\ shown \in 0..written
    /\ pushes \in 0..shown

IInv == Typed /\ FlightSound /\ ReaderSound /\ OlderThanSilence /\ NeverDropsNews
-----------------------------------------------------------------------------
LEMMA Constants ==
    /\ LastCounter \in Nat /\ LastCounter > 1 /\ Modulus = LastCounter + 1
    /\ Window \in Nat /\ FreshAfter \in Nat /\ MaxAge \in Nat /\ MaxWrites \in Nat
    /\ MaxAge <= FreshAfter
    /\ MaxAge + FreshAfter + 2 < Window
    /\ MaxAge + 2 <= Modulus - Window
BY ObservationAssumption, Proportions

\* The reader's arithmetic on differences of less than the modulus.
LEMMA SmallModulo ==
    ASSUME NEW m \in Nat \ {0}, NEW x \in Int, -m < x, x < m
    PROVE  x % m = IF x >= 0 THEN x ELSE x + m
<1>1. CASE x >= 0
  BY <1>1, SMT
<1>2. CASE x < 0
  BY <1>2, SMT
<1> QED BY <1>1, <1>2

LEMMA AheadOf ==
    ASSUME NEW a \in 1..LastCounter, NEW b \in 1..LastCounter
    PROVE  Ahead(b, a) = IF b >= a THEN b - a ELSE b - a + Modulus
<1>1. b - a \in Int /\ -Modulus < b - a /\ b - a < Modulus /\ Modulus \in Nat \ {0}
  BY Constants
<1>2. (b - a) % Modulus = IF b - a >= 0 THEN b - a ELSE b - a + Modulus
  BY <1>1, SmallModulo
<1> QED BY <1>2, Constants DEF Ahead

(***************************************************************************)
(* The filter, on two notifications whose numbers are known: it accepts    *)
(* the one with the higher index.                                          *)
(***************************************************************************)
LEMMA NewerByNumber ==
    ASSUME NEW i \in Nat, NEW a \in 1..LastCounter, NEW j \in Nat, NEW b \in 1..LastCounter,
           written \in Nat, counter \in 0..(LastCounter - 1),
           i <= written, j <= written,
           written - i <= MaxAge + FreshAfter, written - j <= MaxAge,
           Numbered(i, a, written + 1 - i), Numbered(j, b, written + 1 - j)
    PROVE  j > i <=> Ahead(b, a) > 0 /\ Ahead(b, a) < Window
<1> USE Constants
<1>1. Ahead(b, a) = IF b >= a THEN b - a ELSE b - a + Modulus
  BY AheadOf
<1>2. b - a = j - i \/ b - a = j - i - Period \/ b - a = j - i + Period
  BY DEF Numbered, Period
<1>3. CASE j > i
  <2>1. b - a # j - i + Period
    BY <1>3 DEF Period
  <2> QED BY <1>1, <1>2, <1>3, <2>1 DEF Period
<1>4. CASE j = i
  <2>1. a = b
    BY <1>4 DEF Numbered, Period
  <2> QED BY <1>1, <1>4, <2>1
<1>5. CASE j < i
  <2>1. b - a # j - i - Period
    BY <1>5 DEF Period
  <2>2. i - j <= MaxAge
    BY <1>5
  <2> QED BY <1>1, <1>2, <1>5, <2>1, <2>2 DEF Period
<1> QED BY <1>3, <1>4, <1>5
-----------------------------------------------------------------------------
LEMMA InitHolds == Init => IInv
<1> SUFFICES ASSUME Init PROVE IInv
  OBVIOUS
<1>1. Typed
  <2>1. sinceLast \in 0..Longest /\ counter \in 0..(LastCounter - 1)
    BY Constants DEF Init, Longest
  <2>2. written = 0 /\ 0 <= MaxWrites /\ shown \in 0..written /\ pushes \in 0..shown
    BY Constants DEF Init
  <2>3. wrote \in BOOLEAN /\ readable \in BOOLEAN /\ missed \in BOOLEAN
    BY DEF Init
  <2>4. counter = 0 /\ lastId = Unset
    BY DEF Init
  <2> QED BY <2>1, <2>2, <2>3, <2>4 DEF Typed
<1>2. FlightSound /\ OlderThanSilence /\ NeverDropsNews
  BY DEF Init, FlightSound, OlderThanSilence, NeverDropsNews
<1>3. ReaderSound
  BY Constants DEF Init, ReaderSound, Longest
<1> QED BY <1>1, <1>2, <1>3 DEF IInv

\* Writing keeps the numbers of all others apart.
LEMMA WriteKeeps == IInv /\ Write => IInv'
<1> SUFFICES ASSUME IInv, Write PROVE IInv'
  OBVIOUS
<1> USE Constants DEF IInv
<1> DEFINE new == [index |-> written + 1, observe |-> counter + 1, age |-> 0]
<1>1. /\ written' = written + 1 /\ wrote' = TRUE /\ wrote = FALSE
      /\ counter' = IF counter + 1 = LastCounter THEN 1 ELSE counter + 1
      /\ inFlight' = inFlight \cup {new} /\ written < MaxWrites
      /\ readable' = readable /\ lastId' = lastId /\ sinceLast' = sinceLast
      /\ shown' = shown /\ pushes' = pushes /\ missed' = missed
  BY DEF Write, NextCounter, reader
<1>2. Typed'
  BY <1>1 DEF Typed
<1>3. ASSUME NEW i \in Nat, NEW a \in 1..LastCounter, i <= written,
             written - i <= MaxAge + FreshAfter, Numbered(i, a, written + 1 - i)
      PROVE  Numbered(i, a, written + 1 - i)'
  BY <1>1, <1>3 DEF Numbered, Period, Typed
<1>4. FlightSound'
  <2> SUFFICES ASSUME NEW n \in inFlight'
               PROVE  /\ n.index \in 1..written' /\ n.observe \in 1..LastCounter /\ n.age \in 0..MaxAge
                      /\ written' + Slack' - n.index <= n.age
                      /\ Numbered(n.index, n.observe, written + 1 - n.index)'
    BY DEF FlightSound
  <2>1. CASE n \in inFlight
    <3>1. /\ n.index \in 1..written /\ n.observe \in 1..LastCounter /\ n.age \in 0..MaxAge
          /\ written + 1 - n.index <= n.age
          /\ Numbered(n.index, n.observe, written + 1 - n.index)
      BY <1>1, <2>1 DEF FlightSound, Slack
    <3>2. Numbered(n.index, n.observe, written + 1 - n.index)'
      BY <3>1, <1>3 DEF Typed
    <3> QED BY <1>1, <3>1, <3>2 DEF Slack, Typed
  <2>2. CASE n = new
    <3>1. n.index = written + 1 /\ n.observe = counter + 1 /\ n.age = 0
      BY <2>2
    <3>2. Numbered(n.index, n.observe, written + 1 - n.index)'
      BY <1>1, <3>1 DEF Numbered, Period, Typed
    <3> QED BY <1>1, <3>1, <3>2 DEF Slack, Typed
  <2> QED BY <1>1, <2>1, <2>2
<1>5. ReaderSound'
  <2>1. (lastId = Unset => shown = 0 /\ sinceLast = Longest)'
    BY <1>1 DEF ReaderSound, Unset, Longest
  <2>2. ASSUME sinceLast <= FreshAfter
        PROVE  /\ lastId # Unset
               /\ written' + Slack' - shown <= MaxAge + sinceLast
               /\ Numbered(shown, lastId, written + 1 - shown)'
    <3>1. /\ lastId # Unset /\ written + 1 - shown <= MaxAge + sinceLast
          /\ Numbered(shown, lastId, written + 1 - shown)
      BY <1>1, <2>2 DEF ReaderSound, Slack
    <3>2. shown \in Nat /\ shown <= written /\ lastId \in 1..LastCounter /\ sinceLast \in Nat
      BY <3>1 DEF Typed
    <3>3. written - shown <= MaxAge + FreshAfter
      BY <2>2, <3>1, <3>2 DEF Typed
    <3>4. Numbered(shown, lastId, written + 1 - shown)'
      BY <1>1, <1>3, <3>1, <3>2, <3>3
    <3> QED BY <1>1, <3>1, <3>2, <3>4 DEF Slack, Typed
  <2> QED BY <1>1, <2>1, <2>2 DEF ReaderSound, Unset
<1>6. OlderThanSilence'
  <2> SUFFICES ASSUME NEW n \in inFlight', n.index <= shown PROVE n.age >= sinceLast
    BY <1>1 DEF OlderThanSilence
  <2>1. n # new
    BY DEF Typed
  <2> QED BY <1>1, <2>1 DEF OlderThanSilence
<1> QED BY <1>1, <1>2, <1>4, <1>5, <1>6 DEF NeverDropsNews

(***************************************************************************)
(* Of what is under way the filter accepts exactly what is newer than the  *)
(* last notification shown.                                                *)
(***************************************************************************)
LEMMA AcceptsTheNewer ==
    ASSUME IInv, NEW n \in inFlight
    PROVE  IsNewer(n.observe, Last(n.observe), sinceLast) <=> n.index > shown
<1> USE Constants DEF IInv
<1>1. /\ n.index \in 1..written /\ n.observe \in 1..LastCounter /\ n.age \in 0..MaxAge
      /\ written + Slack - n.index <= n.age
      /\ Numbered(n.index, n.observe, written + 1 - n.index)
  BY DEF FlightSound
<1>2. written - n.index <= MaxAge
  BY <1>1 DEF Slack, Typed
<1>3. CASE sinceLast > FreshAfter
  <2>1. n.index > shown
    BY <1>1, <1>3 DEF OlderThanSilence, Typed
  <2> QED BY <1>3, <2>1 DEF IsNewer
<1>4. CASE sinceLast <= FreshAfter
  <2>1. /\ lastId # Unset /\ written + Slack - shown <= MaxAge + sinceLast
        /\ Numbered(shown, lastId, written + 1 - shown)
    BY <1>4 DEF ReaderSound
  <2>2. shown \in Nat /\ shown <= written /\ lastId \in 1..LastCounter /\ sinceLast \in Nat
    BY <2>1 DEF Typed
  <2>3. written - shown <= MaxAge + FreshAfter
    BY <1>4, <2>1, <2>2 DEF Typed, Slack
  <2>4. n.index > shown <=> Ahead(n.observe, lastId) > 0 /\ Ahead(n.observe, lastId) < Window
    BY <1>1, <1>2, <2>1, <2>2, <2>3, NewerByNumber DEF Typed
  <2> QED BY <1>4, <2>1, <2>2, <2>4 DEF IsNewer, Last
<1> QED BY <1>3, <1>4 DEF Typed, Longest

LEMMA AcceptKeeps == ASSUME IInv, NEW n \in inFlight, Accept(n) PROVE IInv' /\ shown' > shown
<1> USE Constants DEF IInv
<1>1. n.index > shown
  BY AcceptsTheNewer DEF Accept
<1>2. /\ lastId' = n.observe /\ sinceLast' = 0 /\ shown' = n.index /\ pushes' = pushes + 1
      /\ readable' = readable /\ missed' = missed /\ counter' = counter
      /\ written' = written /\ inFlight' = inFlight /\ wrote' = wrote
  BY DEF Accept, writer
<1>3. /\ n.index \in 1..written /\ n.observe \in 1..LastCounter /\ n.age \in 0..MaxAge
      /\ written + Slack - n.index <= n.age
      /\ Numbered(n.index, n.observe, written + 1 - n.index)
  BY DEF FlightSound
<1>4. Typed'
  BY <1>1, <1>2, <1>3 DEF Typed, Longest
<1>5. FlightSound'
  BY <1>2 DEF FlightSound, Slack, Numbered
<1>6. ReaderSound'
  <2>1. Numbered(shown, lastId, written + 1 - shown)'
    BY <1>2, <1>3 DEF Numbered
  <2>2. written' + Slack' - shown' <= MaxAge + sinceLast'
    BY <1>2, <1>3 DEF Slack, Typed
  <2> QED BY <1>2, <1>3, <2>1, <2>2 DEF ReaderSound, Unset
<1>7. OlderThanSilence'
  BY <1>2 DEF OlderThanSilence, FlightSound
<1> QED BY <1>1, <1>2, <1>4, <1>5, <1>6, <1>7 DEF NeverDropsNews, Typed

LEMMA DropKeeps == ASSUME IInv, NEW n \in inFlight, Drop(n) PROVE IInv' /\ UNCHANGED pushes
<1> USE DEF IInv
<1>1. ~(n.index > shown)
  BY AcceptsTheNewer DEF Drop
<1>2. UNCHANGED <<counter, written, inFlight, wrote, readable, lastId, sinceLast, shown, pushes>>
  BY DEF Drop, writer
<1>3. missed' = FALSE
  BY <1>1 DEF Drop, NeverDropsNews, Typed
<1> QED
  BY <1>2, <1>3
  DEF Typed, FlightSound, ReaderSound, OlderThanSilence, NeverDropsNews, Slack, Numbered

LEMMA CloseKeeps == IInv /\ Close => IInv' /\ UNCHANGED pushes
<1> SUFFICES ASSUME IInv, Close PROVE IInv' /\ UNCHANGED pushes
  OBVIOUS
<1>1. /\ readable' = FALSE
      /\ UNCHANGED <<counter, written, inFlight, wrote, lastId, sinceLast, shown, pushes, missed>>
  BY DEF Close, writer
<1>2. Typed'
  BY <1>1 DEF IInv, Typed
<1>3. FlightSound' /\ ReaderSound' /\ OlderThanSilence' /\ NeverDropsNews'
  BY <1>1
  DEF IInv, FlightSound, ReaderSound, OlderThanSilence, NeverDropsNews, Slack, Numbered
<1> QED BY <1>1, <1>2, <1>3 DEF IInv

LEMMA TickKeeps == IInv /\ Tick => IInv' /\ UNCHANGED pushes
<1> SUFFICES ASSUME IInv, Tick PROVE IInv' /\ UNCHANGED pushes
  OBVIOUS
<1> USE Constants DEF IInv
<1>1. /\ sinceLast' = IF sinceLast < Longest THEN sinceLast + 1 ELSE Longest
      /\ wrote' = FALSE
      /\ UNCHANGED <<counter, written, readable, lastId, shown, pushes, missed>>
      /\ inFlight' = {[n EXCEPT !.age = @ + 1] : n \in {m \in inFlight : m.age < MaxAge}}
  BY DEF Tick
<1>2. Typed'
  <2>1. sinceLast' \in 0..Longest
    BY <1>1 DEF Typed, Longest
  <2> QED BY <1>1, <2>1 DEF Typed
<1>3. ASSUME NEW n \in inFlight'
      PROVE  \E m \in inFlight : /\ n.index = m.index /\ n.observe = m.observe
                                 /\ n.age = m.age + 1 /\ m.age < MaxAge
  <2>1. PICK m \in inFlight : m.age < MaxAge /\ n = [m EXCEPT !.age = @ + 1]
    BY <1>1
  <2> QED BY <2>1
<1>4. FlightSound'
  <2> SUFFICES ASSUME NEW n \in inFlight'
               PROVE  /\ n.index \in 1..written' /\ n.observe \in 1..LastCounter /\ n.age \in 0..MaxAge
                      /\ written' + Slack' - n.index <= n.age
                      /\ Numbered(n.index, n.observe, written + 1 - n.index)'
    BY DEF FlightSound
  <2>1. PICK m \in inFlight : /\ n.index = m.index /\ n.observe = m.observe
                              /\ n.age = m.age + 1 /\ m.age < MaxAge
    BY <1>3
  <2>2. /\ m.index \in 1..written /\ m.observe \in 1..LastCounter /\ m.age \in 0..MaxAge
        /\ written + Slack - m.index <= m.age
        /\ Numbered(m.index, m.observe, written + 1 - m.index)
    BY DEF FlightSound
  <2> QED BY <1>1, <2>1, <2>2 DEF Slack, Numbered, Typed
<1>5. ReaderSound'
  BY <1>1 DEF ReaderSound, Slack, Numbered, Typed, Longest
<1>6. OlderThanSilence'
  <2> SUFFICES ASSUME NEW n \in inFlight', n.index <= shown' PROVE n.age >= sinceLast'
    BY DEF OlderThanSilence
  <2>1. PICK m \in inFlight : n.index = m.index /\ n.age = m.age + 1
    BY <1>3
  <2>2. m.age >= sinceLast /\ m.age \in Nat
    BY <1>1, <2>1 DEF OlderThanSilence, FlightSound
  <2> QED BY <1>1, <2>1, <2>2 DEF Typed, Longest
<1> QED BY <1>1, <1>2, <1>4, <1>5, <1>6 DEF NeverDropsNews

\* Every step keeps the invariant, and only a newer notification is pushed.
LEMMA NextKeeps == IInv /\ [Next]_vars => IInv' /\ (pushes' # pushes => shown' > shown)
<1> SUFFICES ASSUME IInv, [Next]_vars PROVE IInv' /\ (pushes' # pushes => shown' > shown)
  OBVIOUS
<1>1. CASE Write
  BY <1>1, WriteKeeps DEF Write, reader
<1>2. CASE \E n \in inFlight : Accept(n) \/ Drop(n)
  BY <1>2, AcceptKeeps, DropKeeps
<1>3. CASE Close
  BY <1>3, CloseKeeps
<1>4. CASE Tick
  BY <1>4, TickKeeps
<1>5. CASE UNCHANGED vars
  BY <1>5
  DEF vars, IInv, Typed, FlightSound, ReaderSound, OlderThanSilence, NeverDropsNews, Slack, Numbered
<1> QED BY <1>1, <1>2, <1>3, <1>4, <1>5 DEF Next

LEMMA Inductive == Spec => []IInv
BY InitHolds, NextKeeps, PTL DEF Spec
-----------------------------------------------------------------------------
\* The variables of the writer and the reader keep their types: the number of
\* a notification stays within the option's range when the counter starts over.
THEOREM TypeCorrect == Spec => []TypeOK
<1>1. IInv => TypeOK
  BY Constants DEF IInv, Typed, FlightSound, TypeOK, Longest, Unset
<1> QED BY <1>1, Inductive, PTL

\* The reader never drops a notification newer than all it has shown
\* (append), whatever was lost and wherever the numbers start over.
THEOREM DropsNoNews == Spec => []NeverDropsNews
<1>1. IInv => NeverDropsNews
  BY DEF IInv
<1> QED BY <1>1, Inductive, PTL

\* What the reader pushes is newer than what it pushed before.
THEOREM PushesInOrder == Spec => InOrder
<1>1. IInv /\ [Next]_vars => [pushes' # pushes => shown' > shown]_vars
  BY NextKeeps
<1> QED BY <1>1, Inductive, PTL DEF Spec, InOrder
=============================================================================
