------------------------------- MODULE Sender -------------------------------
(***************************************************************************)
(* What a reliable sender promises its owner, with no timers: after a send *)
(* the message may be repeated a bounded number of times, and only while   *)
(* the exchange is open; the exchange is open until it is stopped or given *)
(* up.  RetrySend implements this.                                         *)
(***************************************************************************)
EXTENDS Integers

CONSTANT Limit          \* the most retransmissions of one message

VARIABLES
    waiting,            \* a message is out and its sender has not given up
    left,               \* retransmissions that may still happen
    copies              \* transmissions of the present message

vars == <<waiting, left, copies>>

Init == waiting = FALSE /\ left = 0 /\ copies = 0

Send == waiting' = TRUE /\ left' \in 0..Limit /\ copies' = 1

Retransmit ==
    /\ waiting
    /\ left > 0
    /\ left' = left - 1
    /\ copies' = copies + 1
    /\ UNCHANGED waiting

Close == waiting' = FALSE /\ left' = 0 /\ UNCHANGED copies

Next == Send \/ Retransmit \/ Close

Spec == Init /\ [][Next]_vars
=============================================================================
