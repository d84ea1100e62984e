---------------------------- MODULE MCRetrySend -----------------------------
EXTENDS RetrySend

(***************************************************************************)
(* Two message ids, so that a send can repeat the last id or change it,    *)
(* and three sends.  With MaxRetransmit = 2 the transmit span is 9 ticks   *)
(* and the exchange lifetime 13.                                           *)
(***************************************************************************)
MCMessageIds == {0, 1}
=============================================================================
