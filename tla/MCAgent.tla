------------------------------- MODULE MCAgent ------------------------------
EXTENDS Agent

(***************************************************************************)
(* Message ids start at the last one, so that the second request wraps     *)
(* around to 0.  The ids of PeersOwn are never assigned to a request in    *)
(* these runs; those of PeersSame are.                                     *)
(***************************************************************************)
MCFirst == {MaxMessageId - 2}
PeersOwn == {MaxMessageId - 2}
PeersSame == {0}
=============================================================================
