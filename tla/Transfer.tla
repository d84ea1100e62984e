------------------------------- MODULE Transfer -------------------------------
(***************************************************************************)
(* What blockwise transfer promises of an upload, however many datagrams   *)
(* it takes and whatever becomes of them: it is handed over at most once,  *)
(* its client learns one outcome, and only what has been handed over is    *)
(* reported as a success.  An upload that was handed over may still be     *)
(* reported as a failure: the answer may be lost.                          *)
(***************************************************************************)
EXTENDS Naturals

CONSTANT Uploads

VARIABLES
    deliveries,       \* how often each upload was handed over
    outcome           \* what its client knows

TypeOK ==
    /\ deliveries \in [Uploads -> Nat]
    /\ outcome \in [Uploads -> {"unknown", "success", "failure"}]

Init ==
    /\ deliveries = [u \in Uploads |-> 0]
    /\ outcome = [u \in Uploads |-> "unknown"]

Deliver(u) ==
    /\ deliveries[u] = 0
    /\ deliveries' = [deliveries EXCEPT ![u] = 1]
    /\ UNCHANGED outcome

Succeed(u) ==
    /\ deliveries[u] = 1 /\ outcome[u] = "unknown"
    /\ outcome' = [outcome EXCEPT ![u] = "success"]
    /\ UNCHANGED deliveries

Fail(u) ==
    /\ outcome[u] = "unknown"
    /\ outcome' = [outcome EXCEPT ![u] = "failure"]
    /\ UNCHANGED deliveries

Next == \E u \in Uploads : Deliver(u) \/ Succeed(u) \/ Fail(u)

Spec == Init /\ [][Next]_<<deliveries, outcome>>
=============================================================================
