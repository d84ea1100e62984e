------------------------------ MODULE MCOscore ------------------------------
EXTENDS Oscore

CONSTANTS r1, r2, r3, id1, id2, t1

\* Requests of two clients, with the same token.
SameToken == [r \in Requests |-> t1]
OwnIds == [r \in Requests |-> IF r = r1 THEN id1 ELSE IF r = r2 THEN id2 ELSE None]
\* The second client's context comes and goes.
Second == {<<id2, None>>}
NoIdContext == [r \in Requests |-> None]
=============================================================================
