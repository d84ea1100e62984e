------------------------------ MODULE MCProxy ------------------------------
EXTENDS Proxy

CONSTANTS c1, c2, q1, q2, q3

\* One client observes, the other makes a request with the same message id,
\* and one of the proxy's own resources.
Owners == [r \in Requests |-> IF r = q1 THEN c1 ELSE c2]
SameMid == [r \in Requests |-> 1]
OwnTokens == [r \in Requests |-> r]
=============================================================================
