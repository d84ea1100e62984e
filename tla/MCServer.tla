------------------------------ MODULE MCServer ------------------------------
EXTENDS Server

CONSTANTS c1, c2

\* A request of client c: its message id and token, and how it is made.
Con(c, mid, token) == [client |-> c, mid |-> mid, token |-> token,
                       confirmable |-> TRUE, observe |-> FALSE, empty |-> FALSE]
Non(c, mid, token) == [Con(c, mid, token) EXCEPT !.confirmable = FALSE]
Observe(c, mid, token) == [Con(c, mid, token) EXCEPT !.observe = TRUE]
ObserveNon(c, mid, token) == [Observe(c, mid, token) EXCEPT !.confirmable = FALSE]

\* Two clients that use the same message id and token, and more requests.
TwoClients == {Con(c1, <<1>>, <<5, 0>>), Con(c2, <<1>>, <<5, 0>>),
               Non(c1, <<2>>, <<6, 0>>), Observe(c2, <<3>>, <<6, 0>>)}
OneCon == {Con(c1, <<1>>, <<5, 0>>)}
OneNon == {Non(c1, <<1>>, <<5, 0>>)}
ObserveAndCon == {Observe(c1, <<1>>, <<5, 0>>), Con(c1, <<2>>, <<6, 0>>)}
ConAndObserveNon == OneCon \cup {ObserveNon(c2, <<1>>, <<5, 0>>)}

\* Message ids of the server's that no request uses.
OwnMids == <<<<9>>, <<9, 1>>, <<9, 2>>, <<9, 3>>, <<9, 4>>, <<9, 5>>, <<9, 6>>, <<9, 7>>>>

\* The id of a request of ObserveAndCon, and one that none uses; then they
\* start over.
SharedMids == <<<<2>>, <<9>>>>
=============================================================================
