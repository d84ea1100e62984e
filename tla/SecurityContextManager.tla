------------------------ MODULE SecurityContextManager ------------------------
(***************************************************************************)
(* The bookkeeping of SecurityContextManager (oscore.ts): which context    *)
(* protects the response to a token, and which Echo nonces are pending.    *)
(* Both are JavaScript Maps, which keep their entries in the order of      *)
(* their first insertion and are cleared from the front when they are full.*)
(* Here a map is a function on its keys: an entry is the value and the keys*)
(* that are older, those entered before it and still there.                *)
(***************************************************************************)
EXTENDS Naturals, FiniteSets

CONSTANTS
    None,
    MaxTokenBindings,     \* MAX_TOKEN_BINDINGS
    MaxPendingEchos,      \* MAX_PENDING_ECHOS
    EchoTtl               \* echoTtlMs

ASSUME ManagerAssumption ==
    /\ MaxTokenBindings \in Nat \ {0} /\ MaxPendingEchos \in Nat \ {0}
    /\ EchoTtl \in Nat
-----------------------------------------------------------------------------
EmptyMap == <<>>

\* Map.get: the value of a key, or None.
Lookup(map, key) == IF key \in DOMAIN map THEN map[key].value ELSE None

\* What is left of a map when the other keys are deleted.
Only(map, keys) == [k \in keys |-> [value |-> map[k].value, older |-> map[k].older \cap keys]]

\* Map.delete
Without(map, key) == Only(map, DOMAIN map \ {key})

\* Map.set: an entry that is there keeps its place.
With(map, key, value) ==
    [k \in DOMAIN map \cup {key} |->
        IF k # key THEN map[k]
        ELSE [value |-> value,
              older |-> IF key \in DOMAIN map THEN map[key].older ELSE DOMAIN map]]

\* Map.keys().next(): the oldest key.
First(map) == CHOOSE k \in DOMAIN map : map[k].older = {}

\* Faulty: one entry too many.
RoomAfter(map, capacity) ==
    IF Cardinality(DOMAIN map) > capacity THEN Without(map, First(map)) ELSE map

\* Room for another entry, which is made even when the key has one already.
Room(map, capacity) ==
    IF Cardinality(DOMAIN map) >= capacity THEN Without(map, First(map)) ELSE map
-----------------------------------------------------------------------------
\* Faulty: the sender is left out.
TokenOnly(senderId, token) == token

\* _tokenKey
TokenKey(senderId, token) == <<senderId, token>>

BindToken(bindings, token, context, senderId) ==
    With(Room(bindings, MaxTokenBindings), TokenKey(senderId, token), context)

GetByToken(bindings, token, senderId) == Lookup(bindings, TokenKey(senderId, token))

UnbindToken(bindings, token, senderId) == Without(bindings, TokenKey(senderId, token))

\* _sweepExpiredEchos
SweepExpiredEchos(pending, now) ==
    Only(pending, {k \in DOMAIN pending : pending[k].value.expiresAt > now})

StorePendingEcho(pending, context, nonce, now) ==
    With(Room(SweepExpiredEchos(pending, now), MaxPendingEchos), context,
         [nonce |-> nonce, expiresAt |-> now + EchoTtl])

\* The nonce that a context has to echo, or None.
GetPendingEcho(pending, context, now) ==
    LET entry == Lookup(pending, context)
    IN  IF entry = None \/ entry.expiresAt <= now THEN None ELSE entry.nonce

ClearPendingEcho(pending, context) == Without(pending, context)
=============================================================================
