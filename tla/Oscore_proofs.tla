---------------------------- MODULE Oscore_proofs ----------------------------
(***************************************************************************)
(* Proofs about Oscore, for every choice of its constants.                 *)
(***************************************************************************)
EXTENDS Oscore, FiniteSetTheorems, SequenceTheorems, WellFoundedInduction, TLAPS

-----------------------------------------------------------------------------
(***************************************************************************)
(* JavaScript Maps.                                                        *)
(***************************************************************************)
\* Of two entries, one is older.
Orderly(map) ==
    /\ IsFiniteSet(DOMAIN map)
    /\ \A k \in DOMAIN map :
          /\ k \notin map[k].older
          /\ \A l \in map[k].older : map[l].older \subseteq map[k].older

\* What can be read from one map can be read from the other.
Within(map, larger) ==
    /\ DOMAIN map \subseteq DOMAIN larger
    /\ \A k \in DOMAIN map : map[k].value = larger[k].value

Sound(map, keys, values, capacity) == Maps(map, keys, values, capacity) /\ Orderly(map)

LEMMA LeastOf ==
    ASSUME NEW T, T \subseteq Nat, T # {}
    PROVE  \E x \in T : \A y \in T : x <= y
<1> DEFINE R == OpToRel(<, Nat)
<1>1. IsWellFoundedOn(R, Nat)
  BY NatLessThanWellFounded
<1>2. \A x, y \in Nat : <<x, y>> \in R <=> x < y
  BY DEF OpToRel
<1> HIDE DEF R
<1>3. PICK x \in T : \A y \in T : ~(<<y, x>> \in R)
  BY <1>1, WFMin
<1>4. ASSUME NEW y \in T PROVE x <= y
  <2>1. ~(y < x) /\ x \in Nat /\ y \in Nat
    BY <1>2, <1>3, Zenon
  <2> QED BY <2>1
<1> QED BY <1>4

LEMMA EmptySound ==
    ASSUME NEW keys, NEW values, NEW capacity \in Nat
    PROVE  Sound(EmptyMap, keys, values, capacity)
<1>1. DOMAIN EmptyMap = {}
  BY DEF EmptyMap
<1>2. IsFiniteSet({}) /\ Cardinality({}) = 0
  BY FS_EmptySet
<1>3. EmptyMap \in [{} -> [value : values, older : SUBSET {}]]
  BY DEF EmptyMap
<1> QED BY <1>1, <1>2, <1>3 DEF Sound, Maps, Orderly

\* Deleting entries leaves the others in order.
LEMMA OnlySound ==
    ASSUME NEW keys, NEW values, NEW capacity \in Nat, NEW map,
           Sound(map, keys, values, capacity), NEW ks, ks \subseteq DOMAIN map
    PROVE  Sound(Only(map, ks), keys, values, capacity) /\ Within(Only(map, ks), map)
           /\ DOMAIN Only(map, ks) = ks
<1> DEFINE new == Only(map, ks)
<1>1. map \in [DOMAIN map -> [value : values, older : SUBSET DOMAIN map]]
  BY DEF Sound, Maps
<1>2. DOMAIN new = ks /\ \A k \in ks : new[k].value = map[k].value
                                       /\ new[k].older = map[k].older \cap ks
  BY DEF Only
<1>3. new \in [ks -> [value : values, older : SUBSET ks]]
  <2>1. \A k \in ks : map[k] \in [value : values, older : SUBSET DOMAIN map]
    BY <1>1
  <2>2. \A k \in ks : [value |-> map[k].value, older |-> map[k].older \cap ks]
                         \in [value : values, older : SUBSET ks]
    BY <2>1
  <2> QED BY <2>2 DEF Only
<1>4. IsFiniteSet(DOMAIN map) /\ Cardinality(DOMAIN map) <= capacity
  BY DEF Sound, Maps, Orderly
<1>5. /\ IsFiniteSet(ks) /\ Cardinality(ks) <= Cardinality(DOMAIN map)
      /\ Cardinality(ks) \in Nat /\ Cardinality(DOMAIN map) \in Nat
  BY <1>4, FS_Subset, FS_CardinalityType
<1>6. Cardinality(ks) <= capacity
  BY <1>4, <1>5
<1>7. ASSUME NEW k \in ks
      PROVE  k \notin new[k].older /\ \A l \in new[k].older : new[l].older \subseteq new[k].older
  <2>1. k \notin map[k].older /\ \A l \in map[k].older : map[l].older \subseteq map[k].older
    BY DEF Sound, Orderly
  <2> QED BY <1>2, <2>1
<1> HIDE DEF new
<1>8. Sound(new, keys, values, capacity)
  <2>1. DOMAIN map \subseteq keys
    BY DEF Sound, Maps
  <2> QED BY <1>2, <1>3, <1>5, <1>6, <1>7, <2>1 DEF Sound, Maps, Orderly
<1>9. Within(new, map)
  BY <1>2 DEF Within
<1> QED BY <1>2, <1>8, <1>9 DEF new

\* A map that is not empty has an oldest entry.
LEMMA FirstIsThere ==
    ASSUME NEW keys, NEW values, NEW capacity, NEW map, Sound(map, keys, values, capacity),
           DOMAIN map # {}
    PROVE  First(map) \in DOMAIN map
<1>1. map \in [DOMAIN map -> [value : values, older : SUBSET DOMAIN map]]
  BY DEF Sound, Maps
<1>2. IsFiniteSet(DOMAIN map)
  BY DEF Sound, Orderly
<1> DEFINE ages == {Cardinality(map[k].older) : k \in DOMAIN map}
<1>3. \A k \in DOMAIN map : map[k].older \subseteq DOMAIN map
  BY <1>1
<1>4. \A k \in DOMAIN map : IsFiniteSet(map[k].older) /\ Cardinality(map[k].older) \in Nat
  BY <1>2, <1>3, FS_Subset, FS_CardinalityType
<1>5. PICK least \in ages : \A age \in ages : least <= age
  <2>1. ages \subseteq Nat /\ ages # {}
    BY <1>4
  <2> HIDE DEF ages
  <2> QED BY <2>1, LeastOf
<1>6. PICK k \in DOMAIN map : least = Cardinality(map[k].older)
  BY <1>5
<1>7. map[k].older = {}
  <2> SUFFICES ASSUME NEW l \in map[k].older PROVE FALSE
    OBVIOUS
  <2>1. l \in DOMAIN map
    BY <1>3
  <2>2. map[l].older \subseteq map[k].older /\ l \notin map[l].older
    BY <2>1 DEF Sound, Orderly
  <2>3. map[l].older # map[k].older
    BY <2>2
  <2>4. /\ Cardinality(map[l].older) <= Cardinality(map[k].older)
        /\ Cardinality(map[k].older) = Cardinality(map[l].older) => map[k].older = map[l].older
    BY <1>4, <2>2, FS_Subset
  <2>5. Cardinality(map[k].older) <= Cardinality(map[l].older)
    BY <1>5, <1>6, <2>1
  <2>6. Cardinality(map[k].older) \in Nat /\ Cardinality(map[l].older) \in Nat
    BY <1>4, <2>1
  <2> QED BY <2>3, <2>4, <2>5, <2>6
<1> QED BY <1>7 DEF First

LEMMA RoomSound ==
    ASSUME NEW keys, NEW values, NEW capacity \in Nat \ {0}, NEW map,
           Sound(map, keys, values, capacity)
    PROVE  LET new == Room(map, capacity) IN
           /\ Sound(new, keys, values, capacity) /\ Within(new, map)
           /\ Cardinality(DOMAIN new) < capacity
<1> DEFINE new == Room(map, capacity)
<1>1. IsFiniteSet(DOMAIN map) /\ Cardinality(DOMAIN map) <= capacity
  BY DEF Sound, Maps, Orderly
<1>2. Cardinality(DOMAIN map) \in Nat
  BY <1>1, FS_CardinalityType
<1>3. CASE Cardinality(DOMAIN map) >= capacity
  <2>1. DOMAIN map # {}
    BY <1>2, <1>3, FS_EmptySet
  <2>2. First(map) \in DOMAIN map
    BY <2>1, FirstIsThere
  <2>3. new = Only(map, DOMAIN map \ {First(map)})
    BY <1>3 DEF Room, Without
  <2>4. /\ Sound(new, keys, values, capacity) /\ Within(new, map)
        /\ DOMAIN new = DOMAIN map \ {First(map)}
    BY <2>3, OnlySound
  <2>5. Cardinality(DOMAIN map \ {First(map)}) = Cardinality(DOMAIN map) - 1
    BY <1>1, <2>2, FS_RemoveElement
  <2> HIDE DEF new
  <2>6. Cardinality(DOMAIN new) < capacity
    BY <1>1, <1>2, <2>4, <2>5
  <2> QED BY <2>4, <2>6 DEF new
<1>4. CASE ~(Cardinality(DOMAIN map) >= capacity)
  <2>1. new = map
    BY <1>4 DEF Room
  <2>2. Cardinality(DOMAIN map) < capacity
    BY <1>2, <1>4
  <2> QED BY <2>1, <2>2 DEF Within
<1> QED BY <1>3, <1>4

LEMMA WithSound ==
    ASSUME NEW keys, NEW values, NEW capacity \in Nat \ {0}, NEW map,
           Sound(map, keys, values, capacity), Cardinality(DOMAIN map) < capacity,
           NEW key \in keys, NEW value \in values
    PROVE  LET new == With(map, key, value) IN
           /\ Sound(new, keys, values, capacity)
           /\ DOMAIN new = DOMAIN map \cup {key} /\ new[key].value = value
           /\ \A k \in DOMAIN map \ {key} : new[k] = map[k]
<1> DEFINE new == With(map, key, value)
           there == DOMAIN map
           own == IF key \in there THEN map[key].older ELSE there
<1>1. map \in [there -> [value : values, older : SUBSET there]] /\ there \subseteq keys
  BY DEF Sound, Maps
<1>2. /\ DOMAIN new = there \cup {key}
      /\ \A k \in there \ {key} : new[k] = map[k]
      /\ new[key] = [value |-> value, older |-> own]
  BY DEF With
<1>3. own \subseteq there /\ key \notin own
  <2>1. CASE key \in there
    BY <1>1, <2>1 DEF Sound, Orderly
  <2> QED BY <2>1
<1>4. \A l \in own : map[l].older \subseteq own
  <2>1. CASE key \in there
    BY <2>1 DEF Sound, Orderly
  <2>2. CASE key \notin there
    BY <1>1, <2>2
  <2> QED BY <2>1, <2>2
<1>5. \A k \in there : map[k].older \subseteq there /\ map[k].value \in values
  BY <1>1
<1>6. \A k \in there : k \notin map[k].older
                       /\ \A l \in map[k].older : map[l].older \subseteq map[k].older
  BY DEF Sound, Orderly
<1> DEFINE Older(k) == IF k = key THEN own ELSE map[k].older
<1>7. \A k \in there \cup {key} : new[k].older = Older(k)
  BY <1>2
<1> HIDE DEF new, own
<1>8. \A k \in there : Older(k) = map[k].older
  BY DEF own
<1>9. \A k \in there \cup {key} : Older(k) \subseteq there /\ k \notin Older(k)
                                  /\ \A l \in Older(k) : Older(l) \subseteq Older(k)
  <2> SUFFICES ASSUME NEW k \in there \cup {key}
               PROVE  Older(k) \subseteq there /\ k \notin Older(k)
                      /\ \A l \in Older(k) : Older(l) \subseteq Older(k)
    OBVIOUS
  <2>1. CASE k = key
    <3>1. Older(k) = own
      BY <2>1
    <3> QED BY <1>3, <1>4, <1>8, <2>1, <3>1, Zenon
  <2>2. CASE k \in there
    <3>1. Older(k) = map[k].older
      BY <1>8, <2>2
    <3>2. Older(k) \subseteq there /\ k \notin Older(k)
      BY <1>5, <1>6, <2>2, <3>1, Zenon
    <3>3. ASSUME NEW l \in Older(k) PROVE Older(l) \subseteq Older(k)
      <4>1. l \in there
        BY <3>2
      <4>2. Older(l) = map[l].older
        BY <1>8, <4>1
      <4> QED BY <1>6, <2>2, <3>1, <4>2, Zenon
    <3> QED BY <3>2, <3>3
  <2> QED BY <2>1, <2>2
<1>10. IsFiniteSet(there) /\ Cardinality(there) \in Nat
  BY FS_CardinalityType DEF Sound, Orderly
<1>11. IsFiniteSet(there \cup {key}) /\ Cardinality(there \cup {key}) <= capacity
  <2>1. IsFiniteSet(there \cup {key})
        /\ Cardinality(there \cup {key})
             = IF key \in there THEN Cardinality(there) ELSE Cardinality(there) + 1
    BY <1>10, FS_AddElement
  <2> QED BY <1>10, <2>1
<1>12. Orderly(new)
  <2> HIDE DEF Older
  <2> QED BY <1>2, <1>7, <1>9, <1>11 DEF Orderly
<1>13. new \in [there \cup {key} -> [value : values, older : SUBSET (there \cup {key})]]
  <2>1. \A k \in there \cup {key} :
            new[k] \in [value : values, older : SUBSET (there \cup {key})]
    <3>1. \A k \in there : map[k] \in [value : values, older : SUBSET (there \cup {key})]
      BY <1>1
    <3>2. [value |-> value, older |-> own]
             \in [value : values, older : SUBSET (there \cup {key})]
      BY <1>3
    <3> QED BY <1>2, <3>1, <3>2
  <2>2. new = [k \in there \cup {key} |-> new[k]]
    BY <1>2 DEF new, With
  <2> QED BY <2>1, <2>2
<1>14. Sound(new, keys, values, capacity)
  BY <1>1, <1>2, <1>11, <1>12, <1>13 DEF Sound, Maps
<1> QED BY <1>2, <1>14 DEF new
-----------------------------------------------------------------------------
(***************************************************************************)
(* The maps of the manager.                                                *)
(***************************************************************************)
PendingValues == [nonce : Nonces, expiresAt : Nat]

BindingsSound(map) == Sound(map, Keys, Contexts, MaxTokenBindings)
PendingSound(map) == Sound(map, Contexts, PendingValues, MaxPendingEchos)

LEMMA ContextOf == ASSUME NEW r \in Requests, Protected(r) PROVE Context(r) \in Contexts
BY DEF Contexts

LEMMA KeyOf == ASSUME NEW r \in Requests PROVE Key(r) \in Keys
BY DEF Keys

LEMMA BindTokenSound ==
    ASSUME NEW map, BindingsSound(map), NEW r \in Requests, Protected(r)
    PROVE  LET new == BindToken(map, Token[r], Context(r), SenderId[r]) IN
           /\ BindingsSound(new)
           /\ Key(r) \in DOMAIN new /\ new[Key(r)].value = Context(r)
           /\ DOMAIN new \subseteq DOMAIN map \cup {Key(r)}
           /\ \A k \in DOMAIN new \ {Key(r)} : new[k].value = map[k].value
           /\ Cardinality(DOMAIN map) < MaxTokenBindings =>
                /\ DOMAIN new = DOMAIN map \cup {Key(r)}
                /\ \A k \in DOMAIN map \ {Key(r)} : new[k] = map[k]
<1> DEFINE room == Room(map, MaxTokenBindings)
           few == Cardinality(DOMAIN map) < MaxTokenBindings
<1>1. MaxTokenBindings \in Nat \ {0}
  BY ManagerAssumption
<1>2. /\ Sound(room, Keys, Contexts, MaxTokenBindings) /\ Within(room, map)
      /\ Cardinality(DOMAIN room) < MaxTokenBindings
  BY <1>1, RoomSound DEF BindingsSound
<1>3. PICK key \in Keys : key = Key(r)
  BY KeyOf
<1>4. PICK context \in Contexts : context = Context(r)
  BY ContextOf
<1> DEFINE new == With(room, key, context)
<1>5. BindToken(map, Token[r], Context(r), SenderId[r]) = new
  BY <1>3, <1>4 DEF BindToken, Key
<1>8. few => room = map
  <2>1. Cardinality(DOMAIN map) \in Nat
    BY FS_CardinalityType DEF BindingsSound, Sound, Orderly
  <2> QED BY <1>1, <2>1 DEF Room
<1> HIDE DEF room, few
<1>6. /\ Sound(new, Keys, Contexts, MaxTokenBindings)
      /\ DOMAIN new = DOMAIN room \cup {key} /\ new[key].value = context
      /\ \A k \in DOMAIN room \ {key} : new[k] = room[k]
  BY <1>1, <1>2, <1>3, <1>4, WithSound
<1> HIDE DEF new
<1>7. /\ DOMAIN new \subseteq DOMAIN map \cup {key}
      /\ \A k \in DOMAIN new \ {key} : new[k].value = map[k].value
  BY <1>2, <1>6 DEF Within
<1>9. few => /\ DOMAIN new = DOMAIN map \cup {key}
             /\ \A k \in DOMAIN map \ {key} : new[k] = map[k]
  BY <1>6, <1>8
<1> QED BY <1>3, <1>4, <1>5, <1>6, <1>7, <1>9 DEF BindingsSound, few

LEMMA BoundSound ==
    ASSUME NEW map, BindingsSound(map), NEW r \in Requests, Protected(r)
    PROVE  LET new == BindToken(map, Token[r], Context(r), SenderId[r]) IN
           /\ BindingsSound(new)
           /\ Key(r) \in DOMAIN new /\ new[Key(r)].value = Context(r)
           /\ DOMAIN new \subseteq DOMAIN map \cup {Key(r)}
           /\ \A k \in DOMAIN new \ {Key(r)} : new[k].value = map[k].value
<1> DEFINE new == BindToken(map, Token[r], Context(r), SenderId[r])
<1>1. /\ BindingsSound(new)
      /\ Key(r) \in DOMAIN new /\ new[Key(r)].value = Context(r)
      /\ DOMAIN new \subseteq DOMAIN map \cup {Key(r)}
      /\ \A k \in DOMAIN new \ {Key(r)} : new[k].value = map[k].value
  BY BindTokenSound
<1> QED BY <1>1

LEMMA UnboundSound ==
    ASSUME NEW map, BindingsSound(map), NEW r \in Requests
    PROVE  LET new == UnbindToken(map, Token[r], SenderId[r]) IN
           /\ BindingsSound(new) /\ Within(new, map)
           /\ DOMAIN new = DOMAIN map \ {Key(r)}
<1>1. UnbindToken(map, Token[r], SenderId[r]) = Only(map, DOMAIN map \ {Key(r)})
  BY DEF UnbindToken, Without, Key
<1>2. MaxTokenBindings \in Nat
  BY ManagerAssumption
<1> QED BY <1>1, <1>2, OnlySound DEF BindingsSound

LEMMA StoredSound ==
    ASSUME NEW map, PendingSound(map), NEW k \in Contexts, NEW nonce \in Nonces, NEW time \in Nat
    PROVE  LET new == StorePendingEcho(map, k, nonce, time) IN
           /\ PendingSound(new)
           /\ k \in DOMAIN new /\ DOMAIN new \subseteq DOMAIN map \cup {k}
           /\ new[k].value = [nonce |-> nonce, expiresAt |-> time + EchoTtl]
           /\ \A l \in DOMAIN new \ {k} : new[l].value = map[l].value
<1> DEFINE keys == {l \in DOMAIN map : map[l].value.expiresAt > time}
           swept == Only(map, keys)
           room == Room(swept, MaxPendingEchos)
           value == [nonce |-> nonce, expiresAt |-> time + EchoTtl]
           new == With(room, k, value)
<1>1. MaxPendingEchos \in Nat \ {0} /\ EchoTtl \in Nat
  BY ManagerAssumption
<1>2. keys \subseteq DOMAIN map
  OBVIOUS
<1>3. StorePendingEcho(map, k, nonce, time) = new
  BY DEF StorePendingEcho, SweepExpiredEchos
<1> HIDE DEF keys
<1>4. PendingSound(swept) /\ Within(swept, map)
  BY <1>1, <1>2, OnlySound DEF PendingSound
<1> HIDE DEF swept
<1>5. /\ PendingSound(room) /\ Within(room, swept)
      /\ Cardinality(DOMAIN room) < MaxPendingEchos
  BY <1>1, <1>4, RoomSound DEF PendingSound
<1> HIDE DEF room
<1>6. value \in PendingValues
  BY <1>1 DEF PendingValues
<1> HIDE DEF value
<1>7. /\ PendingSound(new) /\ DOMAIN new = DOMAIN room \cup {k} /\ new[k].value = value
      /\ \A l \in DOMAIN room \ {k} : new[l] = room[l]
  <2>1. Sound(room, Contexts, PendingValues, MaxPendingEchos)
    BY <1>5 DEF PendingSound
  <2>2. /\ Sound(new, Contexts, PendingValues, MaxPendingEchos)
        /\ DOMAIN new = DOMAIN room \cup {k} /\ new[k].value = value
        /\ \A l \in DOMAIN room \ {k} : new[l] = room[l]
    BY <1>1, <1>5, <1>6, <2>1, WithSound
  <2> QED BY <2>2 DEF PendingSound
<1> HIDE DEF new
<1>8. /\ DOMAIN new \subseteq DOMAIN map \cup {k}
      /\ \A l \in DOMAIN new \ {k} : new[l].value = map[l].value
  BY <1>4, <1>5, <1>7 DEF Within
<1>9. value = [nonce |-> nonce, expiresAt |-> time + EchoTtl]
  BY DEF value
<1> QED BY <1>3, <1>7, <1>8, <1>9

LEMMA ClearedSound ==
    ASSUME NEW map, PendingSound(map), NEW k
    PROVE  LET new == ClearPendingEcho(map, k) IN
           /\ PendingSound(new) /\ Within(new, map) /\ DOMAIN new = DOMAIN map \ {k}
<1>1. ClearPendingEcho(map, k) = Only(map, DOMAIN map \ {k})
  BY DEF ClearPendingEcho, Without
<1>2. MaxPendingEchos \in Nat
  BY ManagerAssumption
<1> QED BY <1>1, <1>2, OnlySound DEF PendingSound

\* What a context may echo is its pending nonce, as long as that is valid.
LEMMA EchoedIsPending ==
    ASSUME NEW m, Echoes(m)
    PROVE  LET k == Context(m.request) IN
           /\ m.echo # None /\ k \in DOMAIN pending
           /\ m.echo = pending[k].value.nonce /\ ~(pending[k].value.expiresAt <= now)
BY DEF Echoes, GetPendingEcho, Lookup
-----------------------------------------------------------------------------
(***************************************************************************)
(* Types.                                                                  *)
(***************************************************************************)
\* Only what is protected is decoded.
DecodingSound ==
    \A j \in decoding : Protected(j.datagram.request) /\ j.datagram \in sent

IInv ==
    /\ TypeOK
    /\ Orderly(bindings) /\ Orderly(pending)
    /\ DecodingSound

LEMMA MapsSound == IInv => BindingsSound(bindings) /\ PendingSound(pending)
BY DEF IInv, TypeOK, Sound, BindingsSound, PendingSound, PendingValues

LEMMA InitTyped == Init => IInv
<1> SUFFICES ASSUME Init PROVE IInv
  OBVIOUS
<1>1. MaxTokenBindings \in Nat /\ MaxPendingEchos \in Nat
  BY ManagerAssumption
<1>2. BindingsSound(bindings) /\ PendingSound(pending)
  BY <1>1, EmptySound DEF BindingsSound, PendingSound, Init
<1>3. /\ Maps(bindings, Keys, Contexts, MaxTokenBindings)
      /\ Maps(pending, Contexts, [nonce : Nonces, expiresAt : Nat], MaxPendingEchos)
      /\ Orderly(bindings) /\ Orderly(pending)
  BY <1>2 DEF BindingsSound, PendingSound, Sound, PendingValues
<1>4. executed \in Seq(Datagrams) /\ abandoned \subseteq Requests
      /\ accepted \in Seq([nonce : Nonces, by : Contexts, at : 0..MaxTime,
                          life : 0..MaxRestarts])
  BY DEF Init
<1>5. nonces \in 0..MaxNonces /\ now \in 0..MaxTime /\ restarts \in 0..MaxRestarts
  BY OscoreAssumption DEF Init
<1>6. /\ client \in [Requests -> [state : {"new", "sent", "retried"},
                                  response : {None, "content", "challenge", "unauthorized"}]]
      /\ numbers \in [Contexts -> Nat]
  BY DEF Init
<1>7. contexts \subseteq Contexts /\ recovering \subseteq Contexts
  BY DEF Init
<1>8. /\ sent = {} /\ received = {} /\ replies = {} /\ decoded = {} /\ interactions = {}
      /\ decoding = {} /\ open = {} /\ encoding = {}
  BY DEF Init
<1> QED BY <1>3, <1>4, <1>5, <1>6, <1>7, <1>8 DEF IInv, TypeOK, DecodingSound
ClientRecords == [state : {"new", "sent", "retried"},
                  response : {None, "content", "challenge", "unauthorized"}]
Promises == [datagram : Datagrams, first : BOOLEAN]
ResponseObjects == [datagram : Datagrams, hooked : BOOLEAN]
Acceptances == [nonce : Nonces, by : Contexts, at : 0..MaxTime, life : 0..MaxRestarts]

\* IInv in parts.
ClientTyped ==
    /\ client \in [Requests -> ClientRecords] /\ numbers \in [Contexts -> Nat]
    /\ sent \subseteq Datagrams /\ received \subseteq Replies

OscoreTyped ==
    /\ recovering \subseteq Contexts /\ decoded \subseteq Datagrams
    /\ interactions \subseteq Contexts \X {Token[r] : r \in Requests}

ManagerTyped ==
    /\ contexts \subseteq Contexts
    /\ BindingsSound(bindings) /\ PendingSound(pending)

WorkTyped ==
    /\ decoding \subseteq Promises /\ open \subseteq ResponseObjects
    /\ replies \subseteq Replies /\ encoding \subseteq Replies
    /\ DecodingSound

BoundsTyped ==
    /\ nonces \in 0..MaxNonces /\ now \in 0..MaxTime /\ restarts \in 0..MaxRestarts
    /\ executed \in Seq(Datagrams) /\ accepted \in Seq(Acceptances)
    /\ abandoned \subseteq Requests

LEMMA Parts ==
    IInv <=> ClientTyped /\ OscoreTyped /\ ManagerTyped /\ WorkTyped /\ BoundsTyped
BY DEF IInv, TypeOK, ClientTyped, OscoreTyped, ManagerTyped, WorkTyped, BoundsTyped, Sound,
       BindingsSound, PendingSound, PendingValues, ClientRecords, Promises, ResponseObjects,
       Acceptances

LEMMA PartsNext ==
    IInv' <=> ClientTyped' /\ OscoreTyped' /\ ManagerTyped' /\ WorkTyped' /\ BoundsTyped'
BY DEF IInv, TypeOK, ClientTyped, OscoreTyped, ManagerTyped, WorkTyped, BoundsTyped, Sound,
       BindingsSound, PendingSound, PendingValues, ClientRecords, Promises, ResponseObjects,
       Acceptances

LEMMA ClientKept == ASSUME ClientTyped, UNCHANGED clientVars PROVE ClientTyped'
BY DEF ClientTyped, clientVars

LEMMA OscoreKept == ASSUME OscoreTyped, UNCHANGED oscoreVars PROVE OscoreTyped'
BY DEF OscoreTyped, oscoreVars

LEMMA ManagerKept == ASSUME ManagerTyped, UNCHANGED managerVars PROVE ManagerTyped'
BY DEF ManagerTyped, managerVars, BindingsSound, PendingSound, Sound, Orderly, Maps

LEMMA BoundsKept ==
    ASSUME BoundsTyped, UNCHANGED <<nonces, now, restarts, executed, accepted, abandoned>>
    PROVE  BoundsTyped'
BY DEF BoundsTyped

LEMMA Transmits ==
    ASSUME ClientTyped, NEW r \in Requests, NEW echo \in Nonces \cup {None}, Transmit(r, echo)
    PROVE  numbers' \in [Contexts -> Nat] /\ sent' \subseteq Datagrams /\ sent \subseteq sent'
<1>1. CASE Protected(r)
  <2>1. Context(r) \in Contexts /\ numbers \in [Contexts -> Nat]
    BY <1>1, ContextOf DEF ClientTyped
  <2>2. numbers' = [numbers EXCEPT ![Context(r)] = @ + 1]
        /\ sent' = sent \cup {[request |-> r, number |-> numbers'[Context(r)], echo |-> echo]}
    BY <1>1 DEF Transmit
  <2>3. numbers' \in [Contexts -> Nat]
    BY <2>1, <2>2
  <2>4. [request |-> r, number |-> numbers'[Context(r)], echo |-> echo] \in Datagrams
    BY <2>1, <2>3 DEF Datagrams
  <2> QED BY <2>2, <2>3, <2>4 DEF ClientTyped
<1>2. CASE ~Protected(r)
  <2>1. [request |-> r, number |-> 0, echo |-> None] \in Datagrams
    BY DEF Datagrams
  <2> QED BY <1>2, <2>1 DEF ClientTyped, Transmit
<1> QED BY <1>1, <1>2

LEMMA StepClientTyped ==
    ASSUME IInv, ClientNext
    PROVE  IInv'
<1>1. UNCHANGED serverVars
  BY DEF ClientNext, Send, ReceiveChallenge, ReceiveResponse
<1>2. ClientTyped /\ OscoreTyped /\ ManagerTyped /\ WorkTyped /\ BoundsTyped
  BY Parts
<1>3. OscoreTyped' /\ ManagerTyped' /\ BoundsTyped'
  BY <1>1, <1>2, OscoreKept, ManagerKept, BoundsKept DEF serverVars
<1>4. ASSUME NEW r \in Requests, Send(r) PROVE ClientTyped' /\ sent \subseteq sent'
  <2>1. None \in Nonces \cup {None}
    OBVIOUS
  <2>2. numbers' \in [Contexts -> Nat] /\ sent' \subseteq Datagrams /\ sent \subseteq sent'
    BY <1>2, <1>4, <2>1, Transmits DEF Send
  <2>3. client' \in [Requests -> ClientRecords] /\ UNCHANGED received
    BY <1>2, <1>4 DEF Send, ClientTyped, ClientRecords
  <2> QED BY <1>2, <2>2, <2>3 DEF ClientTyped
<1>5. ASSUME NEW m \in replies, ReceiveChallenge(m) PROVE ClientTyped' /\ sent \subseteq sent'
  <2>1. m.request \in Requests /\ m.nonce \in Nonces \cup {None} /\ m \in Replies
    BY <1>2, <1>5 DEF WorkTyped, Replies
  <2>2. numbers' \in [Contexts -> Nat] /\ sent' \subseteq Datagrams /\ sent \subseteq sent'
    BY <1>2, <1>5, <2>1, Transmits DEF ReceiveChallenge
  <2>3. client' \in [Requests -> ClientRecords] /\ received' = received \cup {m}
    BY <1>2, <1>5, <2>1 DEF ReceiveChallenge, ClientTyped, ClientRecords
  <2> QED BY <1>2, <2>1, <2>2, <2>3 DEF ClientTyped
<1>6. ASSUME NEW m \in replies, ReceiveResponse(m) PROVE ClientTyped' /\ sent \subseteq sent'
  <2>1. m.request \in Requests /\ m.code \in {"content", "challenge", "unauthorized"}
        /\ m \in Replies
    BY <1>2, <1>6 DEF WorkTyped, Replies
  <2>2. client' \in [Requests -> ClientRecords] /\ received' = received \cup {m}
        /\ UNCHANGED <<numbers, sent>>
    BY <1>2, <1>6, <2>1 DEF ReceiveResponse, ClientTyped, ClientRecords
  <2> QED BY <1>2, <2>1, <2>2 DEF ClientTyped
<1>7. ClientTyped' /\ sent \subseteq sent'
  BY <1>4, <1>5, <1>6 DEF ClientNext
<1>8. WorkTyped'
  BY <1>1, <1>2, <1>7 DEF WorkTyped, DecodingSound, serverVars
<1> QED BY <1>3, <1>7, <1>8, PartsNext

\* The middlewares, up to the promise of decode().
LEMMA StepArrivesTyped ==
    ASSUME IInv, NEW m \in sent, Unprotected(m) \/ Unknown(m) \/ Repeated(m) \/ Decode(m)
    PROVE  IInv'
<1>1. ClientTyped /\ OscoreTyped /\ ManagerTyped /\ WorkTyped /\ BoundsTyped
  BY Parts
<1>2. ClientTyped' /\ ManagerTyped'
  BY <1>1, ClientKept, ManagerKept DEF Unprotected, Unknown, Repeated, Decode
<1>3. m \in Datagrams /\ m.request \in Requests
  BY <1>1 DEF ClientTyped, Datagrams
<1>4. Reply(m.request, None, "unauthorized", None) \in Replies
  BY <1>3 DEF Reply, Replies
<1>5. CASE Unprotected(m)
  <2>1. OscoreTyped' /\ UNCHANGED <<decoding, encoding, sent>>
        /\ BoundsTyped'
    BY <1>1, <1>5, OscoreKept, BoundsKept DEF Unprotected, clientVars
  <2>2. replies' \subseteq Replies /\ open' \subseteq ResponseObjects
    <3>1. CASE OscoreOnly
      BY <1>1, <1>4, <1>5, <3>1 DEF Unprotected, Unauthorized, WorkTyped
    <3>2. CASE ~OscoreOnly
      <4>1. [datagram |-> m, hooked |-> FALSE] \in ResponseObjects
        BY <1>3 DEF ResponseObjects
      <4> QED BY <1>1, <1>5, <3>2, <4>1 DEF Unprotected, Respond, WorkTyped
    <3> QED BY <3>1, <3>2
  <2>3. WorkTyped'
    BY <1>1, <2>1, <2>2 DEF WorkTyped, DecodingSound
  <2> QED BY <1>2, <2>1, <2>3, PartsNext
<1>6. CASE Unknown(m) \/ Repeated(m)
  <2>1. OscoreTyped' /\ BoundsTyped' /\ UNCHANGED <<decoding, encoding, open, sent>>
    BY <1>1, <1>6, OscoreKept, BoundsKept DEF Unknown, Repeated, clientVars
  <2>2. replies' = replies \cup {Reply(m.request, None, "unauthorized", None)}
    BY <1>6 DEF Unknown, Repeated, Unauthorized
  <2>3. WorkTyped'
    BY <1>1, <1>4, <2>1, <2>2 DEF WorkTyped, DecodingSound
  <2> QED BY <1>2, <2>1, <2>3, PartsNext
<1>7. CASE Decode(m)
  <2>1. BoundsTyped' /\ UNCHANGED <<replies, encoding, open, sent, recovering>>
    BY <1>1, <1>7, BoundsKept DEF Decode, clientVars
  <2>2. PICK first \in BOOLEAN : decoding' = decoding \cup {[datagram |-> m, first |-> first]}
    <3>1. (Context(m.request) \in recovering) \in BOOLEAN
      OBVIOUS
    <3>2. decoding' = decoding \cup {[datagram |-> m, first |-> Context(m.request) \in recovering]}
      BY <1>7 DEF Decode
    <3> QED BY <3>1, <3>2, Zenon
  <2>3. [datagram |-> m, first |-> first] \in Promises
    BY <1>3, <2>2 DEF Promises
  <2>4. Protected(m.request)
    BY <1>7 DEF Decode
  <2>5. DecodingSound'
    BY <1>1, <2>1, <2>2, <2>4 DEF WorkTyped, DecodingSound
  <2>6. WorkTyped'
    BY <1>1, <2>1, <2>2, <2>3, <2>5 DEF WorkTyped
  <2>7. <<Context(m.request), Token[m.request]>> \in Contexts \X {Token[r] : r \in Requests}
    BY <1>3, <2>4, ContextOf
  <2>8. OscoreTyped'
    BY <1>1, <1>3, <1>7, <2>1, <2>7 DEF Decode, OscoreTyped
  <2> QED BY <1>2, <2>1, <2>6, <2>8, PartsNext
<1> QED BY <1>5, <1>6, <1>7

LEMMA Binds ==
    ASSUME ManagerTyped, NEW r \in Requests, Protected(r), Bind(r)
    PROVE  BindingsSound(bindings')
BY BoundSound DEF ManagerTyped, Bind

LEMMA Unbinds ==
    ASSUME ManagerTyped, NEW r \in Requests, bindings' = Unbound(r)
    PROVE  BindingsSound(bindings')
BY UnboundSound DEF ManagerTyped, Unbound

LEMMA Executes ==
    ASSUME WorkTyped, BoundsTyped, NEW m \in Datagrams, Execute(m)
    PROVE  open' \subseteq ResponseObjects /\ executed' \in Seq(Datagrams)
<1>1. [datagram |-> m, hooked |-> FALSE] \in ResponseObjects
  BY DEF ResponseObjects
<1>2. Append(executed, m) \in Seq(Datagrams)
  BY AppendProperties DEF BoundsTyped
<1> QED BY <1>1, <1>2 DEF WorkTyped, Execute, Respond

\* What becomes of a decoded datagram.
LEMMA StepPromiseTyped ==
    ASSUME IInv, NEW j \in decoding, Decoded(j) \/ Recover(j) \/ Challenge(j)
    PROVE  IInv'
<1>1. ClientTyped /\ OscoreTyped /\ ManagerTyped /\ WorkTyped /\ BoundsTyped
  BY Parts
<1> DEFINE m == j.datagram
           k == Context(m.request)
<1>2. m \in Datagrams /\ m.request \in Requests /\ Protected(m.request) /\ m \in sent
  BY <1>1 DEF WorkTyped, Promises, Datagrams, DecodingSound
<1>3. k \in Contexts
  BY <1>2, ContextOf
<1>4. ClientTyped' /\ UNCHANGED <<sent, contexts, replies>>
  BY <1>1, ClientKept DEF Decoded, Recover, Challenge, clientVars
<1>5. decoding' \subseteq decoding
  BY DEF Decoded, Recover, Challenge, Settles
<1>6. decoding' \subseteq Promises /\ DecodingSound'
  BY <1>1, <1>4, <1>5 DEF WorkTyped, DecodingSound
<1> HIDE DEF m, k
<1>7. CASE Decoded(j)
  <2>1. Bind(m.request) /\ Execute(m)
        /\ UNCHANGED <<oscoreVars, pending, encoding, nonces, now, restarts, accepted, abandoned>>
    BY <1>7 DEF Decoded, m
  <2>2. OscoreTyped' /\ BindingsSound(bindings')
    BY <1>1, <1>2, <2>1, OscoreKept, Binds
  <2>3. open' \subseteq ResponseObjects /\ executed' \in Seq(Datagrams)
    BY <1>1, <1>2, <2>1, Executes
  <2>4. ManagerTyped' /\ WorkTyped' /\ BoundsTyped'
    BY <1>1, <1>4, <1>6, <2>1, <2>2, <2>3 DEF ManagerTyped, WorkTyped, BoundsTyped
  <2> QED BY <1>4, <2>2, <2>4, PartsNext
<1>8. CASE Recover(j)
  <2>1. /\ Bind(m.request) /\ Execute(m) /\ Echoes(m)
        /\ pending' = ClearPendingEcho(pending, k)
        /\ accepted' = Append(accepted, [nonce |-> m.echo, by |-> k, at |-> now, life |-> restarts])
        /\ UNCHANGED <<interactions, encoding, nonces, now, restarts, abandoned>>
    BY <1>8 DEF Recover, AfterEcho, m, k
  <2>2. recovering' \subseteq recovering /\ decoded' \subseteq decoded \cup sent
    BY <1>8 DEF Recover
  <2>3. OscoreTyped'
    BY <1>1, <2>1, <2>2 DEF OscoreTyped, ClientTyped
  <2>4. BindingsSound(bindings') /\ PendingSound(pending')
    BY <1>1, <1>2, <2>1, Binds, ClearedSound DEF ManagerTyped
  <2>5. open' \subseteq ResponseObjects /\ executed' \in Seq(Datagrams)
    BY <1>1, <1>2, <2>1, Executes
  <2>6. m.echo \in Nonces
    <3>1. m.echo # None
      BY <2>1 DEF Echoes
    <3> QED BY <1>2, <3>1 DEF Datagrams
  <2>7. accepted' \in Seq(Acceptances)
    <3>1. [nonce |-> m.echo, by |-> k, at |-> now, life |-> restarts] \in Acceptances
      BY <1>1, <1>3, <2>6 DEF Acceptances, BoundsTyped
    <3> QED BY <1>1, <2>1, <3>1, AppendProperties DEF BoundsTyped
  <2>8. ManagerTyped' /\ WorkTyped' /\ BoundsTyped'
    BY <1>1, <1>4, <1>6, <2>1, <2>4, <2>5, <2>7 DEF ManagerTyped, WorkTyped, BoundsTyped
  <2> QED BY <1>4, <2>3, <2>8, PartsNext
<1>9. CASE Challenge(j)
  <2>1. /\ nonces < MaxNonces /\ nonces' = nonces + 1
        /\ pending' = StorePendingEcho(pending, k, Nonce(k), now)
        /\ encoding' = encoding \cup {Reply(m.request, k, "challenge", Nonce(k))}
        /\ UNCHANGED <<oscoreVars, bindings, open, now, restarts, executed, accepted, abandoned>>
    BY <1>9 DEF Challenge, m, k
  <2>2. OscoreTyped'
    BY <1>1, <2>1, OscoreKept
  <2>3. /\ MaxNonces \in Nat /\ MaxTime \in Nat /\ MaxRestarts \in Nat
        /\ nonces \in 0..MaxNonces /\ now \in 0..MaxTime /\ restarts \in 0..MaxRestarts
    BY <1>1, OscoreAssumption DEF BoundsTyped
  <2>4. Nonce(k) \in Nonces
    BY <1>3, <2>3 DEF Nonce, Nonces
  <2>5. PendingSound(pending')
    <3>1. PICK nonce \in Nonces, time \in Nat : nonce = Nonce(k) /\ time = now
      BY <2>3, <2>4
    <3>2. pending' = StorePendingEcho(pending, k, nonce, time)
      BY <2>1, <3>1
    <3>3. PendingSound(pending)
      BY <1>1 DEF ManagerTyped
    <3> QED BY <1>3, <3>1, <3>2, <3>3, StoredSound
  <2>6. Reply(m.request, k, "challenge", Nonce(k)) \in Replies
    BY <1>2, <1>3, <2>4 DEF Reply, Replies
  <2>7. nonces' \in 0..MaxNonces
    BY <2>1, <2>3
  <2>8. ManagerTyped' /\ WorkTyped' /\ BoundsTyped'
    BY <1>1, <1>4, <1>6, <2>1, <2>5, <2>6, <2>7 DEF ManagerTyped, WorkTyped, BoundsTyped
  <2> QED BY <1>4, <2>2, <2>8, PartsNext
<1> QED BY <1>7, <1>8, <1>9

\* The way back.
LEMMA StepReplyTyped ==
    ASSUME IInv,
           \/ \E o \in open : Answer(o) \/ CloseStream(o)
           \/ \E e \in encoding : Encoded(e)
    PROVE  IInv'
<1>1. ClientTyped /\ OscoreTyped /\ ManagerTyped /\ WorkTyped /\ BoundsTyped
  BY Parts
<1>2. /\ ClientTyped' /\ OscoreTyped'
      /\ UNCHANGED <<sent, decoding, contexts, pending, nonces, now, restarts, executed, accepted>>
  BY <1>1, ClientKept, OscoreKept DEF Answer, CloseStream, Encoded, clientVars, managerVars
<1>3. ASSUME NEW o \in open, Answer(o) PROVE IInv'
  <2>1. o.datagram.request \in Requests /\ o \in ResponseObjects
    BY <1>1 DEF WorkTyped, ResponseObjects, Datagrams
  <2>2. UNCHANGED bindings /\ BoundsTyped'
    BY <1>1, <1>2, <1>3, BoundsKept DEF Answer, managerVars
  <2> DEFINE r == o.datagram.request
             k == IF Protected(r) THEN GetByToken(bindings, Token[r], SenderId[r]) ELSE None
  <2>3. k \in Contexts \cup {None}
    <3>1. \A key \in DOMAIN bindings : bindings[key].value \in Contexts
      BY <1>1 DEF ManagerTyped, BindingsSound, Sound, Maps
    <3> QED BY <3>1 DEF GetByToken, Lookup
  <2>4. /\ replies' \subseteq replies \cup {Reply(r, None, "content", None)}
        /\ encoding' \subseteq encoding \cup {Reply(r, k, "content", None)}
    BY <1>3 DEF Answer
  <2>5. open' \subseteq ResponseObjects
    <3>1. [o EXCEPT !.hooked = TRUE] \in ResponseObjects
      BY <2>1 DEF ResponseObjects
    <3>2. open' \subseteq open \cup {[o EXCEPT !.hooked = TRUE]}
      BY <1>3 DEF Answer
    <3> QED BY <1>1, <3>1, <3>2 DEF WorkTyped
  <2> HIDE DEF k
  <2>6. /\ Reply(r, None, "content", None) \in Replies
        /\ Reply(r, k, "content", None) \in Replies
    BY <2>1, <2>3 DEF Reply, Replies
  <2>7. ManagerTyped' /\ WorkTyped'
    BY <1>1, <1>2, <2>2, <2>4, <2>5, <2>6 DEF ManagerTyped, WorkTyped, DecodingSound
  <2> QED BY <1>2, <2>2, <2>7, PartsNext
<1>4. ASSUME NEW o \in open, CloseStream(o) PROVE IInv'
  <2>1. o.datagram.request \in Requests
    BY <1>1 DEF WorkTyped, ResponseObjects, Datagrams
  <2>2. bindings' = Unbound(o.datagram.request) \/ UNCHANGED bindings
    BY <1>4 DEF CloseStream
  <2>6. BoundsTyped'
    <3>1. abandoned' \subseteq abandoned \cup {o.datagram.request}
      BY <1>4 DEF CloseStream
    <3> QED BY <1>1, <1>2, <2>1, <3>1 DEF BoundsTyped
  <2>3. BindingsSound(bindings')
    BY <1>1, <2>1, <2>2, Unbinds DEF ManagerTyped
  <2>4. open' \subseteq open /\ UNCHANGED <<replies, encoding>>
    BY <1>4 DEF CloseStream
  <2>5. ManagerTyped' /\ WorkTyped'
    BY <1>1, <1>2, <2>3, <2>4 DEF ManagerTyped, WorkTyped, DecodingSound
  <2> QED BY <1>2, <2>5, <2>6, PartsNext
<1>5. ASSUME NEW e \in encoding, Encoded(e) PROVE IInv'
  <2>1. e.request \in Requests /\ e \in Replies
    BY <1>1 DEF WorkTyped, Replies
  <2>2. bindings' = Unbound(e.request) \/ UNCHANGED bindings
    BY <1>5 DEF Encoded
  <2>3. BindingsSound(bindings')
    BY <1>1, <2>1, <2>2, Unbinds DEF ManagerTyped
  <2>4. replies' \subseteq replies \cup {e} /\ encoding' \subseteq encoding /\ UNCHANGED open
    BY <1>5 DEF Encoded
  <2>5. ManagerTyped' /\ WorkTyped'
    BY <1>1, <1>2, <2>1, <2>3, <2>4 DEF ManagerTyped, WorkTyped, DecodingSound
  <2>6. BoundsTyped'
    BY <1>1, <1>2, <1>5, BoundsKept DEF Encoded
  <2> QED BY <1>2, <2>5, <2>6, PartsNext
<1> QED BY <1>3, <1>4, <1>5

LEMMA StepTyped ==
    ASSUME IInv, [Next]_vars
    PROVE  IInv'
<1>1. ClientTyped /\ OscoreTyped /\ ManagerTyped /\ WorkTyped /\ BoundsTyped
  BY Parts
<1>2. ASSUME NEW k \in Removable, Change(k) PROVE IInv'
  <2>1. k \in Contexts
    BY OscoreAssumption
  <2>2. contexts' \subseteq Contexts /\ UNCHANGED <<bindings, pending>>
    BY <1>1, <1>2, <2>1 DEF Change, ManagerTyped
  <2>3. ClientTyped' /\ OscoreTyped' /\ BoundsTyped'
    BY <1>1, <1>2, ClientKept, OscoreKept, BoundsKept DEF Change
  <2>4. ManagerTyped' /\ WorkTyped'
    BY <1>1, <1>2, <2>2 DEF Change, ManagerTyped, WorkTyped, DecodingSound, clientVars
  <2> QED BY <2>3, <2>4, PartsNext
<1>3. ASSUME Restart PROVE IInv'
  <2>1. MaxTokenBindings \in Nat /\ MaxPendingEchos \in Nat /\ MaxRestarts \in Nat
    BY ManagerAssumption, OscoreAssumption
  <2>2. BindingsSound(bindings') /\ PendingSound(pending')
    BY <1>3, <2>1, EmptySound DEF Restart, BindingsSound, PendingSound
  <2>3. restarts' \in 0..MaxRestarts
    BY <1>1, <1>3, <2>1 DEF Restart, BoundsTyped
  <2>4. ClientTyped'
    BY <1>1, <1>3, ClientKept DEF Restart
  <2>5. OscoreTyped' /\ ManagerTyped'
    BY <1>3, <2>2 DEF Restart, OscoreTyped, ManagerTyped
  <2>6. WorkTyped' /\ BoundsTyped'
    BY <1>1, <1>3, <2>3 DEF Restart, WorkTyped, BoundsTyped, DecodingSound
  <2> QED BY <2>4, <2>5, <2>6, PartsNext
<1>4. ASSUME Tick PROVE IInv'
  <2>1. now' \in 0..MaxTime
    BY <1>1, <1>4, OscoreAssumption DEF Tick, BoundsTyped
  <2>2. ClientTyped' /\ OscoreTyped' /\ ManagerTyped'
    BY <1>1, <1>4, ClientKept, OscoreKept, ManagerKept DEF Tick
  <2>3. WorkTyped' /\ BoundsTyped'
    BY <1>1, <1>4, <2>1 DEF Tick, WorkTyped, BoundsTyped, DecodingSound, clientVars
  <2> QED BY <2>2, <2>3, PartsNext
<1>5. ASSUME UNCHANGED vars PROVE IInv'
  <2>1. UNCHANGED <<clientVars, oscoreVars, managerVars>>
        /\ UNCHANGED <<replies, decoding, open, encoding, sent>>
        /\ UNCHANGED <<nonces, now, restarts, executed, accepted, abandoned>>
    BY <1>5 DEF vars, serverVars, clientVars
  <2>2. ClientTyped' /\ OscoreTyped' /\ ManagerTyped' /\ BoundsTyped'
    BY <1>1, <2>1, ClientKept, OscoreKept, ManagerKept, BoundsKept
  <2>3. WorkTyped'
    BY <1>1, <2>1 DEF WorkTyped, DecodingSound
  <2> QED BY <2>2, <2>3, PartsNext
<1> QED BY <1>2, <1>3, <1>4, <1>5, StepClientTyped, StepArrivesTyped, StepPromiseTyped,
           StepReplyTyped DEF Next, ServerNext

LEMMA IInvHolds == Spec => []IInv
BY InitTyped, StepTyped, PTL DEF Spec

(***************************************************************************)
(* The types hold, and neither map ever has more entries than it may:      *)
(* when it is full, its oldest entry goes (oscore.ts:88, oscore.ts:119).   *)
(***************************************************************************)
THEOREM TypeCorrect == Spec => []TypeOK
<1>1. IInv => TypeOK
  BY DEF IInv
<1> QED BY <1>1, IInvHolds, PTL
-----------------------------------------------------------------------------
(***************************************************************************)
(* Echo nonces.                                                            *)
(***************************************************************************)
\* A pending nonce is one that was made for that context.
PendingMade ==
    \A k \in DOMAIN pending :
        LET v == pending[k].value IN
        /\ v.nonce.context = k /\ v.nonce.life = restarts /\ v.nonce.number < nonces
        /\ v.expiresAt = v.nonce.at + EchoTtl

AcceptedMade ==
    \A i \in 1..Len(accepted) :
        LET a == accepted[i] IN
        /\ a.nonce.context = a.by /\ a.nonce.life = a.life /\ a.nonce.number < nonces
        /\ a.at < a.nonce.at + EchoTtl

\* A context's nonces are accepted in the order in which they were made.
AcceptedRise ==
    \A i \in 1..Len(accepted) : \A j \in (i+1)..Len(accepted) :
        accepted[j].by = accepted[i].by =>
            accepted[j].nonce.number > accepted[i].nonce.number

\* What is pending is younger than what was accepted.
PendingIsYounger ==
    \A k \in DOMAIN pending : \A i \in 1..Len(accepted) :
        accepted[i].by = k => accepted[i].nonce.number < pending[k].value.nonce.number

EInv == PendingMade /\ AcceptedMade /\ AcceptedRise /\ PendingIsYounger

LEMMA EchoesKept ==
    ASSUME EInv, UNCHANGED <<pending, accepted, nonces, restarts>>
    PROVE  EInv'
BY DEF EInv, PendingMade, AcceptedMade, AcceptedRise, PendingIsYounger

LEMMA NumbersAre ==
    ASSUME IInv
    PROVE  /\ \A i \in 1..Len(accepted) : /\ accepted[i] \in Acceptances
                                          /\ accepted[i].nonce \in Nonces
                                          /\ accepted[i].nonce.number \in Nat
           /\ \A k \in DOMAIN pending : /\ pending[k].value.nonce \in Nonces
                                       /\ pending[k].value.nonce.number \in Nat
                                       /\ pending[k].value.nonce.at \in Nat
<1>1. BoundsTyped /\ ManagerTyped
  BY Parts
<1>2. \A n \in Nonces : n.number \in Nat /\ n.at \in Nat
  BY OscoreAssumption DEF Nonces
<1>3. \A i \in 1..Len(accepted) : accepted[i] \in Acceptances
  <2>1. accepted \in Seq(Acceptances)
    BY <1>1 DEF BoundsTyped
  <2> QED BY <2>1, ElementOfSeq
<1>4. \A i \in 1..Len(accepted) : accepted[i].nonce \in Nonces
  BY <1>3 DEF Acceptances
<1>5. \A k \in DOMAIN pending : pending[k].value \in PendingValues
  BY <1>1 DEF ManagerTyped, PendingSound, Sound, Maps
<1>6. \A k \in DOMAIN pending : pending[k].value.nonce \in Nonces
  BY <1>5 DEF PendingValues
<1> QED BY <1>2, <1>3, <1>4, <1>6

\* What is accepted is noted last.
LEMMA Accepts ==
    ASSUME IInv, NEW j \in decoding, Recover(j)
    PROVE  LET n == Len(accepted)
               a == [nonce |-> j.datagram.echo, by |-> Context(j.datagram.request), at |-> now,
                     life |-> restarts]
           IN  /\ n \in Nat /\ Len(accepted') = n + 1
               /\ \A i \in 1..n : accepted'[i] = accepted[i]
               /\ accepted'[n + 1] = a
               /\ \A i \in 1..(n + 1) : i \in 1..n \/ (i = n + 1 /\ accepted'[i] = a)
<1> DEFINE m == j.datagram
           k == Context(m.request)
           n == Len(accepted)
           a == [nonce |-> m.echo, by |-> k, at |-> now, life |-> restarts]
<1>1. accepted' = Append(accepted, a) /\ Echoes(m)
  BY DEF Recover
<1>2. accepted \in Seq(Acceptances)
  BY Parts DEF BoundsTyped
<1>3. n \in Nat
  BY <1>2, LenProperties
<1>4. a \in Acceptances
  <2>1. k \in DOMAIN pending /\ m.echo = pending[k].value.nonce
    BY <1>1, EchoedIsPending
  <2>2. m.echo \in Nonces
    BY <2>1, NumbersAre
  <2>3. k \in Contexts
    BY <2>1, Parts DEF ManagerTyped, PendingSound, Sound, Maps
  <2>4. now \in 0..MaxTime /\ restarts \in 0..MaxRestarts
    BY Parts DEF BoundsTyped
  <2> QED BY <2>2, <2>3, <2>4 DEF Acceptances
<1> HIDE DEF a
<1>5. /\ Len(accepted') = n + 1 /\ accepted'[n + 1] = a
      /\ \A i \in 1..n : accepted'[i] = accepted[i]
  BY <1>1, <1>2, <1>4, AppendProperties
<1>6. PICK last \in Nat : last = n + 1
  BY <1>3
<1>7. accepted'[last] = a /\ \A i \in 1..(n + 1) : i \in 1..n \/ i = last
  BY <1>3, <1>5, <1>6
<1>8. \A i \in 1..(n + 1) : i \in 1..n \/ (i = n + 1 /\ accepted'[i] = a)
  BY <1>6, <1>7
<1> QED BY <1>3, <1>5, <1>8 DEF a

LEMMA RecoverEchoes ==
    ASSUME IInv, EInv, NEW j \in decoding, Recover(j)
    PROVE  EInv'
<1> DEFINE m == j.datagram
           k == Context(m.request)
           a == [nonce |-> m.echo, by |-> k, at |-> now, life |-> restarts]
           n == Len(accepted)
<1>1. ClientTyped /\ OscoreTyped /\ ManagerTyped /\ WorkTyped /\ BoundsTyped
  BY Parts
<1>2. /\ Echoes(m) /\ pending' = ClearPendingEcho(pending, k)
      /\ accepted' = Append(accepted, a) /\ nonces' = nonces /\ restarts' = restarts
  BY DEF Recover, AfterEcho
<1>3. k \in DOMAIN pending /\ m.echo = pending[k].value.nonce
      /\ ~(pending[k].value.expiresAt <= now)
  BY <1>2, EchoedIsPending
<1>4. Within(pending', pending) /\ DOMAIN pending' = DOMAIN pending \ {k}
  BY <1>1, <1>2, ClearedSound DEF ManagerTyped
<1>5. a.by = k /\ a.nonce = pending[k].value.nonce
  BY <1>3
<1> HIDE DEF a
<1>6. /\ n \in Nat /\ Len(accepted') = n + 1
      /\ \A i \in 1..n : accepted'[i] = accepted[i]
      /\ \A i \in 1..(n + 1) : i \in 1..n \/ (i = n + 1 /\ accepted'[i] = a)
  BY Accepts DEF a
<1>7. /\ a.nonce.context = a.by /\ a.nonce.life = a.life /\ a.nonce.number < nonces
      /\ a.at < a.nonce.at + EchoTtl
  <2>1. k = pending[k].value.nonce.context /\ pending[k].value.nonce.number < nonces
        /\ pending[k].value.nonce.life = restarts
        /\ pending[k].value.expiresAt = pending[k].value.nonce.at + EchoTtl
    BY <1>3 DEF EInv, PendingMade
  <2>2. now \in Nat /\ pending[k].value.nonce.at + EchoTtl \in Nat
    <3>1. pending[k].value.nonce.at \in Nat /\ EchoTtl \in Nat
      BY <1>3, NumbersAre, ManagerAssumption
    <3>2. pending[k].value.nonce.at + EchoTtl \in Nat
      BY <3>1
    <3>3. now \in Nat
      BY <1>1, OscoreAssumption DEF BoundsTyped
    <3> QED BY <3>2, <3>3
  <2>3. now < pending[k].value.nonce.at + EchoTtl
    BY <1>3, <2>1, <2>2
  <2>4. a.at = now /\ a.life = restarts
    BY DEF a
  <2> QED BY <1>5, <2>1, <2>3, <2>4
<1>8. PendingMade'
  BY <1>2, <1>4 DEF EInv, PendingMade, Within
<1>9. AcceptedMade'
  <2> SUFFICES ASSUME NEW i \in 1..(n + 1)
               PROVE  LET b == accepted'[i] IN
                      /\ b.nonce.context = b.by /\ b.nonce.life = b.life
                      /\ b.nonce.number < nonces
                      /\ b.at < b.nonce.at + EchoTtl
    BY <1>2, <1>6 DEF AcceptedMade
  <2>1. CASE accepted'[i] = a
    BY <1>7, <2>1
  <2>2. CASE i \in 1..n
    BY <1>6, <2>2 DEF EInv, AcceptedMade
  <2> QED BY <1>6, <2>1, <2>2
<1>10. \A i \in 1..n : accepted[i].by = k => accepted[i].nonce.number < a.nonce.number
  BY <1>3, <1>5 DEF EInv, PendingIsYounger
<1>11. AcceptedRise'
  <2> SUFFICES ASSUME NEW i \in 1..(n + 1), NEW l \in (i + 1)..(n + 1),
                      accepted'[l].by = accepted'[i].by
               PROVE  accepted'[l].nonce.number > accepted'[i].nonce.number
    BY <1>6 DEF AcceptedRise
  <2>1. i \in 1..n
    BY <1>6
  <2>2. CASE accepted'[l] = a
    <3>1. accepted[i].nonce.number < a.nonce.number
      <4>1. accepted'[i] = accepted[i]
        BY <1>6, <2>1
      <4> QED BY <1>5, <1>10, <2>1, <2>2, <4>1
    <3>2. accepted[i].nonce.number \in Nat /\ a.nonce.number \in Nat
      BY <1>3, <1>5, <2>1, NumbersAre
    <3>3. accepted'[l] = a /\ accepted'[i] = accepted[i]
      BY <1>6, <2>1, <2>2
    <3>4. a.nonce.number > accepted[i].nonce.number
      BY <3>1, <3>2
    <3> QED BY <3>3, <3>4
  <2>3. CASE l \in 1..n
    <3>1. l \in (i + 1)..n
      BY <1>6, <2>1, <2>3
    <3>2. accepted'[l] = accepted[l] /\ accepted'[i] = accepted[i]
      BY <1>6, <2>1, <2>3
    <3> QED BY <2>1, <3>1, <3>2 DEF EInv, AcceptedRise
  <2> QED BY <1>6, <2>2, <2>3
<1>12. PendingIsYounger'
  <2> SUFFICES ASSUME NEW l \in DOMAIN pending', NEW i \in 1..(n + 1), accepted'[i].by = l
               PROVE  accepted'[i].nonce.number < pending'[l].value.nonce.number
    BY <1>6 DEF PendingIsYounger
  <2>1. l \in DOMAIN pending /\ l # k /\ pending'[l].value = pending[l].value
    BY <1>4 DEF Within
  <2>2. i \in 1..n /\ accepted'[i] = accepted[i]
    <3>1. accepted'[i] # a
      BY <1>5, <2>1
    <3> QED BY <1>6, <3>1
  <2> QED BY <2>1, <2>2 DEF EInv, PendingIsYounger
<1> QED BY <1>8, <1>9, <1>11, <1>12 DEF EInv

LEMMA ChallengeEchoes ==
    ASSUME IInv, EInv, NEW j \in decoding, Challenge(j)
    PROVE  EInv'
<1>1. ClientTyped /\ OscoreTyped /\ ManagerTyped /\ WorkTyped /\ BoundsTyped
  BY Parts
<1>2. PICK k \in Contexts : k = Context(j.datagram.request)
  <2>1. j.datagram.request \in Requests /\ Protected(j.datagram.request)
    BY <1>1 DEF WorkTyped, Promises, Datagrams, DecodingSound
  <2> QED BY <2>1, ContextOf
<1>3. /\ nonces < MaxNonces /\ nonces' = nonces + 1
      /\ accepted' = accepted /\ restarts' = restarts
      /\ pending' = StorePendingEcho(pending, k, Nonce(k), now)
  BY <1>2 DEF Challenge
<1>4. /\ MaxNonces \in Nat /\ MaxTime \in Nat /\ MaxRestarts \in Nat
      /\ nonces \in 0..MaxNonces /\ now \in 0..MaxTime /\ restarts \in 0..MaxRestarts
  BY <1>1, OscoreAssumption DEF BoundsTyped
<1>5. PICK nonce \in Nonces, time \in Nat : nonce = Nonce(k) /\ time = now
  <2>1. Nonce(k) \in Nonces
    BY <1>4 DEF Nonce, Nonces
  <2> QED BY <1>4, <2>1
<1>6. /\ k \in DOMAIN pending' /\ DOMAIN pending' \subseteq DOMAIN pending \cup {k}
      /\ pending'[k].value = [nonce |-> nonce, expiresAt |-> time + EchoTtl]
      /\ \A l \in DOMAIN pending' \ {k} : pending'[l].value = pending[l].value
  <2>1. PendingSound(pending) /\ pending' = StorePendingEcho(pending, k, nonce, time)
    BY <1>1, <1>3, <1>5 DEF ManagerTyped
  <2> QED BY <1>5, <2>1, StoredSound
<1>7. nonce.number = nonces /\ nonce.context = k /\ nonce.at = time /\ nonce.life = restarts
  BY <1>5 DEF Nonce
<1>8. \A i \in 1..Len(accepted) : accepted[i].nonce.number \in Nat
  BY NumbersAre
<1>9. \A l \in DOMAIN pending : pending[l].value.nonce.number \in Nat
  BY NumbersAre
<1>10. PendingMade'
  <2> SUFFICES ASSUME NEW l \in DOMAIN pending'
               PROVE  LET v == pending'[l].value IN
                      /\ v.nonce.context = l /\ v.nonce.life = restarts'
                      /\ v.nonce.number < nonces'
                      /\ v.expiresAt = v.nonce.at + EchoTtl
    BY DEF PendingMade
  <2>1. CASE l = k
    BY <1>3, <1>4, <1>6, <1>7, <2>1
  <2>2. CASE l # k
    <3>1. l \in DOMAIN pending /\ pending'[l].value = pending[l].value
      BY <1>6, <2>2
    <3>2. /\ pending[l].value.nonce.context = l /\ pending[l].value.nonce.number < nonces
          /\ pending[l].value.nonce.life = restarts
          /\ pending[l].value.expiresAt = pending[l].value.nonce.at + EchoTtl
      BY <3>1 DEF EInv, PendingMade
    <3>3. pending[l].value.nonce.number < nonces'
      BY <1>3, <1>4, <1>9, <3>1, <3>2
    <3> QED BY <1>3, <3>1, <3>2, <3>3
  <2> QED BY <2>1, <2>2
<1>11. AcceptedMade'
  <2> SUFFICES ASSUME NEW i \in 1..Len(accepted)
               PROVE  LET a == accepted[i] IN
                      /\ a.nonce.context = a.by /\ a.nonce.life = a.life
                      /\ a.nonce.number < nonces'
                      /\ a.at < a.nonce.at + EchoTtl
    BY <1>3 DEF AcceptedMade
  <2>1. /\ accepted[i].nonce.context = accepted[i].by /\ accepted[i].nonce.number < nonces
        /\ accepted[i].nonce.life = accepted[i].life
        /\ accepted[i].at < accepted[i].nonce.at + EchoTtl
    BY DEF EInv, AcceptedMade
  <2>2. accepted[i].nonce.number < nonces'
    BY <1>3, <1>4, <1>8, <2>1
  <2> QED BY <2>1, <2>2
<1>12. PendingIsYounger'
  <2> SUFFICES ASSUME NEW l \in DOMAIN pending', NEW i \in 1..Len(accepted), accepted[i].by = l
               PROVE  accepted[i].nonce.number < pending'[l].value.nonce.number
    BY <1>3 DEF PendingIsYounger
  <2>1. CASE l = k
    BY <1>6, <1>7, <2>1 DEF EInv, AcceptedMade
  <2>2. CASE l # k
    BY <1>6, <2>2 DEF EInv, PendingIsYounger
  <2> QED BY <2>1, <2>2
<1>13. AcceptedRise'
  BY <1>3 DEF EInv, AcceptedRise
<1> QED BY <1>10, <1>11, <1>12, <1>13 DEF EInv

LEMMA StepEchoes ==
    ASSUME IInv, EInv, [Next]_vars
    PROVE  EInv'
<1>1. ASSUME Restart PROVE EInv'
  <2>1. DOMAIN pending' = {} /\ UNCHANGED <<accepted, nonces>>
    BY <1>1 DEF Restart, EmptyMap
  <2> QED BY <2>1 DEF EInv, PendingMade, AcceptedMade, AcceptedRise, PendingIsYounger
<1>2. ASSUME \/ UNCHANGED vars
             \/ ClientNext
             \/ \E m \in sent : Unprotected(m) \/ Unknown(m) \/ Repeated(m) \/ Decode(m)
             \/ \E j \in decoding : Decoded(j)
             \/ \E o \in open : Answer(o) \/ CloseStream(o)
             \/ \E e \in encoding : Encoded(e)
             \/ \E k \in Removable : Change(k)
             \/ Tick
      PROVE  EInv'
  <2>1. UNCHANGED <<pending, accepted, nonces, restarts>>
    BY <1>2 DEF vars, serverVars, managerVars, ClientNext, Send, ReceiveChallenge,
         ReceiveResponse, Unprotected, Unknown, Repeated, Decode, Decoded, Answer, CloseStream,
         Encoded, Change, Tick
  <2> QED BY <2>1, EchoesKept
<1> QED BY <1>1, <1>2, RecoverEchoes, ChallengeEchoes DEF Next, ServerNext

LEMMA EInvHolds == Spec => []EInv
<1>1. Init => EInv
  <2> SUFFICES ASSUME Init PROVE EInv
    OBVIOUS
  <2>1. DOMAIN pending = {} /\ accepted = <<>> /\ Len(<<>>) = 0
    BY EmptySeq DEF Init, EmptyMap
  <2>2. 1..0 = {}
    OBVIOUS
  <2> QED BY <2>1, <2>2 DEF EInv, PendingMade, AcceptedMade, AcceptedRise, PendingIsYounger
<1> QED BY <1>1, StepEchoes, IInvHolds, PTL DEF Spec

(***************************************************************************)
(* An Echo nonce is accepted once, from the context it was made for, by    *)
(* the server that made it, before it expires, and as its latest one,      *)
(* however many clients and challenges there are.                          *)
(***************************************************************************)
THEOREM NoncesAreUsedOnce == Spec => []EchoOnce
<1>1. IInv /\ EInv => EchoOnce
  <2> SUFFICES ASSUME IInv, EInv, NEW i \in 1..Len(accepted)
               PROVE  LET a == accepted[i] IN
                      /\ a.nonce.context = a.by /\ a.nonce.life = a.life
                      /\ a.at < a.nonce.at + EchoTtl
                      /\ \A j \in (i+1)..Len(accepted) :
                            /\ accepted[j].nonce # a.nonce
                            /\ accepted[j].by = a.by => accepted[j].nonce.number > a.nonce.number
    BY DEF EchoOnce
  <2>1. accepted[i].nonce.context = accepted[i].by
        /\ accepted[i].nonce.life = accepted[i].life
        /\ accepted[i].at < accepted[i].nonce.at + EchoTtl
    BY DEF EInv, AcceptedMade
  <2>2. accepted \in Seq(Acceptances) /\ Len(accepted) \in Nat
    BY Parts, LenProperties DEF BoundsTyped
  <2>3. ASSUME NEW j \in (i+1)..Len(accepted)
        PROVE  /\ accepted[j].nonce # accepted[i].nonce
               /\ accepted[j].by = accepted[i].by =>
                      accepted[j].nonce.number > accepted[i].nonce.number
    <3>1. j \in 1..Len(accepted)
      BY <2>2
    <3>2. accepted[j].nonce.context = accepted[j].by
      BY <3>1 DEF EInv, AcceptedMade
    <3>3. accepted[j].by = accepted[i].by =>
              accepted[j].nonce.number > accepted[i].nonce.number
      BY DEF EInv, AcceptedRise
    <3>4. accepted[i].nonce.number \in Nat
      BY NumbersAre
    <3>5. ~(accepted[i].nonce.number > accepted[i].nonce.number)
      BY <3>4
    <3>6. accepted[j].nonce # accepted[i].nonce
      BY <2>1, <3>2, <3>3, <3>5
    <3> QED BY <3>3, <3>6
  <2> QED BY <2>1, <2>3
<1> QED BY <1>1, IInvHolds, EInvHolds, PTL
-----------------------------------------------------------------------------
(***************************************************************************)
(* Bindings.                                                               *)
(***************************************************************************)
\* A context that is bound to a token can protect the response.
BindingsAnswerable ==
    \A key \in DOMAIN bindings :
        /\ key[1] # None
        /\ <<bindings[key].value, key[2]>> \in interactions

EncodingAnswerable ==
    \A e \in encoding : e.code = "content" => <<e.context, Token[e.request]>> \in interactions

DecodingAnswerable ==
    \A j \in decoding : \/ j.first /\ ~RegistersRefused
                        \/ Interaction(j.datagram) \in interactions

\* A response that is still to leave, the next one of a stream that is open, or
\* that of a stream which was destroyed before it wrote.
Owed(key) ==
    \/ \E o \in open : Key(o.datagram.request) = key
    \/ \E e \in encoding : /\ e.code = "content" /\ e.request \notin Streams
                           /\ Key(e.request) = key
    \/ \E r \in abandoned : Key(r) = key

BInv ==
    /\ BindingsAnswerable /\ EncodingAnswerable /\ DecodingAnswerable
    /\ \A key \in DOMAIN bindings : Owed(key)

LEMMA InitOwed == Init => BInv
<1> SUFFICES ASSUME Init PROVE BInv
  OBVIOUS
<1>1. DOMAIN bindings = {} /\ encoding = {} /\ decoding = {}
  BY DEF Init, EmptyMap
<1> QED BY <1>1 DEF BInv, BindingsAnswerable, EncodingAnswerable, DecodingAnswerable

\* Steps that take away nothing but answered requests.
LEMMA OwedKept ==
    ASSUME BInv, UNCHANGED bindings, interactions \subseteq interactions',
           open \subseteq open', encoding \subseteq encoding', UNCHANGED abandoned,
           \A e \in encoding' \ encoding : e.code # "content",
           \A j \in decoding' \ decoding : \/ j.first /\ ~RegistersRefused
                                           \/ Interaction(j.datagram) \in interactions'
    PROVE  BInv'
<1>1. BindingsAnswerable' /\ EncodingAnswerable' /\ DecodingAnswerable'
  BY DEF BInv, BindingsAnswerable, EncodingAnswerable, DecodingAnswerable
<1>2. \A key \in DOMAIN bindings : Owed(key)'
  BY DEF BInv, Owed
<1> QED BY <1>1, <1>2 DEF BInv

\* A request that is handed over is owed a response.
LEMMA OwedBound ==
    ASSUME IInv, BInv, NEW j \in decoding, ~(j.first /\ ~RegistersRefused),
           Bind(j.datagram.request), Execute(j.datagram), decoding' \subseteq decoding,
           UNCHANGED <<interactions, encoding, abandoned>>
    PROVE  BInv'
<1> DEFINE r == j.datagram.request
<1>1. ManagerTyped /\ WorkTyped
  BY Parts
<1>2. r \in Requests /\ Protected(r)
  BY <1>1 DEF WorkTyped, Promises, Datagrams, DecodingSound
<1>3. /\ Key(r) \in DOMAIN bindings' /\ bindings'[Key(r)].value = Context(r)
      /\ DOMAIN bindings' \subseteq DOMAIN bindings \cup {Key(r)}
      /\ \A k \in DOMAIN bindings' \ {Key(r)} : bindings'[k].value = bindings[k].value
  BY <1>1, <1>2, BoundSound DEF Bind, ManagerTyped
<1>4. Key(r) = <<SenderId[r], Token[r]>> /\ SenderId[r] # None
  BY <1>2 DEF Key, TokenKey, Protected
<1>5. <<Context(r), Token[r]>> \in interactions
  BY DEF BInv, DecodingAnswerable, Interaction
<1>6. PICK new \in open' : open' = open \cup {new} /\ new.datagram.request = r
  <2> DEFINE o == [datagram |-> j.datagram, hooked |-> FALSE]
  <2>1. open' = open \cup {o}
    BY DEF Execute, Respond
  <2>2. o.datagram.request = r
    OBVIOUS
  <2> HIDE DEF o
  <2> QED BY <2>1, <2>2
<1> HIDE DEF r
<1>7. BindingsAnswerable'
  <2> SUFFICES ASSUME NEW key \in DOMAIN bindings'
               PROVE  key[1] # None /\ <<bindings'[key].value, key[2]>> \in interactions
    BY DEF BindingsAnswerable
  <2>1. CASE key = Key(r)
    <3>1. key[1] = SenderId[r] /\ key[2] = Token[r]
      BY <1>4, <2>1
    <3>2. bindings'[key].value = Context(r)
      BY <1>3, <2>1
    <3> QED BY <1>4, <1>5, <3>1, <3>2
  <2>2. CASE key # Key(r)
    BY <1>3, <2>2 DEF BInv, BindingsAnswerable
  <2> QED BY <2>1, <2>2
<1>8. \A key \in DOMAIN bindings' : Owed(key)'
  <2> SUFFICES ASSUME NEW key \in DOMAIN bindings' PROVE Owed(key)'
    OBVIOUS
  <2>1. CASE key = Key(r)
    <3>2. \E o \in open' : Key(o.datagram.request) = key
      BY <1>6, <2>1
    <3> QED BY <3>2 DEF Owed
  <2>2. CASE key # Key(r)
    <3>1. Owed(key)
      BY <1>3, <2>2 DEF BInv
    <3> QED BY <1>6, <3>1 DEF Owed
  <2> QED BY <2>1, <2>2
<1>9. EncodingAnswerable' /\ DecodingAnswerable'
  BY DEF BInv, EncodingAnswerable, DecodingAnswerable
<1> QED BY <1>7, <1>8, <1>9 DEF BInv

\* A binding that is released takes no other with it.
LEMMA OwedUnbound ==
    ASSUME IInv, BInv, NEW r \in Requests, bindings' = Unbound(r),
           UNCHANGED <<interactions, decoding, abandoned>>, encoding' \subseteq encoding,
           \A o \in open \ open' : Key(o.datagram.request) = Key(r),
           \A e \in encoding \ encoding' : Key(e.request) = Key(r)
    PROVE  BInv'
<1>1. DOMAIN bindings' = DOMAIN bindings \ {Key(r)} /\ Within(bindings', bindings)
  BY Parts, UnboundSound DEF ManagerTyped, Unbound
<1>2. BindingsAnswerable'
  BY <1>1 DEF BInv, BindingsAnswerable, Within
<1>3. \A key \in DOMAIN bindings' : Owed(key)'
  BY <1>1 DEF BInv, Owed
<1>4. EncodingAnswerable' /\ DecodingAnswerable'
  BY DEF BInv, EncodingAnswerable, DecodingAnswerable
<1> QED BY <1>2, <1>3, <1>4 DEF BInv

LEMMA AnswerOwed ==
    ASSUME IInv, BInv, NEW o \in open, Answer(o)
    PROVE  BInv'
<1> DEFINE r == o.datagram.request
           k == IF Protected(r) THEN GetByToken(bindings, Token[r], SenderId[r]) ELSE None
           e == Reply(r, k, "content", None)
<1>1. UNCHANGED <<interactions, bindings, decoding, abandoned>>
  BY DEF Answer, oscoreVars, managerVars
<1>2. r \in Requests
  BY Parts DEF WorkTyped, ResponseObjects, Datagrams
<1>3. CASE k = None
  <2>1. UNCHANGED encoding /\ open' = open \ Closed(o)
    BY <1>3 DEF Answer
  <2>2. Key(r) \notin DOMAIN bindings
    <3> SUFFICES ASSUME Key(r) \in DOMAIN bindings PROVE FALSE
      OBVIOUS
    <3>1. Protected(r)
      <4>1. Key(r)[1] # None
        BY DEF BInv, BindingsAnswerable
      <4> QED BY <4>1 DEF Key, TokenKey, Protected
    <3>2. k = bindings[Key(r)].value
      BY <3>1 DEF GetByToken, Lookup, Key
    <3>3. bindings[Key(r)].value \in Contexts
      BY Parts DEF ManagerTyped, BindingsSound, Sound, Maps
    <3> QED BY <1>3, <3>2, <3>3, OscoreAssumption
  <2>3. \A p \in open \ open' : p = o
    BY <2>1 DEF Closed
  <2>4. \A key \in DOMAIN bindings' : Owed(key)'
    <3> SUFFICES ASSUME NEW key \in DOMAIN bindings PROVE Owed(key)'
      BY <1>1
    <3>1. Owed(key) /\ key # Key(r)
      BY <2>2 DEF BInv
    <3> QED BY <1>1, <2>1, <2>3, <3>1 DEF Owed
  <2> QED BY <1>1, <2>1, <2>4
          DEF BInv, BindingsAnswerable, EncodingAnswerable, DecodingAnswerable
<1>4. CASE k # None
  <2>1. encoding' = encoding \cup {e} /\ open \ {o} \subseteq open'
    BY <1>4 DEF Answer
  <2>6. r \in Streams => \E p \in open' : p.datagram.request = r
    <3> SUFFICES ASSUME r \in Streams PROVE \E p \in open' : p.datagram.request = r
      OBVIOUS
    <3>1. [o EXCEPT !.hooked = TRUE] \in open'
      BY <1>4 DEF Answer
    <3>2. o \in ResponseObjects
      BY Parts DEF WorkTyped
    <3>3. [o EXCEPT !.hooked = TRUE].datagram = o.datagram
      BY <3>2 DEF ResponseObjects
    <3> QED BY <3>1, <3>3
  <2>2. e.code = "content" /\ e.context = k /\ e.request = r
    BY DEF Reply
  <2>3. <<k, Token[r]>> \in interactions
    <3>1. Protected(r) /\ k = GetByToken(bindings, Token[r], SenderId[r])
      BY <1>4
    <3>2. Key(r) \in DOMAIN bindings /\ k = bindings[Key(r)].value
      BY <1>4, <3>1 DEF GetByToken, Lookup, Key
    <3>3. Key(r)[2] = Token[r]
      BY DEF Key, TokenKey
    <3> QED BY <3>2, <3>3 DEF BInv, BindingsAnswerable
  <2> HIDE DEF e, k
  <2>4. EncodingAnswerable'
    BY <1>1, <2>1, <2>2, <2>3 DEF BInv, EncodingAnswerable
  <2>5. \A key \in DOMAIN bindings' : Owed(key)'
    <3> SUFFICES ASSUME NEW key \in DOMAIN bindings PROVE Owed(key)'
      BY <1>1
    <3>1. Owed(key)
      BY DEF BInv
    <3>2. CASE key = Key(r)
      BY <2>1, <2>2, <2>6, <3>2 DEF Owed
    <3>3. CASE key # Key(r)
      BY <1>1, <2>1, <3>1, <3>3 DEF Owed
    <3> QED BY <3>2, <3>3
  <2> QED BY <1>1, <2>4, <2>5 DEF BInv, BindingsAnswerable, DecodingAnswerable
<1> QED BY <1>3, <1>4

LEMMA EncodedOwed ==
    ASSUME IInv, BInv, NEW e \in encoding, Encoded(e)
    PROVE  BInv'
<1>1. UNCHANGED <<interactions, decoding, open, abandoned>> /\ encoding' = encoding \ {e}
  BY DEF Encoded, oscoreVars
<1>2. e.request \in Requests
  BY Parts DEF WorkTyped, Replies
<1>3. CASE e.code = "content" /\ e.request \notin Streams
  <2>1. bindings' = Unbound(e.request)
    BY <1>3 DEF Encoded, BInv, EncodingAnswerable
  <2> QED BY <1>1, <1>2, <2>1, OwedUnbound
<1>4. CASE ~(e.code = "content" /\ e.request \notin Streams)
  <2>1. UNCHANGED bindings
    BY <1>4 DEF Encoded
  <2>2. \A key \in DOMAIN bindings' : Owed(key)'
    <3> SUFFICES ASSUME NEW key \in DOMAIN bindings PROVE Owed(key)'
      BY <2>1
    <3>1. Owed(key)
      BY DEF BInv
    <3> QED BY <1>1, <1>4, <3>1 DEF Owed
  <2> QED BY <1>1, <2>1, <2>2
          DEF BInv, BindingsAnswerable, EncodingAnswerable, DecodingAnswerable
<1> QED BY <1>3, <1>4

LEMMA CloseStreamOwed ==
    ASSUME IInv, BInv, NEW o \in open, CloseStream(o)
    PROVE  BInv'
<1>1. UNCHANGED <<interactions, decoding, encoding>> /\ open' = open \ {o}
  BY DEF CloseStream, oscoreVars
<1>2. o.datagram.request \in Requests
  BY Parts DEF WorkTyped, ResponseObjects, Datagrams
<1>3. CASE o.hooked
  <2>1. bindings' = Unbound(o.datagram.request) /\ UNCHANGED abandoned
    BY <1>3 DEF CloseStream
  <2> QED BY <1>1, <1>2, <2>1, OwedUnbound
<1>4. CASE ~o.hooked
  <2>1. UNCHANGED bindings /\ abandoned' = abandoned \cup {o.datagram.request}
    BY <1>4 DEF CloseStream
  <2>2. \A key \in DOMAIN bindings' : Owed(key)'
    <3> SUFFICES ASSUME NEW key \in DOMAIN bindings PROVE Owed(key)'
      BY <2>1
    <3>1. Owed(key)
      BY DEF BInv
    <3> QED BY <1>1, <2>1, <3>1 DEF Owed
  <2> QED BY <1>1, <2>1, <2>2
          DEF BInv, BindingsAnswerable, EncodingAnswerable, DecodingAnswerable
<1> QED BY <1>3, <1>4

\* A context that does not register what it refuses sends no challenge.
NInv ==
    ~RegistersRefused =>
        /\ \A k \in recovering : \A i \in interactions : i[1] # k
        /\ \A j \in decoding : j.first => Context(j.datagram.request) \in recovering
        /\ \A e \in encoding : e.nonce # None => e.context \in recovering
        /\ \A m \in replies : m.nonce # None => m.nonce.life < restarts
        /\ \A d \in sent : d.echo # None => d.echo.life < restarts

LEMMA InitUnheard == Init => NInv
BY DEF Init, NInv

\* Nothing of this life is echoed.
LEMMA NeverRecovers ==
    ASSUME IInv, EInv, NInv, ~RegistersRefused, NEW j \in decoding
    PROVE  ~Recover(j)
<1> SUFFICES ASSUME Recover(j) PROVE FALSE
  OBVIOUS
<1> DEFINE m == j.datagram
           k == Context(m.request)
<1>1. m.echo # None /\ k \in DOMAIN pending /\ m.echo = pending[k].value.nonce
  BY EchoedIsPending DEF Recover
<1>2. m.echo.life = restarts
  BY <1>1 DEF EInv, PendingMade
<1>3. m \in sent
  BY Parts DEF WorkTyped, DecodingSound
<1>4. m.echo.life < restarts
  BY <1>1, <1>3 DEF NInv
<1>5. PICK life : life = restarts
  OBVIOUS
<1>6. life \in Nat
  BY <1>5, Parts, OscoreAssumption DEF BoundsTyped
<1> QED BY <1>2, <1>4, <1>5, <1>6

LEMMA UnheardKept ==
    ASSUME NInv, UNCHANGED <<recovering, interactions, restarts>>, decoding' \subseteq decoding,
           \A e \in encoding' \ encoding : e.nonce # None => e.context \in recovering,
           \A m \in replies' \ replies : m.nonce # None => m.nonce.life < restarts,
           \A d \in sent' \ sent : d.echo # None => d.echo.life < restarts
    PROVE  NInv'
BY DEF NInv

LEMMA StepUnheard ==
    ASSUME IInv, EInv, NInv, [Next]_vars
    PROVE  NInv'
<1> SUFFICES ASSUME ~RegistersRefused PROVE NInv'
  BY DEF NInv
<1>1. ASSUME Restart PROVE NInv'
  <2>1. interactions' = {} /\ decoding' = {} /\ encoding' = {} /\ restarts' = restarts + 1
        /\ UNCHANGED <<replies, sent>>
    BY <1>1 DEF Restart, clientVars
  <2>2. \A m \in replies : m.nonce # None => m.nonce.life < restarts'
    <3> SUFFICES ASSUME NEW m \in replies, m.nonce # None PROVE m.nonce.life < restarts'
      OBVIOUS
    <3>1. m.nonce \in Nonces
      BY Parts DEF WorkTyped, Replies
    <3>2. m.nonce.life \in Nat /\ restarts \in Nat
      BY <3>1, Parts, OscoreAssumption DEF Nonces, BoundsTyped
    <3>3. m.nonce.life < restarts
      BY DEF NInv
    <3> QED BY <2>1, <3>2, <3>3
  <2>3. \A d \in sent : d.echo # None => d.echo.life < restarts'
    <3> SUFFICES ASSUME NEW d \in sent, d.echo # None PROVE d.echo.life < restarts'
      OBVIOUS
    <3>1. d.echo \in Nonces
      BY Parts DEF ClientTyped, Datagrams
    <3>2. d.echo.life \in Nat /\ restarts \in Nat
      BY <3>1, Parts, OscoreAssumption DEF Nonces, BoundsTyped
    <3>3. d.echo.life < restarts
      BY DEF NInv
    <3> QED BY <2>1, <3>2, <3>3
  <2> QED BY <2>1, <2>2, <2>3 DEF NInv
<1>2. ASSUME NEW r \in Requests, Send(r) PROVE NInv'
  <2>1. \A d \in sent' \ sent : d.echo = None
    BY <1>2 DEF Send, Transmit
  <2> QED BY <1>2, <2>1, UnheardKept DEF Send, serverVars, oscoreVars
<1>3. ASSUME NEW m \in replies, ReceiveChallenge(m) PROVE NInv'
  <2>1. \A d \in sent' \ sent : d.echo \in {m.nonce, None}
    BY <1>3 DEF ReceiveChallenge, Transmit
  <2>2. m.nonce # None => m.nonce.life < restarts
    BY DEF NInv
  <2> QED BY <1>3, <2>1, <2>2, UnheardKept DEF ReceiveChallenge, serverVars, oscoreVars
<1>4. ASSUME \/ UNCHANGED vars
             \/ \E m \in replies : ReceiveResponse(m)
             \/ \E m \in sent : Unprotected(m) \/ Unknown(m) \/ Repeated(m)
             \/ \E j \in decoding : Decoded(j)
             \/ \E o \in open : CloseStream(o) \/ Answer(o)
             \/ \E k \in Removable : Change(k)
             \/ Tick
      PROVE  NInv'
  <2>1. UNCHANGED <<recovering, interactions, restarts, sent>> /\ decoding' \subseteq decoding
    BY <1>4 DEF vars, serverVars, clientVars, oscoreVars, ReceiveResponse, Unprotected, Unknown,
         Repeated, Decoded, Settles, CloseStream, Answer, Change, Tick
  <2>2. /\ \A e \in encoding' \ encoding : e.nonce = None
        /\ \A m \in replies' \ replies : m.nonce = None
    <3>1. CASE \E o \in open : Answer(o)
      BY <3>1 DEF Answer, Reply
    <3>2. CASE \E m \in sent : Unprotected(m) \/ Unknown(m) \/ Repeated(m)
      BY <3>2 DEF Unprotected, Unknown, Repeated, Unauthorized, Reply
    <3>3. CASE ~(\E o \in open : Answer(o))
               /\ ~(\E m \in sent : Unprotected(m) \/ Unknown(m) \/ Repeated(m))
      BY <1>4, <3>3 DEF vars, serverVars, ReceiveResponse, Decoded, CloseStream, Change, Tick
    <3> QED BY <3>1, <3>2, <3>3
  <2> QED BY <2>1, <2>2, UnheardKept
<1>5. ASSUME NEW m \in sent, Decode(m) PROVE NInv'
  <2>1. UNCHANGED <<recovering, restarts, sent, encoding, replies>>
    BY <1>5 DEF Decode, clientVars
  <2>2. \A j \in decoding' : j.first => Context(j.datagram.request) \in recovering
    <3>1. \A j \in decoding' \ decoding :
              j = [datagram |-> m, first |-> Context(m.request) \in recovering]
      BY <1>5 DEF Decode
    <3>2. \A j \in decoding : j.first => Context(j.datagram.request) \in recovering
      BY DEF NInv
    <3> SUFFICES ASSUME NEW j \in decoding', j.first
                 PROVE  Context(j.datagram.request) \in recovering
      OBVIOUS
    <3>3. CASE j \in decoding
      BY <3>2, <3>3
    <3>4. CASE j \notin decoding
      <4>1. j = [datagram |-> m, first |-> Context(m.request) \in recovering]
        BY <3>1, <3>4
      <4> QED BY <4>1
    <3> QED BY <3>3, <3>4
  <2>3. \A k \in recovering : \A i \in interactions' : i[1] # k
    BY <1>5 DEF Decode, NInv
  <2> QED BY <2>1, <2>2, <2>3 DEF NInv
<1>6. ASSUME NEW j \in decoding, Challenge(j) PROVE NInv'
  <2>1. /\ UNCHANGED <<recovering, interactions, restarts, sent, replies>>
        /\ decoding' \subseteq decoding
    BY <1>6 DEF Challenge, Settles, clientVars, oscoreVars
  <2>2. \A e \in encoding' \ encoding : e.context = Context(j.datagram.request)
    BY <1>6 DEF Challenge, Reply
  <2>3. Context(j.datagram.request) \in recovering
    BY <1>6 DEF Challenge, NInv
  <2> QED BY <2>1, <2>2, <2>3, UnheardKept
<1>7. ASSUME NEW e \in encoding, Encoded(e) PROVE NInv'
  <2>1. /\ UNCHANGED <<recovering, interactions, restarts, sent, decoding>>
        /\ encoding' \subseteq encoding
    BY <1>7 DEF Encoded, clientVars, oscoreVars
  <2>2. \A m \in replies' \ replies :
            m = e /\ <<e.context, Token[e.request]>> \in interactions
    BY <1>7 DEF Encoded
  <2>3. \A m \in replies' \ replies : m.nonce = None
    BY <2>2 DEF NInv
  <2> QED BY <2>1, <2>3, UnheardKept
<1> QED BY <1>1, <1>2, <1>3, <1>4, <1>5, <1>6, <1>7, NeverRecovers
        DEF Next, ClientNext, ServerNext

LEMMA StepOwed ==
    ASSUME IInv, EInv, BInv, NInv, [Next]_vars
    PROVE  BInv'
<1>1. ASSUME Restart PROVE BInv'
  <2>1. DOMAIN bindings' = {} /\ encoding' = {} /\ decoding' = {}
    BY <1>1 DEF Restart, EmptyMap
  <2> QED BY <2>1 DEF BInv, BindingsAnswerable, EncodingAnswerable, DecodingAnswerable
<1>2. ASSUME \/ UNCHANGED vars
             \/ ClientNext
             \/ \E m \in sent : Unprotected(m) \/ Unknown(m) \/ Repeated(m)
             \/ \E k \in Removable : Change(k)
             \/ Tick
      PROVE  BInv'
  <2>1. UNCHANGED <<bindings, interactions, encoding, decoding, abandoned>>
    BY <1>2 DEF vars, serverVars, managerVars, oscoreVars, ClientNext, Send, ReceiveChallenge,
         ReceiveResponse, Unprotected, Unknown, Repeated, Change, Tick
  <2>2. open \subseteq open'
    BY <1>2 DEF vars, serverVars, ClientNext, Send, ReceiveChallenge,
         ReceiveResponse, Unprotected, Respond, Unknown, Repeated, Change, Tick
  <2> QED BY <2>1, <2>2, OwedKept
<1>3. ASSUME NEW m \in sent, Decode(m) PROVE BInv'
  <2>1. UNCHANGED <<bindings, encoding, open, abandoned>>
    BY <1>3 DEF Decode, managerVars
  <2>2. interactions \subseteq interactions'
    BY <1>3 DEF Decode
  <2>3. \A j \in decoding' \ decoding :
            (j.first /\ ~RegistersRefused) \/ Interaction(j.datagram) \in interactions'
    <3> SUFFICES ASSUME NEW j \in decoding' \ decoding, ~(j.first /\ ~RegistersRefused)
                 PROVE  Interaction(j.datagram) \in interactions'
      OBVIOUS
    <3>1. j = [datagram |-> m, first |-> Context(m.request) \in recovering]
      BY <1>3 DEF Decode
    <3>2. interactions' = interactions \cup {Interaction(m)}
      BY <1>3, <3>1 DEF Decode, Interaction
    <3> QED BY <3>1, <3>2
  <2> QED BY <2>1, <2>2, <2>3, OwedKept
<1>4. ASSUME NEW j \in decoding, Decoded(j) \/ Recover(j) PROVE BInv'
  <2>1. /\ Bind(j.datagram.request) /\ Execute(j.datagram)
        /\ decoding' \subseteq decoding /\ UNCHANGED <<interactions, encoding, abandoned>>
    BY <1>4 DEF Decoded, Recover, Settles, oscoreVars
  <2>2. ~(j.first /\ ~RegistersRefused)
    BY <1>4, NeverRecovers DEF Decoded
  <2> QED BY <2>1, <2>2, OwedBound
<1>5. ASSUME NEW j \in decoding, Challenge(j) PROVE BInv'
  <2>1. UNCHANGED <<bindings, interactions, open, abandoned>> /\ decoding' \subseteq decoding
    BY <1>5 DEF Challenge, Settles, oscoreVars
  <2>2. encoding \subseteq encoding' /\ \A e \in encoding' \ encoding : e.code = "challenge"
    BY <1>5 DEF Challenge, Reply
  <2> QED BY <2>1, <2>2, OwedKept
<1> QED BY <1>1, <1>2, <1>3, <1>4, <1>5, AnswerOwed, EncodedOwed, CloseStreamOwed
        DEF Next, ServerNext

(***************************************************************************)
(* What is answered does not stay bound, nor does a stream that has closed:*)
(* whoever is bound can protect the response, so that its encoding succeeds*)
(* and releases the token (server.ts:518).  A context that cannot protect  *)
(* the response to a request it refused cannot protect the challenge       *)
(* either, and its client never gets as far as a binding.                  *)
(***************************************************************************)
THEOREM BindingsReleased == Spec => []BindingsAreOwed
<1>1. BInv => BindingsAreOwed
  BY DEF BInv, Owed, BindingsAreOwed
<1>2. IInv /\ EInv /\ BInv /\ NInv /\ [Next]_vars => BInv' /\ NInv'
  BY StepOwed, StepUnheard
<1> QED BY <1>1, <1>2, InitOwed, InitUnheard, IInvHolds, EInvHolds, PTL DEF Spec
-----------------------------------------------------------------------------
(***************************************************************************)
(* Executions.                                                             *)
(***************************************************************************)
Ran(d) == \E i \in 1..Len(executed) : executed[i] = d

\* What a datagram echoes is not, or no more, what its context has to echo.
Spent(d) ==
    LET k == Context(d.request) IN
    k \in DOMAIN pending => d.echo # pending[k].value.nonce

\* A nonce is made before it is sent, and sent before it is echoed.
NoncesMade ==
    /\ \A d \in sent : d.echo # None => d.echo.number < nonces
    /\ \A m \in replies \cup encoding : m.nonce # None => m.nonce.number < nonces

\* What ran will not run again: it counts as decoded, or its nonce is spent
\* while its context, which cannot clear its recovery, goes on asking for one.
RanSound ==
    \A d : Ran(d) => /\ d \in sent
                     /\ \/ d \in decoded
                        \/ /\ ~ClearsRecovery /\ Context(d.request) \in recovering
                           /\ Spent(d)

\* What waits to be handed over has not run.  A promise that asks for an Echo and
\* is still there when its context has come back is not answered by one.
PromisesSound ==
    \A j \in decoding :
        IF ~j.first THEN j.datagram \in decoded /\ ~Ran(j.datagram)
        ELSE Context(j.datagram.request) \in recovering \/ Spent(j.datagram)

RecoveringSound == \A d \in decoded : Context(d.request) \notin recovering

PInv == NoReplay /\ NoncesMade /\ RanSound /\ PromisesSound /\ RecoveringSound

LEMMA InitReplays == Init => PInv
<1> SUFFICES ASSUME Init PROVE PInv
  OBVIOUS
<1>1. Len(executed) = 0
  BY EmptySeq DEF Init
<1>2. 1..0 = {}
  OBVIOUS
<1> QED BY <1>1, <1>2 DEF Init, PInv, NoReplay, NoncesMade, RanSound, Ran, PromisesSound,
           RecoveringSound

LEMMA RanAfter ==
    ASSUME IInv, NEW m \in Datagrams, Execute(m)
    PROVE  /\ \A d : Ran(d)' <=> Ran(d) \/ d = m
           /\ NoReplay /\ ~Ran(m) => NoReplay'
<1> DEFINE n == Len(executed)
<1>1. executed \in Seq(Datagrams) /\ executed' = Append(executed, m)
  BY Parts DEF BoundsTyped, Execute
<1>2. /\ n \in Nat /\ Len(executed') = n + 1 /\ executed'[n + 1] = m
      /\ \A i \in 1..n : executed'[i] = executed[i]
  BY <1>1, LenProperties, AppendProperties
<1>3. PICK last \in Nat : last = n + 1
  BY <1>2
<1>4. /\ last \in 1..Len(executed') /\ executed'[last] = m
      /\ \A i \in 1..Len(executed') : i \in 1..n \/ i = last
      /\ \A i \in 1..n : i \in 1..Len(executed') /\ i # last
  BY <1>2, <1>3
<1>5. \A d : Ran(d)' <=> Ran(d) \/ d = m
  BY <1>2, <1>4 DEF Ran
<1>6. ASSUME NoReplay, ~Ran(m) PROVE NoReplay'
  <2> SUFFICES ASSUME NEW i \in 1..Len(executed'), NEW j \in 1..Len(executed'),
                      executed'[i] = executed'[j]
               PROVE  i = j
    BY DEF NoReplay
  <2>1. \A l \in 1..n : executed[l] # m
    BY <1>6 DEF Ran
  <2>2. CASE i \in 1..n /\ j \in 1..n
    BY <1>2, <1>6, <2>2 DEF NoReplay
  <2>3. CASE i = last \/ j = last
    BY <1>2, <1>4, <2>1, <2>3
  <2> QED BY <1>4, <2>2, <2>3
<1> QED BY <1>5, <1>6

\* Steps that hand nothing over, and at most take promises away.
LEMMA ReplaysKept ==
    ASSUME PInv, UNCHANGED <<executed, recovering, decoded>>, sent \subseteq sent',
           decoding' \subseteq decoding, NoncesMade',
           \A d \in sent : Spent(d) => Spent(d)', DecodingSound
    PROVE  PInv'
<1>1. \A d : Ran(d)' <=> Ran(d)
  BY DEF Ran
<1>2. NoReplay' /\ RecoveringSound'
  BY DEF PInv, NoReplay, RecoveringSound
<1>3. RanSound'
  <2> SUFFICES ASSUME NEW d, Ran(d)
               PROVE  /\ d \in sent'
                      /\ \/ d \in decoded'
                         \/ /\ ~ClearsRecovery /\ Context(d.request) \in recovering'
                            /\ Spent(d)'
    BY <1>1 DEF RanSound
  <2> QED BY DEF PInv, RanSound
<1>4. PromisesSound'
  <2> SUFFICES ASSUME NEW j \in decoding
               PROVE  IF ~j.first THEN j.datagram \in decoded' /\ ~Ran(j.datagram)'
                      ELSE Context(j.datagram.request) \in recovering' \/ Spent(j.datagram)'
    BY DEF PromisesSound
  <2>1. j.datagram \in sent
    BY DEF DecodingSound
  <2> QED BY <1>1, <2>1 DEF PInv, PromisesSound
<1> QED BY <1>2, <1>3, <1>4 DEF PInv

LEMMA SpentKept == ASSUME UNCHANGED pending, NEW d PROVE Spent(d) => Spent(d)'
BY DEF Spent

\* A client echoes what it was sent.
LEMMA ClientReplays ==
    ASSUME IInv, PInv, ClientNext
    PROVE  PInv'
<1>1. UNCHANGED serverVars
  BY DEF ClientNext, Send, ReceiveChallenge, ReceiveResponse
<1>2. UNCHANGED <<executed, recovering, decoded, decoding, pending, replies, encoding, nonces>>
  BY <1>1 DEF serverVars, oscoreVars, managerVars
<1>3. /\ sent \subseteq sent'
      /\ \A d \in sent' \ sent : d.echo # None => \E m \in replies : d.echo = m.nonce
  <2>1. ASSUME NEW r \in Requests, Send(r)
        PROVE  sent \subseteq sent' /\ \A d \in sent' \ sent : d.echo = None
    BY <2>1 DEF Send, Transmit
  <2>2. ASSUME NEW m \in replies, ReceiveChallenge(m)
        PROVE  sent \subseteq sent' /\ \A d \in sent' \ sent : d.echo \in {m.nonce, None}
    BY <2>2 DEF ReceiveChallenge, Transmit
  <2>3. ASSUME NEW m \in replies, ReceiveResponse(m) PROVE sent' = sent
    BY <2>3 DEF ReceiveResponse
  <2> QED BY <2>1, <2>2, <2>3 DEF ClientNext
<1>4. NoncesMade'
  BY <1>2, <1>3 DEF PInv, NoncesMade
<1> QED BY <1>2, <1>3, <1>4, ReplaysKept, SpentKept DEF IInv

LEMMA DecodeReplays ==
    ASSUME IInv, PInv, NEW m \in sent, Decode(m)
    PROVE  PInv'
<1> DEFINE k == Context(m.request)
<1>1. UNCHANGED <<executed, recovering, pending, sent, replies, encoding, nonces>>
  BY DEF Decode, clientVars, managerVars
<1>2. \A d : /\ Ran(d)' <=> Ran(d)
             /\ Spent(d)' <=> Spent(d)
  BY <1>1 DEF Ran, Spent
<1>3. decoding' = decoding \cup {[datagram |-> m, first |-> k \in recovering]}
      /\ decoded \subseteq decoded'
  BY DEF Decode
<1>4. NoReplay' /\ NoncesMade'
  BY <1>1 DEF PInv, NoReplay, NoncesMade
<1>5. RanSound'
  BY <1>1, <1>2, <1>3 DEF PInv, RanSound
<1>6. RecoveringSound'
  <2>1. \A d \in decoded' : d \in decoded \/ (d = m /\ k \notin recovering)
    BY DEF Decode
  <2> QED BY <1>1, <2>1 DEF PInv, RecoveringSound
<1>7. PromisesSound'
  <2> SUFFICES ASSUME NEW j \in decoding'
               PROVE  IF ~j.first THEN j.datagram \in decoded' /\ ~Ran(j.datagram)
                      ELSE Context(j.datagram.request) \in recovering \/ Spent(j.datagram)
    BY <1>1, <1>2 DEF PromisesSound
  <2>1. CASE j \in decoding
    BY <1>3, <2>1 DEF PInv, PromisesSound
  <2>2. CASE j \notin decoding
    <3>1. j.datagram = m /\ (j.first <=> k \in recovering)
      <4>1. j = [datagram |-> m, first |-> k \in recovering]
        BY <1>3, <2>2
      <4> QED BY <4>1
    <3>2. CASE k \in recovering
      BY <3>1, <3>2
    <3>3. CASE k \notin recovering
      <4>1. m \notin decoded /\ m \in decoded'
        BY <3>3 DEF Decode
      <4>2. ~Ran(m)
        BY <3>3, <4>1 DEF PInv, RanSound
      <4> QED BY <3>1, <3>3, <4>1, <4>2
    <3> QED BY <3>2, <3>3
  <2> QED BY <2>1, <2>2
<1> QED BY <1>4, <1>5, <1>6, <1>7 DEF PInv

LEMMA DecodedReplays ==
    ASSUME IInv, PInv, NEW j \in decoding, Decoded(j)
    PROVE  PInv'
<1>1. PICK m \in Datagrams : m = j.datagram /\ m \in sent
  BY Parts DEF WorkTyped, Promises, DecodingSound
<1>2. /\ ~j.first /\ decoding' = decoding \ {j} /\ Execute(m)
      /\ UNCHANGED <<recovering, decoded, pending, sent, replies, encoding, nonces>>
  BY <1>1 DEF Decoded, Settles, clientVars, oscoreVars
<1>3. m \in decoded /\ ~Ran(m)
  BY <1>1, <1>2 DEF PInv, PromisesSound
<1>4. \A d : Ran(d)' <=> Ran(d) \/ d = m
  BY <1>2, RanAfter
<1>5. \A d : Spent(d)' <=> Spent(d)
  BY <1>2 DEF Spent
<1>6. NoReplay'
  BY <1>2, <1>3, RanAfter DEF PInv
<1>7. NoncesMade' /\ RecoveringSound'
  BY <1>2 DEF PInv, NoncesMade, RecoveringSound
<1>8. RanSound'
  BY <1>1, <1>2, <1>3, <1>4, <1>5 DEF PInv, RanSound
<1>9. PromisesSound'
  <2> SUFFICES ASSUME NEW i \in decoding, i # j
               PROVE  IF ~i.first THEN i.datagram \in decoded /\ ~Ran(i.datagram)'
                      ELSE Context(i.datagram.request) \in recovering \/ Spent(i.datagram)
    BY <1>2, <1>5 DEF PromisesSound
  <2>1. CASE i.first
    BY <2>1 DEF PInv, PromisesSound
  <2>2. CASE ~i.first
    <3>1. i.datagram \in decoded /\ ~Ran(i.datagram)
      BY <2>2 DEF PInv, PromisesSound
    <3>2. i.datagram # m
      <4>1. i \in Promises /\ j \in Promises
        BY Parts DEF WorkTyped
      <4>2. i.first = j.first
        BY <1>2, <2>2, <4>1 DEF Promises
      <4> QED BY <1>1, <4>1, <4>2 DEF Promises
    <3> QED BY <1>4, <2>2, <3>1, <3>2
  <2> QED BY <2>1, <2>2
<1> QED BY <1>6, <1>7, <1>8, <1>9 DEF PInv

\* Whoever echoes what is pending has not run, and its context recovers.
LEMMA RecoverReplays ==
    ASSUME IInv, PInv, NEW j \in decoding, Recover(j)
    PROVE  PInv'
<1>1. PICK m \in Datagrams : m = j.datagram /\ m \in sent
  BY Parts DEF WorkTyped, Promises, DecodingSound
<1>2. PICK k : k = Context(m.request)
  OBVIOUS
<1>3. /\ j.first /\ Echoes(m) /\ Execute(m) /\ decoding' = decoding
      /\ pending' = ClearPendingEcho(pending, k)
      /\ UNCHANGED <<sent, replies, encoding, nonces>>
  BY <1>1, <1>2 DEF Recover, Settles, AfterEcho, clientVars
<1>4. k \in DOMAIN pending /\ m.echo = pending[k].value.nonce
  BY <1>2, <1>3, EchoedIsPending
<1>5. ~Spent(m)
  BY <1>2, <1>4 DEF Spent
<1>6. k \in recovering
  BY <1>1, <1>2, <1>3, <1>5 DEF PInv, PromisesSound
<1>7. ~Ran(m)
  BY <1>2, <1>5, <1>6 DEF PInv, RanSound, RecoveringSound
<1>8. \A d : Ran(d)' <=> Ran(d) \/ d = m
  BY <1>3, RanAfter
<1>9. Within(pending', pending) /\ DOMAIN pending' = DOMAIN pending \ {k}
  BY <1>3, Parts, ClearedSound DEF ManagerTyped
<1>10. \A d : /\ Spent(d) => Spent(d)'
              /\ Context(d.request) = k => Spent(d)'
  BY <1>9 DEF Spent, Within
<1>11. IF ClearsRecovery
       THEN /\ recovering' = recovering \ {k} /\ decoded \subseteq decoded'
            /\ m \in decoded'
            /\ \A d \in decoded' \ decoded : Context(d.request) = k
       ELSE UNCHANGED <<recovering, decoded>>
  <2>1. CASE ClearsRecovery
    <3>1. recovering' = recovering \ {k}
          /\ decoded' = decoded \cup {d \in sent : /\ Protected(d.request)
                                                   /\ Context(d.request) = k
                                                   /\ d.number <= m.number}
      BY <1>1, <1>2, <1>6, <2>1 DEF Recover
    <3>2. m.number <= m.number /\ Protected(m.request)
      <4>1. m.number \in Nat /\ Protected(m.request)
        BY <1>1, Parts DEF Datagrams, WorkTyped, DecodingSound
      <4> QED BY <4>1
    <3> QED BY <1>1, <1>2, <2>1, <3>1, <3>2
  <2>2. CASE ~ClearsRecovery
    BY <2>2 DEF Recover
  <2> QED BY <2>1, <2>2
<1>12. NoReplay'
  BY <1>3, <1>7, RanAfter DEF PInv
<1>13. NoncesMade'
  BY <1>3 DEF PInv, NoncesMade
<1>14. RecoveringSound'
  BY <1>11 DEF PInv, RecoveringSound
<1>15. RanSound'
  <2> SUFFICES ASSUME NEW d, Ran(d) \/ d = m
               PROVE  /\ d \in sent'
                      /\ \/ d \in decoded'
                         \/ /\ ~ClearsRecovery /\ Context(d.request) \in recovering'
                            /\ Spent(d)'
    BY <1>8 DEF RanSound
  <2>1. CASE d = m
    BY <1>1, <1>2, <1>3, <1>6, <1>10, <1>11, <2>1
  <2>2. CASE Ran(d)
    <3>1. /\ d \in sent
          /\ \/ d \in decoded
             \/ ~ClearsRecovery /\ Context(d.request) \in recovering /\ Spent(d)
      BY <2>2 DEF PInv, RanSound
    <3> QED BY <1>3, <1>10, <1>11, <3>1
  <2> QED BY <2>1, <2>2
<1>16. PromisesSound'
  <2> SUFFICES ASSUME NEW i \in decoding
               PROVE  IF ~i.first THEN i.datagram \in decoded' /\ ~Ran(i.datagram)'
                      ELSE Context(i.datagram.request) \in recovering' \/ Spent(i.datagram)'
    BY <1>3 DEF PromisesSound
  <2>1. CASE i.first
    <3>1. Context(i.datagram.request) \in recovering \/ Spent(i.datagram)
      BY <2>1 DEF PInv, PromisesSound
    <3> QED BY <1>10, <1>11, <2>1, <3>1
  <2>2. CASE ~i.first
    <3>1. i.datagram \in decoded /\ ~Ran(i.datagram)
      BY <2>2 DEF PInv, PromisesSound
    <3>2. i.datagram # m
      BY <1>2, <1>6, <3>1 DEF PInv, RecoveringSound
    <3> QED BY <1>8, <1>11, <2>2, <3>1, <3>2
  <2> QED BY <2>1, <2>2
<1> QED BY <1>12, <1>13, <1>14, <1>15, <1>16 DEF PInv

\* What is made now nobody has echoed.
LEMMA ChallengeReplays ==
    ASSUME IInv, PInv, NEW j \in decoding, Challenge(j)
    PROVE  PInv'
<1>1. ClientTyped /\ OscoreTyped /\ ManagerTyped /\ WorkTyped /\ BoundsTyped
  BY Parts
<1>2. PICK k \in Contexts : k = Context(j.datagram.request)
  <2>1. j.datagram.request \in Requests /\ Protected(j.datagram.request)
    BY <1>1 DEF WorkTyped, Promises, Datagrams, DecodingSound
  <2> QED BY <2>1, ContextOf
<1>3. /\ nonces < MaxNonces /\ nonces' = nonces + 1 /\ decoding' \subseteq decoding
      /\ pending' = StorePendingEcho(pending, k, Nonce(k), now)
      /\ encoding' = encoding \cup {Reply(j.datagram.request, k, "challenge", Nonce(k))}
      /\ UNCHANGED <<executed, recovering, decoded, sent, replies>>
  BY <1>2 DEF Challenge, Settles, clientVars, oscoreVars
<1>4. /\ MaxNonces \in Nat /\ MaxTime \in Nat /\ MaxRestarts \in Nat
      /\ nonces \in 0..MaxNonces /\ now \in 0..MaxTime /\ restarts \in 0..MaxRestarts
  BY <1>1, OscoreAssumption DEF BoundsTyped
<1>5. PICK nonce \in Nonces, time \in Nat : nonce = Nonce(k) /\ time = now
  <2>1. Nonce(k) \in Nonces
    BY <1>4 DEF Nonce, Nonces
  <2> QED BY <1>4, <2>1
<1>6. /\ k \in DOMAIN pending' /\ DOMAIN pending' \subseteq DOMAIN pending \cup {k}
      /\ pending'[k].value = [nonce |-> nonce, expiresAt |-> time + EchoTtl]
      /\ \A l \in DOMAIN pending' \ {k} : pending'[l].value = pending[l].value
  <2>1. PendingSound(pending) /\ pending' = StorePendingEcho(pending, k, nonce, time)
    BY <1>1, <1>3, <1>5 DEF ManagerTyped
  <2> QED BY <1>5, <2>1, StoredSound
<1>7. pending'[k].value.nonce = nonce /\ nonce.number = nonces
  BY <1>5, <1>6 DEF Nonce
<1>8. \A d \in sent : d.echo # nonce
  <2> SUFFICES ASSUME NEW d \in sent, d.echo = nonce PROVE FALSE
    OBVIOUS
  <2>1. d.echo # None
    BY OscoreAssumption
  <2>2. nonce.number < nonces
    BY <2>1 DEF PInv, NoncesMade
  <2> QED BY <1>4, <1>7, <2>2
<1>9. \A d \in sent : Spent(d) => Spent(d)'
  <2> SUFFICES ASSUME NEW d \in sent, Spent(d), NEW l \in DOMAIN pending',
                      l = Context(d.request)
               PROVE  d.echo # pending'[l].value.nonce
    BY DEF Spent
  <2>1. CASE l = k
    BY <1>7, <1>8, <2>1
  <2>2. CASE l # k
    BY <1>6, <2>2 DEF Spent
  <2> QED BY <2>1, <2>2
<1>10. NoncesMade'
  <2>1. \A n \in Nonces : n.number \in Nat
    BY OscoreAssumption DEF Nonces
  <2>2. ASSUME NEW n \in Nonces, n.number < nonces PROVE n.number < nonces'
    BY <1>3, <1>4, <2>1, <2>2
  <2>3. nonce.number < nonces'
    BY <1>3, <1>4, <1>7
  <2>4. ASSUME NEW d \in sent, d.echo # None PROVE d.echo.number < nonces'
    <3>1. d.echo \in Nonces
      BY <1>1, <2>4 DEF ClientTyped, Datagrams
    <3> QED BY <2>2, <2>4, <3>1 DEF PInv, NoncesMade
  <2>5. ASSUME NEW m \in replies \cup encoding, m.nonce # None PROVE m.nonce.number < nonces'
    <3>1. m.nonce \in Nonces
      BY <1>1, <2>5 DEF WorkTyped, Replies
    <3> QED BY <2>2, <2>5, <3>1 DEF PInv, NoncesMade
  <2>6. \A m \in encoding' : m \in encoding \/ m.nonce = nonce
    BY <1>3, <1>5 DEF Reply
  <2> QED BY <1>3, <2>3, <2>4, <2>5, <2>6 DEF NoncesMade
<1> QED BY <1>3, <1>9, <1>10, ReplaysKept DEF IInv

LEMMA StepReplays ==
    ASSUME IInv, PInv, [Next]_vars
    PROVE  PInv'
<1>1. ASSUME Restart PROVE PInv'
  <2>1. /\ executed' = <<>> /\ decoded' = {} /\ decoding' = {} /\ encoding' = {}
        /\ UNCHANGED <<sent, replies, nonces>>
    BY <1>1 DEF Restart, clientVars
  <2>2. Len(executed') = 0 /\ 1..0 = {}
    BY <2>1, EmptySeq
  <2> QED BY <2>1, <2>2 DEF PInv, NoReplay, NoncesMade, RanSound, Ran, PromisesSound,
             RecoveringSound
<1>2. ASSUME \/ UNCHANGED vars
             \/ \E m \in sent : Unprotected(m) \/ Unknown(m) \/ Repeated(m)
             \/ \E o \in open : Answer(o) \/ CloseStream(o)
             \/ \E e \in encoding : Encoded(e)
             \/ \E k \in Removable : Change(k)
             \/ Tick
      PROVE  PInv'
  <2>1. UNCHANGED <<executed, recovering, decoded, decoding, pending, sent, nonces>>
    BY <1>2 DEF vars, serverVars, clientVars, oscoreVars, managerVars, Unprotected, Unknown,
         Repeated, Answer, CloseStream, Encoded, Change, Tick
  <2>2. \A m \in replies' \cup encoding' : m \in replies \cup encoding \/ m.nonce = None
    <3>1. CASE \E o \in open : Answer(o)
      BY <3>1 DEF Answer, Reply
    <3>2. CASE \E m \in sent : Unprotected(m) \/ Unknown(m) \/ Repeated(m)
      BY <3>2 DEF Unprotected, Unknown, Repeated, Unauthorized, Reply
    <3>3. CASE ~(\E o \in open : Answer(o))
               /\ ~(\E m \in sent : Unprotected(m) \/ Unknown(m) \/ Repeated(m))
      BY <1>2, <3>3 DEF vars, serverVars, CloseStream, Encoded, Change, Tick
    <3> QED BY <3>1, <3>2, <3>3
  <2>3. NoncesMade'
    BY <2>1, <2>2 DEF PInv, NoncesMade
  <2> QED BY <2>1, <2>3, ReplaysKept, SpentKept DEF IInv
<1> QED BY <1>1, <1>2, ClientReplays, DecodeReplays, DecodedReplays, RecoverReplays,
           ChallengeReplays DEF Next, ServerNext

LEMMA PInvHolds == Spec => []PInv
BY InitReplays, StepReplays, IInvHolds, PTL DEF Spec

(***************************************************************************)
(* No datagram is handed to the application a second time by the server    *)
(* that was given it, however many requests a client makes, whatever is    *)
(* removed, evicted or expires meanwhile and whether or not the context    *)
(* can clear its recovery: it is not decoded again (middlewares.ts:156),   *)
(* or the nonce it echoes is spent (middlewares.ts:192-206).               *)
(***************************************************************************)
THEOREM DatagramsRunOnce == Spec => []NoReplay
<1>1. PInv => NoReplay
  BY DEF PInv
<1> QED BY <1>1, PInvHolds, PTL
-----------------------------------------------------------------------------
(***************************************************************************)
(* Contexts.                                                               *)
(***************************************************************************)
\* A token of a sender is bound to one of its contexts.
BindingsOwn == \A key \in DOMAIN bindings : bindings[key].value[1] = key[1]

RepliesOwn ==
    \A m \in replies \cup encoding : m.context # None => m.context[1] = SenderId[m.request]

OInv == BindingsOwn /\ RepliesOwn

LEMMA OwnKept ==
    ASSUME OInv, UNCHANGED bindings,
           \A m \in replies' \cup encoding' :
               m \in replies \cup encoding \/ m.context = None
               \/ m.context[1] = SenderId[m.request]
    PROVE  OInv'
BY DEF OInv, BindingsOwn, RepliesOwn

LEMMA BindOwn ==
    ASSUME IInv, OInv, NEW j \in decoding, Bind(j.datagram.request),
           UNCHANGED <<replies, encoding>>
    PROVE  OInv'
<1>1. PICK r \in Requests : r = j.datagram.request /\ Protected(r)
  BY Parts DEF WorkTyped, Promises, Datagrams, DecodingSound
<1>2. /\ bindings'[Key(r)].value = Context(r)
      /\ DOMAIN bindings' \subseteq DOMAIN bindings \cup {Key(r)}
      /\ \A k \in DOMAIN bindings' \ {Key(r)} : bindings'[k].value = bindings[k].value
  BY <1>1, Parts, BoundSound DEF Bind, ManagerTyped
<1>3. Context(r)[1] = Key(r)[1]
  BY DEF Context, Key, TokenKey
<1>4. BindingsOwn'
  BY <1>2, <1>3 DEF OInv, BindingsOwn
<1> QED BY <1>4 DEF OInv, RepliesOwn

LEMMA AnswerOwn ==
    ASSUME OInv, NEW o \in open, Answer(o)
    PROVE  OInv'
<1> DEFINE r == o.datagram.request
           k == IF Protected(r) THEN GetByToken(bindings, Token[r], SenderId[r]) ELSE None
<1>1. k # None => k[1] = SenderId[r]
  <2> SUFFICES ASSUME k # None PROVE k[1] = SenderId[r]
    OBVIOUS
  <2>1. Key(r) \in DOMAIN bindings /\ k = bindings[Key(r)].value
    BY DEF GetByToken, Lookup, Key
  <2>2. Key(r)[1] = SenderId[r]
    BY DEF Key, TokenKey
  <2> QED BY <2>1, <2>2 DEF OInv, BindingsOwn
<1>2. /\ UNCHANGED bindings
      /\ \A m \in replies' \ replies : m.context = None
      /\ \A m \in encoding' \ encoding : m.context = k /\ m.request = r
  BY DEF Answer, managerVars, Reply
<1> HIDE DEF k, r
<1> QED BY <1>1, <1>2, OwnKept

LEMMA ReleaseOwn ==
    ASSUME IInv, OInv, NEW r \in Requests, bindings' = Unbound(r),
           replies' \cup encoding' \subseteq replies \cup encoding
    PROVE  OInv'
<1>1. Within(bindings', bindings)
  BY Parts, UnboundSound DEF ManagerTyped, Unbound
<1> QED BY <1>1 DEF OInv, BindingsOwn, RepliesOwn, Within

LEMMA StepOwn ==
    ASSUME IInv, OInv, [Next]_vars
    PROVE  OInv'
<1>1. ASSUME Restart PROVE OInv'
  <2>1. DOMAIN bindings' = {} /\ encoding' = {} /\ UNCHANGED replies
    BY <1>1 DEF Restart, EmptyMap
  <2> QED BY <2>1 DEF OInv, BindingsOwn, RepliesOwn
<1>2. ASSUME \/ UNCHANGED vars
             \/ ClientNext
             \/ \E m \in sent : Decode(m)
             \/ \E k \in Removable : Change(k)
             \/ Tick
      PROVE  OInv'
  <2>1. UNCHANGED <<bindings, replies, encoding>>
    BY <1>2 DEF vars, serverVars, managerVars, ClientNext, Send, ReceiveChallenge,
         ReceiveResponse, Decode, Change, Tick
  <2> QED BY <2>1, OwnKept
<1>3. ASSUME NEW m \in sent, Unprotected(m) \/ Unknown(m) \/ Repeated(m) PROVE OInv'
  <2>1. /\ UNCHANGED <<bindings, encoding>>
        /\ \A n \in replies' \ replies : n.context = None
    BY <1>3 DEF Unprotected, Unknown, Repeated, Unauthorized, Reply, managerVars
  <2> QED BY <2>1, OwnKept
<1>4. ASSUME NEW j \in decoding, Decoded(j) \/ Recover(j) PROVE OInv'
  <2>1. Bind(j.datagram.request) /\ UNCHANGED <<replies, encoding>>
    BY <1>4 DEF Decoded, Recover
  <2> QED BY <2>1, BindOwn
<1>5. ASSUME NEW j \in decoding, Challenge(j) PROVE OInv'
  <2>1. /\ UNCHANGED <<bindings, replies>>
        /\ \A m \in encoding' \ encoding : m.context[1] = SenderId[m.request]
    BY <1>5 DEF Challenge, Reply, Context
  <2> QED BY <2>1, OwnKept
<1>6. ASSUME NEW e \in encoding, Encoded(e) PROVE OInv'
  <2>1. e.request \in Requests
    BY Parts DEF WorkTyped, Replies
  <2>2. replies' \cup encoding' \subseteq replies \cup encoding
        /\ (bindings' = Unbound(e.request) \/ UNCHANGED bindings)
    BY <1>6 DEF Encoded
  <2> QED BY <2>1, <2>2, ReleaseOwn, OwnKept
<1>7. ASSUME NEW o \in open, CloseStream(o) PROVE OInv'
  <2>1. o.datagram.request \in Requests
    BY Parts DEF WorkTyped, ResponseObjects, Datagrams
  <2>2. UNCHANGED <<replies, encoding>>
        /\ (bindings' = Unbound(o.datagram.request) \/ UNCHANGED bindings)
    BY <1>7 DEF CloseStream
  <2> QED BY <2>1, <2>2, ReleaseOwn, OwnKept
<1> QED BY <1>1, <1>2, <1>3, <1>4, <1>5, <1>6, <1>7, AnswerOwn DEF Next, ServerNext

(***************************************************************************)
(* Whatever tokens the clients choose, and whatever is bound again,        *)
(* evicted, unbound or removed between a request and its response, no reply*)
(* is protected for a client of another sender id: the key of a binding is *)
(* the token and the sender (oscore.ts:83), so that what is lost is at     *)
(* worst the protection (server.ts:500), never the peer.                   *)
(***************************************************************************)
THEOREM NobodyElseReads == Spec => []NeverForAnother
<1>1. Init => OInv
  BY DEF Init, EmptyMap, OInv, BindingsOwn, RepliesOwn
<1>2. OInv => NeverForAnother
  BY DEF OInv, RepliesOwn, NeverForAnother
<1> QED BY <1>1, <1>2, StepOwn, IInvHolds, PTL DEF Spec
=============================================================================
