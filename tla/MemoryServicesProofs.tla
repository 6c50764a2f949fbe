------------------------ MODULE MemoryServicesProofs ------------------------
(***************************************************************************)
(* Proofs about the services that keep what they know in memory.           *)
(***************************************************************************)
EXTENDS Services, OperatorLemmas, TLAPS

\* A step of the composition is one of the service at hand.
LEMMA WhoseStep ==
    ASSUME [ServicesNext]_servicesVars
    PROVE  /\ Esc!Next \/ UNCHANGED escrowVars
           /\ ServiceNext \/ UNCHANGED matchingVars
           /\ Gov!Next \/ UNCHANGED proposalVars
           /\ Auc!Next \/ UNCHANGED auctionVars
           /\ Key!Next \/ UNCHANGED keyVars
           /\ Con!Next \/ UNCHANGED socketVars
           /\ Ord!Next \/ UNCHANGED orderingVars
           /\ Sga!Next \/ UNCHANGED sagaVars
           /\ Prc!Next \/ UNCHANGED pricingVars
BY DEF ServicesNext, servicesVars, EscrowStep, MatchingStep, GovernanceStep, AuctionStep,
   KeysStep, SagaStep, OrderingStep, ConnectionsStep, PricingStep

-----------------------------------------------------------------------------
(* The connection pool *)

\* The instance's Cardinality is the one the library's theorems are about.
LEMMA SocketCardinality == \A S : Con!Cardinality(S) = Cardinality(S)
BY DEF Con!Cardinality, Cardinality

Connection == [user : Users \cup {NoUser}, subs : SUBSET Rooms, count : Int]

\* The connected sockets of a user.
OnesOf(u) == {s \in Con!Known \cap open : connections[s].user = u}

SocketsInv ==
    /\ Con!Known \subseteq Sockets /\ open \subseteq Sockets
    /\ connections \in [Con!Known -> Connection]
    /\ rooms \in [DOMAIN rooms -> SUBSET Sockets] /\ DOMAIN rooms \subseteq Rooms
    /\ Con!RoomsMatchSubscriptions

LEMMA SocketsInit == Con!Init => SocketsInv
<1> SUFFICES ASSUME Con!Init PROVE SocketsInv OBVIOUS
<1>1. Con!Known = {} /\ DOMAIN rooms = {} /\ open = Sockets BY DEF Con!Init, Con!Known
<1>2. \A u \in Users : Con!CountOf(u) <= MaxPerUser
  <2> TAKE u \in Users
  <2>1. {s \in Con!Known \cap open : connections[s].user = u} = {} BY <1>1
  <2> QED BY <2>1, FS_EmptySet, SocketsAssumption, SocketCardinality DEF Con!CountOf
<1>3. connections \in [Con!Known -> Connection] /\ rooms \in [DOMAIN rooms -> SUBSET Sockets]
  BY <1>1 DEF Con!Init
<1> QED BY <1>1, <1>2, <1>3 DEF SocketsInv, Con!RoomsMatchSubscriptions

\* Fewer connected sockets of a user stay within the limit.
LEMMA FewerSockets ==
  ASSUME SocketsInv, Con!Known' \subseteq Con!Known, open' \subseteq open,
         \A s \in Con!Known' : connections'[s].user = connections[s].user
  PROVE  \A u \in Users : Con!CountOf(u)' <= MaxPerUser
<1> TAKE u \in Users
<1>1. OnesOf(u) \subseteq Sockets /\ OnesOf(u)' \subseteq OnesOf(u) BY DEF OnesOf, SocketsInv
<1>2. IsFiniteSet(OnesOf(u)) BY <1>1, FS_Subset, SocketsAssumption
<1>3. IsFiniteSet(OnesOf(u)') /\ Cardinality(OnesOf(u)') <= Cardinality(OnesOf(u))
  BY <1>1, <1>2, FS_Subset
<1>4. Cardinality(OnesOf(u)) \in Nat /\ Cardinality(OnesOf(u)') \in Nat
  BY <1>2, <1>3, FS_CardinalityType
<1>5. Cardinality(OnesOf(u)) <= MaxPerUser
  BY SocketCardinality DEF SocketsInv, Con!RoomsMatchSubscriptions, Con!CountOf, OnesOf
<1>6. Cardinality(OnesOf(u)') <= MaxPerUser BY <1>3, <1>4, <1>5, SocketsAssumption
<1> QED BY <1>6, SocketCardinality DEF Con!CountOf, OnesOf

LEMMA AddKeepsInv ==
  ASSUME SocketsInv, NEW s \in Sockets, Con!AddConnection(s)
  PROVE  SocketsInv'
<1> DEFINE new == [user |-> NoUser, subs |-> {}, count |-> 0]
<1>1. /\ s \notin Con!Known /\ UNCHANGED <<rooms, open>>
      /\ connections' = [t \in Con!Known \cup {s} |-> IF t = s THEN new ELSE connections[t]]
  BY DEF Con!AddConnection, Con!With, Con!Known
<1>2. new \in Connection /\ new.user = NoUser /\ new.subs = {} BY DEF Connection
<1>3. /\ Con!Known' = Con!Known \cup {s} /\ connections'[s] = new
      /\ \A t \in Con!Known : connections'[t] = connections[t]
  BY <1>1 DEF Con!Known
<1> HIDE DEF new
<1>4. connections' \in [Con!Known' -> Connection] BY <1>1, <1>2, <1>3 DEF SocketsInv
<1>5. \A r \in DOMAIN rooms' : rooms'[r] # {} /\ rooms'[r] = {t \in Con!Known' : r \in connections'[t].subs}
  <2> TAKE r \in DOMAIN rooms'
  <2>1. rooms[r] # {} /\ rooms[r] = {t \in Con!Known : r \in connections[t].subs}
    BY <1>1 DEF SocketsInv, Con!RoomsMatchSubscriptions
  <2>2. {t \in Con!Known' : r \in connections'[t].subs} = {t \in Con!Known : r \in connections[t].subs}
    BY <1>2, <1>3
  <2> QED BY <1>1, <2>1, <2>2
<1>6. \A t \in Con!Known' : connections'[t].subs \subseteq DOMAIN rooms'
  BY <1>1, <1>2, <1>3 DEF SocketsInv, Con!RoomsMatchSubscriptions
<1>7. \A u \in Users : Con!CountOf(u)' <= MaxPerUser
  <2> TAKE u \in Users
  <2>1. {t \in Con!Known' \cap open' : connections'[t].user = u}
        = {t \in Con!Known \cap open : connections[t].user = u}
    BY <1>1, <1>2, <1>3, SocketsAssumption
  <2> QED BY <2>1, SocketCardinality DEF Con!CountOf, SocketsInv, Con!RoomsMatchSubscriptions
<1> QED BY <1>1, <1>3, <1>4, <1>5, <1>6, <1>7 DEF SocketsInv, Con!RoomsMatchSubscriptions

\* The limit is tested before one more socket becomes the user's; of another
\* user it can only become one less.
LEMMA AssociateKeepsInv ==
  ASSUME SocketsInv, NEW s \in Sockets, NEW u \in Users, Con!AssociateUser(s, u)
  PROVE  SocketsInv'
<1>1. /\ s \in Con!Known /\ Con!CountOf(u) < MaxPerUser /\ UNCHANGED <<rooms, open>>
      /\ connections' = [connections EXCEPT ![s].user = u]
  BY DEF Con!AssociateUser
<1>2. connections[s] \in Connection BY <1>1 DEF SocketsInv
<1>3. /\ Con!Known' = Con!Known /\ connections' \in [Con!Known -> Connection]
      /\ connections'[s].user = u /\ connections'[s].subs = connections[s].subs
      /\ \A t \in Con!Known \ {s} : connections'[t] = connections[t]
  BY <1>1, <1>2 DEF SocketsInv, Con!Known, Connection
<1>4. \A r : {t \in Con!Known' : r \in connections'[t].subs} = {t \in Con!Known : r \in connections[t].subs}
  BY <1>3
<1>5. ASSUME NEW v \in Users PROVE Con!CountOf(v)' <= MaxPerUser
  <2>1. OnesOf(v) \subseteq Sockets BY DEF OnesOf, SocketsInv
  <2>2. IsFiniteSet(OnesOf(v)) /\ Cardinality(OnesOf(v)) \in Nat
    BY <2>1, FS_Subset, FS_CardinalityType, SocketsAssumption
  <2>3. Cardinality(OnesOf(v)) <= MaxPerUser
    BY SocketCardinality DEF SocketsInv, Con!RoomsMatchSubscriptions, Con!CountOf, OnesOf
  <2>4. CASE v = u
    <3>1. OnesOf(v)' \subseteq OnesOf(v) \cup {s} BY <1>1, <1>3 DEF OnesOf
    <3>2. /\ IsFiniteSet(OnesOf(v) \cup {s})
          /\ Cardinality(OnesOf(v) \cup {s}) <= Cardinality(OnesOf(v)) + 1
      <4>1. /\ IsFiniteSet(OnesOf(v) \cup {s})
            /\ Cardinality(OnesOf(v) \cup {s}) = Cardinality(OnesOf(v))
               \/ Cardinality(OnesOf(v) \cup {s}) = Cardinality(OnesOf(v)) + 1
        BY <2>2, FS_AddElement
      <4> QED BY <2>2, <4>1
    <3>3. Cardinality(OnesOf(v) \cup {s}) \in Nat BY <3>2, FS_CardinalityType
    <3>4. IsFiniteSet(OnesOf(v)') /\ Cardinality(OnesOf(v)') <= Cardinality(OnesOf(v) \cup {s})
      BY <3>1, <3>2, FS_Subset
    <3>5. Cardinality(OnesOf(v)') \in Nat BY <3>4, FS_CardinalityType
    <3>6. Cardinality(OnesOf(v)) < MaxPerUser BY <1>1, <2>4, SocketCardinality DEF Con!CountOf, OnesOf
    <3>7. Cardinality(OnesOf(v)') <= MaxPerUser BY <2>2, <3>2, <3>3, <3>4, <3>5, <3>6, SocketsAssumption
    <3> QED BY <3>7, SocketCardinality DEF Con!CountOf, OnesOf
  <2>5. CASE v # u
    <3>1. OnesOf(v)' \subseteq OnesOf(v) BY <1>1, <1>3, <2>5 DEF OnesOf
    <3>2. IsFiniteSet(OnesOf(v)') /\ Cardinality(OnesOf(v)') <= Cardinality(OnesOf(v))
      BY <2>2, <3>1, FS_Subset
    <3>3. Cardinality(OnesOf(v)') \in Nat BY <3>2, FS_CardinalityType
    <3>4. Cardinality(OnesOf(v)') <= MaxPerUser BY <2>2, <2>3, <3>2, <3>3, SocketsAssumption
    <3> QED BY <3>4, SocketCardinality DEF Con!CountOf, OnesOf
  <2> QED BY <2>4, <2>5
<1>6. \A t \in Con!Known' : connections'[t].subs \subseteq DOMAIN rooms'
  BY <1>1, <1>3 DEF SocketsInv, Con!RoomsMatchSubscriptions
<1>7. \A r \in DOMAIN rooms' : rooms'[r] # {} /\ rooms'[r] = {t \in Con!Known' : r \in connections'[t].subs}
  BY <1>1, <1>4 DEF SocketsInv, Con!RoomsMatchSubscriptions
<1> QED BY <1>1, <1>3, <1>5, <1>6, <1>7 DEF SocketsInv, Con!RoomsMatchSubscriptions

LEMMA JoinKeepsInv ==
  ASSUME SocketsInv, NEW s \in Sockets, NEW q \in Rooms, Con!JoinRoom(s, q)
  PROVE  SocketsInv'
<1> DEFINE old == connections[s]
           new == [user |-> old.user, subs |-> old.subs \cup {q}, count |-> old.count + 1]
           clients == {s} \cup IF q \in DOMAIN rooms THEN rooms[q] ELSE {}
<1>1. /\ s \in Con!Known /\ open' = open
      /\ connections' = [connections EXCEPT ![s] = new]
      /\ rooms' = [r \in DOMAIN rooms \cup {q} |-> IF r = q THEN clients ELSE rooms[r]]
  BY DEF Con!JoinRoom, Con!With
<1>2. old \in Connection BY <1>1 DEF SocketsInv
<1>3. new \in Connection /\ new.user = old.user /\ new.subs = old.subs \cup {q} BY <1>2 DEF Connection
<1> HIDE DEF new
<1>4. /\ Con!Known' = Con!Known /\ connections' \in [Con!Known -> Connection] /\ connections'[s] = new
      /\ \A t \in Con!Known \ {s} : connections'[t] = connections[t]
  BY <1>1, <1>3 DEF SocketsInv, Con!Known
<1>5. DOMAIN rooms' = DOMAIN rooms \cup {q} /\ rooms'[q] = clients
      /\ \A r \in DOMAIN rooms \ {q} : rooms'[r] = rooms[r]
  BY <1>1
<1>6. clients \subseteq Sockets BY <1>1 DEF SocketsInv
<1>7. rooms' \in [DOMAIN rooms' -> SUBSET Sockets] /\ DOMAIN rooms' \subseteq Rooms
  BY <1>1, <1>5, <1>6 DEF SocketsInv
<1>8. clients = {t \in Con!Known : t = s \/ q \in connections[t].subs}
  <2>1. CASE q \in DOMAIN rooms
    BY <1>1, <2>1 DEF SocketsInv, Con!RoomsMatchSubscriptions
  <2>2. CASE q \notin DOMAIN rooms
    BY <1>1, <2>2 DEF SocketsInv, Con!RoomsMatchSubscriptions
  <2> QED BY <2>1, <2>2
<1> HIDE DEF clients
<1>9. \A r \in DOMAIN rooms' : rooms'[r] # {} /\ rooms'[r] = {t \in Con!Known' : r \in connections'[t].subs}
  <2> TAKE r \in DOMAIN rooms'
  <2>1. CASE r = q
    <3>1. {t \in Con!Known' : q \in connections'[t].subs} = {t \in Con!Known : t = s \/ q \in connections[t].subs}
      BY <1>1, <1>3, <1>4
    <3> QED BY <1>1, <1>5, <1>8, <2>1, <3>1
  <2>2. CASE r # q
    <3>1. {t \in Con!Known' : r \in connections'[t].subs} = {t \in Con!Known : r \in connections[t].subs}
      BY <1>3, <1>4, <2>2
    <3>2. r \in DOMAIN rooms BY <1>5, <2>2
    <3>3. rooms[r] # {} /\ rooms[r] = {t \in Con!Known : r \in connections[t].subs}
      BY <3>2 DEF SocketsInv, Con!RoomsMatchSubscriptions
    <3> QED BY <1>5, <2>2, <3>1, <3>2, <3>3
  <2> QED BY <2>1, <2>2
<1>10. \A t \in Con!Known' : connections'[t].subs \subseteq DOMAIN rooms'
  BY <1>1, <1>3, <1>4, <1>5 DEF SocketsInv, Con!RoomsMatchSubscriptions
<1>11. \A t \in Con!Known' : connections'[t].user = connections[t].user BY <1>3, <1>4
<1>12. \A u \in Users : Con!CountOf(u)' <= MaxPerUser
  BY <1>1, <1>4, <1>11, FewerSockets
<1> QED BY <1>1, <1>4, <1>7, <1>9, <1>10, <1>12 DEF SocketsInv, Con!RoomsMatchSubscriptions

\* A socket that leaves rooms: the rooms it was alone in go with it.
LEMMA LeftRooms ==
  ASSUME SocketsInv, NEW s \in Sockets, NEW R, rooms' = Con!Left(s, R)
  PROVE  /\ DOMAIN rooms' \subseteq DOMAIN rooms
         /\ \A r \in DOMAIN rooms' :
               /\ rooms'[r] # {} /\ rooms'[r] = IF r \in R THEN rooms[r] \ {s} ELSE rooms[r]
         /\ \A r \in DOMAIN rooms \ DOMAIN rooms' : r \in R /\ rooms[r] = {s}
<1>1. rooms' = [r \in {q \in DOMAIN rooms : q \notin R \/ rooms[q] # {s}} |->
                   IF r \in R THEN rooms[r] \ {s} ELSE rooms[r]]
  BY DEF Con!Left
<1>2. DOMAIN rooms' = {q \in DOMAIN rooms : q \notin R \/ rooms[q] # {s}} BY <1>1
<1>3. \A r \in DOMAIN rooms : rooms[r] # {} BY DEF SocketsInv, Con!RoomsMatchSubscriptions
<1>4. \A r \in DOMAIN rooms' : rooms'[r] = IF r \in R THEN rooms[r] \ {s} ELSE rooms[r]
  BY <1>1, <1>2
<1>5. \A r \in DOMAIN rooms' : rooms'[r] # {} BY <1>2, <1>3, <1>4
<1> QED BY <1>2, <1>4, <1>5

LEMMA LeaveKeepsInv ==
  ASSUME SocketsInv, NEW s \in Sockets, NEW q \in Rooms, Con!LeaveRoom(s, q)
  PROVE  SocketsInv'
<1> DEFINE old == connections[s]
           new == [user |-> old.user, subs |-> old.subs \ {q}, count |-> old.count - 1]
<1>1. /\ s \in Con!Known /\ open' = open /\ rooms' = Con!Left(s, {q})
      /\ connections' = [connections EXCEPT ![s] = new]
  BY DEF Con!LeaveRoom
<1>2. old \in Connection BY <1>1 DEF SocketsInv
<1>3. new \in Connection /\ new.user = old.user /\ new.subs = old.subs \ {q} BY <1>2 DEF Connection
<1> HIDE DEF new
<1>4. /\ Con!Known' = Con!Known /\ connections' \in [Con!Known -> Connection] /\ connections'[s] = new
      /\ \A t \in Con!Known \ {s} : connections'[t] = connections[t]
  BY <1>1, <1>3 DEF SocketsInv, Con!Known
<1>5. /\ DOMAIN rooms' \subseteq DOMAIN rooms
      /\ \A r \in DOMAIN rooms' :
            /\ rooms'[r] # {} /\ rooms'[r] = IF r \in {q} THEN rooms[r] \ {s} ELSE rooms[r]
      /\ \A r \in DOMAIN rooms \ DOMAIN rooms' : r \in {q} /\ rooms[r] = {s}
  BY <1>1, LeftRooms
<1>6. \A r \in DOMAIN rooms : rooms[r] = {t \in Con!Known : r \in connections[t].subs}
  BY DEF SocketsInv, Con!RoomsMatchSubscriptions
<1>7. \A r \in DOMAIN rooms' : rooms'[r] = {t \in Con!Known' : r \in connections'[t].subs}
  <2> TAKE r \in DOMAIN rooms'
  <2>1. CASE r = q
    <3>1. {t \in Con!Known' : q \in connections'[t].subs} = {t \in Con!Known : q \in connections[t].subs} \ {s}
      BY <1>3, <1>4
    <3> QED BY <1>5, <1>6, <2>1, <3>1
  <2>2. CASE r # q
    <3>1. {t \in Con!Known' : r \in connections'[t].subs} = {t \in Con!Known : r \in connections[t].subs}
      BY <1>3, <1>4, <2>2
    <3> QED BY <1>5, <1>6, <2>2, <3>1
  <2> QED BY <2>1, <2>2
<1>8. \A t \in Con!Known' : connections'[t].subs \subseteq DOMAIN rooms'
  <2> SUFFICES ASSUME NEW t \in Con!Known, NEW r \in connections'[t].subs PROVE r \in DOMAIN rooms'
    BY <1>4
  <2>1. r \in connections[t].subs /\ ~(t = s /\ r = q) BY <1>3, <1>4
  <2>2. r \in DOMAIN rooms /\ t \in rooms[r] BY <1>6, <2>1 DEF SocketsInv, Con!RoomsMatchSubscriptions
  <2> QED BY <1>5, <2>1, <2>2
<1>9. rooms' \in [DOMAIN rooms' -> SUBSET Sockets] /\ DOMAIN rooms' \subseteq Rooms
  <2>1. \A r \in DOMAIN rooms' : rooms'[r] \subseteq Sockets BY <1>4, <1>7 DEF SocketsInv
  <2>2. rooms' = [r \in DOMAIN rooms' |-> rooms'[r]] BY <1>1 DEF Con!Left
  <2> QED BY <1>5, <2>1, <2>2 DEF SocketsInv
<1>10. \A t \in Con!Known' : connections'[t].user = connections[t].user BY <1>3, <1>4
<1>11. \A u \in Users : Con!CountOf(u)' <= MaxPerUser
  BY <1>1, <1>4, <1>10, FewerSockets
<1> QED BY <1>1, <1>4, <1>5, <1>7, <1>8, <1>9, <1>11 DEF SocketsInv, Con!RoomsMatchSubscriptions

LEMMA RemoveKeepsInv ==
  ASSUME SocketsInv, NEW s \in Sockets, Con!RemoveConnection(s) \/ Con!Cleanup(s)
  PROVE  SocketsInv'
<1> DEFINE R == connections[s].subs
<1>1. /\ s \in Con!Known /\ open' \subseteq open /\ rooms' = Con!Left(s, R)
      /\ connections' = [t \in Con!Known \ {s} |-> connections[t]]
  BY DEF Con!RemoveConnection, Con!Cleanup, Con!Without, Con!Known
<1>2. /\ Con!Known' = Con!Known \ {s} /\ \A t \in Con!Known' : connections'[t] = connections[t]
      /\ connections' \in [Con!Known' -> Connection]
  BY <1>1 DEF SocketsInv, Con!Known
<1>3. /\ DOMAIN rooms' \subseteq DOMAIN rooms
      /\ \A r \in DOMAIN rooms' :
            /\ rooms'[r] # {} /\ rooms'[r] = IF r \in R THEN rooms[r] \ {s} ELSE rooms[r]
      /\ \A r \in DOMAIN rooms \ DOMAIN rooms' : r \in R /\ rooms[r] = {s}
  BY <1>1, LeftRooms
<1>4. \A r \in DOMAIN rooms : rooms[r] = {t \in Con!Known : r \in connections[t].subs}
  BY DEF SocketsInv, Con!RoomsMatchSubscriptions
<1>5. \A r \in DOMAIN rooms' : rooms'[r] = {t \in Con!Known' : r \in connections'[t].subs}
  <2> TAKE r \in DOMAIN rooms'
  <2>1. {t \in Con!Known' : r \in connections'[t].subs} = {t \in Con!Known : r \in connections[t].subs} \ {s}
    BY <1>2
  <2>2. r \in R <=> s \in rooms[r] BY <1>1, <1>3, <1>4
  <2> QED BY <1>3, <1>4, <2>1, <2>2
<1>6. \A t \in Con!Known' : connections'[t].subs \subseteq DOMAIN rooms'
  <2> SUFFICES ASSUME NEW t \in Con!Known \ {s}, NEW r \in connections[t].subs PROVE r \in DOMAIN rooms'
    BY <1>2
  <2>1. r \in DOMAIN rooms /\ t \in rooms[r] BY <1>4 DEF SocketsInv, Con!RoomsMatchSubscriptions
  <2> QED BY <1>3, <2>1
<1>7. rooms' \in [DOMAIN rooms' -> SUBSET Sockets] /\ DOMAIN rooms' \subseteq Rooms
  <2>1. \A r \in DOMAIN rooms' : rooms'[r] \subseteq Sockets BY <1>2, <1>5 DEF SocketsInv
  <2>2. rooms' = [r \in DOMAIN rooms' |-> rooms'[r]] BY <1>1 DEF Con!Left
  <2> QED BY <1>3, <2>1, <2>2 DEF SocketsInv
<1>8. \A u \in Users : Con!CountOf(u)' <= MaxPerUser
  BY <1>1, <1>2, FewerSockets
<1> QED BY <1>1, <1>2, <1>3, <1>5, <1>6, <1>7, <1>8 DEF SocketsInv, Con!RoomsMatchSubscriptions

LEMMA DisconnectKeepsInv ==
  ASSUME SocketsInv, open' \subseteq open, UNCHANGED <<connections, rooms>>
  PROVE  SocketsInv'
<1>1. Con!Known' = Con!Known BY DEF Con!Known
<1>2. \A u \in Users : Con!CountOf(u)' <= MaxPerUser BY <1>1, FewerSockets
<1> QED BY <1>1, <1>2 DEF SocketsInv, Con!RoomsMatchSubscriptions

LEMMA SocketsKept == SocketsInv /\ [ServicesNext]_servicesVars => SocketsInv'
<1>1. ASSUME SocketsInv, Con!Next PROVE SocketsInv'
  <2>1. PICK s \in Sockets :
          \/ Con!AddConnection(s) \/ Con!RemoveConnection(s) \/ Con!Cleanup(s) \/ Con!Disconnects(s)
          \/ \E u \in Users : Con!AssociateUser(s, u)
          \/ \E r \in Rooms : Con!JoinRoom(s, r) \/ Con!LeaveRoom(s, r)
    BY <1>1 DEF Con!Next
  <2>2. CASE Con!AddConnection(s) BY <1>1, <2>2, AddKeepsInv
  <2>3. CASE Con!RemoveConnection(s) \/ Con!Cleanup(s) BY <1>1, <2>3, RemoveKeepsInv
  <2>4. CASE Con!Disconnects(s)
    <3>1. open' \subseteq open /\ UNCHANGED <<connections, rooms>> BY <2>4 DEF Con!Disconnects
    <3> QED BY <1>1, <3>1, DisconnectKeepsInv
  <2>5. ASSUME NEW u \in Users, Con!AssociateUser(s, u) PROVE SocketsInv'
    BY <1>1, <2>5, AssociateKeepsInv
  <2>6. ASSUME NEW r \in Rooms, Con!JoinRoom(s, r) \/ Con!LeaveRoom(s, r) PROVE SocketsInv'
    BY <1>1, <2>6, JoinKeepsInv, LeaveKeepsInv
  <2> QED BY <2>1, <2>2, <2>3, <2>4, <2>5, <2>6
<1>2. ASSUME SocketsInv, UNCHANGED socketVars PROVE SocketsInv'
  <2>1. open' \subseteq open /\ UNCHANGED <<connections, rooms>> BY <1>2 DEF socketVars
  <2> QED BY <1>2, <2>1, DisconnectKeepsInv
<1> QED BY <1>1, <1>2, WhoseStep

\* Rooms and subscriptions name each other, and no user has more connected
\* sockets than allowed, whatever is joined, left, removed and disconnected.
THEOREM PoolRoomsMatch == ServicesSpec => []RoomsMatchSubscriptions
<1>1. ServicesInit => SocketsInv BY SocketsInit DEF ServicesInit
<1>2. SocketsInv /\ [ServicesNext]_servicesVars => SocketsInv' BY SocketsKept
<1>3. SocketsInv => RoomsMatchSubscriptions BY DEF SocketsInv, RoomsMatchSubscriptions
<1> QED BY <1>1, <1>2, <1>3, PTL DEF ServicesSpec

-----------------------------------------------------------------------------
(* Message ordering *)

Message == [id : MessageIds, number : Nat, came : Nat]

OrderingInv ==
    /\ Ord!TypeOK /\ Ord!AddedInOrder /\ taken <= added
    /\ \A i \in DOMAIN messages : taken <= messages[i].came /\ messages[i].came <= added

LEMMA NoMessage == <<>> \in Seq(Message) /\ DOMAIN <<>> = {}
OBVIOUS

LEMMA OrderingInit == Ord!Init => OrderingInv
<1> SUFFICES ASSUME Ord!Init PROVE OrderingInv OBVIOUS
<1>1. messages = <<>> /\ DOMAIN messages = {} BY NoMessage DEF Ord!Init
<1>2. Ord!TypeOK
  <2>1. messages \in Seq(Message) BY NoMessage DEF Ord!Init
  <2>2. 0 \in 0..MaxAdded BY OrderingAssumption
  <2>3. enabled \in BOOLEAN /\ exists \in BOOLEAN /\ processing \in BOOLEAN BY DEF Ord!Init
  <2> QED BY <2>1, <2>2, <2>3 DEF Ord!Init, Ord!TypeOK, Message
<1> QED BY <1>1, <1>2 DEF Ord!Init, OrderingInv, Ord!AddedInOrder

\* The number of a new message is greater than any other: it goes to the end.
LEMMA AddMessageKeepsInv ==
    ASSUME OrderingInv, NEW id \in MessageIds, Ord!AddMessage(id)
    PROVE  OrderingInv'
<1> DEFINE m == [id |-> id, number |-> sequence + 1, came |-> added + 1]
<1>1. /\ messages \in Seq(Message) /\ sequence \in Nat /\ added \in Nat /\ taken \in Nat
      /\ Len(messages) \in Nat /\ DOMAIN messages = 1..Len(messages)
  BY OrderingAssumption DEF OrderingInv, Ord!TypeOK, Message
<1>9. \A i \in 1..Len(messages) :
         messages[i].came \in Nat /\ messages[i].number \in Nat
         /\ messages[i].came <= added /\ taken <= messages[i].came /\ messages[i].number <= sequence
  <2>1. \A i \in 1..Len(messages) : messages[i] \in Message BY <1>1
  <2>2. \A i \in 1..Len(messages) :
           messages[i].came <= added /\ taken <= messages[i].came /\ messages[i].number <= sequence
    BY <1>1 DEF OrderingInv, Ord!AddedInOrder
  <2> QED BY <2>1, <2>2 DEF Message
<1>2. \A i \in 1..Len(messages) : ~(messages[i].number > m.number)
  BY <1>1, <1>9
<1>3. messages' = Append(messages, m)
  <2>1. Ord!SelectInSeq(messages, LAMBDA n : n.number > m.number) = 0
    BY <1>2 DEF Ord!SelectInSeq
  <2> QED BY <2>1 DEF Ord!AddMessage, Ord!NextNumber
<1>4. m \in Message BY <1>1 DEF Message
<1>5. m.number = sequence + 1 /\ m.came = added + 1 OBVIOUS
<1> HIDE DEF m
<1>6. /\ messages' \in Seq(Message) /\ Len(messages') = Len(messages) + 1
      /\ \A i \in 1..Len(messages) : messages'[i] = messages[i]
      /\ messages'[Len(messages) + 1] = m
      /\ DOMAIN messages' = 1..(Len(messages) + 1)
  BY <1>1, <1>3, <1>4, AppendProperties
<1>7. sequence' = sequence + 1 /\ added' = added + 1 /\ added < MaxAdded
      /\ exists' = TRUE /\ UNCHANGED <<enabled, processing, taken>>
  BY DEF Ord!AddMessage, Ord!NextNumber
<1>8. Ord!TypeOK' BY <1>1, <1>6, <1>7, OrderingAssumption DEF OrderingInv, Ord!TypeOK, Message
<1>10. \A i \in DOMAIN messages' :
         messages'[i].came <= added' /\ taken' <= messages'[i].came
         /\ messages'[i].number <= sequence'
  <2> TAKE i \in DOMAIN messages'
  <2>1. CASE i = Len(messages) + 1 BY <2>1, <1>1, <1>5, <1>6, <1>7 DEF OrderingInv
  <2>2. CASE i \in 1..Len(messages) BY <2>2, <1>1, <1>6, <1>7, <1>9
  <2> QED BY <1>1, <1>6, <2>1, <2>2
<1>11. \A i, j \in DOMAIN messages' : i < j =>
          messages'[i].came < messages'[j].came /\ messages'[i].number < messages'[j].number
  <2> SUFFICES ASSUME NEW i \in DOMAIN messages', NEW j \in DOMAIN messages', i < j
               PROVE  /\ messages'[i].came < messages'[j].came
                      /\ messages'[i].number < messages'[j].number OBVIOUS
  <2>1. i \in 1..Len(messages) BY <1>1, <1>6
  <2>2. CASE j = Len(messages) + 1 BY <2>1, <2>2, <1>1, <1>5, <1>6, <1>9
  <2>3. CASE j \in 1..Len(messages)
    BY <2>1, <2>3, <1>1, <1>6 DEF OrderingInv, Ord!AddedInOrder
  <2> QED BY <1>1, <1>6, <2>2, <2>3
<1>12. taken' <= added' BY <1>1, <1>7 DEF OrderingInv
<1> QED BY <1>8, <1>10, <1>11, <1>12 DEF OrderingInv, Ord!AddedInOrder

\* What is left keeps its order.
LEMMA RemoveMessageKeepsInv ==
    ASSUME OrderingInv, NEW id \in MessageIds, Ord!RemoveMessage(id)
    PROVE  OrderingInv'
<1> DEFINE k == Ord!SelectInSeq(messages, LAMBDA m : m.id = id)
           n == Len(messages)
<1>1. /\ messages \in Seq(Message) /\ sequence \in Nat /\ added \in Nat /\ taken \in Nat
      /\ n \in Nat /\ DOMAIN messages = 1..n
  BY OrderingAssumption DEF OrderingInv, Ord!TypeOK, Message
<1>2. UNCHANGED <<enabled, exists, processing, sequence, added, taken>> BY DEF Ord!RemoveMessage
<1>3. k \in 1..n
  <2> DEFINE I == {i \in 1..n : messages[i].id = id}
  <2>1. I # {} /\ I \in SUBSET Nat BY <1>1 DEF Ord!RemoveMessage
  <2>2. k = Ord!Min(I) BY <2>1 DEF Ord!SelectInSeq
  <2> HIDE DEF k
  <2>3. Ord!Min(I) \in I
    <3> HIDE DEF I
    <3>1. \E x \in I : \A y \in I : x <= y BY <2>1, LeastNatural
    <3> QED BY <3>1 DEF Ord!Min
  <2> QED BY <2>2, <2>3
<1>4. messages' = RemoveAt(messages, k) BY DEF Ord!RemoveMessage, Ord!RemoveAt, RemoveAt
<1> HIDE DEF k
<1>5. /\ messages' \in Seq(Message) /\ DOMAIN messages' = 1..(n - 1)
      /\ \A j \in 1..(n - 1) : messages'[j] = IF j < k THEN messages[j] ELSE messages[j + 1]
  <2>1. /\ RemoveAt(messages, k) \in Seq(Message) /\ Len(RemoveAt(messages, k)) = n - 1
        /\ \A j \in 1..(n - 1) :
              RemoveAt(messages, k)[j] = IF j < k THEN messages[j] ELSE messages[j + 1]
    BY <1>1, <1>3, RemoveAtLemma
  <2> QED BY <2>1, <1>4
<1> DEFINE old == [j \in 1..(n - 1) |-> IF j < k THEN j ELSE j + 1]
<1>6. /\ \A j \in 1..(n - 1) : old[j] \in 1..n /\ messages'[j] = messages[old[j]]
      /\ \A i, j \in 1..(n - 1) : i < j => old[i] < old[j]
  BY <1>1, <1>3, <1>5
<1> HIDE DEF old, n
<1>7. Ord!TypeOK' BY <1>2, <1>5 DEF OrderingInv, Ord!TypeOK, Message
<1>8. Ord!AddedInOrder'
  <2>1. \A i, j \in DOMAIN messages' : i < j =>
           messages'[i].came < messages'[j].came /\ messages'[i].number < messages'[j].number
    BY <1>1, <1>5, <1>6 DEF OrderingInv, Ord!AddedInOrder
  <2>2. \A i \in DOMAIN messages' : messages'[i].number <= sequence'
    BY <1>1, <1>2, <1>5, <1>6 DEF OrderingInv, Ord!AddedInOrder
  <2> QED BY <2>1, <2>2 DEF Ord!AddedInOrder
<1>9. \A i \in DOMAIN messages' : taken' <= messages'[i].came /\ messages'[i].came <= added'
  BY <1>1, <1>2, <1>5, <1>6 DEF OrderingInv
<1> QED BY <1>2, <1>7, <1>8, <1>9 DEF OrderingInv

\* The first message is the earliest of those that are left.
LEMMA GetNextKeepsInv ==
    ASSUME OrderingInv, Ord!GetNextMessage
    PROVE  OrderingInv' /\ taken' >= taken
<1>1. /\ messages \in Seq(Message) /\ messages # <<>> /\ taken' = Head(messages).came
      /\ UNCHANGED <<enabled, exists, processing, messages, sequence, added>>
  BY DEF Ord!GetNextMessage, OrderingInv, Ord!TypeOK, Message
<1>2. 1 \in DOMAIN messages /\ DOMAIN messages = 1..Len(messages) /\ Len(messages) \in Nat
      /\ Head(messages) = messages[1] /\ \A i \in DOMAIN messages : messages[i] \in Message
  BY <1>1
<1>3. /\ taken' = messages[1].came /\ taken' \in Nat /\ taken \in Nat /\ added \in Nat
      /\ taken <= taken' /\ taken' <= added
  BY <1>1, <1>2, OrderingAssumption DEF OrderingInv, Ord!TypeOK, Message
<1>4. \A i \in DOMAIN messages : taken' <= messages[i].came
  <2> TAKE i \in DOMAIN messages
  <2>1. i = 1 \/ 1 < i BY <1>2
  <2>2. messages[i].came \in Nat BY <1>2 DEF Message
  <2> QED BY <1>2, <1>3, <2>1, <2>2 DEF OrderingInv, Ord!AddedInOrder
<1>5. Ord!TypeOK' BY <1>1, <1>3, OrderingAssumption DEF OrderingInv, Ord!TypeOK
<1> QED BY <1>1, <1>3, <1>4, <1>5 DEF OrderingInv, Ord!AddedInOrder

LEMMA OtherOrderingKeepsInv ==
    ASSUME OrderingInv,
           \/ Ord!MarkPartitionProcessing \/ Ord!ClearPartition \/ Ord!CleanupEmptyPartitions
           \/ Ord!UpdateConfig \/ UNCHANGED orderingVars
    PROVE  OrderingInv' /\ taken' = taken
<1>1. CASE Ord!MarkPartitionProcessing
  BY <1>1 DEF Ord!MarkPartitionProcessing, OrderingInv, Ord!TypeOK, Ord!AddedInOrder
<1>2. CASE Ord!ClearPartition
  BY <1>2 DEF Ord!ClearPartition, OrderingInv, Ord!TypeOK, Ord!AddedInOrder
<1>3. CASE Ord!CleanupEmptyPartitions
  <2>1. messages' = <<>> /\ DOMAIN messages' = {} BY <1>3, NoMessage DEF Ord!CleanupEmptyPartitions
  <2>2. Ord!TypeOK' BY <1>3 DEF Ord!CleanupEmptyPartitions, OrderingInv, Ord!TypeOK
  <2> QED BY <1>3, <2>1, <2>2 DEF Ord!CleanupEmptyPartitions, OrderingInv, Ord!AddedInOrder
<1>4. CASE UNCHANGED orderingVars
  BY <1>4 DEF orderingVars, OrderingInv, Ord!TypeOK, Ord!AddedInOrder
<1>5. CASE Ord!UpdateConfig
  BY <1>5 DEF Ord!UpdateConfig, OrderingInv, Ord!TypeOK, Ord!AddedInOrder
<1> QED BY <1>1, <1>2, <1>3, <1>4, <1>5

LEMMA OrderingKept ==
    OrderingInv /\ [ServicesNext]_servicesVars => OrderingInv' /\ taken' >= taken
<1>1. ASSUME OrderingInv PROVE taken \in Int /\ taken >= taken BY <1>1 DEF OrderingInv, Ord!TypeOK
<1>2. ASSUME OrderingInv, Ord!Next PROVE OrderingInv' /\ taken' >= taken
  <2>1. ASSUME NEW id \in MessageIds, Ord!AddMessage(id) \/ Ord!RemoveMessage(id)
        PROVE  OrderingInv' /\ taken' = taken
    BY <1>2, <2>1, AddMessageKeepsInv, RemoveMessageKeepsInv DEF Ord!AddMessage, Ord!RemoveMessage
  <2> QED BY <1>1, <1>2, <2>1, GetNextKeepsInv, OtherOrderingKeepsInv DEF Ord!Next
<1>3. ASSUME OrderingInv, UNCHANGED orderingVars PROVE OrderingInv' /\ taken' >= taken
  BY <1>1, <1>3, OtherOrderingKeepsInv
<1> QED BY <1>2, <1>3, WhoseStep

\* The messages of a partition stay in the order in which they were added,
\* whatever is handed out, removed, cleared and deleted in between.
THEOREM MessagesInOrder == ServicesSpec => []AddedInOrder
<1>1. ServicesInit => OrderingInv BY OrderingInit DEF ServicesInit
<1>2. OrderingInv /\ [ServicesNext]_servicesVars => OrderingInv' BY OrderingKept
<1>3. OrderingInv => AddedInOrder BY DEF OrderingInv, AddedInOrder
<1> QED BY <1>1, <1>2, <1>3, PTL DEF ServicesSpec

\* A message is never handed out after a later one.
THEOREM MessagesHandedOutInOrder == ServicesSpec => HandedOutInOrder
<1>1. ServicesInit => OrderingInv BY OrderingInit DEF ServicesInit
<1>2. OrderingInv /\ [ServicesNext]_servicesVars => OrderingInv' BY OrderingKept
<1>3. OrderingInv /\ [ServicesNext]_servicesVars => [taken' >= taken]_(Ord!vars)
  BY OrderingKept
<1>4. ServicesSpec => [][taken' >= taken]_(Ord!vars) BY <1>1, <1>2, <1>3, PTL DEF ServicesSpec
<1> QED BY <1>4 DEF HandedOutInOrder, Ord!HandedOutInOrder
-----------------------------------------------------------------------------
(* The saga *)

\* What the saga has seen of an action agrees with what the action does; once
\* the saga compensates, only work it has given up goes on.
SeenIsRight ==
    /\ \A s \in Sga!Steps :
          /\ seen[s] = "nothing" => work[s] \in {"idle", "running"}
          /\ seen[s] = "timeout" => work[s] # "idle"
          /\ seen[s] \in {"done", "failed"} => work[s] = seen[s]
          /\ phase # "running" /\ work[s] = "running" => seen[s] = "timeout"
    /\ phase = "succeeded" => \A s \in Sga!Steps : work[s] = "done"

\* How far each mode is: all at once, or the steps before `at' done and those
\* after it not begun.
HowFar ==
    /\ mode = "parallel" /\ phase = "running" =>
          (\A s \in Sga!Steps : work[s] = "idle") \/ (\A s \in Sga!Steps : work[s] # "idle")
    /\ mode = "sequential" /\ phase = "running" =>
          at \in Sga!Steps /\ \A s \in Sga!Steps : /\ s < at => seen[s] = "done"
                                                   /\ s > at => work[s] = "idle"
    /\ mode = "sequential" /\ phase = "compensating" =>
          \A s \in Sga!Steps : s <= at => seen[s] = "done"

\* Which steps have been compensated, and in which order.
UndoneSoFar ==
    /\ phase \in {"running", "succeeded"} => begun = <<>>
    /\ phase = "failed" => at = 0
    /\ phase \in {"compensating", "failed"} =>
          \A s \in Sga!Steps : s > at /\ seen[s] = "done" /\ s \in compensable =>
              undo[s] \in {"done", "failed", "timeout"}
    /\ \A i \in DOMAIN begun : begun[i] >= at /\ undo[begun[i]] # "idle"
    /\ \A i, j \in DOMAIN begun : i < j => begun[i] > begun[j]
    /\ mode = "sequential" => \A i \in DOMAIN begun : work[begun[i]] = "done"

SagaInv == Sga!TypeOK /\ SeenIsRight /\ HowFar /\ UndoneSoFar

LEMMA StepNumbers == Sga!Steps = 1..StepCount /\ StepCount \in Nat \ {0}
BY SagaAssumption DEF Sga!Steps

LEMMA NothingBegun == \A T : <<>> \in Seq(T) /\ DOMAIN <<>> = {}
OBVIOUS

LEMMA SagaInit == Sga!Init => SagaInv
<1> SUFFICES ASSUME Sga!Init PROVE SagaInv OBVIOUS
<1>1. Sga!TypeOK
  <2>1. mode \in {"sequential", "parallel"} /\ compensable \subseteq Sga!Steps
    BY SagaAssumption, StepNumbers DEF Sga!Init
  <2>2. at \in 0..StepCount BY StepNumbers DEF Sga!Init
  <2>3. undone \in Seq(Sga!Steps) /\ begun \in Seq(Sga!Steps) BY NothingBegun DEF Sga!Init
  <2> QED BY <2>1, <2>2, <2>3 DEF Sga!Init, Sga!TypeOK, Sga!Effect
<1>2. SeenIsRight BY DEF Sga!Init, SeenIsRight
<1>3. HowFar BY StepNumbers DEF Sga!Init, HowFar
<1>4. UndoneSoFar BY NothingBegun DEF Sga!Init, UndoneSoFar
<1> QED BY <1>1, <1>2, <1>3, <1>4 DEF SagaInv

LEMMA StartWorkKeepsInv == SagaInv /\ Sga!StartWork => SagaInv'
<1> SUFFICES ASSUME SagaInv, Sga!StartWork PROVE SagaInv' OBVIOUS
<1> DEFINE starting == IF mode = "sequential" THEN {at} \cap Sga!Steps ELSE Sga!Steps
<1>1. /\ phase = "running" /\ mode \in {"sequential", "parallel"}
      /\ \E s \in starting : work[s] = "idle"
      /\ work' = [s \in Sga!Steps |-> IF s \in starting THEN "running" ELSE work[s]]
      /\ UNCHANGED <<mode, compensable, phase, at, seen, undo, undone, begun>>
  BY DEF Sga!StartWork, SagaInv, Sga!TypeOK
<1>2. \A s \in starting : s \in Sga!Steps /\ work[s] = "idle"
  <2>1. CASE mode = "sequential" BY <1>1, <2>1
  <2>2. CASE mode = "parallel" BY <1>1, <2>2 DEF SagaInv, HowFar
  <2> QED BY <1>1, <2>1, <2>2
<1>3. /\ \A s \in starting : work'[s] = "running" /\ seen[s] = "nothing"
      /\ \A s \in Sga!Steps \ starting : work'[s] = work[s]
  <2> HIDE DEF starting
  <2> QED BY <1>1, <1>2 DEF SagaInv, Sga!TypeOK, SeenIsRight
<1>4. Sga!TypeOK'
  <2> HIDE DEF starting
  <2>1. work' \in [Sga!Steps -> Sga!Effect] BY <1>1 DEF SagaInv, Sga!TypeOK, Sga!Effect
  <2> QED BY <1>1, <2>1 DEF SagaInv, Sga!TypeOK
<1>5. SeenIsRight'
  <2> HIDE DEF starting
  <2> QED BY <1>1, <1>3 DEF SagaInv, SeenIsRight
<1>6. HowFar'
  <2>1. CASE mode = "parallel" BY <1>1, <1>3, <2>1 DEF HowFar
  <2>2. CASE mode = "sequential" BY <1>1, <1>3, <2>2, StepNumbers DEF SagaInv, HowFar
  <2> QED BY <1>1, <2>1, <2>2
<1>7. begun = <<>> /\ DOMAIN begun = {} BY <1>1, NothingBegun DEF SagaInv, UndoneSoFar
<1>8. UndoneSoFar' BY <1>1, <1>7 DEF UndoneSoFar
<1> QED BY <1>4, <1>5, <1>6, <1>8 DEF SagaInv

LEMMA EndWorkKeepsInv ==
    ASSUME SagaInv, NEW s \in Sga!Steps, Sga!EndWork(s) PROVE SagaInv'
<1>1. PICK how \in {"done", "failed"} :
         /\ work' = [work EXCEPT ![s] = how]
         /\ seen' = [seen EXCEPT ![s] = IF @ = "timeout" THEN @ ELSE how]
  BY DEF Sga!EndWork
<1>2. work[s] = "running" /\ UNCHANGED <<mode, compensable, phase, at, undo, undone, begun>>
  BY DEF Sga!EndWork
<1>3. /\ work' \in [Sga!Steps -> Sga!Effect]
      /\ seen' \in [Sga!Steps -> {"nothing", "done", "failed", "timeout"}]
  BY <1>1 DEF SagaInv, Sga!TypeOK, Sga!Effect
<1>4. /\ work'[s] = how /\ seen'[s] = (IF seen[s] = "timeout" THEN "timeout" ELSE how)
      /\ \A t \in Sga!Steps \ {s} : work'[t] = work[t] /\ seen'[t] = seen[t]
  BY <1>1 DEF SagaInv, Sga!TypeOK
<1>5. Sga!TypeOK' BY <1>2, <1>3 DEF SagaInv, Sga!TypeOK
<1>6. SeenIsRight' BY <1>2, <1>4 DEF SagaInv, SeenIsRight
<1>7. \A t \in Sga!Steps : /\ work'[t] = "idle" <=> work[t] = "idle"
                           /\ seen[t] = "done" => seen'[t] = "done"
                           /\ work[t] = "done" => work'[t] = "done"
                           /\ phase # "running" => seen'[t] = seen[t]
  BY <1>2, <1>4 DEF SagaInv, SeenIsRight
<1>8. HowFar' BY <1>2, <1>7 DEF SagaInv, HowFar
<1>9. \A i \in DOMAIN begun : begun[i] \in Sga!Steps BY DEF SagaInv, Sga!TypeOK
<1>10. UndoneSoFar' BY <1>2, <1>7, <1>9 DEF SagaInv, UndoneSoFar
<1> QED BY <1>5, <1>6, <1>8, <1>10 DEF SagaInv

LEMMA TimeOutKeepsInv ==
    ASSUME SagaInv, NEW s \in Sga!Steps, Sga!TimeOut(s) PROVE SagaInv'
<1>1. /\ work[s] = "running" /\ seen[s] = "nothing" /\ seen' = [seen EXCEPT ![s] = "timeout"]
      /\ UNCHANGED <<mode, compensable, phase, at, work, undo, undone, begun>>
  BY DEF Sga!TimeOut
<1>2. /\ seen'[s] = "timeout" /\ \A t \in Sga!Steps \ {s} : seen'[t] = seen[t]
      /\ seen' \in [Sga!Steps -> {"nothing", "done", "failed", "timeout"}]
  BY <1>1 DEF SagaInv, Sga!TypeOK
<1>3. \A t \in Sga!Steps : seen[t] = "done" <=> seen'[t] = "done" BY <1>1, <1>2
<1>4. Sga!TypeOK' BY <1>1, <1>2 DEF SagaInv, Sga!TypeOK
<1>5. SeenIsRight' BY <1>1, <1>2 DEF SagaInv, SeenIsRight
<1>6. HowFar' BY <1>1, <1>3 DEF SagaInv, HowFar
<1>7. UndoneSoFar' BY <1>1, <1>3 DEF SagaInv, UndoneSoFar
<1> QED BY <1>4, <1>5, <1>6, <1>7 DEF SagaInv

\* The first failure ends the loop, the last success the saga.
LEMMA NextStepKeepsInv ==
    ASSUME SagaInv, Sga!NextStep \/ Sga!AllSettled PROVE SagaInv'
<1>1. /\ phase = "running" /\ UNCHANGED <<mode, compensable, work, seen, undo, undone, begun>>
      /\ phase' \in {"running", "compensating", "succeeded"}
  BY DEF Sga!NextStep, Sga!AllSettled
<1>2. /\ at \in 0..StepCount /\ mode \in {"sequential", "parallel"}
      /\ \A s \in Sga!Steps : seen[s] \in {"nothing", "done", "failed", "timeout"}
      /\ mode = "sequential" => at \in Sga!Steps
  BY <1>1 DEF SagaInv, Sga!TypeOK, HowFar
<1>3. begun = <<>> /\ DOMAIN begun = {} BY <1>1, NothingBegun DEF SagaInv, UndoneSoFar
<1>4. CASE Sga!NextStep
  <2>1. mode = "sequential" /\ at \in 1..StepCount /\ seen[at] # "nothing"
    BY <1>2, <1>4, StepNumbers DEF Sga!NextStep
  <2>2. \/ seen[at] = "done" /\ at = StepCount /\ phase' = "succeeded" /\ at' = at
        \/ seen[at] = "done" /\ at # StepCount /\ phase' = "running" /\ at' = at + 1
        \/ seen[at] # "done" /\ phase' = "compensating" /\ at' = at - 1
    BY <1>1, <1>4 DEF Sga!NextStep
  <2>3. \A s \in Sga!Steps : s < at => seen[s] = "done"
    BY <1>1, <2>1 DEF SagaInv, HowFar
  <2>4. \A s \in Sga!Steps : s > at => work[s] = "idle" /\ seen[s] = "nothing"
    BY <1>1, <1>2, <2>1 DEF SagaInv, HowFar, SeenIsRight
  <2>5. at' \in 0..StepCount BY <2>1, <2>2, StepNumbers
  <2>6. Sga!TypeOK' BY <1>1, <2>5 DEF SagaInv, Sga!TypeOK
  <2>7. \A s \in Sga!Steps : s # at => work[s] # "running"
    <3> TAKE s \in Sga!Steps
    <3>1. s < at \/ s > at \/ s = at BY <2>1, StepNumbers
    <3> QED BY <2>3, <2>4, <3>1 DEF SagaInv, SeenIsRight
  <2>8. SeenIsRight'
    <3>1. \A s \in Sga!Steps : work[s] = "running" => s = at /\ seen[at] \in {"nothing", "timeout"}
      BY <2>7 , <1>2 DEF SagaInv, SeenIsRight
    <3>2. phase' = "succeeded" => \A s \in Sga!Steps : work[s] = "done"
      <4> SUFFICES ASSUME phase' = "succeeded", NEW s \in Sga!Steps PROVE work[s] = "done" OBVIOUS
      <4>1. s < at \/ s = at BY <2>1, <2>2, StepNumbers
      <4> QED BY <2>2, <2>3, <4>1 DEF SagaInv, SeenIsRight
    <3> QED BY <1>1, <2>1, <3>1, <3>2 DEF SagaInv, SeenIsRight
  <2>9. HowFar' BY <1>1, <2>1, <2>2, <2>3, <2>4, StepNumbers DEF HowFar
  <2>10. \A s \in Sga!Steps : phase' = "compensating" /\ s > at' => seen[s] # "done"
    BY <2>1, <2>2, <2>4, StepNumbers
  <2>11. UndoneSoFar' BY <1>1, <1>3, <2>10 DEF UndoneSoFar
  <2> QED BY <2>6, <2>8, <2>9, <2>11 DEF SagaInv
<1>5. CASE Sga!AllSettled
  <2>1. /\ mode = "parallel" /\ \A s \in Sga!Steps : seen[s] # "nothing"
        /\ \/ phase' = "succeeded" /\ at' = at /\ \A s \in Sga!Steps : seen[s] = "done"
           \/ phase' = "compensating" /\ at' = StepCount
    BY <1>1, <1>5 DEF Sga!AllSettled
  <2>2. Sga!TypeOK' BY <1>1, <1>2, <2>1, StepNumbers DEF SagaInv, Sga!TypeOK
  <2>3. SeenIsRight' BY <1>1, <1>2, <2>1 DEF SagaInv, SeenIsRight
  <2>4. HowFar' BY <1>1, <2>1 DEF HowFar
  <2>5. \A s \in Sga!Steps : ~(s > StepCount) BY StepNumbers
  <2>6. UndoneSoFar' BY <1>1, <1>3, <2>1, <2>5 DEF UndoneSoFar
  <2> QED BY <2>2, <2>3, <2>4, <2>6 DEF SagaInv
<1> QED BY <1>4, <1>5

\* A compensation that begins comes after those of all later steps.
LEMMA StartUndoKeepsInv == SagaInv /\ Sga!StartUndo => SagaInv'
<1> SUFFICES ASSUME SagaInv, Sga!StartUndo PROVE SagaInv' OBVIOUS
<1>1. /\ phase = "compensating" /\ at \in Sga!Steps /\ at \in 1..StepCount /\ undo[at] = "idle"
      /\ UNCHANGED <<mode, compensable, phase, work, seen, undone>>
  BY StepNumbers DEF Sga!StartUndo, SagaInv, Sga!TypeOK
<1>2. SeenIsRight' BY <1>1 DEF SagaInv, SeenIsRight
<1>3. CASE at \in compensable
  <2>1. undo' = [undo EXCEPT ![at] = "running"] /\ begun' = Append(begun, at) /\ at' = at
    BY <1>3 DEF Sga!StartUndo
  <2>2. /\ undo' \in [Sga!Steps -> Sga!Effect \cup {"timeout"}]
        /\ undo'[at] = "running" /\ \A s \in Sga!Steps \ {at} : undo'[s] = undo[s]
    BY <1>1, <2>1 DEF SagaInv, Sga!TypeOK, Sga!Effect
  <2>3. /\ begun \in Seq(Sga!Steps) /\ Len(begun) \in Nat /\ DOMAIN begun = 1..Len(begun)
        /\ \A i \in DOMAIN begun : begun[i] \in Sga!Steps
    BY DEF SagaInv, Sga!TypeOK
  <2>4. /\ begun' \in Seq(Sga!Steps) /\ DOMAIN begun' = 1..(Len(begun) + 1)
        /\ begun'[Len(begun) + 1] = at
        /\ \A i \in 1..Len(begun) : begun'[i] = begun[i]
    BY <1>1, <2>1, <2>3, AppendProperties
  <2>5. Sga!TypeOK' BY <1>1, <2>1, <2>2, <2>4 DEF SagaInv, Sga!TypeOK
  <2>6. HowFar' BY <1>1, <2>1 DEF SagaInv, HowFar
  <2>7. \A i \in 1..Len(begun) : begun[i] > at /\ begun[i] \in Sga!Steps
    <3> TAKE i \in 1..Len(begun)
    <3>1. begun[i] >= at /\ undo[begun[i]] # "idle" /\ begun[i] \in Sga!Steps
      BY <2>3 DEF SagaInv, UndoneSoFar
    <3>2. begun[i] # at BY <1>1, <3>1
    <3> QED BY <1>1, <3>1, <3>2, StepNumbers
  <2>8. \A i \in DOMAIN begun' : begun'[i] >= at' /\ undo'[begun'[i]] # "idle"
    <3> TAKE i \in DOMAIN begun'
    <3>1. CASE i = Len(begun) + 1 BY <1>1, <2>1, <2>2, <2>4, <3>1
    <3>2. CASE i \in 1..Len(begun)
      <4>1. begun'[i] = begun[i] /\ begun[i] > at /\ begun[i] \in Sga!Steps BY <2>4, <2>7, <3>2
      <4>2. undo[begun[i]] # "idle" BY <2>3, <3>2 DEF SagaInv, UndoneSoFar
      <4> QED BY <1>1, <2>1, <2>2, <4>1, <4>2, StepNumbers
    <3> QED BY <2>3, <2>4, <3>1, <3>2
  <2>9. \A i, j \in DOMAIN begun' : i < j => begun'[i] > begun'[j]
    <3> SUFFICES ASSUME NEW i \in DOMAIN begun', NEW j \in DOMAIN begun', i < j
                 PROVE  begun'[i] > begun'[j] OBVIOUS
    <3>1. i \in 1..Len(begun) BY <2>3, <2>4
    <3>2. CASE j = Len(begun) + 1 BY <2>4, <2>7, <3>1, <3>2
    <3>3. CASE j \in 1..Len(begun) BY <2>3, <2>4, <3>1, <3>3 DEF SagaInv, UndoneSoFar
    <3> QED BY <2>3, <2>4, <3>2, <3>3
  <2>10. mode = "sequential" => \A i \in DOMAIN begun' : work'[begun'[i]] = "done"
    <3> SUFFICES ASSUME mode = "sequential", NEW i \in DOMAIN begun'
                 PROVE  work[begun'[i]] = "done" BY <1>1
    <3>1. CASE i = Len(begun) + 1
      <4>1. seen[at] = "done" BY <1>1, StepNumbers DEF SagaInv, HowFar
      <4> QED BY <1>1, <2>4, <3>1, <4>1 DEF SagaInv, SeenIsRight
    <3>2. CASE i \in 1..Len(begun) BY <2>3, <2>4, <3>2 DEF SagaInv, UndoneSoFar
    <3> QED BY <2>3, <2>4, <3>1, <3>2
  <2>11. \A s \in Sga!Steps : s > at => undo'[s] = undo[s] BY <1>1, <2>2
  <2>12. UndoneSoFar' BY <1>1, <2>1, <2>8, <2>9, <2>10, <2>11 DEF SagaInv, UndoneSoFar
  <2> QED BY <1>2, <2>5, <2>6, <2>12 DEF SagaInv
<1>4. CASE at \notin compensable
  <2>1. at' = at - 1 /\ UNCHANGED <<undo, begun>> BY <1>4 DEF Sga!StartUndo
  <2>2. at' \in 0..StepCount BY <1>1, <2>1, StepNumbers
  <2>3. Sga!TypeOK' BY <1>1, <2>1, <2>2 DEF SagaInv, Sga!TypeOK
  <2>4. HowFar' BY <1>1, <2>1, StepNumbers DEF SagaInv, HowFar
  <2>5. \A s \in Sga!Steps : s > at' => s > at \/ s = at BY <1>1, <2>1, StepNumbers
  <2>6. \A i \in DOMAIN begun : begun[i] \in Sga!Steps /\ begun[i] >= at /\ begun[i] >= at'
    <3> TAKE i \in DOMAIN begun
    <3>1. begun[i] \in Sga!Steps BY DEF SagaInv, Sga!TypeOK
    <3>2. begun[i] >= at BY DEF SagaInv, UndoneSoFar
    <3> QED BY <1>1, <2>1, <3>1, <3>2, StepNumbers
  <2>7. UndoneSoFar' BY <1>1, <1>4, <2>1, <2>5, <2>6 DEF SagaInv, UndoneSoFar
  <2> QED BY <1>2, <2>3, <2>4, <2>7 DEF SagaInv
<1> QED BY <1>3, <1>4

LEMMA EndUndoKeepsInv == SagaInv /\ Sga!EndUndo => SagaInv'
<1> SUFFICES ASSUME SagaInv, Sga!EndUndo PROVE SagaInv' OBVIOUS
<1>1. /\ phase = "compensating" /\ at \in Sga!Steps /\ at \in 1..StepCount
      /\ at' = at - 1
      /\ UNCHANGED <<mode, compensable, phase, work, seen, begun>>
  BY StepNumbers DEF Sga!EndUndo, SagaInv, Sga!TypeOK
<1>2. /\ \E how \in {"done", "failed", "timeout"} : undo' = [undo EXCEPT ![at] = how]
      /\ undone' = undone \/ undone' = Append(undone, at)
  BY DEF Sga!EndUndo
<1>3. /\ undo' \in [Sga!Steps -> Sga!Effect \cup {"timeout"}]
      /\ undo'[at] \in {"done", "failed", "timeout"}
      /\ \A s \in Sga!Steps \ {at} : undo'[s] = undo[s]
  BY <1>1, <1>2 DEF SagaInv, Sga!TypeOK, Sga!Effect
<1>4. undone' \in Seq(Sga!Steps)
  <2>1. undone \in Seq(Sga!Steps) BY DEF SagaInv, Sga!TypeOK
  <2> QED BY <1>1, <1>2, <2>1, AppendProperties
<1>5. at' \in 0..StepCount BY <1>1, StepNumbers
<1>6. Sga!TypeOK' BY <1>1, <1>3, <1>4, <1>5 DEF SagaInv, Sga!TypeOK
<1>7. SeenIsRight' BY <1>1 DEF SagaInv, SeenIsRight
<1>8. HowFar' BY <1>1, StepNumbers DEF SagaInv, HowFar
<1>9. \A s \in Sga!Steps : s > at' => s > at \/ s = at BY <1>1, StepNumbers
<1>10. \A i \in DOMAIN begun : begun[i] \in Sga!Steps /\ begun[i] >= at' /\ undo'[begun[i]] # "idle"
  <2> TAKE i \in DOMAIN begun
  <2>1. begun[i] \in Sga!Steps BY DEF SagaInv, Sga!TypeOK
  <2>2. begun[i] >= at /\ undo[begun[i]] # "idle" BY DEF SagaInv, UndoneSoFar
  <2>3. begun[i] >= at' BY <1>1, <2>1, <2>2, StepNumbers
  <2> QED BY <1>3, <2>1, <2>2, <2>3
<1>11. UndoneSoFar' BY <1>1, <1>3, <1>9, <1>10 DEF SagaInv, UndoneSoFar
<1> QED BY <1>6, <1>7, <1>8, <1>11 DEF SagaInv

LEMMA OtherSagaKeepsInv ==
    ASSUME SagaInv, Sga!Return \/ (\E s \in Sga!Steps : Sga!LateUndo(s)) \/ UNCHANGED sagaVars
    PROVE  SagaInv'
<1>1. CASE Sga!Return
  <2>1. /\ phase = "compensating" /\ phase' = "failed" /\ at = 0 /\ at' = 0
        /\ UNCHANGED <<mode, compensable, work, seen, undo, undone, begun>>
    BY <1>1 DEF Sga!Return
  <2>2. Sga!TypeOK' BY <2>1 DEF SagaInv, Sga!TypeOK
  <2>3. SeenIsRight' BY <2>1 DEF SagaInv, SeenIsRight
  <2>4. HowFar' BY <2>1 DEF HowFar
  <2>5. UndoneSoFar' BY <2>1 DEF SagaInv, UndoneSoFar
  <2> QED BY <2>2, <2>3, <2>4, <2>5 DEF SagaInv
<1>2. ASSUME NEW s \in Sga!Steps, Sga!LateUndo(s) PROVE SagaInv'
  <2>1. /\ undo[s] = "timeout"
        /\ \E how \in {"done", "failed"} : undo' = [undo EXCEPT ![s] = how]
        /\ UNCHANGED <<mode, compensable, phase, at, work, seen, undone, begun>>
    BY <1>2 DEF Sga!LateUndo
  <2>2. /\ undo' \in [Sga!Steps -> Sga!Effect \cup {"timeout"}]
        /\ undo'[s] \in {"done", "failed"} /\ \A t \in Sga!Steps \ {s} : undo'[t] = undo[t]
    BY <2>1 DEF SagaInv, Sga!TypeOK, Sga!Effect
  <2>3. Sga!TypeOK' BY <2>1, <2>2 DEF SagaInv, Sga!TypeOK
  <2>4. SeenIsRight' BY <2>1 DEF SagaInv, SeenIsRight
  <2>5. HowFar' BY <2>1 DEF SagaInv, HowFar
  <2>6. \A i \in DOMAIN begun : begun[i] \in Sga!Steps BY DEF SagaInv, Sga!TypeOK
  <2>7. \A t \in Sga!Steps :
           /\ undo[t] \in {"done", "failed", "timeout"} => undo'[t] \in {"done", "failed", "timeout"}
           /\ undo[t] # "idle" => undo'[t] # "idle"
    BY <2>2
  <2>8. UndoneSoFar' BY <2>1, <2>6, <2>7 DEF SagaInv, UndoneSoFar
  <2> QED BY <2>3, <2>4, <2>5, <2>8 DEF SagaInv
<1>3. CASE UNCHANGED sagaVars
  BY <1>3 DEF sagaVars, SagaInv, Sga!TypeOK, SeenIsRight, HowFar, UndoneSoFar
<1> QED BY <1>1, <1>2, <1>3

LEMMA SagaKept == SagaInv /\ [ServicesNext]_servicesVars => SagaInv'
<1>1. ASSUME SagaInv, Sga!Next PROVE SagaInv'
  BY <1>1, StartWorkKeepsInv, EndWorkKeepsInv, TimeOutKeepsInv, NextStepKeepsInv,
     StartUndoKeepsInv, EndUndoKeepsInv, OtherSagaKeepsInv DEF Sga!Next
<1> QED BY <1>1, OtherSagaKeepsInv, WhoseStep

\* A saga that fails has undone, or tried to undo, every completed step, in
\* reverse order, whatever times out and ends late; one that succeeds has done
\* every step and undone none.
THEOREM SagaIsUndone == ServicesSpec => []FailedSagaIsUndone
<1>1. ServicesInit => SagaInv BY SagaInit DEF ServicesInit
<1>2. SagaInv /\ [ServicesNext]_servicesVars => SagaInv' BY SagaKept
<1>3. SagaInv => FailedSagaIsUndone
  <2> SUFFICES ASSUME SagaInv PROVE FailedSagaIsUndone OBVIOUS
  <2>1. phase = "failed" => \A s \in Sga!Steps :
           seen[s] = "done" => s \notin compensable \/ undo[s] \in {"done", "failed", "timeout"}
    BY StepNumbers DEF SagaInv, UndoneSoFar
  <2> QED BY <2>1 DEF SagaInv, SeenIsRight, UndoneSoFar, FailedSagaIsUndone, Sga!FailedSagaIsUndone
<1> QED BY <1>1, <1>2, <1>3, PTL DEF ServicesSpec
-----------------------------------------------------------------------------
(* The search for a route *)

\* The assets a swap from one of S can end in, and the body of the table of
\* ends, for tables up to n.
Onward(S)       == {b \in Assets : \E a \in S : Prc!HasPool(a, b)}
EndsTable(g, n) == g = [k \in 0..n |-> IF k = 0 THEN {from} ELSE Onward(g[k - 1])]

TableTo(g, n)   == g = [k \in 0..n |-> g[k]]

LEMMA EndsTableReads ==
    ASSUME NEW n \in Nat, NEW g
    PROVE  EndsTable(g, n) <=> /\ TableTo(g, n) /\ g[0] = {from}
                               /\ \A k \in 1..n : g[k] = Onward(g[k - 1])
<1>1. ASSUME EndsTable(g, n)
      PROVE  /\ TableTo(g, n) /\ g[0] = {from}
             /\ \A k \in 1..n : g[k] = Onward(g[k - 1])
  <2>1. g = [k \in 0..n |-> IF k = 0 THEN {from} ELSE Onward(g[k - 1])] BY <1>1 DEF EndsTable
  <2>2. TableTo(g, n) BY <2>1 DEF TableTo
  <2>3. g[0] = {from} BY <2>1
  <2>4. \A k \in 1..n : g[k] = Onward(g[k - 1])
    <3> TAKE k \in 1..n
    <3>1. k \in 0..n /\ k # 0 OBVIOUS
    <3> QED BY <2>1, <3>1
  <2> QED BY <2>2, <2>3, <2>4
<1>2. ASSUME TableTo(g, n), g[0] = {from}, \A k \in 1..n : g[k] = Onward(g[k - 1])
      PROVE  EndsTable(g, n)
  <2>1. \A k \in 0..n : g[k] = IF k = 0 THEN {from} ELSE Onward(g[k - 1])
    <3> TAKE k \in 0..n
    <3>1. CASE k = 0 BY <1>2, <3>1
    <3>2. CASE k \in 1..n
      <4>1. k # 0 BY <3>2
      <4>2. g[k] = Onward(g[k - 1]) BY <1>2, <3>2
      <4> QED BY <4>1, <4>2
    <3> QED BY <3>1, <3>2
  <2> QED BY <1>2, <2>1 DEF EndsTable, TableTo
<1> QED BY <1>1, <1>2

LEMMA EndsTableExists == \A n \in Nat : \E g : EndsTable(g, n)
<1> DEFINE bad == {n \in Nat : ~ \E g : EndsTable(g, n)}
<1> SUFFICES ASSUME bad # {} PROVE FALSE OBVIOUS
<1>1. PICK n \in bad : \A m \in bad : n <= m
  <2> HIDE DEF bad
  <2>1. bad \subseteq Nat BY DEF bad
  <2> QED BY <2>1, LeastNatural
<1>2. CASE n = 0
  <2> DEFINE g == [k \in 0..0 |-> {from}]
  <2>1. TableTo(g, 0) /\ g[0] = {from} BY DEF TableTo
  <2>2. EndsTable(g, 0)
    <3> HIDE DEF g
    <3>1. 0 \in Nat /\ 1..0 = {} OBVIOUS
    <3> QED BY <2>1, <3>1, EndsTableReads
  <2> QED BY <1>1, <1>2, <2>2
<1>3. CASE n # 0
  <2>1. n - 1 \in Nat /\ n \in Nat /\ n - 1 \notin bad BY <1>1, <1>3
  <2>2. PICK h : EndsTable(h, n - 1) BY <2>1
  <2>3. h[0] = {from} /\ \A k \in 1..n - 1 : h[k] = Onward(h[k - 1])
    BY <2>1, <2>2, EndsTableReads
  <2> DEFINE g == [k \in 0..n |-> IF k = n THEN Onward(h[k - 1]) ELSE h[k]]
  <2>4. TableTo(g, n) /\ \A k \in 0..n - 1 : g[k] = h[k] BY <2>1 DEF TableTo
  <2>5. g[n] = Onward(h[n - 1]) /\ g[n - 1] = h[n - 1] BY <2>1, <2>4
  <2>6. g[0] = {from} BY <2>1, <2>3, <2>4, <1>3
  <2> HIDE DEF g
  <2>7. \A k \in 1..n : g[k] = Onward(g[k - 1])
    <3> TAKE k \in 1..n
    <3>1. CASE k = n BY <3>1, <2>5
    <3>2. CASE k # n
      <4>1. k \in 0..n - 1 /\ k \in 1..n - 1 /\ k - 1 \in 0..n - 1 BY <2>1, <3>2
      <4> QED BY <4>1, <2>3, <2>4
    <3> QED BY <3>1, <3>2
  <2>8. EndsTable(g, n) BY <2>1, <2>4, <2>6, <2>7, EndsTableReads
  <2> QED BY <1>1, <2>8
<1> QED BY <1>2, <1>3

EndsAre ==
    /\ TableTo(Prc!Ends, MaxHops) /\ Prc!Ends[0] = {from}
    /\ \A n \in 1..MaxHops : Prc!Ends[n] = Onward(Prc!Ends[n - 1])

LEMMA EndsHold == EndsAre
<1>0. MaxHops \in Nat BY PricingAssumption
<1>1. \E g : EndsTable(g, MaxHops) BY <1>0, EndsTableExists
<1>2. Prc!Ends = CHOOSE g : EndsTable(g, MaxHops) BY DEF Prc!Ends, EndsTable, Onward
<1>3. EndsTable(Prc!Ends, MaxHops) BY <1>1, <1>2
<1> QED BY <1>0, <1>3, EndsTableReads DEF EndsAre

\* The ends of a search stay what they are.
LEMMA EndsSame ==
    ASSUME from' = from, pools' = pools
    PROVE  Prc!Ends' = Prc!Ends
<1> DEFINE bad == {n \in 0..MaxHops : Prc!Ends'[n] # Prc!Ends[n]}
<1>0. EndsAre /\ EndsAre'
  <2>1. EndsAre BY EndsHold
  <2>2. EndsAre' BY EndsHold, PTL
  <2> QED BY <2>1, <2>2
<1> SUFFICES ASSUME bad # {} PROVE FALSE
  <2>1. TableTo(Prc!Ends, MaxHops) /\ TableTo(Prc!Ends', MaxHops) BY <1>0 DEF EndsAre, TableTo
  <2>2. CASE \A n \in 0..MaxHops : Prc!Ends'[n] = Prc!Ends[n]
    <3>1. Prc!Ends = [n \in 0..MaxHops |-> Prc!Ends[n]] BY <2>1 DEF TableTo
    <3>2. Prc!Ends' = [n \in 0..MaxHops |-> Prc!Ends'[n]] BY <2>1 DEF TableTo
    <3>3. Prc!Ends' = [n \in 0..MaxHops |-> Prc!Ends[n]] BY <2>2, <3>2
    <3> QED BY <3>1, <3>3
  <2> QED BY <2>2
<1>1. PICK n \in bad : \A m \in bad : n <= m
  <2>1. bad \subseteq Nat BY PricingAssumption
  <2> HIDE DEF bad
  <2> QED BY <2>1, LeastNatural
<1>3. n # 0 BY <1>0, <1>1 DEF EndsAre
<1>4. n - 1 \in 0..MaxHops /\ n \in 1..MaxHops /\ n - 1 \notin bad
  BY <1>1, <1>3, PricingAssumption
<1>5. Prc!Ends'[n - 1] = Prc!Ends[n - 1] BY <1>4
<1>6. Onward(Prc!Ends[n - 1])' = Onward(Prc!Ends[n - 1])
  BY <1>5 DEF Onward, Prc!HasPool
<1>7. Prc!Ends'[n] = Onward(Prc!Ends[n - 1])' /\ Prc!Ends[n] = Onward(Prc!Ends[n - 1])
  BY <1>0, <1>4 DEF EndsAre
<1> QED BY <1>1, <1>6, <1>7

\* A list of a finite set that repeats nothing holds all of it.
LEMMA ListsAll ==
    ASSUME NEW S, IsFiniteSet(S), NEW s \in Prc!SetToSeqs(S)
    PROVE  s \in Seq(S) /\ \A x \in S : \E i \in DOMAIN s : s[i] = x
<1>1. Prc!Cardinality(S) = Cardinality(S) BY DEF Prc!Cardinality, Cardinality
<1>2. Cardinality(S) \in Nat BY FS_CardinalityType
<1> DEFINE D == 1..Cardinality(S)
<1>3. s \in [D -> S] /\ \A i, j \in D : i # j => s[i] # s[j]
  BY <1>1 DEF Prc!SetToSeqs
<1>4. s \in Injection(D, S) BY <1>3 DEF Injection, IsInjective
<1>5. Cardinality(D) = Cardinality(S) BY <1>2, FS_Interval
<1>6. s \in Surjection(D, S) BY <1>4, <1>5, FS_Injection
<1> QED BY <1>2, <1>3, <1>6 DEF Surjection

LEMMA LastIs == \A p : Prc!Last(p) = p[Len(p)]
BY DEF Prc!Last

\* A path of the search, from where it starts, with a pool at every hop.
Path(p) == /\ p \in Seq(Assets) \ {<<>>} /\ p[1] = from
           /\ \A i \in 1..Len(p) - 1 : Prc!HasPool(p[i], p[i + 1])

\* Nothing is left to find behind v when the search is d assets deep.
Settled(v, d) == to \notin Prc!Neighbors(v) /\ (d < MaxHops => Prc!Neighbors(v) \subseteq visited)

Depth(d) ==
    /\ d = 1 \/ d <= MaxHops
    /\ \A i \in DOMAIN queue : Len(queue[i]) = d \/ (Len(queue[i]) = d + 1 /\ d < MaxHops)
    /\ \A i, j \in DOMAIN queue : i <= j => Len(queue[i]) <= Len(queue[j])
    /\ \A v \in visited :
          Settled(v, d) \/ \E i \in DOMAIN queue : queue[i][Len(queue[i])] = v
    /\ \A n \in 0..d - 1 : Prc!Ends[n] \subseteq visited
    /\ \A v \in Prc!Ends[d - 1] :
          \/ Settled(v, d)
          \/ \E i \in DOMAIN queue : queue[i][Len(queue[i])] = v /\ Len(queue[i]) = d
    /\ \A n \in 1..d - 1 : to \notin Prc!Ends[n]

RouteInv ==
    /\ from \in Assets /\ to \in Assets /\ visited \subseteq Assets /\ queue \in Seq(Seq(Assets))
    /\ \A i \in DOMAIN queue : Path(queue[i])
    /\ Prc!Searching /\ ~Prc!HasPool(from, to) => \E d \in 1..MaxHops + 1 : Depth(d)
    /\ RouteIsShortest

LEMMA RouteInit == Prc!Init => RouteInv
<1> SUFFICES ASSUME Prc!Init PROVE RouteInv OBVIOUS
<1>0. MaxHops \in Nat BY PricingAssumption
<1>1. /\ from \in Assets /\ to \in Assets /\ queue = <<<<from>>>> /\ visited = {from}
      /\ route = <<>>
  BY DEF Prc!Init
<1>2. <<from>> \in Seq(Assets) /\ Len(<<from>>) = 1 /\ <<from>>[1] = from BY <1>1
<1>3. queue \in Seq(Seq(Assets)) /\ DOMAIN queue = {1} /\ queue[1] = <<from>> BY <1>1, <1>2
<1>4. Path(<<from>>) BY <1>2 DEF Path
<1>5. Depth(1)
  <2>1. 0..1 - 1 = {0} /\ 1..1 - 1 = {} /\ 1 - 1 = 0 OBVIOUS
  <2>2. Prc!Ends[0] = {from} BY EndsHold DEF EndsAre
  <2>3. \A i \in DOMAIN queue : i = 1 /\ Len(queue[i]) = 1 BY <1>2, <1>3
  <2>4. 1 \in DOMAIN queue /\ queue[1][Len(queue[1])] = from BY <1>2, <1>3
  <2>5. \A i, j \in DOMAIN queue : i <= j => Len(queue[i]) <= Len(queue[j]) BY <2>3
  <2> QED BY <1>1, <2>1, <2>2, <2>3, <2>4, <2>5 DEF Depth
<1>6. 1 \in 1..MaxHops + 1 BY <1>0
<1>7. RouteIsShortest
  <2>1. <<>> # <<"null">> OBVIOUS
  <2> QED BY <1>1, <2>1 DEF RouteIsShortest, Prc!RouteIsShortest, Prc!NoRoute
<1> QED BY <1>1, <1>3, <1>4, <1>5, <1>6, <1>7 DEF RouteInv

\* When the path at the head is one longer, all shorter ones have been extended.
LEMMA Deeper ==
    ASSUME RouteInv, NEW d \in 1..MaxHops + 1, Depth(d), queue # <<>>
    PROVE  \E e \in 1..MaxHops + 1 : Depth(e) /\ Len(queue[1]) = e
<1>0. MaxHops \in Nat /\ d \in Nat \ {0} BY PricingAssumption
<1>1. 1 \in DOMAIN queue BY DEF RouteInv
<1>2. CASE Len(queue[1]) = d BY <1>2
<1>3. CASE Len(queue[1]) # d
  <2>1. Len(queue[1]) = d + 1 /\ d < MaxHops BY <1>1, <1>3 DEF Depth
  <2>2. \A i \in DOMAIN queue : i >= 1 /\ Len(queue[i]) \in Nat BY DEF RouteInv, Path
  <2>3. \A i \in DOMAIN queue : Len(queue[i]) = d + 1
    <3> TAKE i \in DOMAIN queue
    <3>1. Len(queue[1]) <= Len(queue[i]) BY <1>1, <2>2 DEF Depth
    <3>2. Len(queue[i]) = d \/ Len(queue[i]) = d + 1 BY DEF Depth
    <3> QED BY <1>0, <2>1, <2>2, <3>1, <3>2
  <2>4. d + 1 \in 1..MaxHops + 1 /\ d \in 1..MaxHops /\ d + 1 - 1 = d /\ d + 1 <= MaxHops
        /\ d + 1 # d
    BY <1>0, <2>1
  <2>5. \A v \in Prc!Ends[d - 1] : to \notin Prc!Neighbors(v) /\ Prc!Neighbors(v) \subseteq visited
    BY <2>1, <2>3, <2>4 DEF Depth, Settled
  <2>6. \A b \in Prc!Ends[d] : \E v \in Prc!Ends[d - 1] : b \in Prc!Neighbors(v)
    BY EndsHold, <2>4 DEF EndsAre, Onward, Prc!Neighbors
  <2>7. Prc!Ends[d] \subseteq visited /\ to \notin Prc!Ends[d] BY <2>5, <2>6
  <2>8. Depth(d + 1)
    <3>1. \A v : Settled(v, d) => Settled(v, d + 1) BY <2>1 DEF Settled
    <3>2. \A n \in 0..d : n \in 0..d - 1 \/ n = d BY <1>0
    <3>3. \A n \in 1..d : n \in 1..d - 1 \/ n = d BY <1>0
    <3>4. \A n \in 0..d : Prc!Ends[n] \subseteq visited BY <2>7, <3>2 DEF Depth
    <3>5. \A n \in 1..d : to \notin Prc!Ends[n] BY <2>7, <3>3 DEF Depth
    <3>6. \A v \in visited :
             Settled(v, d + 1) \/ \E i \in DOMAIN queue : queue[i][Len(queue[i])] = v
      BY <3>1 DEF Depth
    <3>7. \A v \in Prc!Ends[d] :
          \/ Settled(v, d + 1)
          \/ \E i \in DOMAIN queue : queue[i][Len(queue[i])] = v /\ Len(queue[i]) = d + 1
      BY <2>3, <2>7, <3>6
    <3>8. \A i, j \in DOMAIN queue : i <= j => Len(queue[i]) <= Len(queue[j]) BY DEF Depth
    <3> QED BY <2>3, <2>4, <3>4, <3>5, <3>6, <3>7, <3>8 DEF Depth
  <2> QED BY <2>1, <2>4, <2>8
<1> QED BY <1>2, <1>3

\* A path that is not empty may be extended by an asset its last one has a
\* pool with.
LEMMA LongerPath ==
    ASSUME NEW p, Path(p), NEW b \in Prc!Neighbors(p[Len(p)])
    PROVE  /\ Path(Append(p, b)) /\ Len(Append(p, b)) = Len(p) + 1
           /\ Append(p, b)[Len(p) + 1] = b
<1>1. /\ p \in Seq(Assets) /\ Len(p) \in Nat \ {0} /\ b \in Assets
      /\ Prc!HasPool(p[Len(p)], b)
  BY DEF Path, Prc!Neighbors
<1> DEFINE q == Append(p, b)
<1>2. /\ q \in Seq(Assets) /\ Len(q) = Len(p) + 1 /\ q[Len(p) + 1] = b
      /\ \A i \in 1..Len(p) : q[i] = p[i]
  BY <1>1
<1>3. q # <<>> /\ q[1] = from BY <1>1, <1>2 DEF Path
<1> HIDE DEF q
<1>4. \A i \in 1..Len(q) - 1 : Prc!HasPool(q[i], q[i + 1])
  <2> TAKE i \in 1..Len(q) - 1
  <2>1. CASE i = Len(p) BY <1>1, <1>2, <2>1
  <2>2. CASE i # Len(p)
    <3>1. i \in 1..Len(p) /\ i + 1 \in 1..Len(p) /\ i \in 1..Len(p) - 1 BY <1>1, <1>2, <2>2
    <3> QED BY <1>2, <3>1 DEF Path
  <2> QED BY <2>1, <2>2
<1>5. Path(q) BY <1>2, <1>3, <1>4 DEF Path
<1> QED BY <1>2, <1>5 DEF q

\* Nothing the invariant is about changes but the result.
LEMMA ReturnKeepsInv ==
    ASSUME RouteInv, NEW p, Prc!Return(p), p # <<>>,
           p # Prc!NoRoute =>
              /\ p[1] = from /\ p[Len(p)] = to
              /\ \A i \in 1..Len(p) - 1 : Prc!HasPool(p[i], p[i + 1])
              /\ \A n \in 1..Len(p) - 2 : to \notin Prc!Ends[n],
           p = Prc!NoRoute => \A n \in 1..MaxHops : to \notin Prc!Ends[n]
    PROVE  RouteInv'
<1>1. route' = p /\ UNCHANGED <<pools, from, to, queue, visited>> BY DEF Prc!Return
<1>2. ~Prc!Searching' BY <1>1 DEF Prc!Searching
<1>3. \A q : Path(q) => Path(q)' BY <1>1 DEF Path, Prc!HasPool
<1>4. Prc!Ends' = Prc!Ends BY <1>1, EndsSame
<1>5. RouteIsShortest'
  <2>1. CASE p = Prc!NoRoute
    <3>1. \A n \in 1..MaxHops : to' \notin Prc!Ends'[n] BY <1>1, <1>4, <2>1
    <3> QED BY <1>1, <2>1, <3>1 DEF RouteIsShortest, Prc!RouteIsShortest, Prc!NoRoute
  <2>2. CASE p # Prc!NoRoute
    <3>1. \A n \in 1..Len(p) - 2 : to' \notin Prc!Ends'[n] BY <1>1, <1>4, <2>2
    <3> QED BY <1>1, <2>2, <3>1
         DEF RouteIsShortest, Prc!RouteIsShortest, Prc!NoRoute, Prc!HasPool, Prc!Last
  <2> QED BY <2>1, <2>2
<1> QED BY <1>1, <1>2, <1>3, <1>5 DEF RouteInv

LEMMA DirectPoolKeepsInv == RouteInv /\ Prc!DirectPool => RouteInv'
<1> SUFFICES ASSUME RouteInv, Prc!DirectPool PROVE RouteInv' OBVIOUS
<1> DEFINE p == <<from, to>>
<1>1. Prc!Return(p) /\ Prc!HasPool(from, to) BY DEF Prc!DirectPool
<1>2. Len(p) = 2 /\ p[1] = from /\ p[2] = to /\ p # <<>> /\ Len(p) # Len(Prc!NoRoute)
  BY DEF Prc!NoRoute
<1> HIDE DEF p
<1>3. \A i \in 1..Len(p) - 1 : Prc!HasPool(p[i], p[i + 1])
  <2>1. \A i \in 1..Len(p) - 1 : i = 1 /\ i + 1 = 2 BY <1>2
  <2> QED BY <1>1, <1>2, <2>1
<1>4. 1..Len(p) - 2 = {}  BY <1>2
<1> QED BY <1>1, <1>2, <1>3, <1>4, ReturnKeepsInv

\* With an empty queue every asset within reach has been looked at.
LEMMA NotFoundKeepsInv == RouteInv /\ Prc!NotFound => RouteInv'
<1> SUFFICES ASSUME RouteInv, Prc!NotFound PROVE RouteInv' OBVIOUS
<1>1. /\ Prc!Searching /\ ~Prc!HasPool(from, to) /\ DOMAIN queue = {}
      /\ Prc!Return(Prc!NoRoute)
  BY DEF Prc!NotFound
<1>2. PICK d \in 1..MaxHops + 1 : Depth(d) BY <1>1 DEF RouteInv
<1>3. MaxHops \in Nat /\ d \in Nat \ {0} BY PricingAssumption
<1>4. \A v \in visited : Settled(v, d) BY <1>1, <1>2 DEF Depth
<1>5. \A n \in 1..MaxHops : Prc!Ends[n - 1] \subseteq visited => to \notin Prc!Ends[n]
  BY <1>4, EndsHold DEF EndsAre, Onward, Settled, Prc!Neighbors
<1>6. \A n \in 0..MaxHops - 1 : Prc!Ends[n] \subseteq visited
  <2> DEFINE bad == {n \in 0..MaxHops - 1 : ~(Prc!Ends[n] \subseteq visited)}
  <2> SUFFICES ASSUME bad # {} PROVE FALSE OBVIOUS
  <2>1. PICK n \in bad : \A m \in bad : n <= m
    <3>1. bad \subseteq Nat BY <1>3
    <3> HIDE DEF bad
    <3> QED BY <3>1, LeastNatural
  <2>2. n \in 0..MaxHops - 1 /\ n \notin 0..d - 1 BY <2>1, <1>2 DEF Depth
  <2>3. n - 1 \in 0..MaxHops - 1 /\ n \in 1..MaxHops /\ n - 1 \notin bad /\ d < MaxHops
    BY <1>3, <2>1, <2>2
  <2>4. Prc!Ends[n - 1] \subseteq visited BY <2>3
  <2>5. Prc!Ends[n] \subseteq visited
    BY <1>4, <2>3, <2>4, EndsHold DEF EndsAre, Onward, Settled, Prc!Neighbors
  <2> QED BY <2>1, <2>5
<1>7. \A n \in 1..MaxHops : to \notin Prc!Ends[n]
  <2> TAKE n \in 1..MaxHops
  <2>1. n - 1 \in 0..MaxHops - 1 BY <1>3
  <2> QED BY <1>5, <1>6, <2>1
<1>8. Prc!NoRoute # <<>> BY DEF Prc!NoRoute
<1> QED BY <1>1, <1>7, <1>8, ReturnKeepsInv

\* A step of another service.
LEMMA IdleKeepsInv ==
    ASSUME RouteInv, UNCHANGED pricingVars
    PROVE  RouteInv'
<1> USE DEF pricingVars
<1>1. \A a, b : Prc!HasPool(a, b)' = Prc!HasPool(a, b) BY DEF Prc!HasPool
<1>2. \A q : Path(q) => Path(q)' BY <1>1 DEF Path
<1>3. Prc!Ends' = Prc!Ends BY EndsSame
<1>4. \A v : Prc!Neighbors(v)' = Prc!Neighbors(v) BY <1>1 DEF Prc!Neighbors
<1>5. ASSUME NEW d \in 1..MaxHops + 1, Depth(d) PROVE Depth(d)'
  <2>1. \A v : Settled(v, d) => Settled(v, d)' BY <1>4 DEF Settled
  <2> QED BY <1>3, <1>5, <2>1 DEF Depth
<1>6. RouteIsShortest'
  BY <1>1, <1>3 DEF RouteInv, RouteIsShortest, Prc!RouteIsShortest, Prc!NoRoute, Prc!Last
<1> QED BY <1>1, <1>2, <1>5, <1>6 DEF RouteInv, Prc!Searching

\* The path at the head makes way for its extensions by assets not seen so far.
LEMMA QueueMoves ==
    ASSUME NEW Q \in Seq(Seq(Assets)), Q # <<>>, NEW R \in Seq(Seq(Assets))
    PROVE  LET q == Tail(Q) \o R IN
           /\ q \in Seq(Seq(Assets)) /\ DOMAIN q = 1..Len(Q) - 1 + Len(R)
           /\ \A i \in 1..Len(Q) - 1 : q[i] = Q[i + 1]
           /\ \A i \in 1..Len(R) : q[Len(Q) - 1 + i] = R[i]
<1> DEFINE T == Tail(Q)
<1>1. /\ T \in Seq(Seq(Assets)) /\ Len(T) = Len(Q) - 1 /\ Len(Q) \in Nat \ {0} /\ Len(R) \in Nat
      /\ \A i \in 1..Len(Q) - 1 : T[i] = Q[i + 1]
  OBVIOUS
<1> HIDE DEF T
<1>2. T \o R \in Seq(Seq(Assets)) /\ Len(T \o R) = Len(T) + Len(R) BY <1>1, ConcatProperties
<1>3. \A i \in 1..Len(T) : (T \o R)[i] = T[i] BY <1>1
<1>4. \A i \in 1..Len(R) : (T \o R)[Len(T) + i] = R[i]
  <2> TAKE i \in 1..Len(R)
  <2>1. Len(T) + i \in 1..Len(T) + Len(R) /\ ~(Len(T) + i <= Len(T)) /\ Len(T) + i - Len(T) = i
    BY <1>1
  <2> QED BY <1>1, <2>1, ConcatProperties
<1>5. DOMAIN (T \o R) = 1..Len(Q) - 1 + Len(R) BY <1>1, <1>2
<1> QED BY <1>1, <1>2, <1>3, <1>4, <1>5 DEF T

LEMMA ExtendKeepsInv == RouteInv /\ Prc!Extend => RouteInv'
<1> SUFFICES ASSUME RouteInv, Prc!Extend PROVE RouteInv' OBVIOUS
<1> DEFINE path == queue[1]
<1> PICK last : last = path[Len(path)] OBVIOUS
<1> DEFINE near == Prc!Neighbors(last)
           new  == IF Len(path) < MaxHops THEN near \ visited ELSE {}
<1>0. MaxHops \in Nat BY PricingAssumption
<1>1. /\ Prc!Searching /\ ~Prc!HasPool(from, to) /\ queue # <<>> /\ Head(queue) = path
  BY DEF Prc!Extend, RouteInv
<1>2. /\ queue \in Seq(Seq(Assets)) /\ 1 \in DOMAIN queue /\ Path(path)
      /\ path \in Seq(Assets) /\ Len(path) \in Nat \ {0}
  BY <1>1 DEF RouteInv, Path
<1>3. PICK d \in 1..MaxHops + 1 : Depth(d) /\ Len(path) = d
  <2>1. \E e \in 1..MaxHops + 1 : Depth(e) BY <1>1 DEF RouteInv
  <2> QED BY <1>1, <2>1, Deeper
<1>4. CASE to \in near
  <2> DEFINE p == Append(path, to)
  <2>1. Prc!Return(p) BY <1>1, <1>4, LastIs DEF Prc!Extend
  <2>2. Path(p) /\ Len(p) = d + 1 /\ p[d + 1] = to
    BY <1>2, <1>3, <1>4, LongerPath
  <2> HIDE DEF p
  <2>3. Len(p) # Len(Prc!NoRoute) /\ Len(p) - 2 = d - 1 /\ Len(p) = d + 1
    BY <2>2, <1>3 DEF Prc!NoRoute
  <2>4. \A n \in 1..Len(p) - 2 : to \notin Prc!Ends[n] BY <1>3, <2>3 DEF Depth
  <2> QED BY <2>1, <2>2, <2>3, <2>4, ReturnKeepsInv DEF Path
<1>5. CASE to \notin near
  <2>1. PICK s \in Prc!SetToSeqs(new) :
           queue' = Tail(queue) \o [i \in DOMAIN s |-> Append(path, s[i])]
    BY <1>1, <1>5, LastIs DEF Prc!Extend, Prc!Enqueue
  <2>2. visited' = visited \cup new /\ UNCHANGED <<pools, from, to, route>>
    BY <1>1, <1>5, LastIs DEF Prc!Extend
  <2>3. new \subseteq near /\ near \subseteq Assets /\ IsFiniteSet(new)
    <3>1. new \subseteq near /\ near \subseteq Assets BY DEF Prc!Neighbors
    <3> QED BY <3>1, FS_Subset, PricingAssumption
  <2>4. d < MaxHops => near \subseteq visited \cup new BY <1>3
  <2>5. new # {} => d < MaxHops BY <1>3
  <2>6. s \in Seq(new) /\ \A x \in new : \E i \in DOMAIN s : s[i] = x BY <2>3, ListsAll
  <2> DEFINE R == [i \in DOMAIN s |-> Append(path, s[i])]
  <2>7. \A i \in 1..Len(s) : s[i] \in new /\ s[i] \in near BY <2>3, <2>6
  <2> HIDE DEF near, new
  <2>8. \A i \in 1..Len(s) :
           /\ R[i] \in Seq(Assets) /\ Path(R[i]) /\ Len(R[i]) = d + 1 /\ R[i][d + 1] = s[i]
    <3> TAKE i \in 1..Len(s)
    <3>1. R[i] = Append(path, s[i]) BY <2>6
    <3>2. Path(R[i]) /\ Len(R[i]) = d + 1 /\ R[i][d + 1] = s[i]
      BY <1>2, <1>3, <2>7, <3>1, LongerPath DEF near
    <3> QED BY <3>2 DEF Path
  <2>9. R \in Seq(Seq(Assets)) /\ Len(R) = Len(s) /\ Len(s) \in Nat
    <3>1. Len(s) \in Nat /\ DOMAIN s = 1..Len(s) BY <2>6
    <3>2. R = [i \in 1..Len(s) |-> R[i]] BY <3>1
    <3> HIDE DEF R
    <3>3. \A i \in 1..Len(s) : R[i] \in Seq(Assets) BY <2>8
    <3> QED BY <3>1, <3>2, <3>3
  <2> HIDE DEF R
  <2> DEFINE L == Len(queue) - 1
  <2>10. /\ queue' \in Seq(Seq(Assets)) /\ DOMAIN queue' = 1..L + Len(s)
         /\ \A i \in 1..L : queue'[i] = queue[i + 1]
         /\ \A i \in 1..Len(s) : queue'[L + i] = R[i]
         /\ L \in Nat /\ DOMAIN queue = 1..L + 1
    <3>1. queue' = Tail(queue) \o R BY <2>1 DEF R
    <3>2. Len(queue) \in Nat \ {0} /\ DOMAIN queue = 1..Len(queue) BY <1>1, <1>2
    <3>3. /\ queue' \in Seq(Seq(Assets)) /\ DOMAIN queue' = 1..Len(queue) - 1 + Len(R)
          /\ \A i \in 1..Len(queue) - 1 : queue'[i] = queue[i + 1]
          /\ \A i \in 1..Len(R) : queue'[Len(queue) - 1 + i] = R[i]
      <4>1. queue \in Seq(Seq(Assets)) /\ queue # <<>> BY <1>1, <1>2
      <4>2. R \in Seq(Seq(Assets)) BY <2>9
      <4> DEFINE q == Tail(queue) \o R
      <4>3. /\ q \in Seq(Seq(Assets)) /\ DOMAIN q = 1..Len(queue) - 1 + Len(R)
            /\ \A i \in 1..Len(queue) - 1 : q[i] = queue[i + 1]
            /\ \A i \in 1..Len(R) : q[Len(queue) - 1 + i] = R[i]
        BY <4>1, <4>2, QueueMoves
      <4>4. queue' = q BY <3>1
      <4> HIDE DEF q
      <4> QED BY <4>3, <4>4
    <3>4. Len(queue) - 1 \in Nat /\ Len(queue) - 1 + 1 = Len(queue) BY <3>2
    <3> QED BY <2>9, <3>2, <3>3, <3>4
  <2> HIDE DEF L, path
  <2>11. \A i \in 1..L : i \in DOMAIN queue' /\ i + 1 \in DOMAIN queue BY <2>9, <2>10
  <2>12. \A i \in 1..Len(s) : L + i \in DOMAIN queue' BY <2>9, <2>10
  <2>13. \A i \in DOMAIN queue' : i \in 1..L \/ \E k \in 1..Len(s) : i = L + k
    <3> TAKE i \in DOMAIN queue'
    <3>1. CASE i \in 1..L BY <3>1
    <3>2. CASE i \notin 1..L
      <4>1. i - L \in 1..Len(s) /\ i = L + (i - L) BY <2>9, <2>10, <3>2
      <4> QED BY <4>1
    <3> QED BY <3>1, <3>2
  <2>14. \A i \in 1..Len(s) : /\ Path(queue'[L + i]) /\ Len(queue'[L + i]) = d + 1
                              /\ queue'[L + i][d + 1] = s[i]
    BY <2>8, <2>10
  <2>15. (\A i \in DOMAIN queue : Path(queue[i]))'
    <3>1. \A p : Path(p) => Path(p)' BY <2>2 DEF Path, Prc!HasPool
    <3>2. \A i \in 1..L : Path(queue'[i]) BY <2>10, <2>11 DEF RouteInv
    <3>3. \A i \in DOMAIN queue' : Path(queue'[i]) BY <2>13, <2>14, <3>2
    <3> QED BY <3>1, <3>3
  <2>17. Depth(d)'
    <3>1. Prc!Ends' = Prc!Ends BY <2>2, EndsSame
    <3>2. \A v : Prc!Neighbors(v)' = Prc!Neighbors(v)
      BY <2>2 DEF Prc!Neighbors, Prc!HasPool
    <3>3. \A v : Settled(v, d) => Settled(v, d)' BY <2>2, <3>2 DEF Settled
    <3>4. Settled(last, d)'
      BY <1>5, <2>2, <2>4, <3>2 DEF Settled, near
    <3>5. \A i \in DOMAIN queue :
             \/ i = 1
             \/ \E k \in DOMAIN queue' : queue'[k] = queue[i]
      <4> TAKE i \in DOMAIN queue
      <4>1. CASE i = 1 BY <4>1
      <4>2. CASE i # 1
        <5>1. i - 1 \in 1..L /\ i - 1 + 1 = i BY <2>10, <4>2
        <5> QED BY <2>10, <2>11, <5>1
      <4> QED BY <4>1, <4>2
    <3>6. \A i \in DOMAIN queue' :
             Len(queue'[i]) = d \/ (Len(queue'[i]) = d + 1 /\ d < MaxHops)
      <4>1. \A i \in 1..L : Len(queue'[i]) = d \/ (Len(queue'[i]) = d + 1 /\ d < MaxHops)
        <5>1. \A i \in DOMAIN queue :
                 Len(queue[i]) = d \/ (Len(queue[i]) = d + 1 /\ d < MaxHops)
          BY <1>3 DEF Depth
        <5> QED BY <2>10, <2>11, <5>1
      <4>2. \A i \in 1..Len(s) : d < MaxHops BY <2>5, <2>7
      <4> QED BY <2>13, <2>14, <4>1, <4>2
    <3>7. \A i, j \in DOMAIN queue' : i <= j => Len(queue'[i]) <= Len(queue'[j])
      <4> SUFFICES ASSUME NEW i \in DOMAIN queue', NEW j \in DOMAIN queue', i <= j
                   PROVE  Len(queue'[i]) <= Len(queue'[j])
        OBVIOUS
      <4>1. CASE i \in 1..L /\ j \in 1..L
        <5>1. i + 1 <= j + 1 /\ i + 1 \in DOMAIN queue /\ j + 1 \in DOMAIN queue
          BY <2>11, <4>1
        <5> QED BY <1>3, <2>10, <4>1, <5>1 DEF Depth
      <4>2. CASE j \notin 1..L
        <5>1. Len(queue'[j]) = d + 1 BY <2>13, <2>14, <4>2
        <5> QED BY <3>6, <5>1
      <4>3. CASE i \notin 1..L /\ j \in 1..L BY <2>10, <4>3
      <4> QED BY <4>1, <4>2, <4>3
    <3>8. \A v \in visited' :
             Settled(v, d)' \/ \E i \in DOMAIN queue' : queue'[i][Len(queue'[i])] = v
      <4> TAKE v \in visited'
      <4>1. CASE v \in visited
        <5>1. CASE Settled(v, d) BY <3>3, <5>1
        <5>2. CASE ~Settled(v, d)
          <6>1. PICK i \in DOMAIN queue : queue[i][Len(queue[i])] = v BY <1>3, <4>1, <5>2 DEF Depth
          <6> QED BY <3>4, <3>5, <6>1 DEF path
        <5> QED BY <5>1, <5>2
      <4>2. CASE v \in new
        <5>1. PICK i \in 1..Len(s) : s[i] = v BY <2>6, <4>2
        <5>2. queue'[L + i][Len(queue'[L + i])] = v BY <2>14, <5>1
        <5> QED BY <2>12, <5>2
      <4> QED BY <2>2, <4>1, <4>2
    <3>9. \A v \in Prc!Ends[d - 1] :
          \/ Settled(v, d)'
          \/ \E i \in DOMAIN queue' : queue'[i][Len(queue'[i])] = v /\ Len(queue'[i]) = d
      <4> TAKE v \in Prc!Ends[d - 1]
      <4>1. CASE Settled(v, d) BY <3>3, <4>1
      <4>2. CASE ~Settled(v, d)
        <5>1. PICK i \in DOMAIN queue : queue[i][Len(queue[i])] = v /\ Len(queue[i]) = d
          BY <1>3, <4>2 DEF Depth
        <5> QED BY <3>4, <3>5, <5>1 DEF path
      <4> QED BY <4>1, <4>2
    <3>10. \A n \in 0..d - 1 : Prc!Ends[n] \subseteq visited' BY <1>3, <2>2 DEF Depth
    <3> QED BY <1>3, <2>2, <3>1, <3>6, <3>7, <3>8, <3>9, <3>10 DEF Depth
  <2>18. visited' \subseteq Assets BY <2>2, <2>3 DEF RouteInv
  <2>19. RouteIsShortest'
    <3>1. route' = <<>> /\ <<>> # <<"null">> BY <1>1, <2>2 DEF Prc!Searching
    <3> QED BY <3>1 DEF RouteIsShortest, Prc!RouteIsShortest, Prc!NoRoute
  <2> QED BY <2>2, <2>10, <2>15, <2>17, <2>18, <2>19 DEF RouteInv
<1> QED BY <1>4, <1>5

LEMMA RouteKept == RouteInv /\ [ServicesNext]_servicesVars => RouteInv'
<1> SUFFICES ASSUME RouteInv, [ServicesNext]_servicesVars PROVE RouteInv' OBVIOUS
<1> QED BY WhoseStep, IdleKeepsInv, DirectPoolKeepsInv, ExtendKeepsInv, NotFoundKeepsInv
        DEF Prc!Next

\* The search is breadth first: the route it finds has a pool at every hop and
\* no shorter alternative, and when it finds none there is none within its hops.
THEOREM RoutesAreShortest == ServicesSpec => []RouteIsShortest
<1>1. ServicesInit => RouteInv BY RouteInit DEF ServicesInit
<1>2. RouteInv /\ [ServicesNext]_servicesVars => RouteInv' BY RouteKept
<1>3. RouteInv => RouteIsShortest BY DEF RouteInv
<1> QED BY <1>1, <1>2, <1>3, PTL DEF ServicesSpec
=============================================================================
