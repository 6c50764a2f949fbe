--------------------------- MODULE ConnectionPool ----------------------------
(***************************************************************************)
(* websocket/services/connection-pool.service.ts: the connections and the  *)
(* rooms, two maps that index each other.  Every method is synchronous;    *)
(* sockets disconnect on their own (external).                             *)
(***************************************************************************)
EXTENDS Integers, FiniteSets

CONSTANTS
    Sockets, Rooms, Users, NoUser,
    MaxPerUser,     \* MAX_CONNECTIONS_PER_USER
    MaxRooms,       \* MAX_ROOMS_PER_CONNECTION
    MinCount        \* bound: leaveRoom counts roomCount down without limit

VARIABLES
    connections,   \* socket -> user, subscriptions, roomCount
    rooms,         \* room -> clients
    open           \* sockets that are connected

vars == <<connections, rooms, open>>

Known == DOMAIN connections

Init ==
    /\ connections = [s \in {} |-> 0]
    /\ rooms = [r \in {} |-> {}]
    /\ open  = Sockets

Without(f, x) == [y \in DOMAIN f \ {x} |-> f[y]]
With(f, x, v) == [y \in DOMAIN f \cup {x} |-> IF y = x THEN v ELSE f[y]]

AddConnection(s) ==
    /\ s \notin Known /\ s \in open
    /\ connections' = With(connections, s, [user |-> NoUser, subs |-> {}, count |-> 0])
    /\ UNCHANGED <<rooms, open>>

\* getUserConnectionCount: the user's connected sockets.
CountOf(u) == Cardinality({s \in Known \cap open : connections[s].user = u})

AssociateUser(s, u) ==
    /\ s \in Known /\ CountOf(u) < MaxPerUser
    /\ connections' = [connections EXCEPT ![s].user = u]
    /\ UNCHANGED <<rooms, open>>

\* Mutant: the limit of rooms is tested with <= instead of <.
JoinRoom_OffByOne(s, r) ==
    /\ s \in Known /\ connections[s].count <= MaxRooms
    /\ rooms' = With(rooms, r, {s} \cup IF r \in DOMAIN rooms THEN rooms[r] ELSE {})
    /\ connections' = [connections EXCEPT ![s] =
           [user |-> @.user, subs |-> @.subs \cup {r}, count |-> @.count + 1]]
    /\ UNCHANGED open

JoinRoom(s, r) ==
    /\ s \in Known /\ connections[s].count < MaxRooms
    /\ rooms' = With(rooms, r, {s} \cup IF r \in DOMAIN rooms THEN rooms[r] ELSE {})
    /\ connections' = [connections EXCEPT ![s] =
           [user |-> @.user, subs |-> @.subs \cup {r}, count |-> @.count + 1]]
    /\ UNCHANGED open

\* Mutant: a room that has become empty is kept.
Left_KeepsEmpty(s, R) == [r \in DOMAIN rooms |-> IF r \in R THEN rooms[r] \ {s} ELSE rooms[r]]

\* The rooms without a client in R: a room that becomes empty is deleted.
Left(s, R) ==
    [r \in {q \in DOMAIN rooms : q \notin R \/ rooms[q] # {s}} |->
        IF r \in R THEN rooms[r] \ {s} ELSE rooms[r]]

\* leaveRoom counts down whether the connection was in the room or not.
LeaveRoom(s, r) ==
    /\ s \in Known /\ r \in DOMAIN rooms /\ connections[s].count > MinCount
    /\ rooms' = Left(s, {r})
    /\ connections' = [connections EXCEPT ![s] =
           [user |-> @.user, subs |-> @.subs \ {r}, count |-> @.count - 1]]
    /\ UNCHANGED open

\* removeConnection leaves every subscribed room and deletes the connection.
RemoveConnection(s) ==
    /\ s \in Known
    /\ rooms' = Left(s, connections[s].subs)
    /\ connections' = Without(connections, s)
    /\ UNCHANGED open

\* cleanupInactiveConnections: sockets that are gone or have been silent too
\* long; a silent one is disconnected.
Cleanup(s) ==
    /\ s \in Known
    /\ rooms' = Left(s, connections[s].subs)
    /\ connections' = Without(connections, s)
    /\ open' = open \ {s}

Disconnects(s) ==
    /\ s \in open
    /\ open' = open \ {s}
    /\ UNCHANGED <<connections, rooms>>

Next == \E s \in Sockets :
    \/ AddConnection(s) \/ RemoveConnection(s) \/ Cleanup(s) \/ Disconnects(s)
    \/ \E u \in Users : AssociateUser(s, u)
    \/ \E r \in Rooms : JoinRoom(s, r) \/ LeaveRoom(s, r)

Spec == Init /\ [][Next]_vars
-----------------------------------------------------------------------------
TypeOK ==
    /\ Known \subseteq Sockets /\ open \subseteq Sockets
    /\ \A s \in Known : connections[s] \in
          [user : Users \cup {NoUser}, subs : SUBSET Rooms, count : MinCount..MaxRooms]
    /\ DOMAIN rooms \subseteq Rooms

\* The two maps agree, whatever is joined twice or left without being joined:
\* a room's clients are the connections subscribed to it, no room is empty, and
\* a broadcast reaches no connection that was removed.  No user has more
\* connected sockets than allowed.
RoomsMatchSubscriptions ==
    /\ \A r \in DOMAIN rooms : rooms[r] # {} /\ rooms[r] = {s \in Known : r \in connections[s].subs}
    /\ \A s \in Known : connections[s].subs \subseteq DOMAIN rooms
    /\ \A u \in Users : CountOf(u) <= MaxPerUser
=============================================================================
