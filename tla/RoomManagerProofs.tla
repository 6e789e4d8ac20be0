------------------------- MODULE RoomManagerProofs -------------------------
(***************************************************************************)
(* The two maps of the room manager mirror each other, and together they   *)
(* implement the plain membership relation, for any users and rooms.       *)
(***************************************************************************)
EXTENDS RoomManager, TLAPS

(* TypeOK and IndexExact are inductive together.                           *)
RoomManagerInv == TypeOK /\ IndexExact

(* No room and no member at the start.                                     *)
LEMMA InitInv == Init => RoomManagerInv
  BY DEF Init, EmptyMap, RoomManagerInv, TypeOK, IndexExact

(* Membership after each operation, room by room and user by user.         *)
LEMMA JoinEffect ==
  ASSUME RoomManagerInv, NEW r \in Rooms, NEW u \in Users,
         JoinRoom(r, u, TRUE)
  PROVE  /\ RoomManagerInv'
         /\ r \in DOMAIN rooms
         /\ Memberships' = Memberships \cup {<<r, u>>}
         /\ DOMAIN rooms' = DOMAIN rooms
<1>1. /\ r \in DOMAIN rooms
      /\ rooms' = [rooms EXCEPT ![r] = @ \cup {u}]
      /\ userRooms' = Put(userRooms, u, RoomsOf(u) \cup {r})
  BY DEF JoinRoom
<1>2. /\ DOMAIN rooms' = DOMAIN rooms
      /\ \A s \in DOMAIN rooms :
           rooms'[s] = IF s = r THEN rooms[r] \cup {u} ELSE rooms[s]
  BY <1>1
<1>3. /\ DOMAIN userRooms' = DOMAIN userRooms \cup {u}
      /\ \A v \in DOMAIN userRooms' :
           userRooms'[v] = IF v = u THEN RoomsOf(u) \cup {r} ELSE userRooms[v]
  BY <1>1 DEF Put
<1>4. RoomsOf(u) \subseteq Rooms
  BY DEF RoomManagerInv, TypeOK, RoomsOf
<1>5. TypeOK'
  BY <1>1, <1>2, <1>3, <1>4 DEF RoomManagerInv, TypeOK, Put
<1>6. IndexExact'
  <2>1. ASSUME NEW s \in DOMAIN rooms', NEW v \in rooms'[s]
        PROVE  v \in DOMAIN userRooms' /\ s \in userRooms'[v]
    <3>1. CASE v = u
      BY <1>2, <1>3, <2>1, <3>1 DEF RoomManagerInv, IndexExact, RoomsOf
    <3>2. CASE v # u
      BY <1>2, <1>3, <2>1, <3>2 DEF RoomManagerInv, IndexExact
    <3> QED
      BY <3>1, <3>2
  <2>2. ASSUME NEW v \in DOMAIN userRooms'
        PROVE  /\ userRooms'[v] # {}
               /\ \A s \in userRooms'[v] : s \in DOMAIN rooms' /\ v \in rooms'[s]
    <3>1. CASE v = u
      <4>1. \A t \in RoomsOf(u) : t \in DOMAIN rooms /\ u \in rooms[t]
        BY DEF RoomManagerInv, IndexExact, RoomsOf
      <4>2. userRooms'[v] = RoomsOf(u) \cup {r}
        BY <1>3, <3>1
      <4> QED
        BY <1>1, <1>2, <3>1, <4>1, <4>2
    <3>2. CASE v # u
      BY <1>2, <1>3, <3>2 DEF RoomManagerInv, IndexExact
    <3> QED
      BY <3>1, <3>2
  <2> QED
    BY <2>1, <2>2 DEF IndexExact
<1>7. Memberships' = Memberships \cup {<<r, u>>}
  BY <1>1, <1>2 DEF Memberships
<1> QED
  BY <1>1, <1>2, <1>5, <1>6, <1>7 DEF RoomManagerInv

(* leaveRoom takes one pair out of the memberships.                        *)
LEMMA LeaveEffect ==
  ASSUME RoomManagerInv, NEW r \in Rooms, NEW u \in Users,
         LeaveRoom(r, u, "ok")
  PROVE  /\ RoomManagerInv'
         /\ <<r, u>> \in Memberships
         /\ Memberships' = Memberships \ {<<r, u>>}
         /\ DOMAIN rooms' = DOMAIN rooms
<1>1. /\ r \in DOMAIN rooms
      /\ u \in rooms[r]
      /\ rooms' = [rooms EXCEPT ![r] = @ \ {u}]
  BY DEF LeaveRoom, MemberResult
<1>2. u \in DOMAIN userRooms /\ r \in userRooms[u]
  BY <1>1 DEF RoomManagerInv, IndexExact
<1>3. /\ DOMAIN rooms' = DOMAIN rooms
      /\ \A s \in DOMAIN rooms :
           rooms'[s] = IF s = r THEN rooms[r] \ {u} ELSE rooms[s]
  BY <1>1
<1>4. /\ \A v \in DOMAIN userRooms' :
           /\ v \in DOMAIN userRooms
           /\ userRooms'[v] = IF v = u THEN userRooms[u] \ {r}
                              ELSE userRooms[v]
           /\ userRooms'[v] # {} \/ v # u
      /\ \A v \in DOMAIN userRooms \ {u} : v \in DOMAIN userRooms'
      /\ userRooms[u] \ {r} # {} => u \in DOMAIN userRooms'
      /\ userRooms' = [v \in DOMAIN userRooms' |-> userRooms'[v]]
  <2>1. CASE userRooms[u] \ {r} = {}
    BY <1>2, <2>1 DEF LeaveRoom, EraseKeys, Restrict
  <2>2. CASE userRooms[u] \ {r} # {}
    BY <1>2, <2>2 DEF LeaveRoom, RoomManagerInv, TypeOK
  <2> QED
    BY <2>1, <2>2
<1>5. TypeOK'
  BY <1>1, <1>3, <1>4 DEF RoomManagerInv, TypeOK
<1>6. IndexExact'
  BY <1>1, <1>2, <1>3, <1>4 DEF RoomManagerInv, IndexExact
<1>7. Memberships' = Memberships \ {<<r, u>>}
  BY <1>1, <1>3 DEF Memberships
<1>8. <<r, u>> \in Memberships
  BY <1>1 DEF Memberships
<1> QED
  BY <1>3, <1>5, <1>6, <1>7, <1>8 DEF RoomManagerInv

(* leaveAllRooms takes every pair of its user out.                         *)
LEMMA LeaveAllEffect ==
  ASSUME RoomManagerInv, NEW u \in Users, LeaveAll(u)
  PROVE  /\ RoomManagerInv'
         /\ Memberships' = {m \in Memberships : m[2] # u}
         /\ DOMAIN rooms' = DOMAIN rooms
<1>1. CASE u \notin DOMAIN userRooms
  <2>1. \A r \in DOMAIN rooms : u \notin rooms[r]
    BY <1>1 DEF RoomManagerInv, IndexExact
  <2>2. UNCHANGED roomVars
    BY <1>1 DEF LeaveAll
  <2>3. Memberships = {m \in Memberships : m[2] # u}
    BY <2>1 DEF Memberships
  <2> QED
    BY <2>2, <2>3 DEF roomVars, RoomManagerInv, TypeOK, IndexExact, Memberships
<1>2. CASE u \in DOMAIN userRooms
  <2>1. /\ DOMAIN rooms' = DOMAIN rooms
        /\ \A r \in DOMAIN rooms :
             rooms'[r] = IF r \in userRooms[u] THEN rooms[r] \ {u}
                         ELSE rooms[r]
        /\ rooms' = [r \in DOMAIN rooms' |-> rooms'[r]]
    BY <1>2 DEF LeaveAll
  <2>2. /\ DOMAIN userRooms' = DOMAIN userRooms \ {u}
        /\ \A v \in DOMAIN userRooms' : userRooms'[v] = userRooms[v]
        /\ userRooms' = [v \in DOMAIN userRooms' |-> userRooms'[v]]
    BY <1>2 DEF LeaveAll, EraseKeys, Restrict
  <2>3. \A r \in DOMAIN rooms : rooms'[r] = rooms[r] \ {u}
    BY <2>1 DEF RoomManagerInv, IndexExact
  <2>4. TypeOK'
    BY <2>1, <2>2, <2>3 DEF RoomManagerInv, TypeOK
  <2>5. IndexExact'
    BY <2>1, <2>2, <2>3 DEF RoomManagerInv, IndexExact
  <2>6. Memberships' = {m \in Memberships : m[2] # u}
    BY <2>1, <2>3 DEF Memberships
  <2> QED
    BY <2>1, <2>4, <2>5, <2>6 DEF RoomManagerInv
<1> QED
  BY <1>1, <1>2

(* createRoom adds an empty room.                                          *)
LEMMA CreateEffect ==
  ASSUME RoomManagerInv, NEW r \in Rooms, CreateRoom(r, TRUE)
  PROVE  /\ RoomManagerInv'
         /\ r \notin DOMAIN rooms
         /\ DOMAIN rooms' = DOMAIN rooms \cup {r}
         /\ Memberships' = Memberships
<1>1. /\ r \notin DOMAIN rooms
      /\ DOMAIN rooms' = DOMAIN rooms \cup {r}
      /\ \A s \in DOMAIN rooms : rooms'[s] = rooms[s]
      /\ rooms'[r] = {}
      /\ rooms' = [s \in DOMAIN rooms' |-> rooms'[s]]
      /\ userRooms' = userRooms
  BY DEF CreateRoom, Put
<1>2. TypeOK'
  BY <1>1 DEF RoomManagerInv, TypeOK
<1>3. IndexExact'
  BY <1>1 DEF RoomManagerInv, IndexExact
<1>4. Memberships' = Memberships
  BY <1>1 DEF Memberships
<1> QED
  BY <1>1, <1>2, <1>3, <1>4 DEF RoomManagerInv

(* A refused request leaves rooms and members as they were.                *)
LEMMA UnchangedEffect ==
  ASSUME RoomManagerInv, UNCHANGED roomVars
  PROVE  RoomManagerInv' /\ UNCHANGED <<DOMAIN rooms, Memberships>>
  BY DEF roomVars, RoomManagerInv, TypeOK, IndexExact, Memberships

(* One step keeps the invariant and is a step of the membership relation.  *)
LEMMA StepEffect ==
  ASSUME RoomManagerInv, [Next]_roomVars
  PROVE  /\ RoomManagerInv'
         /\ [Membership!Next]_<<DOMAIN rooms, Memberships>>
<1>1. CASE UNCHANGED roomVars
  BY <1>1, UnchangedEffect
<1>2. ASSUME NEW r \in Rooms, NEW u \in Users, NEW ok \in BOOLEAN,
             JoinRoom(r, u, ok)
      PROVE  /\ RoomManagerInv'
             /\ [Membership!Next]_<<DOMAIN rooms, Memberships>>
  <2>1. CASE ok = TRUE
    BY <1>2, <2>1, JoinEffect DEF Membership!Next, Membership!Join
  <2>2. CASE ok = FALSE
    BY <1>2, <2>2, UnchangedEffect DEF JoinRoom
  <2> QED
    BY <2>1, <2>2
<1>3. ASSUME NEW r \in Rooms, NEW ok \in BOOLEAN, CreateRoom(r, ok)
      PROVE  /\ RoomManagerInv'
             /\ [Membership!Next]_<<DOMAIN rooms, Memberships>>
  <2>1. CASE ok = TRUE
    BY <1>3, <2>1, CreateEffect DEF Membership!Next, Membership!Create
  <2>2. CASE ok = FALSE
    BY <1>3, <2>2, UnchangedEffect DEF CreateRoom, roomVars
  <2> QED
    BY <2>1, <2>2
<1>4. ASSUME NEW r \in Rooms, NEW u \in Users, NEW result,
             LeaveRoom(r, u, result)
      PROVE  /\ RoomManagerInv'
             /\ [Membership!Next]_<<DOMAIN rooms, Memberships>>
  <2>1. CASE result = "ok"
    BY <1>4, <2>1, LeaveEffect DEF Membership!Next, Membership!Leave
  <2>2. CASE result # "ok"
    BY <1>4, <2>2, UnchangedEffect DEF LeaveRoom
  <2> QED
    BY <2>1, <2>2
<1>5. ASSUME NEW u \in Users, LeaveAll(u)
      PROVE  /\ RoomManagerInv'
             /\ [Membership!Next]_<<DOMAIN rooms, Memberships>>
  BY <1>5, LeaveAllEffect DEF Membership!Next, Membership!LeaveEverything
<1> QED
  BY <1>1, <1>2, <1>3, <1>4, <1>5 DEF Next

(* The index of every user's rooms is exact in every reachable state.      *)
THEOREM IndexAlwaysExact == Spec => [](TypeOK /\ IndexExact)
<1>1. RoomManagerInv /\ [Next]_roomVars => RoomManagerInv'
  BY StepEffect
<1> QED
  BY <1>1, InitInv, PTL DEF Spec, RoomManagerInv

(* Joining, leaving and leaving everything change the membership relation  *)
(* exactly as their names say, whatever the index went through before.     *)
THEOREM MembershipImplemented == Spec => ImplementsMembership
<1>1. Init => Membership!Init
  BY DEF Init, EmptyMap, Membership!Init, Memberships
<1>2. RoomManagerInv /\ [Next]_roomVars
        => [Membership!Next]_<<DOMAIN rooms, Memberships>>
  BY StepEffect
<1>3. Spec => []RoomManagerInv
  BY IndexAlwaysExact, PTL DEF RoomManagerInv
<1> QED
  BY <1>1, <1>2, <1>3, PTL
     DEF Spec, ImplementsMembership, Membership!Spec, Membership!vars
=============================================================================
