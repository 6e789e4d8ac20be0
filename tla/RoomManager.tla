---------------------------- MODULE RoomManager ----------------------------
(***************************************************************************)
(* server/RoomManager: which rooms exist and who is in them.               *)
(*                                                                         *)
(* Two std::maps under one mutex: rooms_ (here rooms) from a room to the   *)
(* set of its members, and the reverse index userRooms_ (here userRooms)   *)
(* from a user to the set of the user's rooms, which leaveAll reads        *)
(* instead of searching every room.  Rooms are never deleted.  Each public *)
(* method runs under the mutex and is one action; what it returns is the   *)
(* action's last argument.  Names are valid ones: isValidName turns the    *)
(* others away before the mutex is taken, and nothing changes.             *)
(***************************************************************************)
EXTENDS StdMap

CONSTANTS Users, Rooms

VARIABLES rooms, userRooms

roomVars == <<rooms, userRooms>>

Init ==
  /\ rooms = EmptyMap
  /\ userRooms = EmptyMap

(* userRooms_[username], which a std::map default-constructs.              *)
RoomsOf(u) == IF u \in DOMAIN userRooms THEN userRooms[u] ELSE {}

CreateRoom(r, ok) ==
  /\ ok = (r \notin DOMAIN rooms)
  /\ IF ok THEN rooms' = Put(rooms, r, {}) ELSE UNCHANGED rooms
  /\ UNCHANGED userRooms

JoinRoom(r, u, ok) ==
  /\ ok = (r \in DOMAIN rooms)
  /\ IF ok
     THEN /\ rooms' = [rooms EXCEPT ![r] = @ \cup {u}]
          /\ userRooms' = Put(userRooms, u, RoomsOf(u) \cup {r})
     ELSE UNCHANGED roomVars

MemberResult(r, u) ==
  IF r \notin DOMAIN rooms THEN "room does not exist"
  ELSE IF u \notin rooms[r] THEN "user is not in room"
  ELSE "ok"

(* Mutant: the user's last room leaves an empty index entry behind.        *)
LeaveRoomKeepsEntry(r, u, result) ==
  /\ result = MemberResult(r, u)
  /\ IF result = "ok"
     THEN /\ rooms' = [rooms EXCEPT ![r] = @ \ {u}]
          /\ userRooms' = [userRooms EXCEPT ![u] = @ \ {r}]
     ELSE UNCHANGED roomVars

(* The index entry goes with the user's last room.                         *)
LeaveRoom(r, u, result) ==
  /\ result = MemberResult(r, u)
  /\ IF result = "ok"
     THEN /\ rooms' = [rooms EXCEPT ![r] = @ \ {u}]
          /\ userRooms' = IF u \notin DOMAIN userRooms THEN userRooms
                          ELSE IF userRooms[u] \ {r} = {}
                          THEN EraseKeys(userRooms, {u})
                          ELSE [userRooms EXCEPT ![u] = @ \ {r}]
     ELSE UNCHANGED roomVars

(* Mutant: the user's rooms are cleared, not only of the user.             *)
LeaveAllClears(u) ==
  IF u \in DOMAIN userRooms
  THEN /\ rooms' = [r \in DOMAIN rooms |-> IF r \in userRooms[u]
                                           THEN {} ELSE rooms[r]]
       /\ userRooms' = EraseKeys(userRooms, {u})
  ELSE UNCHANGED roomVars

LeaveAll(u) ==
  IF u \in DOMAIN userRooms
  THEN /\ rooms' = [r \in DOMAIN rooms |-> IF r \in userRooms[u]
                                           THEN rooms[r] \ {u} ELSE rooms[r]]
       /\ userRooms' = EraseKeys(userRooms, {u})
  ELSE UNCHANGED roomVars

Next ==
  \/ \E r \in Rooms, ok \in BOOLEAN :
       \/ CreateRoom(r, ok)
       \/ \E u \in Users : JoinRoom(r, u, ok)
  \/ \E r \in Rooms, u \in Users,
        result \in {"ok", "room does not exist", "user is not in room"} :
       LeaveRoom(r, u, result)
  \/ \E u \in Users : LeaveAll(u)

Spec == Init /\ [][Next]_roomVars

-----------------------------------------------------------------------------
(* Members are users, indexed rooms are rooms.                             *)
TypeOK ==
  /\ DOMAIN rooms \subseteq Rooms
  /\ rooms = [r \in DOMAIN rooms |-> rooms[r]]
  /\ \A r \in DOMAIN rooms : rooms[r] \subseteq Users
  /\ DOMAIN userRooms \subseteq Users
  /\ userRooms = [u \in DOMAIN userRooms |-> userRooms[u]]
  /\ \A u \in DOMAIN userRooms : userRooms[u] \subseteq Rooms

(* The reverse index RoomManager.h keeps beside rooms_ names exactly the   *)
(* rooms a user is in, and holds no entry for a user who is in none: what  *)
(* leaveAll relies on to take a user out of every room, and what keeps the *)
(* index from growing with every user who ever joined.                     *)
IndexExact ==
  /\ \A r \in DOMAIN rooms : \A u \in rooms[r] :
       u \in DOMAIN userRooms /\ r \in userRooms[u]
  /\ \A u \in DOMAIN userRooms :
       /\ userRooms[u] # {}
       /\ \A r \in userRooms[u] : r \in DOMAIN rooms /\ u \in rooms[r]

(* Every operation does to the membership relation what its name says,     *)
(* leaveAll included, although it never looks at rooms_ to find the rooms. *)
Memberships == {m \in (DOMAIN rooms) \X Users : m[2] \in rooms[m[1]]}

Membership == INSTANCE RoomMembership
                WITH created <- DOMAIN rooms, member <- Memberships

ImplementsMembership == Membership!Spec
=============================================================================
