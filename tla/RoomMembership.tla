-------------------------- MODULE RoomMembership ---------------------------
(***************************************************************************)
(* What the room manager promises: which rooms exist, and who is in which. *)
(* A room, once created, stays; a user who leaves everything is in no room *)
(* at all.  README.md:492 of the repository: "Disconnecting also ...       *)
(* removes that user from all rooms."                                      *)
(***************************************************************************)
CONSTANTS Users, Rooms

VARIABLES created,     \* the rooms that exist
          member       \* pairs <<room, user>>

vars == <<created, member>>

Init == created = {} /\ member = {}

Create(r) ==
  /\ r \notin created
  /\ created' = created \cup {r}
  /\ UNCHANGED member

Join(r, u) ==
  /\ r \in created
  /\ member' = member \cup {<<r, u>>}
  /\ UNCHANGED created

Leave(r, u) ==
  /\ <<r, u>> \in member
  /\ member' = member \ {<<r, u>>}
  /\ UNCHANGED created

LeaveEverything(u) ==
  /\ member' = {m \in member : m[2] # u}
  /\ UNCHANGED created

Next ==
  \/ \E r \in Rooms : Create(r)
  \/ \E r \in Rooms, u \in Users : Join(r, u) \/ Leave(r, u)
  \/ \E u \in Users : LeaveEverything(u)

Spec == Init /\ [][Next]_vars
=============================================================================
