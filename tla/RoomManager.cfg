\* Three users in three rooms: a user in several rooms, a room with several
\* users, and rooms left while the user stays elsewhere.
CONSTANTS
  Users = {u1, u2, u3}
  Rooms = {r1, r2, r3}
SPECIFICATION Spec
INVARIANTS
  IndexExact
PROPERTY
  ImplementsMembership
