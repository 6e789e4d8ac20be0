\* Three users with a connection each, one call, one room.  A user can log in
\* again on another connection while the old session is being logged out, and
\* the user who is not in the call tries every request about it.
CONSTANTS
  Users = {u1, u2, u3}
  Conns = {c1, c2, c3}
  Rooms = {r1}
  CallIds = {k1}
  NoUser = NoUser
  NoCall = NoCall
SPECIFICATION Spec
SYMMETRY Symmetry
CHECK_DEADLOCK FALSE
INVARIANTS
  SessionsAgree
  OnlyOnlineBusy
  NobodyStranded
PROPERTY
  OnlyPartiesEnd
