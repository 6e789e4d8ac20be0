\* Two users, one call: the callee logs out while the caller invites.
CONSTANTS
  Users = {u1, u2}
  Conns = {c1, c2}
  Rooms = {}
  CallIds = {k1}
  NoUser = NoUser
  NoCall = NoCall
SPECIFICATION Spec
SYMMETRY Symmetry
CHECK_DEADLOCK FALSE
INVARIANT
  CallUsersOnline
