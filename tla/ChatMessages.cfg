\* Private messages and one room: a member can leave, close and come back on a
\* third connection while others send.
CONSTANTS
  Users = {u1, u2}
  Conns = {c1, c2, c3}
  Rooms = {r1}
  CallIds = {}
  NoUser = NoUser
  NoCall = NoCall
  DefaultLimit = 2
  MaxLimit = 2
  MaxMessages = 1
SPECIFICATION MessagesSpec
SYMMETRY Symmetry
CHECK_DEADLOCK FALSE
INVARIANTS
  NothingMissed
  NothingTwice
