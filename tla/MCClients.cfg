CONSTANTS
  Requests = {r1, r2}
  MaxQueuedMessages = 2
  MaxPieces = 1
  MaxRequests = 3
  Responses = {1, 2, 3}
  Names = {alice, bob}
  TakenNames = {bob}
  NoName = NoName
  MaxSockets = 3
  LoginNames = {alice, bob}
  RefusedNames = {bob}
  NoUser = NoUser
  MaxAttempts = 3
  Peers = {bob}
  Rooms = {lobby}
  NoRoom = NoRoom
  HistoryLimit = 2
  MaxTexts = 2
  MaxTime = 2
  MaxRoomRequests = 2
  MaxLocal = 2
  NoRequest = NoRequest
  MaxLineLength = 40
  MaxLines = 2
SPECIFICATION Spec
INVARIANTS RelayedInOrder ShownIsSession ShownOnce LinesRoundTrip
PROPERTIES BothSidesEnd LoginAnswered
CHECK_DEADLOCK FALSE
