CONSTANTS
  Users = {alice, bob}
  CallIds = {id1, id2}
  NoCall = NoCall
  Droppers = {bob}
SPECIFICATION WebSpec
INVARIANTS
  PagesBacked
  SignalsOfTheirCall
  CameraOnlyInCall
PROPERTIES
  CallsSettle
CHECK_DEADLOCK FALSE
