\* One other thread forces the connection to close while it closes by itself.
CONSTANTS
  Threads = {t1}
  IoThread = io
  MaxSends = 1
  MaxCloses = 1
SPECIFICATION CloseSpec
CHECK_DEADLOCK FALSE
INVARIANT
  ConnectDestroyedOnce
