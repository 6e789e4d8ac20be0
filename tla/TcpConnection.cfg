\* Two other threads; two messages of each thread.
CONSTANTS
  Threads = {t1, t2}
  IoThread = io
  MaxSends = 2
SPECIFICATION FairSpec
CHECK_DEADLOCK FALSE
INVARIANTS
  CallbacksOnce
  AssertionsHold
  LateSendsOnly
  OutputInOrder
  NothingLost
  OutputDrains
PROPERTY
  EndedIsFreed
