\* Two threads and the loop's own callbacks and functors queue four functors.
CONSTANTS
  Threads = {t1, t2}
  MaxFunctors = 4
SPECIFICATION FairSpec
CHECK_DEADLOCK FALSE
INVARIANTS
  InOrder
  NoLostWakeup
PROPERTIES
  LoopServes
