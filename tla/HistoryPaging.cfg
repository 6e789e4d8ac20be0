\* Pages of one, two and three rows (a limit of zero asks for the default);
\* two writers can store their rows against the order of their times.
CONSTANTS
  DefaultLimit = 2
  MaxLimit = 3
  Writers = {w1, w2}
  Conversations = {a, b}
  Limits = {0, 1, 9}
  LastSecond = 3
  MaxRows = 4
SPECIFICATION Spec
CHECK_DEADLOCK FALSE
PROPERTY
  PagingSound
