CONSTANTS
  NoFd = NoFd
  InitRetryDelay = 1
  MaxRetryDelay = 3
  MaxFds = 4
  IoThreads = {a, b}
  MaxMessages = 2
  MaxSnapshots = 2
  MaxConnections = 1
  Clients = {a, b}
  MaxSends = 2
  Base = 2
  CR = 0
  LF = 1
  NotFound = NotFound
  kCheapPrepend = 1
  kInitialSize = 2
  ExtraSize = 1
  MaxData = 2
  MaxSize = 6
  Addresses = {1, 2}
  MaxTimers = 2
  MaxTime = 2
  MaxDelay = 1
  MaxQueued = 1
  Fds = {3, 4, 5}
  kLargeBuffer = 3
  MaxBuffers = 2
  rollSize = 2
  checkEveryN = 2
  flushInterval = 0
  kRollPerSeconds = 3
  MaxLogLines = 7
  MaxLogTime = 3
  FirstWorker = w1
  SecondWorker = w2
  Producers = {a, b}
  maxQueueSize = 1
  MaxTasks = 2
  Putters = {a, b}
  Takers = {c, d}
  capacity = 1
  MaxPuts = 2
  MaxThreads = 2
  MaxDealt = 4
  MaxFd = 3
  MaxCallers = 4
  MaxOpens = 2
  kSmallBuffer = 100
  kMaxNumericSize = 24
  LoggingThreads = {a, b}
  Seconds = {638326799, 638326800}
  Strings = {40}
  MaxLines = 2
  MaxPieces = 1
  Years = {1900, 1901, 1904, 1969, 1970, 1972, 2000, 2001, 2038, 2100, 2400}
SPECIFICATION Spec
INVARIANTS SocketsAccounted CountsAgree TimersExact PollersAgree LogInOrder
           LogTextExact
PROPERTIES BufferIsQueue ThreadsServe
CHECK_DEADLOCK FALSE
