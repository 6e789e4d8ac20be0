----------------------------- MODULE MCLibrary -----------------------------
(***************************************************************************)
(* The command-line and stress clients, the server's statistics and the    *)
(* parts of muduo below them, which share no state: one of them runs,      *)
(* "focus" says which, and the others stay as they start.                  *)
(***************************************************************************)
EXTENDS Integers, Sequences, FiniteSets

CONSTANTS
  NoFd, InitRetryDelay, MaxRetryDelay, MaxFds,
  IoThreads, MaxMessages, MaxSnapshots, MaxConnections,
  Clients, MaxSends,
  Base, CR, LF, NotFound, kCheapPrepend, kInitialSize, ExtraSize, MaxData,
    MaxSize,
  Addresses, MaxTimers, MaxTime, MaxDelay, MaxQueued,
  Fds,
  kLargeBuffer, MaxBuffers, rollSize, checkEveryN, flushInterval,
    kRollPerSeconds, MaxLogLines, MaxLogTime,
  FirstWorker, SecondWorker, Producers, maxQueueSize, MaxTasks,
  Putters, Takers, capacity, MaxPuts,
  MaxThreads, MaxDealt,
  MaxFd, MaxCallers, MaxOpens,
  kSmallBuffer, kMaxNumericSize, LoggingThreads, Seconds, Strings, MaxLines,
    MaxPieces,
  Years             \* bound: the years the walk over the days goes through

VARIABLES
  focus,
  main, chat, connection, connector, fds, phase, polled, pending, batch,
    retryTimers, assertFailed,
  count, recording, open, snapshot, reported,
  opened, timeOver, stage, server, loggedIn, inFlight, metrics, csv,
  buffer, result,
  now, heap, created, status, timers, activeTimers, cancelingTimers, handling,
    armed, queued,
  events, index, kernel, slot, pollfds, channels, active, handled,
  process, lines, current, next, buffers, writer, dropped, logFile, files,
    flushed, seconds,
  owner, started, latch, running, queue, worker, producer, ran,
  bounded, items, putter, taker, put, taken,
  numThreads, base, loops, nextLoop, thread, pointer, quit, dealt,
  descriptors, idleFd, accepting, backlog, came, othersOpened, wrongClose,
  clock, g_logLevel, zoned, t_lastSecond, t_time, statements, begun, output,
    flushedLines, aborted,
  date, julian, zone, local, number

C == INSTANCE TcpClient
M == INSTANCE ServerMetrics
S == INSTANCE StressClient
B == INSTANCE Buffer
T == INSTANCE TimerQueue
P == INSTANCE Poller
L == INSTANCE AsyncLogging
W == INSTANCE ThreadPool WITH Workers <- <<FirstWorker, SecondWorker>>
Q == INSTANCE BlockingQueues
E == INSTANCE LoopThreads
A == INSTANCE Acceptor WITH MaxClients <- MaxCallers
Z == INSTANCE TimeZone

(* The log's zone: Germany's distances, 3600 and 7200, around the change   *)
(* of 25 March 1990.                                                       *)
LineZone == Z!Zone(<<3600, 7200>>,
                   <<[at |-> 622602000, idx |-> 1],
                     [at |-> 638326800, idx |-> 2],
                     [at |-> 654656400, idx |-> 1]>>)

G == INSTANCE Logger WITH Threads <- LoggingThreads

(* t_lastSecond starts as second 0, which the clock does not show.         *)
ASSUME ClockAssumption == Seconds \subseteq Nat \ {0}

ASSUME ConnectorAssumption ==
  NoFd \notin Nat /\ InitRetryDelay \in Nat /\ MaxRetryDelay \in Nat

ASSUME TimerAssumption == MaxTime \in Nat /\ MaxDelay \in Nat

(* One client is a thread of the stress tool.                              *)
ASSUME ClientsAssumption == IsFiniteSet(Clients) /\ MaxSends \in Nat

(* Every integer that is appended is among the data.                       *)
ASSUME BufferAssumption ==
  /\ Base \in Nat \ {0} /\ kCheapPrepend \in Nat /\ kInitialSize \in Nat
  /\ MaxData \in Nat \ {0, 1}

ASSUME FdsAssumption == Fds \subseteq Nat

(* 25 in the code: when there are more, two are kept.                      *)
ASSUME LogAssumption == MaxBuffers \in Nat \ {0}

ASSUME QueueAssumption ==
  /\ IsFiniteSet(Putters) /\ IsFiniteSet(Takers)
  /\ capacity \in Nat /\ MaxPuts \in Nat

(* The acceptor asserts that it could open its idle descriptor.            *)
ASSUME AcceptAssumption == MaxFd \in Nat \ {0}

clientVars == <<main, chat, connection, connector, fds, phase, polled, pending,
                batch, retryTimers, assertFailed>>
metricsVars == <<count, recording, open, snapshot, reported>>
stressVars == <<opened, timeOver, stage, server, loggedIn, inFlight, metrics,
                csv>>
bufferVars == <<buffer, result>>
timerVars == <<now, heap, created, status, timers, activeTimers,
               cancelingTimers, handling, armed, queued>>
pollerVars == <<events, index, kernel, slot, pollfds, channels, active,
                handled>>
logVars == <<process, lines, current, next, buffers, writer, dropped, logFile,
             files, flushed, seconds>>
poolVars == <<owner, started, latch, running, queue, worker, producer, ran>>
queueVars == <<bounded, items, putter, taker, put, taken>>
threadVars == <<numThreads, base, loops, nextLoop, thread, pointer, quit,
                dealt>>
acceptVars == <<descriptors, idleFd, accepting, backlog, came, othersOpened,
                wrongClose>>
loggerVars == <<clock, g_logLevel, zoned, t_lastSecond, t_time, statements,
                begun, output, flushedLines, aborted>>
walkVars == <<date, julian, zone, local, number>>
vars == <<focus, clientVars, metricsVars, stressVars, bufferVars, timerVars,
          pollerVars, logVars, poolVars, queueVars, threadVars, acceptVars,
          loggerVars, walkVars>>

libraryVars == <<clientVars, metricsVars, stressVars, bufferVars, timerVars,
                 pollerVars, logVars, poolVars, queueVars, threadVars,
                 acceptVars>>

-----------------------------------------------------------------------------
(* Walks over what the conversions of dates, local times and numbers are   *)
(* given: the days of some years, a day after the other; the local seconds *)
(* of a zone; the numbers of 8 bits.                                       *)

(* Zones of up to three transitions, a day apart, among three distances.   *)
FirstMoment == 638326800
Zones ==
  {Z!Zone(<<-3600, 0, 5400>>,
          [i \in DOMAIN idx |-> [at |-> FirstMoment + i * Z!kSecondsPerDay,
                                 idx |-> idx[i]]]) :
     idx \in UNION {[1..n -> 1..3] : n \in 0..3}}

(* The Gregorian calendar.                                                 *)
IsLeapYear(year) == year % 4 = 0 /\ (year % 100 # 0 \/ year % 400 = 0)
DaysIn(month, year) ==
  IF month = 2 THEN IF IsLeapYear(year) THEN 29 ELSE 28
  ELSE IF month \in {4, 6, 9, 11} THEN 30 ELSE 31

Tomorrow ==
  IF date.day < DaysIn(date.month, date.year)
  THEN [date EXCEPT !.day = @ + 1]
  ELSE IF date.month < 12 THEN [date EXCEPT !.month = @ + 1, !.day = 1]
  ELSE [year |-> date.year + 1, month |-> 1, day |-> 1]

WalkInit ==
  /\ date \in {[year |-> y, month |-> 1, day |-> 1] : y \in Years}
  /\ focus # "days" => \A y \in Years : date.year <= y
  /\ julian = Z!getJulianDayNumber(date)
  /\ zone \in Zones
  /\ focus # "zone" => Len(zone.transitions) = 0
  /\ local = FirstMoment /\ number = -128

NextDay ==
  /\ date.year \in Years
  /\ date' = Tomorrow /\ julian' = julian + 1
  /\ UNCHANGED <<zone, local, number>>

NextSecond ==
  /\ local < FirstMoment + 5 * Z!kSecondsPerDay /\ local' = local + 1800
  /\ UNCHANGED <<date, julian, zone, number>>

NextNumber ==
  /\ number < 127 /\ number' = number + 1
  /\ UNCHANGED <<date, julian, zone, local>>

-----------------------------------------------------------------------------
Init ==
  /\ focus \in {"client", "metrics", "stress", "buffer", "timers", "poller",
                "log", "pool", "queues", "loops", "acceptor", "logger", "days",
                "zone", "numbers"}
  /\ C!ClientInit /\ M!MetricsInit /\ S!StressInit /\ B!BufferInit
  /\ T!TimerInit /\ P!PollerInit /\ L!LogInit /\ W!PoolInit
  /\ Q!QueueInit /\ E!ThreadsInit /\ A!AcceptInit
  /\ bounded => focus = "queues"
  /\ numThreads > 0 => focus = "loops"
  /\ G!LoggerInit
  /\ focus # "logger" => clock = FirstMoment /\ g_logLevel = G!INFO /\ ~zoned
  /\ WalkInit

Next ==
  \/ /\ focus = "client" /\ C!ClientNext
     /\ UNCHANGED <<focus, metricsVars, stressVars, bufferVars, timerVars,
                    pollerVars, logVars, poolVars, queueVars, threadVars,
                    acceptVars, loggerVars, walkVars>>
  \/ /\ focus = "metrics" /\ M!MetricsNext
     /\ UNCHANGED <<focus, clientVars, stressVars, bufferVars, timerVars,
                    pollerVars, logVars, poolVars, queueVars, threadVars,
                    acceptVars, loggerVars, walkVars>>
  \/ /\ focus = "stress" /\ S!StressNext
     /\ UNCHANGED <<focus, clientVars, metricsVars, bufferVars, timerVars,
                    pollerVars, logVars, poolVars, queueVars, threadVars,
                    acceptVars, loggerVars, walkVars>>
  \/ /\ focus = "buffer" /\ B!BufferNext
     /\ UNCHANGED <<focus, clientVars, metricsVars, stressVars, timerVars,
                    pollerVars, logVars, poolVars, queueVars, threadVars,
                    acceptVars, loggerVars, walkVars>>
  \/ /\ focus = "timers" /\ T!TimerNext
     /\ UNCHANGED <<focus, clientVars, metricsVars, stressVars, bufferVars,
                    pollerVars, logVars, poolVars, queueVars, threadVars,
                    acceptVars, loggerVars, walkVars>>
  \/ /\ focus = "poller" /\ P!PollerNext
     /\ UNCHANGED <<focus, clientVars, metricsVars, stressVars, bufferVars,
                    timerVars, logVars, poolVars, queueVars, threadVars,
                    acceptVars, loggerVars, walkVars>>
  \/ /\ focus = "log" /\ L!LogNext
     /\ UNCHANGED <<focus, clientVars, metricsVars, stressVars, bufferVars,
                    timerVars, pollerVars, poolVars, queueVars, threadVars,
                    acceptVars, loggerVars, walkVars>>
  \/ /\ focus = "pool" /\ W!PoolNext
     /\ UNCHANGED <<focus, clientVars, metricsVars, stressVars, bufferVars,
                    timerVars, pollerVars, logVars, queueVars, threadVars,
                    acceptVars, loggerVars, walkVars>>
  \/ /\ focus = "queues" /\ Q!QueueNext
     /\ UNCHANGED <<focus, clientVars, metricsVars, stressVars, bufferVars,
                    timerVars, pollerVars, logVars, poolVars, threadVars,
                    acceptVars, loggerVars, walkVars>>
  \/ /\ focus = "loops" /\ E!ThreadsNext
     /\ UNCHANGED <<focus, clientVars, metricsVars, stressVars, bufferVars,
                    timerVars, pollerVars, logVars, poolVars, queueVars,
                    acceptVars, loggerVars, walkVars>>
  \/ /\ focus = "acceptor" /\ A!AcceptNext
     /\ UNCHANGED <<focus, clientVars, metricsVars, stressVars, bufferVars,
                    timerVars, pollerVars, logVars, poolVars, queueVars,
                    threadVars, loggerVars, walkVars>>
  \/ /\ focus = "logger" /\ G!LoggerNext
     /\ UNCHANGED <<focus, libraryVars, walkVars>>
  \/ /\ \/ focus = "days" /\ NextDay
        \/ focus = "zone" /\ NextSecond
        \/ focus = "numbers" /\ NextNumber
     /\ UNCHANGED <<focus, libraryVars, loggerVars>>

Fairness ==
  /\ WF_poolVars(focus = "pool" /\ W!StartThread)
  /\ WF_poolVars(focus = "pool" /\ W!LatchOpens)
  /\ WF_poolVars(focus = "pool" /\ W!Join)
  /\ WF_poolVars(focus = "pool" /\ W!WorkerStep(FirstWorker))
  /\ WF_poolVars(focus = "pool" /\ W!WorkerStep(SecondWorker))
  /\ \A p \in Producers : WF_poolVars(focus = "pool" /\ W!Run(p))
  /\ WF_threadVars(focus = "loops" /\ E!BaseStep /\ UNCHANGED numThreads)
  /\ \A i \in 1..MaxThreads :
       WF_threadVars(focus = "loops" /\ E!ThreadStep(i) /\ UNCHANGED numThreads)
  /\ WF_acceptVars(focus = "acceptor" /\ A!AcceptorStep)

Spec == Init /\ [][Next]_vars /\ Fairness

-----------------------------------------------------------------------------
(* The command-line client's connection, Connector.cc and TcpClient.cc,    *)
(* and the server's acceptor, Acceptor.cc:55-88: each descriptor is owned  *)
(* by one of them and closed once.  See TcpClient and Acceptor.            *)
SocketsAccounted == C!SocketsAccounted /\ A!DescriptorsOwned

(* The server's statistics, ServerMetrics.cc:26-75, and the stress tool's, *)
(* StressClient.cc:386-493: what they print adds up.                       *)
CountsAgree == M!SnapshotsAddUp /\ S!CsvCounts

(* The buffers of a connection, Buffer.h and Buffer.cc:25-57: they are     *)
(* queues of bytes.  See Buffer and ByteQueue.                             *)
BufferIsQueue == B!ImplementsQueue

(* BlockingQueue.h:31-69, BoundedBlockingQueue.h:30-66: no thread waits for *)
(* what is there, no value is lost or overtaken.  See BlockingQueues.      *)
QueuesSound == Q!NobodyWaitsInVain /\ Q!ValuesInOrder

(* The event loop's timers, TimerQueue.cc:116-259: see TimerQueue.         *)
TimersExact == T!TimersExact

(* The two pollers, EPollPoller.cc and PollPoller.cc: see Poller.          *)
PollersAgree == P!PollersAgree

(* The log of the server, AsyncLogging.cc and LogFile.cc: see              *)
(* AsyncLogging.                                                           *)
LogInOrder == L!LogInOrder

(* Logging.cc and LogStream.cc: see Logger.  Date.cc:21-43, TimeZone.cc:   *)
(* 285-313, 493-504: a date and its number convert into each other, a day  *)
(* after the other, and so do the moments at the edges of each minute,     *)
(* hour and day, before 1970 as well as after, as far as 32 bits of        *)
(* seconds go.  TimeZone.cc:318-431: see LocalSecondFound; a second before *)
(* each change as well as at it.  LogStream.cc:38-84: see NumberReadsBack. *)
LogTextExact ==
  /\ G!LinesWhole /\ G!LinesOnTime /\ G!FatalFlushed
  /\ focus = "days" =>
       /\ Z!getYearMonthDay(julian) = date
       /\ Z!getJulianDayNumber(date) = julian
       /\ julian - Z!kJulianDayOf1970 \in -24000..24000 =>
            \A rest \in {0, 59, 60, 3599, 3600, 86399} :
              LET t == (julian - Z!kJulianDayOf1970) * Z!kSecondsPerDay + rest
              IN Z!BreakTime(t).date = date /\ Z!fromUtcTime(Z!BreakTime(t)) = t
  /\ focus = "zone" =>
       Z!LocalSecondFound(zone, local) /\ Z!LocalSecondFound(zone, local - 1)
  /\ focus = "numbers" => G!NumberReadsBack(number)

(* ThreadPool.cc:33-155, BlockingQueue.h, BoundedBlockingQueue.h,          *)
(* EventLoopThread.cc:27-76, EventLoopThreadPool.cc:33-71,                 *)
(* Acceptor.cc:55-88: threads that wait for each other get what they wait  *)
(* for, in order.  See the modules of these names.                         *)
ThreadsServe ==
  /\ [](QueuesSound /\ E!LoopsShare)
  /\ focus = "pool" => W!PoolServes
  /\ focus = "loops" => E!PoolEnds
  /\ focus = "acceptor" => A!ClientsHeard
=============================================================================
