# ChatService: specifications, model checking and proofs

This directory holds the TLA+ specification of ChatService, the TLC
configurations that check it on small instances and the proofs TLAPS checks
for every instance.  Paths and line numbers are those of the repository's
sources, from its root.

To repeat the checks, with TLC and TLAPS installed:

    tlc -config CallManager.cfg CallManager.tla        # and so on, see "Runs"
    tlapm CallManagerProofs.tla
    tlapm RoomManagerProofs.tla
    tlapm ChatMessagesProofs.tla
    tlapm WebClientCallProofs.tla
    tlapm ClientProofs.tla
    tlapm EventLoopProofs.tla
    tlapm TcpConnectionProofs.tla
    tlapm LibraryProofs.tla

## 1. The system

Clients speak one JSON object per line over TCP (the browser through a
WebSocket gateway).  The server runs one muduo event loop per thread, four
worker threads (`common/Config.h:15`); a connection is bound to one loop, which
runs its callbacks one after the other.  Handlers of connections on different
loops run in parallel and meet in three shared managers, each with its own
mutex, in the storage and in the metrics.

| component | state | operations | what makes it correct |
|---|---|---|---|
| `server/CallManager` | `users_`: user to (state, call id, peer); `calls_`: id to (caller, callee, accepted); one mutex | start, accept, reject, cancel, timeout, hangup, validateSignaling, removeUser | the two maps describe the same calls; a user is in one call at most; only the right party may do each thing |
| `server/RoomManager` | `rooms_`: room to members; `userRooms_`: user to rooms; one mutex | create, join, leave, leaveAll, membersForMessage, roomCount | the index mirrors the rooms and holds no empty entry |
| `server/UserManager` | `users_`: user to connection; one mutex | login, logout, find, findMany, onlineUsers | one connection per name; logout never removes a newer login |
| `server/ChatServer`, `ChatSession` | per connection: the session with its username; handler locals | login, logout, rooms, messages, history, calls, connect, disconnect | sessions and managers agree however handlers interleave; logout leaves nothing behind; the other party of a call is told |
| `server/ChatStorage` | SQLite database, one mutex | save and load private and room messages | what is delivered was saved; paging loses nothing |
| `server/ServerMetrics` | atomic counters, latency samples under a mutex | record, snapshotAndReset | nothing counted twice or lost |
| `web-client` | call phase, id, peer, two timers, WebRTC objects | user actions, events, timers, awaited WebRTC steps | the client's call and the server's agree in the end |
| `ws-gateway` | per client: TCP socket, bounded queue, line buffer | forward both ways, close | order kept, nothing sent after close, queue bounded |
| muduo `EventLoop` | pending functors, event fd | queueInLoop, wakeup, loop | a queued functor is run without waiting for the poll's time-out |
| muduo `TcpConnection`, `TcpServer` | connection state, output buffer, connection map | send, shutdown, forceClose, close, establish, destroy | established and destroyed once, in the connection's own loop |
| muduo `Acceptor` | the listening socket, a spare descriptor | handleRead | a client is turned away when descriptors run out; no descriptor is closed twice or leaked |
| muduo `Connector`, `TcpClient` | the attempt, its delay; the connection | connect, retry, disconnect | one attempt or connection at a time, each socket closed once |
| muduo `EventLoopThread`, pool | threads and their loops, the next one | start, getNextLoop, destroy | connections are dealt out evenly; starting and ending do end |
| muduo `Buffer` | a vector and two indices | append, prepend, retrieve, search, readFd | a queue of bytes, however it grows and moves |
| muduo `Channel`, pollers | interest of each channel, the poller's list | update, remove, poll, handleEvent | the poller watches what the channels want |
| muduo `TimerQueue` | two ordered sets, the timerfd | add, cancel, handleRead | exactly the live timers, and the descriptor set for the first |
| muduo queues, latch, pool | values or tasks, waiting threads | put, take, run, start, stop | nobody waits for what is there; order kept |
| muduo `AsyncLogging`, `LogFile` | buffers, spare buffers, the file | append, write, roll | lines once and in order, or counted as dropped |
| muduo `Logging`, `LogStream`, `Date`, `TimeZone` | a line's buffer; the text of the current second, kept per thread; a zone's changes | format, append, flush, convert | whole lines with the right time; dates, local times and digits that convert back |
| `client`, `qt-client` | connection, login, conversations | commands, events | the login that is shown is the server's; each message shown once |
| `tools`, `stress-test` | counters | connect, send, drain | the printed counts add up |
| `deploy` | | | configuration |

Interactions: a handler calls the managers one after the other and keeps
nothing locked in between; it looks a receiver up in `UserManager` and sends to
the connection it found, which may belong to another loop, may have closed, and
may by then be logged in as somebody else.  `logout` runs for a request and for
a closed connection, and passes through all three managers.

What is hard: every pair of manager calls in a handler is a window.  The list
of these windows, with their lines, is under "hazards" in `PROJECT.json`; the
properties below are aimed at them.

## 2. Modules

| module | models | kind |
|---|---|---|
| `StdMap` | `std::map` as a function | helper |
| `CallPairing` | what the call manager promises: a set of disjoint calls | abstract specification |
| `CallManager` | `server/CallManager.{h,cc}` | specification, checked with `CallManager.cfg` |
| `CallManagerProofs` | | proofs |
| `RoomMembership` | what the room manager promises: a membership relation | abstract specification |
| `RoomManager` | `server/RoomManager.{h,cc}` | specification, checked with `RoomManager.cfg` |
| `RoomManagerProofs` | | proofs |
| `UserManager` | `server/UserManager.{h,cc}` | operations, used by `ChatServer` |
| `ChatServer` | `server/ChatServer.cc`, `ChatSession.cc` over the three managers | composition |
| `MCChatServer` | symmetry for TLC | |
| `ChatStorage` | `server/ChatStorage.cc` | operations, used by the next two |
| `HistoryPaging` | a reader paging back through a conversation against two writers | specification, checked with `HistoryPaging.cfg` |
| `ChatMessages` | messages and history in `server/ChatServer.cc`, the conversations of `web-client/app.js` | composition; extends `ChatServer` |
| `ChatMessagesProofs` | | proofs about `ChatServer` and `ChatMessages`, over the managers' |
| `MCChatMessages` | symmetry for TLC | |
| `EventLoop` | `muduo/net/EventLoop.cc` | specification, checked with `EventLoop.cfg` |
| `EventLoopProofs` | | proofs |
| `TcpConnection` | `muduo/net/TcpConnection.cc` and the removal in `TcpServer.cc`: one connection over two loops and other threads | specification, checked with `TcpConnection.cfg` |
| `CrossClose` | `forceClose` called by another loop's thread | extends `TcpConnection`; checked with `CrossClose.cfg` |
| `TcpConnectionProofs` | | proofs |
| `WebClientCall` | calls of `web-client/app.js` and `webrtc.js` between pages, over the call manager | composition; extends `CallManager`; checked with `WebClientCall.cfg` |
| `WebClientCallProofs` | | proofs; extends `CallManagerProofs` |
| `WsGateway` | `ws-gateway/server.js`: one bridge | specification, checked as part of `MCClients` |
| `WebSession` | logins of `web-client/app.js` over several WebSockets | part of `MCClients` |
| `QtLogin` | `qt-client`: `LoginWindow.cpp` and the login state of `ChatClient.cpp` | part of `MCClients` |
| `QtClient` | `qt-client`: `MainWindow.cpp` over `ChatClient.cpp` | part of `MCClients` |
| `ClientViews` | `WsGateway`, `WebSession`, `QtLogin` and `QtClient` side by side, and what is to hold of what they show | extended by `MCClients` |
| `ClientProofs` | | proofs; extends `ClientViews` and `HistoryPaging` |
| `LineProtocol` | `common/Protocol.cc`, `common/Json.cc`, and lines over a stream from client to server and back | part of `MCClients` |
| `MCClients` | `ClientViews` and `LineProtocol`, one of the five at a time | checked with `MCClients.cfg` |
| `TcpClient` | `client/main.cc`, `ChatClient.cc`, `muduo/net/TcpClient.cc`, `Connector.cc` | part of `MCLibrary` |
| `ServerMetrics` | `server/ServerMetrics.cc` | part of `MCLibrary` |
| `StressClient` | `tools/StressClient.cc` | part of `MCLibrary` |
| `ByteQueue` | what a buffer promises: a queue of bytes | abstract specification |
| `Buffer` | `muduo/net/Buffer.h`, `Buffer.cc` | part of `MCLibrary` |
| `TimerQueue` | `muduo/net/TimerQueue.cc`, `Timer.h` | part of `MCLibrary` |
| `Poller` | `muduo/net/Channel.cc`, `EPollPoller.cc`, `PollPoller.cc` | part of `MCLibrary` |
| `AsyncLogging` | `muduo/base/AsyncLogging.cc`, `LogFile.cc`, `FileUtil.cc`, the log output of `server/main.cc` | part of `MCLibrary` |
| `ThreadPool` | `muduo/base/ThreadPool.cc`, `Thread.cc`, `CountDownLatch.cc` | part of `MCLibrary` |
| `BlockingQueues` | `muduo/base/BlockingQueue.h`, `BoundedBlockingQueue.h` | part of `MCLibrary` |
| `LoopThreads` | `muduo/net/EventLoopThread.cc`, `EventLoopThreadPool.cc` | part of `MCLibrary` |
| `Acceptor` | `muduo/net/Acceptor.cc` | part of `MCLibrary` |
| `TimeZone` | `muduo/base/Date.cc`, `TimeZone.cc` | operators, used by `Logger` |
| `Logger` | `muduo/base/Logging.cc`, `LogStream.{h,cc}` | part of `MCLibrary` |
| `MCLibrary` | the twelve above, one at a time, and walks through the dates, the changes of a zone, and numbers | checked with `MCLibrary.cfg` |
| `LibraryProofs` | | proofs; extends `MCLibrary` |

**CallManager.**  `callUsers` and `calls` are `users_` and `calls_`; a key that
is absent from the map is absent from the function's domain.  Each public
method holds the mutex throughout and is one action whose last argument is what
it returns, so the composition reads the result from the action.  `cancelCall`
and `timeoutCall` have the same body and are one action.  Call ids and names
are model values.

**RoomManager, UserManager.**  In the same way.  Names that `isValidName`
refuses are turned away before the mutex is taken and change nothing, so the
constants hold valid names only.

**ChatServer.**  `link` is the TCP connection, `session` the session's
username, `handler[c]` the point a connection's handler has reached and the
locals it carries over the next window: the other user, the call id, the
connection that `find` returned.  A handler takes one step per manager call and
per send to another connection.  A reply to the handler's own connection is
part of the step before it: it goes to that connection's own output, which
nobody else reads.  Handlers of one connection never overlap; handlers of
different connections interleave freely, which is what connections on different
loops do (four loops, at most three connections in the runs).

`view[c]` is what the client at the end of the connection knows of each call:
nothing, invited (`calling`), was invited (`ringing`), accepted (`in_call`) or
over.  It changes with what the client sends and with the events and errors
sent to it; once a call is over for a client, late events about it change
nothing (`web-client/app.js:776` drops events of any call but the current one).
Clients are not otherwise restricted: any logged-in client may send any request
at any time.  They draw a new id for every call, as `generateCallId` of the web
client does.

The order of deliveries on one connection, and the queue of a foreign loop, are
not part of this module: an event arrives when it is sent.

**ChatStorage, HistoryPaging.**  A row of the table is a record with its `id`
(its place in the table), conversation, `created_at` and content; `History` is
the query of `loadPrivateHistory` and `loadRoomHistory`: the rows of the
conversation before a time, the latest by `created_at` and `id`, at most the
sanitised limit of them, oldest first.  `created_at` is read from the clock
before the storage's mutex is taken, so in `HistoryPaging` reading the clock
and saving are two steps, and a row may be stored after one with a later time.

**ChatMessages.**  It adds the message and history handlers to `ChatServer`'s
connections: `sendPrivate` saves, finds the receiver and sends;
`sendRoomMessage` copies the members, saves, finds them all and sends to each.
A send goes to a connection the handler found some steps ago.  A page of the
web client is one login on one connection; it asks for the history of a
conversation once, when it first selects it, and then relies on live events.
Sends to a connection of another loop are delivered after a delay, since
`TcpConnection::send` queues them there, while a reply to the handler's own
connection is written at once; so a live event and a history reply can arrive
in either order.

**EventLoop.**  `pending` and `batch` are `pendingFunctors_` and the local
vector of `doPendingFunctors`; a functor is the number of its turn in the
queue. `queueInLoop` and `quit` of another thread take two steps, the change
and the write to the event fd.  The loop's own thread takes one step per stage
of `loop()`; an event callback or a running functor may queue further functors.

**TcpConnection.**  One connection from `newConnection` to its destruction.
`ioQueue` and `baseQueue` are the queues of its loop and of the server's loop;
that functors run once each and in order is what `EventLoop` shows.  `reading`,
`writing` and `added` are the channel's interest and whether the poller has it.
A message is two parts, and a write takes any number of them, so that all,
partial and refused writes occur.  `ups` and `downs` count the calls of the
connection callback, which the chat server uses to open a session and to log it
out.  `Alive` says whether anything holds a shared pointer: the server's map,
functors bound to one, the registry a logged-in user's connection is found in,
threads that found it there.  A send from another thread is bound to a raw
pointer (`TcpConnection.cc:105`).  A functor that runs on a destroyed
connection does nothing in the model: what the program does then cannot be
said, and `LateSendsOnly` is there to say when it can come to that.

A thread's `send` reads the state in one step and queues in another.  In
`CrossClose` its `forceClose` reads the state, writes it and queues in three.
The loop's own thread takes one step per functor and per event.  The model lets
events fall between two functors of a batch, which the loop does not do: it
only adds behaviours.  It keeps what depends on the loop's order: the functor
of a `forceClose` asked for by a message callback has run before the next read.
`CallbacksOnce` and the rest hold for a server with loops of its own for
connections, as the chat server is configured.

**WebClientCall.**  `page[u]` is `state.call` of a user's page with the one
timer it may have running and its WebRTC object; `tasks[u]` are the `async`
calls that wait in an `await`.  A handler of the page is one step up to its
next `await`, and the answer to the await is another step, at any later time or
never; when the page has closed the WebRTC object meanwhile, the step that
follows throws and the `catch` block runs.  The server's side is `CallManager`
itself, with one step per request; what a handler sends to the other user waits
in a queue of its own, so that events of different handlers reach a page in any
order.  A page can be closed or lose its connection; what it sent may then be
lost from the end, its `close` reaches the server last.  `call_timeout` is the
`call_cancel` that the server takes it for, and the events that end a call on a
page are one.

**WsGateway.**  `tcp` says how far the connection to the server has come; a
response is the number of pieces its line arrives in.  `sent`, `received`,
`answered` and `shown` record what each end has had.

**WebSession, QtLogin.**  The web page closes its old WebSocket and makes a new
one for every attempt, and the listeners of all of them work on one state: the
model keeps every WebSocket made, so that late `close` events come in.  The Qt
client uses one socket over again, and what an aborted connection carried is
gone.

**QtClient.**  The window is a record, and a handler an operator from window to
window, since handlers call each other and Qt's lists call handlers back: when
the entry that is selected is moved to the top of the list of recent
conversations (`updateConversationListItem` takes it out and inserts it again),
the list selects a neighbour, and the window opens that conversation.  With two
entries this ends there: a conversation that the user has just selected is
opened again after it, but one that was on display and has got a message has
lost its place to the other.  The model has this detour.  With more entries
the neighbour's entry is moved too, from within the removal of the first; the
model ends at this point (`reentered`, see "Findings").  The order of rows of
the same second follows the text of their keys, which is the order of their
numbers as long as these have one digit (`MaxLocal`).

**LineProtocol.**  Text is a sequence of characters.  The parser and the
writer are translated rule by rule, with arrays and objects as recursive
operators, which is why no proof uses them.  `LineProtocol` types lines of a
small set at the client, each with the fields the user means by it, sends them
in pieces of any length, and has the server answer with an event that carries
the fields back.

**MCClients, MCLibrary.**  The modules these two put together share no state,
in the model or in the program; they are small, and one run checks each of the
two sets.  `focus` is chosen at the start and says which of them runs.

**TcpClient.**  The main thread (`main`) and the loop's thread, with the
iteration of the loop as in `EventLoop`: events of the poll first, then the
functors queued by then.  `fds` has every socket made.  `enableRetry` is never
called by the program, and the delay between attempts is a timer that fires at
any time.

**ServerMetrics, StressClient.**  One step per atomic operation.

**Buffer.**  Both indices and the vector's bytes as they are; its `content`,
from the reader's to the writer's index, is the queue of `ByteQueue`.
Integers are written in base `Base`, so that reading one back says something.

**TimerQueue.**  A timer is an address and a sequence number, and `heap` says
which timer lives where: an address is used again after its timer is deleted.
Callbacks, functors and another thread add and cancel timers.

**Poller.**  Both pollers get the same calls from the same channels, so that
they can be compared with what the channels want and with each other.

**AsyncLogging.**  Lines are numbered, and a buffer's size is counted in lines;
`next` and `writer` say which spare buffers are there.  25 buffers are
`MaxBuffers`.  `process` ends in `stop()` or in the abort of a `LOG_FATAL`.

**TimeZone, Logger.**  A date is a record, a zone the moments at which its
distance from UTC changes; the operators are the code's, with the rounding of
C++ towards zero, down to `upper_bound`.  A statement of the log is one `Logger`
object, from its constructor over each `<<` to its destructor; an argument may
log a statement of its own, so each thread has a stack of them.  A piece of text
is its kind and its length, and the buffer keeps or drops whole pieces.  The
levels DEBUG and WARN behave as TRACE and ERROR do.  Left out: floating-point
numbers, `formatSI` and `formatIEC`, and how a zone is read from its file.
`Unsettled` are the local times around a zone's first and last change for which
the code carries a FIXME (`TimeZone.cc:334`, 350, 365, 376): nothing is said of
these.  The clock never shows second 0, which a thread's kept text starts from
(`ClockAssumption`).

**ThreadPool, BlockingQueues.**  A critical section is one step; a thread that
waits on a condition is woken by a notification, chosen among those who wait,
or by itself, and tests again, when others may have come first.

**LoopThreads.**  The base loop's thread starts the loops, deals out
connections and destroys the pool; each loop's thread publishes its loop,
enters it, which forgets an earlier `quit()`, and returns.

**Acceptor.**  `descriptors` says who has each number; the kernel hands out the
lowest that is free.  Other threads open and close theirs between any two of
the calls in `handleRead`.

## 3. Runs

| run | instance | shows |
|---|---|---|
| `call_manager` | 4 users, 3 ids; 361 states | `MapsAgree`, `GuardsExact`, refinement of `CallPairing`. Two calls at once use up the users, the third id distinguishes a duplicate from a fresh id meanwhile |
| `room_manager` | 3 users, 3 rooms; 729 states | `IndexExact`, refinement of `RoomMembership` |
| `chat_server` | 3 users, 3 connections, 1 fresh id, 1 room; 1.0M states | `SessionsAgree`, `OnlyOnlineBusy`, `NobodyStranded`, `OnlyPartiesEnd`: three connections let a new session of a user log in while the old one is being logged out and the other party acts, or let a third user try everything about the others' call |
| `history_paging` | 2 writers, 2 conversations, 4 rows, 3 seconds; pages of 1, 2 and 3 rows | `PagingSound` |
| `messages` | 2 users, 3 connections, a room, 1 message, private or to the room; users leave, close and come back | `NothingMissed`, `NothingTwice`; one message is enough because nothing in a handler depends on an earlier message |
| `web_call` | 2 pages, 2 ids, one of them may lose its connection; 268,808 states | `PagesBacked`, `SignalsOfTheirCall`, `CameraOnlyInCall`, and under fairness `CallsSettle`: the two ids are for a call that begins while steps of the one before it are still coming back, and for two users who call each other at once |
| `clients` | `MCClients`, see below; 643,422 states | `RelayedInOrder`, `ShownIsSession`, `ShownOnce`, `LinesRoundTrip`, and under fairness `BothSidesEnd`, `LoginAnswered` |
| `event_loop` | 2 threads, 4 functors; 1545 states | `InOrder`, `NoLostWakeup`, and under fairness `LoopServes`; four functors leave one for each of the two threads, for a callback and for a running functor |
| `connection` | 2 threads, 2 messages each; 508k states | under fairness `EndedIsFreed`; `CallbacksOnce`, `AssertionsHold`, `LateSendsOnly`, `OutputInOrder`, `NothingLost`, `OutputDrains`; two messages of two threads and of the loop are what it takes for one to overtake another behind a partial write |
| `library` | `MCLibrary`, see below; 297,683 states | `SocketsAccounted`, `CountsAgree`, `TimersExact`, `PollersAgree`, `LogInOrder`, `LogTextExact`, the refinement `BufferIsQueue`, and `ThreadsServe`, partly under fairness |
| `closed_twice` | 1 thread, 1 call of `forceClose` | violated, see "Findings" |
| `left_ringing` | 2 users, 2 connections, 1 id | violated, see "Findings" |

**Bounds.** Connections are not reused once closed, so their number is a bound
of the runs of `ChatServer` and `ChatMessages`; `MaxMessages`, `MaxFunctors`,
the clock's last second (`LastSecond`), `MaxSends` (per thread) and `MaxCloses`
(calls of `forceClose` by other threads) bound the messages, functors, times and
calls.
In the run of `ChatMessages` the default limit of the history is at least
`MaxMessages`, so that no message is hidden by the limit; the limit's own
effect is what `history_paging` is about. That is why the last disjunct of
`NothingMissed` (so many newer messages that the history's limit hides this
one) is never what makes it true in the run; the theorem is about any limit. In
`web_call`, `CallIds` is how many calls the pages can make, and `Droppers` are
the users whose connection can be lost.

In `clients`: there are two different `Requests`; `MaxQueuedMessages` is 2, so
that the third of `MaxRequests` finds the queue full; and of the `Responses`,
which come in 1, 2 or 3 pieces, some are longer than the gateway's limit
(`MaxPieces`).  `MaxSockets` and `MaxAttempts` are 3: a login
that is refused or given up, a second, and one more whose events meet those of
the first two.  The Qt client has one peer and one room, so that one
conversation can be on display and the other not; `MaxTexts` 2 messages, by the
user or by others, as many as a history holds (`HistoryLimit`), come in one
second or in two (`MaxTime`); two messages or notes (`MaxLocal`) get a local
key, enough for the note of a room that was joined, a message of the user's own
and the history that brings it back; and `MaxRoomRequests` 2 requests join a
room and leave it.  Two lines (`MaxLines`) are enough for the end of one and
the start of the next to come in one piece; `MaxLineLength` is the server's
limit, above the length of the lines that are typed.

In `library`: `MaxFds` sockets are as many attempts; `MaxMessages` and
`MaxSnapshots` of the statistics, with one connection (`MaxConnections`), let a
snapshot fall between two messages and inside one; two stress clients send
`MaxSends` messages each.  A buffer starts with `kInitialSize` 2 behind
`kCheapPrepend` 1, gets pieces of up to `MaxData` bytes and grows up to
`MaxSize`, over every combination of indices.  Two timers (`MaxTimers`) at two
addresses, with delays of 0 and 1 (`MaxDelay`) up to the second `MaxTime`, and
one queued functor (`MaxQueued`) are what it takes for a callback to cancel
itself or the other and for an address to be used again under a name that is
still in use.  The pollers have three descriptors, so that the one taken out of
the array can be the first, the last or one between.  A log buffer holds
`kLargeBuffer` 3 lines and `MaxBuffers` are 2 where the code has 25; 7 lines
(`MaxLogLines`) fill more than that.  The pool has two workers, the queue of
tasks one place (`maxQueueSize`), and the bounded queue one (`capacity`), for
two threads on each side, so that two can wait for the same thing.  Two loops
(`MaxThreads`) share `MaxDealt` 4 connections.  The acceptor has three
descriptors (`MaxFd`), one of them its spare one; `MaxCallers` 4 clients and
`MaxOpens` 2 files of other threads can take the rest and wait for more.
Two threads log (`LoggingThreads`), two statements (`MaxLines`) of one argument
(`MaxPieces`), in two seconds between which the zone's clocks change, with a
line's buffer (`kSmallBuffer` 100, `kMaxNumericSize` 24) that some lines fill,
and a text (`Strings`) that alone may be too long for the rest of it.  The
walk through the dates takes every day of `Years`: common, leap and century
years, those at the edges of 32 bits of seconds, and the first before 1970.

Deadlock is not checked in runs whose system rests when every connection has
closed, every message is sent, a bound is reached or the loop has ended.

**Fairness.**  In `event_loop`, `LoopStep` is weakly fair: the loop's thread is
never blocked by another one except in poll, and poll returns when the event fd
is readable.  `Wakeup(t)` is weakly fair: a thread that has pushed a functor
goes on to write to the event fd.  Nothing is assumed of poll returning for
another channel or for its time-out, so what is shown does not lean on them.
In `connection`, each of the two loops is weakly fair, as shown in
`event_loop`, with the end of the peer among the events that are handled; and a
thread that looked the connection up lets go of it when its handler returns.
Data need not arrive, nor need the socket become writable.

In `web_call`, timers expire, what is sent arrives, the server serves what it
gets, and the end of a connection is noticed.  Nobody need press a button, and
no WebRTC step need ever end: the timers alone settle a call.  In `clients`,
whenever something can go on in the bridge, at one of the page's WebSockets or
in a login of the Qt client, something does in the end: an attempt to connect
succeeds or fails, what is sent arrives and is served, the end of a connection
is noticed, a browser completes the closing handshake.
In `library`, the threads of the pool, of the loops and of the acceptor go on
when they can; nobody need put a task, and a thread that waits on a condition
need not be woken without a notification.  All other runs are about what must
never happen.

**Properties.**

- `MapsAgree`: every user entry is one half of a call that `calls_` knows, in
  the state its role gives it, and every call holds both its users' entries.
- `GuardsExact`: the ten-odd look-ups of each operation amount to the plain
  test on the call's record: accept, reject for the callee of a pending call,
  cancel for its caller, hangup and signaling for the two users of an accepted
  one.
- `IndexExact`: `userRooms_` is exactly the inverse of `rooms_`, without
  empty entries.
- `SessionsAgree`: a name is on the connection whose session carries it,
  except between the two writes of login and the two of logout.
- `OnlyOnlineBusy`: whoever is in a room, calling or in a call is online, at
  every step.
- `NobodyStranded`: when no handler is running, a client that started or
  accepted a call and was not told of its end is in it for the server too.
- `OnlyPartiesEnd`: a call ends only by a handler of one of its two users.
- `PagingSound`: each page of a reader lies wholly before the one he read
  before (`PagesGoBack`); and (`LostOnlyWithinASecond`) a reader who has come
  to the end has every message that was stored when he began, except earlier
  ones of a second in which one of his pages ended.
- `NothingMissed`: once all is delivered, a page that has loaded a conversation
  shows every message of it that was meant for its user, from the history or
  live.
- `NothingTwice`: no page shows a message twice, be it as an event, as a row of
  the history or as the page's own echo.
- `InOrder`: what has run, what is swapped out and what is pending are together
  all functors in the order of the queue.
- `NoLostWakeup`: the loop is never in poll with a functor, or a `quit()`,
  that no wake-up is on its way for.
- `LoopServes`: a queued functor runs unless the loop ends first, and `quit()`
  ends a loop that has started.
- `CallbacksOnce`: the application hears of a connection once and of its end
  once, whichever of the peer's end, `forceClose` and `shutdown` meet.
- `AssertionsHold`: what the code asserts in `removeConnectionInLoop`,
  `connectEstablished`, the channel's removal and the destructors.
- `LateSendsOnly`: only a send that was queued after the connection's removal
  can run on a destroyed connection.  That one can, and the code knows it.
- `OutputInOrder`, `NothingLost`: the bytes given to the socket
  and waiting for it are whole messages, each sender's in its order, and none
  is missing while the connection lives.
- `OutputDrains`: the loop waits for a writable socket
  exactly while output waits, and shuts down only when none does.
- `EndedIsFreed`: a connection whose peer has ended, or which has been forced
  to close, is freed in the end.

- `PagesBacked`: a page that shows a call is in it for the server too, or its
  invitation or the event that ends the call is on its way, or it has lost its
  connection.
- `SignalsOfTheirCall`: an offer or answer that the WebRTC object of one call
  made is never sent under the id of another, however late its steps come back.
- `CameraOnlyInCall`: camera and microphone are on only for the call that the
  page is in, even when the user lets the page have them after that call ended.
- `CallsSettle`: every call of the server ends, or both of its pages show it as
  connected.
- `RelayedInOrder`: each request that the gateway took reaches the server or
  waits, in order, and a broken connection loses the last ones only; the
  browser gets whole lines in order.
- `BothSidesEnd`: a bridge never stays half open.
- `ShownIsSession`: the user whom the web page, or the Qt window, shows as
  logged in is the one of the server's session on the present connection,
  whatever was tried on earlier ones.
- `LoginAnswered`: after a login the form comes back or the main view appears.
- `ShownOnce`: each conversation of the Qt client shows each message once, in
  the order of time, whichever of the live event, the history and the user's
  own copy comes first; and the conversation on display has nothing unread.
  As long as there are two entries at most in the list of conversations, see
  "Findings".
- `LinesRoundTrip`: the server handles what the user meant by each line, once
  and in order, whatever characters it has and whatever pieces it comes in, and
  the event about it gets back to the client with the same fields.
- `SocketsAccounted`: a socket that is open is the attempt's, the connection's,
  or about to be closed, and the assertions of the connector hold; the acceptor
  closes no descriptor of others and forgets none of its own.
- `CountsAgree`: each message is in one interval of the server's statistics,
  and the stress client's totals add up.
- `TimersExact`: the two sets of timers hold the timers that were added, not
  cancelled and not run out; and the timerfd is set for the first at the
  latest.
- `PollersAgree`: both pollers watch the descriptors of the channels that want
  events, for these events, and find each channel where its index says.
- `LogInOrder`: the files and, behind them, the buffers on their way to them
  have each line once and in order, less those dropped with a notice, and the
  log's thread never runs out of buffers to give back.  What is still in a
  buffer when `stop()` ends the thread, or `abort()` the process, stays there.
- `LogTextExact`: a line of the log is made of whole pieces in order, fits its
  buffer, shows the second it was begun in whatever the clock and other threads
  do, and is flushed before a fatal one ends the process; days, seconds, local
  times and numbers convert into text or fields and back.
- `BufferIsQueue`: `Buffer` implements `ByteQueue`.
- `ThreadsServe`: no thread waits on a condition for what is there, values come
  out in order (`QueuesSound`); connections are dealt out evenly, to loops that are there;
  callers of the pool get out of it, even when it is stopped meanwhile, and
  `stop()` returns (each caller has `MaxTasks` tasks: a condition is not fair,
  and callers without end could keep one waiting); the loops' pool gets started, and destroyed unless that
  begins before a loop does, which then forgets its `quit()` (the FIXME of
  `EventLoop.cc:108`); a client that waits is accepted or turned away, unless
  another thread took the acceptor's spare descriptor.

**Findings.**  `CallUsersOnline`, README.md:235-236 of the repository: "Logout,
TCP/WebSocket disconnect, and browser refresh clear the server state and notify
the remaining peer."  `logout` calls `callManager_.removeUser`
(`ChatServer.cc:347`) before `userManager_.logout` (line 373).  An invitation
handled on another thread finds the target online (line 654), and, after the
target's `removeUser` and before its `logout`, starts the call (line 664) and
finds the target again (line 677).  The target is then gone, but ringing; the
caller is not told, and a new login under the name is busy until the caller
cancels or times out.  `OnlyOnlineBusy` is what does hold, and why the entry
does not stay for ever: a call's caller is always online.

`ConnectDestroyedOnce`, `TcpConnection.h:115`: "should be called only once".
`forceClose` tests `state_` and then writes it, in the caller's thread
(`TcpConnection.cc:242`, below a FIXME).  When `handleClose` runs in between,
the written `kDisconnecting` hides that the connection is closed, and
`forceCloseInLoop` closes it again: second callback, second removal (an
assertion of `TcpServer.cc:113` in a debug build), second `connectDestroyed`.
The chat server calls `forceClose` in the connection's own loop only
(`ChatServer.cc:869`), where nothing comes in between; `connection` is that
use.

Two more defects were met while modelling and have no run of their own, since
neither the documents nor an assertion of the repository say otherwise.

`qt-client/src/MainWindow.cpp:1046`: `takeItem` of the entry that is selected
selects a neighbour, which calls `selectRecentConversation` (connected at line
595), which opens the neighbour's conversation and calls
`updateConversationListItem` again.  With three or more entries this calls
`takeItem` while the first one is still removing its row.  Qt forbids changing
a model from within the removal of its rows, and its list goes by row numbers
that have shifted by then: a wrong entry may go, or one be lost.  Three
conversations are enough, and a click on one further down the list, or a
message in the one on display when it is not at the top (`QtClient`'s `Touch`;
in an instance with a second peer TLC gets there in eight steps).  With two
entries nothing is lost, as `ShownOnce` says, but the window shows the other
conversation after a message in the selected one that is not at the top.

`web-client/app.js:936`: the `close` event of a WebSocket that the user has
replaced meanwhile marks the page as logged out, although its new session may
be up.  `ShownIsSession` is about whom a page shows as logged in and allows
this: the page then shows nobody.

## 4. Proofs

TLAPS proves every safety invariant and action property that the runs
`call_manager`, `room_manager`, `chat_server`, `history_paging`, `messages`,
`web_call`, `event_loop` and `connection` check, and the two refinements among
them; `RelayedInOrder` and `ShownIsSession` of `clients`; and of `library`
`SocketsAccounted`, `CountsAgree`, `TimersExact`, `PollersAgree`, `LogInOrder`,
the refinement `BufferIsQueue`, and `QueuesSound`, the queues' part of
`ThreadsServe`.  They hold for any sets of users, connections, rooms, ids,
threads, descriptors and requests, and for any bounds.  The proofs assume of the
constants only what the modules say by name:

- the values for "nobody", "no call" and "no descriptor" are no user, call or
  descriptor (`NoUserAssumption`, `NoCallAssumption`, `ConnectorAssumption`);
- the connection's own thread is not among the others (`ThreadAssumption`);
- descriptors, seconds, delays, sizes and bounds are natural numbers, positive
  where the code divides by them, needs one of them or starts from zero
  (`MaxFunctorsAssumption`, `BoundAssumption`, `TimerAssumption`,
  `FdsAssumption`, `AcceptAssumption`, `BufferAssumption`, `LogAssumption`,
  `ClockAssumption`);
- the default number of rows of a history is positive and the largest a natural
  number (`HistoryAssumption`, `LimitAssumption`; `ChatServer.cc:30` has 50 and
  500), and a reader may ask for any integer (`LimitsAssumption`);
- responses of the gateway have at least one piece and limits are numbers
  (`GatewayAssumption`).

Sets need not be finite, but for the stress tool's clients
(`ClientsAssumption`) and the threads at a queue (`QueueAssumption`), which are
counted.

- `CallManagerProofs!AlwaysConsistent`: `Spec => [](TypeOK /\ MapsAgree)`. The
  two conjuncts are inductive together.  Each operation's effect on the maps is
  put in a form of its own (`Erased`, `Started`, `Accepted`), which the lemmas
  about the invariant and about the refinement share.  `removeUser` needs the
  invariant to know that the id it erases exists.
- `GuardsAlwaysExact`: follows from the same invariant, state by state.
- `PairingImplemented`: `Spec => Pairing!Spec`, with the abstract set of calls
  read off `calls_`.  A started call is disjoint from the others because
  `MapsAgree` puts the users of every call into `users_`, which is all that
  `startCall` looks at.
- `RoomManagerProofs!IndexAlwaysExact` and `MembershipImplemented`: in the same
  way; `leaveAll` implements "leave everything" only because the index is
  exact.

- `ChatMessagesProofs!SessionsAlwaysAgree`, `OnlyOnlineEverBusy`,
  `NobodyEverStranded`, `OnlyPartiesEverEnd`.  Every step of a connection is
  first put into what it does to sessions (`Moves`), rooms (`RoomsMove`) and
  calls (`Acts`), so that no later lemma sees the handlers' steps; the
  managers' lemmas are used under this module's names.  The inductive invariant
  `ServerInv`:
    - `HandlersSound`, `NewIdle`, `OneSession`: what the locals of a handler
      are at each step, and that a name has one session.  Without that, the
      `logout` of one connection could remove another's name.
    - `RoomsOnline`, `LeaversOut`, `CallsOnline`, `LeaversFree`: who is leaving
      has no room left when his name goes, and is in no call but one that rings
      at him.  That one is why `OnlyOnlineBusy` cannot say "or ringing" (the
      finding `left_ringing`).
    - `NewIdsFree`: between `handleCallRequest`'s look-up and `startCall`,
      nobody else knows of the id, so that the started call is new to all.
    - `PartnersKnown`, `ViewsTrue`: the partner whom a handler looks up is the
      other one of the call, or the call is over; what a client believes of a
      call agrees with the call's record.
    - `BeliefsBacked`: who believes that a call goes on has it, is the one
      starting it, is leaving, or some handler holds the news of its end for
      him.  With all handlers idle this is `NobodyStranded`.
- `NothingEverMissed`, `NothingEverTwice`, over `ServerInv`.
  `MessagesInv` follows a message from the copy of the members to the pages:
  `Reaches` says that a message meant for a page is shown there, queued for it,
  held by the handler that delivers it, or about to be looked for by a handler
  that will find this page.  The last case needs `PagesServed`: a page that is
  up stays with its name until it closes.  `NothingTwice` needs `OwnFromRooms`
  (a page's own message comes back only from a room, where the page drops it),
  `PagesSound` and `PagesBlank` (nothing that a page shows or waits for is
  older than its session, or not yet saved).

- `WebClientCallProofs!PagesAlwaysBacked`, `SignalsAlwaysOfTheirCall`,
  `CameraOnlyEverInCall`, over the invariant of `CallManagerProofs`.
    - `OwnObjects`: a page's WebRTC object, and with it the camera, is its
      current call's.  It suffices for the last two, with the page's tasks left
      arbitrary: each awaited step tests that its object is still the page's.
    - `PagesBacked` needs to know where a call's invitation is: `InvitedOnce`
      (in one place), `InvitedFirst` (before it comes nobody else deals with
      the id), `InvitesBacked` (the call of an invitation that arrives is at
      the server, or its end follows in the same queue), and `EndsFinal` (a
      page that has asked for the end has left the call, so that not being
      told of it leaves nobody behind).  `IdsGiven` makes a new id new, and
      `GoneStayGone` says that the server sends nothing to who has left.
- `ClientProofs!RelayedAlwaysInOrder`: what was read, written and queued are
  the requests taken, one after the other (`RequestOrder`), with `ReadyOnce`
  for the moment when the queue is emptied.  A response comes in pieces;
  `PiecesLeft` says that there are places for the ends of the responses not yet
  shown that fit the pieces on their way and those in the line buffer.
- `ShownAlwaysSession`, for the web page and the Qt window.  `PageInv`: no
  WebSocket but the last can still bring anything (`OthersSilent`), the server
  hears of no end that the page will not (`EndsReal`), a response names its
  session's user (`ResponsesTrue`), and a page that shows a user makes no other
  WebSocket (`HiddenForGood`).  The Qt client has one socket over again, so in
  `WindowInv` a connection that is not up has nobody and nothing under way.
- `PagingAlwaysSound`.  The query is stated with the number of rows before a
  row; the lemmas from `EarlierOrders` to `HistoryIsPage` turn this into what a
  reader needs: a page is rows of the conversation, in order, and when it
  leaves out an earlier one it is full and begins above it.  With
  `BeforeOldest`, `ComingOrSkipped` then says of each message that the reader
  knew of and has not read: the next pages bring it, or a page ended between it
  and a later one of its second.  Where an argument would count up or down the
  rows, it takes the least number that has a property (`LeastOfNat`, from the
  library's well-foundedness of the natural numbers).

- `EventLoopProofs!FunctorsInOrder` and `WakeupNeverLost`.
  `NoLostWakeup` speaks of poll only; to be inductive it is strengthened to
  `PendingIsCovered`: a pending functor has a wake-up coming everywhere but
  between poll's return and the swap, where this iteration takes it.  That
  `callingPendingFunctors_` is true exactly from there to the end of the
  functors (`CallingInFunctors`) is why a functor queued by a functor wakes the
  loop.
- `TcpConnectionProofs!CalledOnce`, `AssertionsAlwaysHold`, `OnlyLateSends`,
  when only the connection's own loop calls `forceClose`.  Otherwise the first
  two are false, as the counterexample of `closed_twice` shows.  The inductive
  invariant `LifeInv` describes the connection phase by phase.  `Unknown`:
  before it is established no thread has it and its loop's queue is the
  establishment alone.  `Open`: it is in the map and in the poller, and nothing
  is queued to destroy it.  `Closed`: it goes from the map to the server's
  queue, to its own queue and out of the poller, one after the other.
  `DestroyedOnce` and `DestroyedLast` say of the queue that it has one
  destruction at most, behind every send that was queued before the removal.
  `TakenOrder` and `AddedOrder` are the lemmas that running and queuing a
  functor keep this.
- `OutputAlwaysInOrder`, `NothingEverLost`, `OutputAlwaysDrains`: over
  `LifeInv`, `OutInv` orders the numbers of each sender's messages along the
  stream (what the socket took, then the buffer) and on along the functors that
  wait (`QueueOrder`, `StreamFirst`, `Sorted`), with both parts of a message
  side by side (`Whole`). `Kept` says where each accepted message is, the one a
  thread is between reading the state and queuing included. `FinLate` and
  `Silent` are for the two ends of the connection's life: nothing is sent
  before it is established or behind its end.

- `LibraryProofs!TimersAlwaysExact`.  `ActiveSound` and `ExpiredSound` describe
  the two sets and the timers that are being called back, which are in neither.
  A callback may cancel a timer that comes after it: `AgainWaits` says that
  those not in `cancelingTimers` are just those that are still wanted, and
  `WaitingFound` that a wanted timer is in the sets or among them.
  `HeapSound` is why a cancellation under a sequence number that was used
  before never hits the timer that has the address now.
- `PollersAlwaysAgree`.  `SlotsSound`: channels and slots of `PollPoller` find
  each other and are equally many, which is what the swap with the last slot
  must keep; `KernelSound`: the list of epoll is the channels that want events,
  as `index` tells.
- `SocketsAlwaysAccounted`: `ClientInv` for the connector, `AcceptInv` for the
  acceptor.  `OneAttempt` and `ResetsOnce` say that a channel that is no longer
  watched has one functor queued that resets it; `ResetInTime`, that the timer
  of the next attempt does not fire before it.  `idleFd` is the
  acceptor's own, or the client's that it turns away, except at the two steps
  where it has given it up.
- `CountsAlwaysAgree`: `MetricsInv` adds, to the total that was reported and the
  interval that is counted, the messages between their two increments
  (`Midway`) and the ones a snapshot has taken; `StressInv` counts the clients
  by their stage.
- `BufferAlwaysQueue`: `Spec => BufferIsQueue`.  `Ordered` is that the indices
  are in order and that a vector has room for the prepended header; `Follows`
  says of an operation that it keeps this and what it does to the bytes that can
  be read.  A `readFd` larger than the room is a write and an `append`.
- `LogAlwaysInOrder`.  A line is in one of four places, and they follow each
  other (`PlacesInOrder`): the files, what the thread has taken and not yet
  written, the full buffers and the current one.  `LinesKept` and
  `NoticesCounted` account for the dropped ones.  `TakenSound` is why the thread
  has two buffers to give back: it took two, or still has its second spare one.
- `QueuesAlwaysSound`.  The number of awake takers is compared with the length
  of the queue, and the awake putters with its free places: `put` lengthens the
  queue by one and wakes one taker, if there is one to wake; an awake thread
  goes to sleep only when the queue is empty, or full.

The type invariants are proved, as parts of these, and are not properties of
any run.

Model-checked only:

- `ShownOnce` of the Qt client.  A handler there is a chain of operators over
  the window's record, with folds over its list; what a fold computes for every
  list is an induction over data.
- `LinesRoundTrip` and `LogTextExact`: that texts, dates and numbers convert back
  needs the same, and `LineProtocol` declares recursive operators, which no
  module with a proof may reach.
- `LoopsShare`, the loops' part of `ThreadsServe`: that connections are dealt out
  evenly is a count over a sequence that grows, for any number of loops.
- Liveness (`LoopServes`, `EndedIsFreed`, `CallsSettle`, `BothSidesEnd`,
  `LoginAnswered`, the temporal parts of `ThreadsServe`), and with it everything
  about `ENABLED`: beyond TLAPS.

## 5. What is not modelled

- `~TcpServer`, which queues the destruction of each connection to its loop
  and then ends the loops: nothing ends the loop of the server's main thread,
  so the program never destroys its server.
- `startRead`, `stopRead`, `forceCloseWithDelay`, the callbacks for the end of
  a write and for the high-water mark, `TcpClient::enableRetry`, a server whose
  connections share the accepting loop: nothing in the service uses them.
- `~TcpClient` while its connection is up (`TcpClient.cc:84-95`).  The
  command-line client comes to it when the connection is made between the
  time-out of `waitForConnected` and the end of `main` (`client/main.cc:27-33`),
  or when the server does not end it within the seconds that `main` waits
  (lines 56-59): `TcpClient` ends there.
- ICE candidates, whose order against offers `webrtc.js` restores with a queue
  of its own, several pages of one user in `WebClientCall` (a second login
  under a name is refused), the rooms' dialogs of both graphical clients, and
  all rendering.
- The list of online users, which clients ask for and display as it comes.
- Opening the database, its JSON export, the options and the start of the
  programs: sequential code that runs once.
- Error texts and the layout of the log.
- The Python scripts, which start the stress client with growing numbers; the
  deployment files.
- The parts of muduo that the service does not use (HTTP, inspection, protobuf,
  RPC) and the wrappers over system calls (stack traces, process information).
