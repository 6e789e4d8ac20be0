------------------------------ MODULE TcpClient ------------------------------
(***************************************************************************)
(* The command-line client's connection: client/main.cc and ChatClient.cc  *)
(* on the main thread, muduo's TcpClient.cc and Connector.cc on the loop   *)
(* thread.  An iteration of the loop polls, handles what poll returned and *)
(* runs the functors that were queued by then.  The model ends where the   *)
(* main thread destroys the client with its connection still up.  The      *)
(* program never calls enableRetry, so a lost connection is not replaced.  *)
(***************************************************************************)
EXTENDS Integers, Sequences

CONSTANTS NoFd,
          InitRetryDelay, MaxRetryDelay,   \* kInitRetryDelayMs and its limit
          MaxFds                           \* bound on the sockets made

VARIABLES
  main,        \* "start", "waiting", "typing", "closing" or "gone"
  chat,        \* ChatClient::connection_; connected_ says whether there is one
  connection,  \* TcpClient::connection_
  connector,   \* Connector: state_, connect_, channel_, retryDelayMs_; and
               \* attached: whether the poller watches the channel
  fds,         \* every socket made: "open", "shut" (for writing) or "closed"
  phase,       \* of the loop: "events" or "functors"
  polled,      \* what this iteration's poll may have returned
  pending, batch,   \* functors queued, and those being run
  retryTimers,      \* timers that will run startInLoop
  assertFailed

clientVars == <<main, chat, connection, connector, fds, phase, polled, pending,
                batch, retryTimers, assertFailed>>
loopVars == <<fds, phase, polled, batch, retryTimers, assertFailed>>

ClientInit ==
  /\ main = "start" /\ chat = NoFd /\ connection = NoFd
  /\ connector = [state |-> "kDisconnected", connect |-> FALSE,
                  channel |-> NoFd, attached |-> FALSE,
                  delay |-> InitRetryDelay]
  /\ fds = <<>> /\ pending = <<>> /\ batch = <<>> /\ retryTimers = 0
  /\ phase = "events" /\ polled = [fds |-> {}, timers |-> 0]
  /\ assertFailed = FALSE

-----------------------------------------------------------------------------
(* The main thread.                                                        *)

(* TcpClient::connect and Connector::start                                 *)
MainConnects ==
  /\ main = "start" /\ main' = "waiting"
  /\ connector' = [connector EXCEPT !.connect = TRUE]
  /\ pending' = Append(pending, <<"start">>)
  /\ UNCHANGED <<chat, connection, loopVars>>

(* waitForConnected                                                        *)
MainConnected ==
  /\ main = "waiting" /\ chat # NoFd /\ main' = "typing"
  /\ UNCHANGED <<chat, connection, connector, loopVars, pending>>

(* TcpClient::disconnect: the time to connect is over, or the user quits.  *)
MainDisconnects ==
  /\ main \in {"waiting", "typing"} /\ main' = "closing"
  /\ pending' = IF connection = NoFd THEN pending
                ELSE Append(pending, <<"shutdown", connection>>)
  /\ UNCHANGED <<chat, connection, connector, loopVars>>

(* main returns, sooner or later: ~ChatClient and ~TcpClient.  A client    *)
(* that goes while its connection is up is where the model ends.           *)
MainReturns ==
  /\ main = "closing" /\ main' = "gone"
  /\ IF connection # NoFd THEN UNCHANGED <<connector, pending>>
     ELSE /\ connector' = [connector EXCEPT !.connect = FALSE]
          /\ pending' = Append(pending, <<"stop">>)
  /\ UNCHANGED <<chat, connection, loopVars>>

-----------------------------------------------------------------------------
(* The loop thread.  Every step takes the connector as it finds it, "c",   *)
(* and the number "timers" of retry timers that are left.                  *)

LoopRuns == main # "gone" \/ connection = NoFd

Close(fd) == [fds EXCEPT ![fd] = "closed"]

(* removeAndResetChannel; resetChannel is queued by the callers.           *)
Detached(c) == [c EXCEPT !.attached = FALSE]

(* retry, after the socket was closed                                      *)
Retry(c, timers) ==
  LET down == [c EXCEPT !.state = "kDisconnected"] IN
  IF c.connect
  THEN /\ retryTimers' = timers + 1
       /\ connector' = [down EXCEPT !.delay = IF 2 * @ < MaxRetryDelay
                                              THEN 2 * @ ELSE MaxRetryDelay]
  ELSE retryTimers' = timers /\ connector' = down

(* startInLoop, connect and connecting: the socket connects, is refused    *)
(* for now, or cannot connect at all.                                      *)
StartInLoop(c, timers) ==
  IF ~c.connect
  THEN /\ connector' = c /\ retryTimers' = timers /\ UNCHANGED fds
       /\ assertFailed' = (assertFailed \/ c.state # "kDisconnected")
  ELSE /\ Len(fds) < MaxFds
       /\ assertFailed' = (assertFailed \/ c.state # "kDisconnected"
                                        \/ c.channel # NoFd)
       /\ \/ /\ fds' = Append(fds, "open") /\ retryTimers' = timers
             /\ connector' = [c EXCEPT !.state = "kConnecting",
                                       !.channel = Len(fds) + 1,
                                       !.attached = TRUE]
          \/ fds' = Append(fds, "closed") /\ Retry(c, timers)
          \/ /\ fds' = Append(fds, "closed")
             /\ connector' = c /\ retryTimers' = timers

(* EventLoop::loop: poll can return what is watched when it is called; the *)
(* functors queued before the events are over run after them.              *)
EndFunctors ==
  /\ LoopRuns /\ phase = "functors" /\ batch = <<>> /\ phase' = "events"
  /\ polled' = [fds |-> {connection} \cup
                        (IF connector.attached THEN {connector.channel} ELSE {}),
                timers |-> retryTimers]
  /\ UNCHANGED <<main, chat, connection, connector, fds, pending, batch,
                 retryTimers, assertFailed>>

EndEvents ==
  /\ LoopRuns /\ phase = "events" /\ phase' = "functors"
  /\ batch' = pending /\ pending' = <<>>
  /\ UNCHANGED <<main, chat, connection, connector, fds, polled, retryTimers,
                 assertFailed>>

Connecting ==
  /\ LoopRuns /\ phase = "events"
  /\ connector.attached /\ connector.channel \in polled.fds
  /\ UNCHANGED <<main, phase, polled, batch, assertFailed>>

(* handleError, and handleWrite when the connection has failed or is one   *)
(* to itself                                                               *)
ConnectFails ==
  /\ Connecting
  /\ Retry(Detached(connector), retryTimers)
  /\ fds' = Close(connector.channel)
  /\ pending' = Append(pending, <<"reset">>)
  /\ UNCHANGED <<chat, connection>>

(* newConnection, up to ChatClient::onConnection                           *)
NewConnection(fd) == connection' = fd /\ chat' = fd

(* Mutant: a socket that nobody wants any more is left open.               *)
HandleWriteLeaks ==
  /\ Connecting
  /\ connector' = [Detached(connector) EXCEPT !.state = "kConnected"]
  /\ pending' = Append(pending, <<"reset">>)
  /\ IF connector.connect THEN NewConnection(connector.channel)
     ELSE UNCHANGED <<connection, chat>>
  /\ UNCHANGED <<fds, retryTimers>>

(* handleWrite: connected; the socket is closed if nobody wants it now.    *)
HandleWrite ==
  /\ Connecting
  /\ connector' = [Detached(connector) EXCEPT !.state = "kConnected"]
  /\ pending' = Append(pending, <<"reset">>)
  /\ IF connector.connect
     THEN NewConnection(connector.channel) /\ UNCHANGED fds
     ELSE fds' = Close(connector.channel) /\ UNCHANGED <<connection, chat>>
  /\ UNCHANGED retryTimers

(* The timer that retry has set.                                           *)
RetryTimer ==
  /\ LoopRuns /\ phase = "events" /\ polled.timers > 0
  /\ polled' = [polled EXCEPT !.timers = @ - 1]
  /\ StartInLoop(connector, retryTimers - 1)
  /\ UNCHANGED <<main, chat, connection, phase, pending, batch>>

(* The server closes the connection, or answers the end of the client's    *)
(* half: TcpConnection::handleClose, which calls ChatClient::onConnection  *)
(* and removeConnection.                                                   *)
ConnectionCloses ==
  /\ LoopRuns /\ phase = "events"
  /\ connection # NoFd /\ connection \in polled.fds
  /\ connection' = NoFd /\ chat' = NoFd
  /\ pending' = Append(pending, <<"destroyed", connection>>)
  /\ UNCHANGED <<main, connector, loopVars>>

-----------------------------------------------------------------------------
(* The functors.                                                           *)

(* stopInLoop                                                              *)
StopInLoop ==
  IF connector.state = "kConnecting"
  THEN /\ Retry([Detached(connector) EXCEPT !.state = "kDisconnected"],
                retryTimers)
       /\ fds' = Close(connector.channel)
       /\ pending' = Append(pending, <<"reset">>)
  ELSE UNCHANGED <<connector, fds, pending, retryTimers>>

ResetChannel ==
  /\ connector' = [connector EXCEPT !.channel = NoFd]
  /\ UNCHANGED <<fds, retryTimers>>

(* TcpConnection::shutdownInLoop, with nothing left to write, of a         *)
(* connection that was not closed meanwhile                                *)
ShutdownInLoop(fd) ==
  /\ fds' = [fds EXCEPT ![fd] = IF @ = "open" THEN "shut" ELSE @]
  /\ UNCHANGED <<connector, retryTimers>>

(* TcpConnection::connectDestroyed: the last reference goes with it.       *)
ConnectDestroyed(fd) ==
  fds' = Close(fd) /\ UNCHANGED <<connector, retryTimers>>

RunFunctor ==
  /\ LoopRuns /\ phase = "functors" /\ batch # <<>> /\ batch' = Tail(batch)
  /\ LET functor == Head(batch) IN
       \/ functor[1] = "start" /\ StartInLoop(connector, retryTimers)
          /\ UNCHANGED pending
       \/ functor[1] = "stop" /\ StopInLoop /\ UNCHANGED assertFailed
       \/ functor[1] = "reset" /\ ResetChannel
          /\ UNCHANGED <<pending, assertFailed>>
       \/ functor[1] = "shutdown" /\ ShutdownInLoop(functor[2])
          /\ UNCHANGED <<pending, assertFailed>>
       \/ functor[1] = "destroyed" /\ ConnectDestroyed(functor[2])
          /\ UNCHANGED <<pending, assertFailed>>
  /\ UNCHANGED <<main, chat, connection, phase, polled>>

ClientNext ==
  \/ MainConnects \/ MainConnected \/ MainDisconnects \/ MainReturns
  \/ EndFunctors \/ EndEvents \/ RunFunctor
  \/ ConnectFails \/ HandleWrite \/ RetryTimer \/ ConnectionCloses

-----------------------------------------------------------------------------
(* Connector.cc:158-195, :209-225 and TcpClient.cc:162-180: whatever       *)
(* becomes of an attempt, and whenever the main thread gives up, a socket  *)
(* that is not closed is the one being connected, the connection, or one   *)
(* about to be destroyed; so there is never a second attempt or a second   *)
(* connection, and the assertions of startInLoop and connecting hold.      *)
SocketsAccounted ==
  /\ ~assertFailed
  /\ \A fd \in DOMAIN fds :
       fds[fd] # "closed" =>
         \/ connector.state = "kConnecting" /\ connector.channel = fd
         \/ connection = fd
         \/ <<"destroyed", fd>> \in
              {(pending \o batch)[i] : i \in DOMAIN (pending \o batch)}
=============================================================================
