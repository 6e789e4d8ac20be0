--------------------------- MODULE TcpConnection ---------------------------
(***************************************************************************)
(* muduo/net/TcpConnection under a TcpServer: the life of one connection   *)
(* between the server's own loop, which accepts and removes it, the loop   *)
(* that handles its events, and the threads of other loops that send to it.*)
(*                                                                         *)
(* A queue is what EventLoop promises of queueInLoop: functors run once,   *)
(* in order.  Functors are bound to a shared pointer, which keeps the      *)
(* connection alive, or (sendInLoop, shutdownInLoop) to a raw one.  The    *)
(* server has loops of its own for connections (setThreadNum), reading is  *)
(* never stopped, the server outlives its connections, and, as in the chat *)
(* server, forceClose and shutdown are called in the connection's loop     *)
(* (CrossClose is about the other case).                                   *)
(***************************************************************************)
EXTENDS Naturals, Sequences, SequencesExt

CONSTANTS
  Threads,       \* threads of other loops, which look the connection up
  IoThread,      \* the thread of the connection's own loop
  MaxSends       \* bound on the messages of one thread

ASSUME ThreadAssumption == IoThread \notin Threads
ASSUME BoundAssumption == MaxSends \in Nat

VARIABLES
  state,         \* state_, "none" before the connection is accepted
  inMap,         \* connections_ of the server has it
  reading, writing, added,      \* its channel
  output, wire,  \* outputBuffer_ and what the socket was given, in parts
  finSent,       \* shutdownWrite was called
  peer,          \* the other end: "open", "closed", "reset"
  ioQueue, baseQueue,           \* functors queued for the two loops
  ups, downs,    \* how often the connection callback was called
  thread,        \* where another thread is with its pointer to the connection
  sent           \* how many messages a thread has sent

vars == <<state, inMap, reading, writing, added, output, wire, finSent, peer,
          ioQueue, baseQueue, ups, downs, thread, sent>>

channel == <<reading, writing, added>>
stream == <<output, wire, finSent>>
queues == <<ioQueue, baseQueue>>
callbacks == <<ups, downs>>

Init ==
  /\ state = "none"
  /\ inMap = FALSE
  /\ reading = FALSE /\ writing = FALSE /\ added = FALSE
  /\ output = <<>> /\ wire = <<>> /\ finSent = FALSE
  /\ peer = "open"
  /\ ioQueue = <<>> /\ baseQueue = <<>>
  /\ ups = 0 /\ downs = 0
  /\ thread = [t \in Threads |-> "idle"]
  /\ sent = [t \in Threads \cup {IoThread} |-> 0]

Functor(what) == [what |-> what]
SendFunctor(m) == [what |-> "send", message |-> m, late |-> ~inMap]

(* Who holds a shared pointer: the server's map, the functors bound to     *)
(* one, the registry that is filled and emptied by the connection          *)
(* callbacks, and threads that found the connection there.                 *)
Shared(f) == f.what \in {"establish", "forceClose", "destroy"}
Registered == ups > downs
Alive ==
  \/ inMap \/ baseQueue # <<>> \/ Registered
  \/ \E f \in Range(ioQueue) : Shared(f)
  \/ \E t \in Threads : thread[t] # "idle"

-----------------------------------------------------------------------------
(* Output.  A message is given to the socket in two parts at most.         *)

Part(m, i) == [message |-> m, part |-> i]
Parts(m) == <<Part(m, 1), Part(m, 2)>>

Broken == finSent \/ peer = "reset"

(* Mutant: the message is written directly though output is waiting.       *)
SendInLoopDirect(m) ==
  IF Broken THEN UNCHANGED <<stream, writing>>
  ELSE \E n \in 0 .. 2 :
         /\ wire' = wire \o SubSeq(Parts(m), 1, n)
         /\ output' = output \o SubSeq(Parts(m), n + 1, 2)
         /\ writing' = (writing \/ n < 2)
         /\ UNCHANGED finSent

(* Mutant: a full socket is taken for a failure.                           *)
SendInLoopDrops(m) ==
  IF writing \/ output # <<>>
  THEN /\ output' = output \o Parts(m)
       /\ writing' = TRUE
       /\ UNCHANGED <<wire, finSent>>
  ELSE \E n \in 0 .. 2 :
         /\ wire' = wire \o SubSeq(Parts(m), 1, n)
         /\ output' = IF n = 0 THEN <<>> ELSE SubSeq(Parts(m), n + 1, 2)
         /\ writing' = (output' # <<>>)
         /\ UNCHANGED finSent

(* Mutant: what a partial write leaves is kept, but nobody waits to write. *)
SendInLoopUnwatched(m) ==
  IF writing \/ output # <<>>
  THEN output' = output \o Parts(m) /\ UNCHANGED <<writing, wire, finSent>>
  ELSE IF Broken THEN UNCHANGED <<stream, writing>>
  ELSE \E n \in 0 .. 2 :
         /\ wire' = wire \o SubSeq(Parts(m), 1, n)
         /\ output' = SubSeq(Parts(m), n + 1, 2)
         /\ UNCHANGED <<writing, finSent>>

(* Behind waiting output, or written directly: all, a part or, if the      *)
(* socket is full, nothing.  The message is lost if the socket is broken.  *)
SendInLoop(m) ==
  IF writing \/ output # <<>>
  THEN /\ output' = output \o Parts(m)
       /\ writing' = TRUE
       /\ UNCHANGED <<wire, finSent>>
  ELSE IF Broken THEN UNCHANGED <<stream, writing>>
  ELSE \E n \in 0 .. 2 :
         /\ wire' = wire \o SubSeq(Parts(m), 1, n)
         /\ output' = SubSeq(Parts(m), n + 1, 2)
         /\ writing' = (n < 2)
         /\ UNCHANGED finSent

(* Mutant: output that is still waiting is forgotten.                      *)
ShutdownInLoopNow == finSent' = TRUE

ShutdownInLoop == finSent' = (finSent \/ ~writing)

-----------------------------------------------------------------------------
(* The server's loop.                                                      *)

(* TcpServer::newConnection                                                *)
NewConnection ==
  /\ state = "none"
  /\ state' = "connecting"
  /\ inMap' = TRUE
  /\ ioQueue' = Append(ioQueue, Functor("establish"))
  /\ UNCHANGED <<channel, stream, peer, baseQueue, callbacks, thread, sent>>

(* Mutant: the destruction overtakes what is queued for the connection.    *)
RemoveConnectionFirst ==
  /\ baseQueue # <<>>
  /\ baseQueue' = Tail(baseQueue)
  /\ inMap' = FALSE
  /\ ioQueue' = <<Functor("destroy")>> \o ioQueue
  /\ UNCHANGED <<state, channel, stream, peer, callbacks, thread, sent>>

(* TcpServer::removeConnectionInLoop, the only functor of this queue.      *)
RemoveConnection ==
  /\ baseQueue # <<>>
  /\ baseQueue' = Tail(baseQueue)
  /\ inMap' = FALSE
  /\ ioQueue' = Append(ioQueue, Functor("destroy"))
  /\ UNCHANGED <<state, channel, stream, peer, callbacks, thread, sent>>

-----------------------------------------------------------------------------
(* The connection's loop: functors.                                        *)

NextFunctor(what) ==
  /\ ioQueue # <<>> /\ Head(ioQueue).what = what
  /\ ioQueue' = Tail(ioQueue)

(* The connection callback answers a new connection with a message.        *)
ConnectEstablished ==
  /\ NextFunctor("establish")
  /\ state' = "connected"
  /\ reading' = TRUE /\ added' = TRUE
  /\ ups' = ups + 1
  /\ sent' = [sent EXCEPT ![IoThread] = @ + 1]
  /\ SendInLoop([from |-> IoThread, number |-> sent[IoThread] + 1])
  /\ UNCHANGED <<inMap, peer, baseQueue, downs, thread>>

(* A raw pointer that outlives the connection is followed all the same:    *)
(* nothing can be said of what happens then, see LateSendsOnly.            *)
RunSend ==
  /\ NextFunctor("send")
  /\ IF Alive /\ state # "disconnected" THEN SendInLoop(Head(ioQueue).message)
     ELSE UNCHANGED <<stream, writing>>
  /\ UNCHANGED <<state, inMap, reading, added, peer, baseQueue, callbacks,
                 thread, sent>>

(* Mutant: the channel stays enabled.                                      *)
HandleCloseReading ==
  /\ state' = "disconnected"
  /\ writing' = FALSE
  /\ downs' = downs + 1
  /\ baseQueue' = Append(baseQueue, "remove")
  /\ UNCHANGED <<inMap, reading, added, stream, peer, ups, thread, sent>>

(* Mutant: the server is not told.                                         *)
HandleCloseSilent ==
  /\ state' = "disconnected"
  /\ reading' = FALSE /\ writing' = FALSE
  /\ downs' = downs + 1
  /\ UNCHANGED <<inMap, added, stream, peer, baseQueue, ups, thread, sent>>

HandleClose ==
  /\ state' = "disconnected"
  /\ reading' = FALSE /\ writing' = FALSE
  /\ downs' = downs + 1
  /\ baseQueue' = Append(baseQueue, "remove")
  /\ UNCHANGED <<inMap, added, stream, peer, ups, thread, sent>>

(* Mutant: a connection that has closed meanwhile is closed again.         *)
ForceCloseInLoopAgain == NextFunctor("forceClose") /\ HandleClose

ForceCloseInLoop ==
  /\ NextFunctor("forceClose")
  /\ IF state \in {"connected", "disconnecting"} THEN HandleClose
     ELSE UNCHANGED <<state, inMap, channel, stream, peer, baseQueue, callbacks,
                      thread, sent>>

(* The first case is for a server that is destroyed first.                 *)
ConnectDestroyed ==
  /\ NextFunctor("destroy")
  /\ IF state = "connected"
     THEN /\ state' = "disconnected"
          /\ reading' = FALSE /\ writing' = FALSE
          /\ downs' = downs + 1
     ELSE UNCHANGED <<state, reading, writing, downs>>
  /\ added' = FALSE
  /\ UNCHANGED <<inMap, stream, peer, baseQueue, ups, thread, sent>>

-----------------------------------------------------------------------------
(* The connection's loop: events.                                          *)

ForceCloseQueued == \E f \in Range(ioQueue) : f.what = "forceClose"

(* The message callback runs on data, which may have come before the end   *)
(* of the peer, and may answer, ask for the end of the connection, or do   *)
(* neither.  The functor of a forceClose runs at the end of the same       *)
(* iteration, before the next read.                                        *)
ReadData ==
  /\ reading /\ peer # "reset"
  /\ UNCHANGED <<inMap, reading, added, peer, baseQueue, callbacks, thread>>
  /\ \/ /\ state = "connected" /\ sent[IoThread] < MaxSends
        /\ sent' = [sent EXCEPT ![IoThread] = @ + 1]
        /\ SendInLoop([from |-> IoThread, number |-> sent[IoThread] + 1])
        /\ UNCHANGED <<state, ioQueue>>
     \/ /\ state \in {"connected", "disconnecting"} /\ ~ForceCloseQueued
        /\ state' = "disconnecting"
        /\ ioQueue' = Append(ioQueue, Functor("forceClose"))
        /\ UNCHANGED <<writing, stream, sent>>
     \/ /\ state = "connected"
        /\ state' = "disconnecting"
        /\ ShutdownInLoop
        /\ UNCHANGED <<writing, output, wire, ioQueue, sent>>

ReadEnd ==
  /\ reading /\ peer # "open"
  /\ HandleClose
  /\ UNCHANGED ioQueue

(* Mutant: after a partial write the rest is forgotten.                    *)
HandleWriteForgets ==
  /\ writing /\ ~Broken
  /\ \E n \in 1 .. Len(output) : wire' = wire \o SubSeq(output, 1, n)
  /\ output' = <<>>
  /\ writing' = FALSE
  /\ UNCHANGED <<state, inMap, reading, added, finSent, peer, queues, callbacks,
                 thread, sent>>

(* A write that fails leaves the connection to the next read.              *)
HandleWrite ==
  /\ writing /\ ~Broken
  /\ \E n \in 1 .. Len(output) :
       /\ wire' = wire \o SubSeq(output, 1, n)
       /\ output' = SubSeq(output, n + 1, Len(output))
  /\ writing' = (output' # <<>>)
  /\ finSent' = (finSent \/ (output' = <<>> /\ state = "disconnecting"))
  /\ UNCHANGED <<state, inMap, reading, added, peer, queues, callbacks, thread,
                 sent>>

-----------------------------------------------------------------------------
(* Other threads: they find the connection, send, and let go of it.        *)

Move(t, from, to) == thread[t] = from /\ thread' = [thread EXCEPT ![t] = to]

Find(t) ==
  /\ Registered
  /\ Move(t, "idle", "found")
  /\ UNCHANGED <<state, inMap, channel, stream, peer, queues, callbacks, sent>>

Release(t) ==
  /\ Move(t, "found", "idle")
  /\ UNCHANGED <<state, inMap, channel, stream, peer, queues, callbacks, sent>>

(* send: the state is read some time before the functor is queued.         *)
Send(t) ==
  /\ state = "connected" /\ sent[t] < MaxSends
  /\ Move(t, "found", "sending")
  /\ sent' = [sent EXCEPT ![t] = @ + 1]
  /\ UNCHANGED <<state, inMap, channel, stream, peer, queues, callbacks>>

QueueSend(t) ==
  /\ Move(t, "sending", "found")
  /\ ioQueue' = Append(ioQueue,
                       SendFunctor([from |-> t, number |-> sent[t]]))
  /\ UNCHANGED <<state, inMap, channel, stream, peer, baseQueue, callbacks,
                 sent>>

(* The other end closes its connection or loses it.                        *)
PeerEnds ==
  /\ \/ peer = "open" /\ peer' = "closed"
     \/ peer # "reset" /\ peer' = "reset"
  /\ UNCHANGED <<state, inMap, channel, stream, queues, callbacks, thread, sent>>

-----------------------------------------------------------------------------
LoopStep ==
  \/ ConnectEstablished \/ RunSend \/ ForceCloseInLoop \/ ConnectDestroyed
  \/ ReadEnd

Finish(t) == Release(t) \/ QueueSend(t)

Next ==
  \/ NewConnection \/ RemoveConnection
  \/ LoopStep \/ ReadData \/ HandleWrite
  \/ \E t \in Threads : Find(t) \/ Send(t) \/ Finish(t)
  \/ PeerEnds

Spec == Init /\ [][Next]_vars

(* The loops go on, and a thread's handler comes to its end.               *)
FairSpec ==
  /\ Spec
  /\ WF_vars(LoopStep) /\ WF_vars(RemoveConnection)
  /\ \A t \in Threads : WF_vars(Finish(t))

-----------------------------------------------------------------------------
Stream == wire \o output

Messages == [from : Threads \cup {IoThread}, number : 1 .. MaxSends + 1]

TypeOK ==
  /\ state \in {"none", "connecting", "connected", "disconnecting",
                "disconnected"}
  /\ {inMap, reading, writing, added, finSent} \subseteq BOOLEAN
  /\ Range(Stream) \subseteq [message : Messages, part : 1 .. 2]
  /\ peer \in {"open", "closed", "reset"}
  /\ \A f \in Range(ioQueue) :
       f.what \in {"establish", "send", "forceClose", "destroy"}
  /\ Range(baseQueue) \subseteq {"remove"}
  /\ ups \in Nat /\ downs \in Nat
  /\ thread \in [Threads -> {"idle", "found", "sending"}]
  /\ sent \in [Threads \cup {IoThread} -> 0 .. MaxSends + 1]

(* The application hears of a connection and of its end once each, in this *)
(* order, whichever of forceClose, the peer's end and the removal from the *)
(* server come together (connectEstablished, handleClose and               *)
(* connectDestroyed are "called only once", TcpConnection.h:113, 115).      *)
CallbacksOnce ==
  /\ ups <= 1 /\ downs <= ups
  /\ state = "connected" => ups = 1 /\ downs = 0
  /\ state = "disconnected" => downs = 1

(* What the code asserts when a functor runs and when the last pointer is  *)
(* gone: connections_ has the connection that is removed, a connection is  *)
(* established from kConnecting, its channel is disabled before it leaves  *)
(* the poller, and a destroyed connection is disconnected and out of the   *)
(* poller (TcpServer.cc:113, TcpConnection.cc:71, 326, Channel.cc:40, 61). *)
AssertionsHold ==
  /\ baseQueue # <<>> => inMap /\ Len(baseQueue) = 1
  /\ \A f \in Range(ioQueue) :
       /\ f.what = "establish" => state = "connecting"
       /\ f.what = "destroy" => state = "disconnected" /\ ~reading /\ ~writing
  /\ ~Alive /\ state # "none" => state = "disconnected" /\ ~added

(* The loop follows no pointer to a destroyed connection, except one of a  *)
(* thread that read the state before the end of the connection and queued  *)
(* its message after the server had removed it (TcpConnection::send, the   *)
(* FIXME of line 105): whatever is queued before the removal is run before *)
(* the connection can go.                                                  *)
LateSendsOnly ==
  \A f \in Range(ioQueue) : f.what = "send" /\ ~f.late => Alive

(* What the peer reads is whole messages: never a part without the part    *)
(* before it, whatever partial writes and waiting output do.               *)
StreamIntact ==
  \A i \in DOMAIN Stream :
    IF Stream[i].part = 1
    THEN i < Len(Stream) /\ Stream[i + 1] = Part(Stream[i].message, 2)
    ELSE i > 1 /\ Stream[i - 1] = Part(Stream[i].message, 1)

(* Every thread's messages arrive in the order it sent them.               *)
SenderOrder ==
  \A i, j \in DOMAIN Stream :
    LET m == Stream[i].message  n == Stream[j].message IN
      i < j /\ m.from = n.from => m.number <= n.number

(* TcpConnection.cc:92-192 and 368-406: partial writes and waiting output  *)
(* neither tear a message nor let one overtake another of its sender.      *)
OutputInOrder == StreamIntact /\ SenderOrder

(* Until a connection ends, all that was sent on it is on its way.         *)
NothingLost ==
  state = "connected" /\ peer # "reset" =>
    \A t \in DOMAIN sent : \A n \in 1 .. sent[t] :
      LET m == [from |-> t, number |-> n] IN
        \/ Part(m, 1) \in Range(Stream)
        \/ \E f \in Range(ioQueue) : f.what = "send" /\ f.message = m
        \/ n = sent[t] /\ t \in Threads /\ thread[t] = "sending"

(* shutdown() closes the stream only when all output has left it.          *)
FinAfterOutput == finSent => output = <<>>

(* Output that waits is waited for: the loop is told when the socket can   *)
(* be written (sendInLoop enables writing, handleWrite disables it).       *)
OutputWatched ==
  state \in {"connected", "disconnecting"} => (writing <=> output # <<>>)

(* TcpConnection.cc:174-213 and 368-406: waiting output gets written, and  *)
(* no shutdown cuts it off.                                                *)
OutputDrains == FinAfterOutput /\ OutputWatched

(* A connection whose peer has ended, or that has been told to end, is     *)
(* closed and freed.                                                       *)
EndedIsFreed ==
  /\ reading /\ peer # "open" ~> ~Alive
  /\ ForceCloseQueued ~> ~Alive
=============================================================================
