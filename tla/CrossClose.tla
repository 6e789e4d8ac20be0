----------------------------- MODULE CrossClose -----------------------------
(***************************************************************************)
(* TcpConnection::forceClose called by a thread of another loop, which     *)
(* muduo allows ("FIXME: use compare and swap", TcpConnection.cc:241) and  *)
(* the chat server does not do.                                            *)
(***************************************************************************)
EXTENDS TcpConnection

CONSTANT MaxCloses     \* bound on such calls

VARIABLE closes        \* how many there have been

closeVars == <<vars, closes>>

(* The state is read, then written, then the functor is queued.            *)
ForceClose(t) ==
  /\ state \in {"connected", "disconnecting"} /\ closes < MaxCloses
  /\ Move(t, "found", "closing")
  /\ closes' = closes + 1
  /\ UNCHANGED <<state, inMap, channel, stream, peer, queues, callbacks, sent>>

SetDisconnecting(t) ==
  /\ Move(t, "closing", "queueing")
  /\ state' = "disconnecting"
  /\ UNCHANGED <<inMap, channel, stream, peer, queues, callbacks, sent, closes>>

QueueForceClose(t) ==
  /\ Move(t, "queueing", "found")
  /\ ioQueue' = Append(ioQueue, Functor("forceClose"))
  /\ UNCHANGED <<state, inMap, channel, stream, peer, baseQueue, callbacks,
                 sent, closes>>

CloseInit == Init /\ closes = 0

CloseNext ==
  \/ Next /\ UNCHANGED closes
  \/ \E t \in Threads :
       ForceClose(t) \/ SetDisconnecting(t) \/ QueueForceClose(t)

CloseSpec == CloseInit /\ [][CloseNext]_closeVars

(* connectDestroyed is "called only once" (TcpConnection.h:115), however   *)
(* the connection was closed: it is not queued for a connection that has   *)
(* left the poller.                                                        *)
ConnectDestroyedOnce ==
  (\E f \in Range(ioQueue) : f.what = "destroy") => added
=============================================================================
