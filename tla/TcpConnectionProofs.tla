------------------------ MODULE TcpConnectionProofs ------------------------
(***************************************************************************)
(* The life of a connection that only its own loop closes:                 *)
(* its callbacks run once each, the code's assertions hold, and whatever   *)
(* is queued before the connection's removal runs before its destruction.  *)
(* Then its output: nothing torn, overtaken, lost or left unwatched.       *)
(* For any threads and any number of messages.                             *)
(***************************************************************************)
EXTENDS TcpConnection, SequenceTheorems, TLAPS

AnyMessage == [from : Threads \cup {IoThread}, number : Nat]

AnyFunctor ==
  [what : {"establish", "forceClose", "destroy"}]
    \cup [what : {"send"}, message : AnyMessage, late : BOOLEAN]

Typed ==
  /\ state \in {"none", "connecting", "connected", "disconnecting",
                "disconnected"}
  /\ inMap \in BOOLEAN /\ added \in BOOLEAN
  /\ ioQueue \in Seq(AnyFunctor)
  /\ thread \in [Threads -> {"idle", "found", "sending"}]
  /\ sent \in [Threads \cup {IoThread} -> Nat]

Queued(what) == \E i \in 1 .. Len(ioQueue) : ioQueue[i].what = what

(* Nobody knows a connection that is not established.                      *)
Unknown ==
  state \in {"none", "connecting"} =>
    /\ ioQueue = IF state = "none" THEN <<>> ELSE <<Functor("establish")>>
    /\ inMap <=> state = "connecting"
    /\ baseQueue = <<>> /\ ~added /\ ~reading /\ ~writing
    /\ ups = 0 /\ downs = 0
    /\ \A t \in Threads : thread[t] = "idle"

Open ==
  state \in {"connected", "disconnecting"} =>
    /\ inMap /\ reading /\ added /\ baseQueue = <<>>
    /\ ups = 1 /\ downs = 0
    /\ ~Queued("establish") /\ ~Queued("destroy")

(* A closed connection goes from the map to the queue and out of the       *)
(* poller, one after the other.                                            *)
Closed ==
  state = "disconnected" =>
    /\ ~reading /\ ~writing /\ ups = 1 /\ downs = 1
    /\ ~Queued("establish")
    /\ \/ baseQueue = <<"remove">> /\ inMap /\ added /\ ~Queued("destroy")
       \/ baseQueue = <<>> /\ ~inMap /\ (added <=> Queued("destroy"))

DestroyedOnce ==
  \A i, j \in 1 .. Len(ioQueue) :
    ioQueue[i].what = "destroy" /\ ioQueue[j].what = "destroy" => i = j

(* A send that came before the removal comes before the destruction.       *)
DestroyedLast ==
  \A i \in 1 .. Len(ioQueue) :
    ioQueue[i].what = "send" /\ ~ioQueue[i].late =>
      \/ inMap
      \/ \E j \in 1 .. Len(ioQueue) : i < j /\ ioQueue[j].what = "destroy"

LifeInv ==
  Typed /\ Unknown /\ Open /\ Closed /\ DestroyedOnce /\ DestroyedLast

(* At the start the connection is connecting and its queue is empty.       *)
LEMMA InitInv == Init => LifeInv
<1> SUFFICES ASSUME Init
             PROVE  LifeInv
  OBVIOUS
<1>1. Typed
  <2>1. <<>> \in Seq(AnyFunctor)
    OBVIOUS
  <2> QED
    BY <2>1 DEF Init, Typed
<1>2. Unknown /\ Open /\ Closed
  BY DEF Init, Unknown, Open, Closed
<1>3. DestroyedOnce /\ DestroyedLast
  BY DEF Init, DestroyedOnce, DestroyedLast
<1> QED
  BY <1>1, <1>2, <1>3 DEF LifeInv

(* What is left of the queue when its first functor has been taken.        *)
LEMMA TakenFunctor ==
  ASSUME Typed, NEW what, NextFunctor(what)
  PROVE  /\ ioQueue' \in Seq(AnyFunctor)
         /\ Len(ioQueue) \in Nat /\ Len(ioQueue') = Len(ioQueue) - 1
         /\ 1 \in 1 .. Len(ioQueue) /\ ioQueue[1].what = what
         /\ \A i \in 1 .. Len(ioQueue') :
              i + 1 \in 1 .. Len(ioQueue) /\ ioQueue'[i] = ioQueue[i + 1]
         /\ \A i \in 1 .. Len(ioQueue) : i # 1 =>
              i - 1 \in 1 .. Len(ioQueue') /\ ioQueue'[i - 1] = ioQueue[i]
<1>1. ioQueue \in Seq(AnyFunctor) /\ ioQueue # <<>> /\ ioQueue' = Tail(ioQueue)
  BY DEF Typed, NextFunctor
<1>2. Head(ioQueue) = ioQueue[1] /\ Head(ioQueue).what = what
  BY <1>1 DEF NextFunctor
<1>3. /\ ioQueue' \in Seq(AnyFunctor) /\ Len(ioQueue') = Len(ioQueue) - 1
      /\ \A i \in 1 .. Len(ioQueue') : ioQueue'[i] = ioQueue[i + 1]
  <2>1. /\ Tail(ioQueue) \in Seq(AnyFunctor)
        /\ Len(Tail(ioQueue)) = Len(ioQueue) - 1
        /\ \A i \in 1 .. Len(Tail(ioQueue)) :
             Tail(ioQueue)[i] = ioQueue[i + 1]
    BY <1>1, HeadTailProperties, Zenon
  <2> QED
    BY <1>1, <2>1, Zenon
<1>4. Len(ioQueue) \in Nat \ {0}
  BY <1>1, EmptySeq
<1> QED
  BY <1>2, <1>3, <1>4

(* Running the next functor leaves the other functors queued.              *)
LEMMA TakenQueued ==
  ASSUME Typed, NEW what, NextFunctor(what), NEW other, other # what
  PROVE  Queued(what) /\ (Queued(other)' <=> Queued(other))
<1>1. Queued(what)
  BY TakenFunctor DEF Queued
<1>2. ASSUME Queued(other)'
      PROVE  Queued(other)
  <2>1. PICK i \in 1 .. Len(ioQueue') : ioQueue'[i].what = other
    BY <1>2 DEF Queued
  <2>2. i + 1 \in 1 .. Len(ioQueue) /\ ioQueue'[i] = ioQueue[i + 1]
    BY TakenFunctor
  <2> QED
    BY <2>1, <2>2 DEF Queued
<1>3. ASSUME Queued(other)
      PROVE  Queued(other)'
  <2>1. PICK i \in 1 .. Len(ioQueue) : ioQueue[i].what = other
    BY <1>3 DEF Queued
  <2>2. i - 1 \in 1 .. Len(ioQueue') /\ ioQueue'[i - 1] = ioQueue[i]
    BY <2>1, TakenFunctor
  <2> QED
    BY <2>1, <2>2 DEF Queued
<1> QED
  BY <1>1, <1>2, <1>3

(* The order of what is left does not change.                              *)
LEMMA TakenOrder ==
  ASSUME Typed, DestroyedOnce, DestroyedLast, NEW what, NextFunctor(what),
         inMap' = inMap
  PROVE  /\ DestroyedOnce' /\ DestroyedLast'
         /\ what = "destroy" => ~Queued("destroy")'
<1>1. /\ Len(ioQueue) \in Nat /\ Len(ioQueue') = Len(ioQueue) - 1
      /\ 1 \in 1 .. Len(ioQueue) /\ ioQueue[1].what = what
  BY TakenFunctor
<1>2. \A i \in 1 .. Len(ioQueue') :
        i + 1 \in 1 .. Len(ioQueue) /\ ioQueue'[i] = ioQueue[i + 1]
  BY TakenFunctor
<1>3. DestroyedOnce'
  <2>1. ASSUME NEW i \in 1 .. Len(ioQueue'), NEW j \in 1 .. Len(ioQueue'),
               ioQueue'[i].what = "destroy", ioQueue'[j].what = "destroy"
        PROVE  i = j
    <3>1. i + 1 = j + 1
      BY <1>2, <2>1 DEF DestroyedOnce
    <3> QED
      BY <3>1
  <2> QED
    BY <2>1 DEF DestroyedOnce
<1>4. ASSUME NEW i \in 1 .. Len(ioQueue'),
             ioQueue'[i].what = "send", ~ioQueue'[i].late, ~inMap
      PROVE  \E j \in 1 .. Len(ioQueue') : i < j /\ ioQueue'[j].what = "destroy"
  <2>1. PICK k \in 1 .. Len(ioQueue) :
          i + 1 < k /\ ioQueue[k].what = "destroy"
    BY <1>2, <1>4 DEF DestroyedLast
  <2>2. k - 1 \in 1 .. Len(ioQueue') /\ ioQueue'[k - 1] = ioQueue[k]
    BY <2>1, TakenFunctor
  <2> QED
    BY <1>1, <2>1, <2>2
<1>5. DestroyedLast'
  BY <1>4 DEF DestroyedLast
<1>6. ASSUME what = "destroy"
      PROVE  ~Queued("destroy")'
  BY <1>1, <1>2, <1>6 DEF DestroyedOnce, Queued
<1> QED
  BY <1>3, <1>5, <1>6

(* The queue with one more functor.                                        *)
LEMMA AddedFunctor ==
  ASSUME Typed, NEW f \in AnyFunctor, ioQueue' = Append(ioQueue, f)
  PROVE  /\ ioQueue' \in Seq(AnyFunctor)
         /\ Len(ioQueue) \in Nat /\ Len(ioQueue') = Len(ioQueue) + 1
         /\ ioQueue'[Len(ioQueue) + 1] = f
         /\ \A i \in 1 .. Len(ioQueue) : ioQueue'[i] = ioQueue[i]
  BY DEF Typed

(* A functor that may follow the others without a word about the removal.  *)
LEMMA AddedOrder ==
  ASSUME Typed, DestroyedOnce, DestroyedLast, inMap' = inMap,
         NEW f \in AnyFunctor, ioQueue' = Append(ioQueue, f),
         f.what \notin {"establish", "destroy"},
         f.what = "send" /\ ~f.late => inMap
  PROVE  /\ ioQueue' \in Seq(AnyFunctor)
         /\ Queued("establish")' <=> Queued("establish")
         /\ Queued("destroy")' <=> Queued("destroy")
         /\ DestroyedOnce' /\ DestroyedLast'
<1>1. /\ ioQueue' \in Seq(AnyFunctor)
      /\ Len(ioQueue) \in Nat /\ Len(ioQueue') = Len(ioQueue) + 1
      /\ ioQueue'[Len(ioQueue) + 1] = f
      /\ \A i \in 1 .. Len(ioQueue) : ioQueue'[i] = ioQueue[i]
  BY AddedFunctor
<1>2. /\ Queued("establish")' <=> Queued("establish")
      /\ Queued("destroy")' <=> Queued("destroy")
  BY <1>1 DEF Queued
<1>3. DestroyedOnce'
  BY <1>1 DEF DestroyedOnce
<1>4. DestroyedLast'
  BY <1>1 DEF DestroyedLast
<1> QED
  BY <1>1, <1>2, <1>3, <1>4

(* What handleClose makes of a connection.                                 *)
Effect ==
  /\ state' = "disconnected" /\ ~reading' /\ ~writing'
  /\ ups' = 1 /\ downs' = 1 /\ baseQueue' = <<"remove">>
  /\ inMap /\ added
  /\ UNCHANGED <<inMap, added, thread, sent>>

(* handleClose of an open connection.                                      *)
LEMMA CloseEffect ==
  ASSUME Open, state \in {"connected", "disconnecting"}, HandleClose
  PROVE  Effect
<1>1. inMap /\ added /\ baseQueue = <<>> /\ ups = 1 /\ downs = 0
  BY DEF Open
<1>2. baseQueue' = <<"remove">>
  BY <1>1 DEF HandleClose
<1>3. ups' = 1 /\ downs' = 1
  BY <1>1 DEF HandleClose
<1> QED
  BY <1>1, <1>2, <1>3 DEF HandleClose, Effect

-----------------------------------------------------------------------------
(* Every step keeps the invariant of the connection's life.                *)
LEMMA NextInv ==
  ASSUME LifeInv, [Next]_vars
  PROVE  LifeInv'
<1> USE DEF LifeInv
<1>1. CASE UNCHANGED vars
  BY <1>1 DEF vars, Typed, Unknown, Open, Closed, DestroyedOnce, DestroyedLast,
              Queued
<1>2. CASE NewConnection
  <2>1. /\ state = "none" /\ state' = "connecting" /\ inMap' = TRUE
        /\ ioQueue' = <<Functor("establish")>>
        /\ UNCHANGED <<channel, baseQueue, callbacks, thread, sent>>
    BY <1>2 DEF NewConnection, Unknown
  <2>2. ioQueue' \in Seq(AnyFunctor) /\ Len(ioQueue') = 1
        /\ ioQueue'[1].what = "establish"
    BY <2>1 DEF AnyFunctor, Functor
  <2>3. Typed'
    BY <2>1, <2>2 DEF Typed, channel
  <2>4. Unknown' /\ Open' /\ Closed'
    BY <2>1 DEF Unknown, Open, Closed, channel, callbacks
  <2>5. DestroyedOnce' /\ DestroyedLast'
    BY <2>2 DEF DestroyedOnce, DestroyedLast
  <2> QED
    BY <2>1, <2>3, <2>4, <2>5
<1>3. CASE RemoveConnection
  <2>1. /\ state = "disconnected" /\ baseQueue = <<"remove">> /\ inMap /\ added
        /\ ~Queued("destroy")
    BY <1>3 DEF RemoveConnection, Typed, Unknown, Open, Closed
  <2>2. /\ baseQueue' = <<>> /\ inMap' = FALSE
        /\ ioQueue' = Append(ioQueue, Functor("destroy"))
        /\ UNCHANGED <<state, channel, callbacks, thread, sent>>
    BY <1>3, <2>1 DEF RemoveConnection
  <2>3. Functor("destroy") \in AnyFunctor /\ Functor("destroy").what = "destroy"
    BY DEF AnyFunctor, Functor
  <2>4. /\ ioQueue' \in Seq(AnyFunctor)
        /\ Len(ioQueue) \in Nat /\ Len(ioQueue') = Len(ioQueue) + 1
        /\ ioQueue'[Len(ioQueue) + 1].what = "destroy"
        /\ \A i \in 1 .. Len(ioQueue) : ioQueue'[i] = ioQueue[i]
    BY <2>2, <2>3, AddedFunctor
  <2>5. Queued("destroy")' /\ ~Queued("establish")'
    BY <2>1, <2>4 DEF Queued, Closed
  <2>6. DestroyedOnce' /\ DestroyedLast'
    BY <2>1, <2>4 DEF Queued, DestroyedOnce, DestroyedLast
  <2> QED
    BY <2>1, <2>2, <2>4, <2>5, <2>6
    DEF Typed, Unknown, Open, Closed, channel, callbacks
<1>4. CASE ConnectEstablished
  <2>1. state = "connecting" /\ ioQueue = <<Functor("establish")>>
    <3>1. Queued("establish")
      BY <1>4, TakenFunctor DEF ConnectEstablished, Queued
    <3> QED
      BY <3>1, SMTT(20) DEF Typed, Unknown, Open, Closed, Queued
  <2>2. ioQueue' = <<>> /\ Len(ioQueue') = 0
    BY <1>4, <2>1 DEF ConnectEstablished, NextFunctor
  <2>3. sent' \in [Threads \cup {IoThread} -> Nat]
    BY <1>4 DEF ConnectEstablished, Typed
  <2>4. /\ state' = "connected" /\ reading' /\ added' = TRUE /\ inMap'
        /\ ups' = 1 /\ downs' = 0 /\ baseQueue' = <<>> /\ inMap' = inMap
        /\ thread' = thread
    <3>1. inMap /\ baseQueue = <<>> /\ ups = 0 /\ downs = 0
      BY <2>1 DEF Unknown
    <3> QED
      BY <1>4, <3>1 DEF ConnectEstablished
  <2>5. <<>> \in Seq(AnyFunctor)
    OBVIOUS
  <2>6. Typed'
    BY <2>2, <2>3, <2>4, <2>5 DEF Typed
  <2>7. Unknown' /\ Open' /\ Closed'
    BY <2>2, <2>4 DEF Unknown, Open, Closed, Queued
  <2>8. DestroyedOnce' /\ DestroyedLast'
    BY <2>2 DEF DestroyedOnce, DestroyedLast
  <2> QED
    BY <2>4, <2>6, <2>7, <2>8
<1>5. CASE RunSend
  <2>1. Queued("send") /\ NextFunctor("send")
    BY <1>5, TakenFunctor DEF RunSend, Queued
  <2>2. state \in {"connected", "disconnecting", "disconnected"}
    BY <2>1 DEF Typed, Unknown, Queued, Functor
  <2>3. /\ UNCHANGED <<state, inMap, reading, added, baseQueue, ups, downs,
                       thread, sent>>
        /\ state = "disconnected" => writing' = writing
    BY <1>5 DEF RunSend, callbacks
  <2>4. /\ Queued("establish")' <=> Queued("establish")
        /\ Queued("destroy")' <=> Queued("destroy")
    BY <2>1, TakenQueued
  <2>5. DestroyedOnce' /\ DestroyedLast'
    BY <2>1, <2>3, TakenOrder
  <2>6. Typed'
    BY <2>1, <2>3, TakenFunctor DEF Typed
  <2> QED
    BY <2>2, <2>3, <2>4, <2>5, <2>6 DEF Unknown, Open, Closed
<1>6. CASE ForceCloseInLoop
  <2>1. NextFunctor("forceClose") /\ inMap' = inMap /\ added' = added
        /\ UNCHANGED <<thread, sent>>
    BY <1>6 DEF ForceCloseInLoop, HandleClose, channel
  <2>2. /\ Queued("establish")' <=> Queued("establish")
        /\ Queued("destroy")' <=> Queued("destroy")
        /\ Queued("forceClose")
    BY <2>1, TakenQueued
  <2>3. DestroyedOnce' /\ DestroyedLast'
    BY <2>1, TakenOrder
  <2>4. state \in {"connected", "disconnecting", "disconnected"}
    BY <2>2 DEF Typed, Unknown, Queued, Functor
  <2>5. ioQueue' \in Seq(AnyFunctor)
    BY <2>1, TakenFunctor
  <2>6. CASE state \in {"connected", "disconnecting"}
    <3>1. HandleClose
      BY <1>6, <2>6 DEF ForceCloseInLoop
    <3>2. Effect
      BY <2>6, <3>1, CloseEffect
    <3>3. Typed'
      BY <2>1, <2>5, <3>2 DEF Typed, Effect
    <3>4. Unknown' /\ Open' /\ Closed'
      BY <2>2, <2>6, <3>2 DEF Unknown, Open, Closed, Effect
    <3> QED
      BY <2>3, <3>2, <3>3, <3>4 DEF Effect
  <2>7. CASE state = "disconnected"
    <3>1. UNCHANGED <<state, channel, baseQueue, callbacks>>
      BY <1>6, <2>7 DEF ForceCloseInLoop
    <3>2. Typed'
      BY <2>1, <2>5, <3>1 DEF Typed
    <3> QED
      BY <2>1, <2>2, <2>3, <2>7, <3>1, <3>2
      DEF Unknown, Open, Closed, channel, callbacks
  <2> QED
    BY <2>4, <2>6, <2>7
<1>7. CASE ConnectDestroyed
  <2>1. NextFunctor("destroy") /\ inMap' = inMap /\ added' = FALSE
        /\ UNCHANGED <<baseQueue, ups, thread, sent>>
    BY <1>7 DEF ConnectDestroyed
  <2>2. Queued("destroy") /\ (Queued("establish")' <=> Queued("establish"))
    BY <2>1, TakenQueued
  <2>3. DestroyedOnce' /\ DestroyedLast' /\ ~Queued("destroy")'
    BY <2>1, TakenOrder
  <2>4. state = "disconnected"
    BY <2>2 DEF Typed, Unknown, Open, Queued, Functor
  <2>5. UNCHANGED <<state, reading, writing, downs>>
    BY <1>7, <2>4 DEF ConnectDestroyed
  <2>6. ioQueue' \in Seq(AnyFunctor)
    BY <2>1, TakenFunctor
  <2>7. Typed'
    BY <2>1, <2>5, <2>6 DEF Typed
  <2> QED
    BY <2>1, <2>2, <2>3, <2>4, <2>5, <2>7 DEF Unknown, Open, Closed
<1>8. CASE ReadData
  <2>1. state \in {"connected", "disconnecting"}
        /\ state' \in {"connected", "disconnecting"}
        /\ UNCHANGED <<inMap, reading, added, baseQueue, ups, downs, thread>>
    BY <1>8 DEF ReadData, callbacks
  <2>2. sent' \in [Threads \cup {IoThread} -> Nat]
    BY <1>8 DEF ReadData, Typed
  <2>3. CASE UNCHANGED ioQueue
    <3>1. Typed' /\ DestroyedOnce' /\ DestroyedLast'
      BY <2>1, <2>2, <2>3 DEF Typed, DestroyedOnce, DestroyedLast
    <3>2. Unknown' /\ Open' /\ Closed'
      BY <2>1, <2>3 DEF Unknown, Open, Closed, Queued
    <3> QED
      BY <2>1, <3>1, <3>2
  <2>4. CASE ioQueue' = Append(ioQueue, Functor("forceClose"))
    <3>1. Functor("forceClose") \in AnyFunctor
          /\ Functor("forceClose").what = "forceClose"
      BY DEF AnyFunctor, Functor
    <3>2. /\ ioQueue' \in Seq(AnyFunctor)
          /\ Queued("establish")' <=> Queued("establish")
          /\ Queued("destroy")' <=> Queued("destroy")
          /\ DestroyedOnce' /\ DestroyedLast'
      BY <2>1, <2>4, <3>1, AddedOrder
    <3>3. Typed'
      BY <2>1, <2>2, <3>2 DEF Typed
    <3>4. Unknown' /\ Open' /\ Closed'
      BY <2>1, <3>2 DEF Unknown, Open, Closed
    <3> QED
      BY <2>1, <3>2, <3>3, <3>4
  <2> QED
    BY <1>8, <2>3, <2>4 DEF ReadData
<1>9. CASE ReadEnd
  <2>1. state \in {"connected", "disconnecting"}
    BY <1>9 DEF ReadEnd, Typed, Unknown, Closed
  <2>2. Effect /\ ioQueue' = ioQueue
    BY <1>9, <2>1, CloseEffect DEF ReadEnd
  <2>3. Typed' /\ DestroyedOnce' /\ DestroyedLast'
    BY <2>2 DEF Typed, DestroyedOnce, DestroyedLast, Effect
  <2>4. Unknown' /\ Open' /\ Closed'
    BY <2>1, <2>2 DEF Unknown, Open, Closed, Queued, Effect
  <2> QED
    BY <2>2, <2>3, <2>4 DEF Effect
<1>10. CASE HandleWrite \/ PeerEnds
  <2>1. UNCHANGED <<state, inMap, reading, added, queues, callbacks, thread,
                    sent>>
    BY <1>10 DEF HandleWrite, PeerEnds, channel
  <2>2. state \in {"connected", "disconnecting"} \/ UNCHANGED writing
    BY <1>10 DEF HandleWrite, PeerEnds, channel, Typed, Unknown, Closed
  <2>3. Typed' /\ DestroyedOnce' /\ DestroyedLast'
    BY <2>1 DEF Typed, DestroyedOnce, DestroyedLast, queues
  <2>4. Unknown' /\ Open' /\ Closed'
    BY <2>1, <2>2 DEF Unknown, Open, Closed, Queued, queues, callbacks
  <2> QED
    BY <2>1, <2>3, <2>4
<1>11. ASSUME NEW t \in Threads, Find(t) \/ Release(t) \/ Send(t)
       PROVE  LifeInv'
  <2>1. UNCHANGED <<state, inMap, channel, queues, callbacks>>
    BY <1>11 DEF Find, Release, Send
  <2>2. thread' \in [Threads -> {"idle", "found", "sending"}]
        /\ sent' \in [Threads \cup {IoThread} -> Nat]
    BY <1>11 DEF Find, Release, Send, Move, Typed
  <2>3. state \notin {"none", "connecting"}
    BY <1>11 DEF Find, Release, Send, Move, Unknown, Registered
  <2>4. Typed' /\ DestroyedOnce' /\ DestroyedLast'
    BY <2>1, <2>2 DEF Typed, DestroyedOnce, DestroyedLast, queues, channel
  <2>5. Unknown' /\ Open' /\ Closed'
    BY <2>1, <2>3 DEF Unknown, Open, Closed, Queued, queues, callbacks, channel
  <2> QED
    BY <2>1, <2>4, <2>5
<1>12. ASSUME NEW t \in Threads, QueueSend(t)
       PROVE  LifeInv'
  <2> DEFINE m == [from |-> t, number |-> sent[t]]
  <2>1. /\ ioQueue' = Append(ioQueue, SendFunctor(m))
        /\ UNCHANGED <<state, inMap, channel, baseQueue, callbacks, sent>>
    BY <1>12 DEF QueueSend
  <2>2. SendFunctor(m) \in AnyFunctor /\ SendFunctor(m).what = "send"
        /\ (~SendFunctor(m).late => inMap)
    BY DEF AnyFunctor, AnyMessage, SendFunctor, Typed
  <2>3. /\ ioQueue' \in Seq(AnyFunctor)
        /\ Queued("establish")' <=> Queued("establish")
        /\ Queued("destroy")' <=> Queued("destroy")
        /\ DestroyedOnce' /\ DestroyedLast'
    BY <2>1, <2>2, AddedOrder
  <2>4. state \notin {"none", "connecting"}
    BY <1>12 DEF QueueSend, Move, Unknown
  <2>5. Typed'
    BY <1>12, <2>1, <2>3 DEF Typed, QueueSend, Move, channel
  <2>6. Unknown' /\ Open' /\ Closed'
    BY <2>1, <2>3, <2>4 DEF Unknown, Open, Closed, channel, callbacks
  <2> QED
    BY <2>1, <2>3, <2>5, <2>6
<1> QED
  BY <1>1, <1>2, <1>3, <1>4, <1>5, <1>6, <1>7, <1>8, <1>9, <1>10, <1>11, <1>12
  DEF Next, LoopStep, Finish

(* The invariant of the connection's life holds in every state.            *)
LEMMA LifeInvHolds == Spec => []LifeInv
<1>1. LifeInv /\ [Next]_vars => LifeInv'
  BY NextInv
<1> QED
  BY <1>1, InitInv, PTL DEF Spec

(* The callbacks of a connection run once each (TcpConnection.h:113, 115). *)
THEOREM CalledOnce == Spec => []CallbacksOnce
<1>1. LifeInv => CallbacksOnce
  BY DEF LifeInv, Typed, Unknown, Open, Closed, CallbacksOnce
<1> QED
  BY <1>1, LifeInvHolds, PTL

(* The assertions of the code hold whenever a functor runs and when the    *)
(* last pointer to the connection goes.                                    *)
THEOREM AssertionsAlwaysHold == Spec => []AssertionsHold
<1>1. LifeInv => AssertionsHold
  <2> SUFFICES ASSUME LifeInv
               PROVE  AssertionsHold
    OBVIOUS
  <2> USE DEF LifeInv
  <2>1. \/ state = "none" \/ state = "connecting"
        \/ state \in {"connected", "disconnecting"} \/ state = "disconnected"
    BY DEF Typed
  <2>2. baseQueue # <<>> => inMap /\ Len(baseQueue) = 1
    <3>1. baseQueue = <<>> \/ (baseQueue = <<"remove">> /\ inMap)
      BY <2>1 DEF Unknown, Open, Closed
    <3> QED
      BY <3>1
  <2>3. /\ Queued("establish") => state = "connecting"
        /\ Queued("destroy") =>
             state = "disconnected" /\ ~reading /\ ~writing
    <3>1. CASE state = "none"
      BY <3>1 DEF Unknown, Queued
    <3>2. CASE state = "connecting"
      <4>1. Len(ioQueue) = 1 /\ ioQueue[1].what = "establish"
        BY <3>2 DEF Unknown, Functor
      <4> QED
        BY <3>2, <4>1 DEF Queued
    <3>3. CASE state \in {"connected", "disconnecting"}
      BY <3>3 DEF Open
    <3>4. CASE state = "disconnected"
      BY <3>4 DEF Closed
    <3> QED
      BY <2>1, <3>1, <3>2, <3>3, <3>4
  <2>4. ASSUME NEW f \in Range(ioQueue)
        PROVE  Queued(f.what)
    BY DEF Range, Typed, Queued
  <2>5. ASSUME ~Alive, state # "none"
        PROVE  state = "disconnected" /\ ~added
    <3>1. ~inMap /\ baseQueue = <<>> /\ \A f \in Range(ioQueue) : ~Shared(f)
      BY <2>5 DEF Alive
    <3>2. ~Queued("destroy")
      <4>1. ASSUME NEW i \in 1 .. Len(ioQueue)
            PROVE  ~Shared(ioQueue[i])
        BY <3>1 DEF Range, Typed
      <4> QED
        BY <4>1 DEF Queued, Shared
    <3>3. state = "disconnected"
      BY <2>1, <2>5, <3>1 DEF Unknown, Open
    <3> QED
      BY <3>1, <3>2, <3>3 DEF Closed
  <2> QED
    BY <2>2, <2>3, <2>4, <2>5 DEF AssertionsHold
<1> QED
  BY <1>1, LifeInvHolds, PTL

(* A pointer is followed to a connection that is gone only by a send that  *)
(* was queued after the removal (TcpConnection::send).                     *)
THEOREM OnlyLateSends == Spec => []LateSendsOnly
<1>1. LifeInv => LateSendsOnly
  <2> USE DEF LifeInv
  <2> SUFFICES ASSUME LifeInv,
                      NEW f \in Range(ioQueue), f.what = "send", ~f.late
               PROVE  Alive
    BY DEF LateSendsOnly
  <2>1. PICK i \in 1 .. Len(ioQueue) : f = ioQueue[i]
    BY DEF Range, Typed
  <2>2. CASE inMap
    BY <2>2 DEF Alive
  <2>3. CASE ~inMap
    <3>1. PICK j \in 1 .. Len(ioQueue) : ioQueue[j].what = "destroy"
      BY <2>1, <2>3 DEF DestroyedLast
    <3>2. ioQueue[j] \in Range(ioQueue)
      BY <3>1 DEF Range, Typed
    <3> QED
      BY <3>1, <3>2 DEF Alive, Shared
  <2> QED
    BY <2>2, <2>3
<1> QED
  BY <1>1, LifeInvHolds, PTL

-----------------------------------------------------------------------------
(* Output.  The messages of a sender are numbered in the order it sends    *)
(* them; this order holds along the stream and the functors that wait.     *)

AnyPart == [message : AnyMessage, part : 1 .. 2]

OutTyped ==
  /\ wire \in Seq(AnyPart) /\ output \in Seq(AnyPart)
  /\ writing \in BOOLEAN /\ finSent \in BOOLEAN

(* Nothing has been sent on a connection that is not established.          *)
Silent ==
  state \in {"none", "connecting"} =>
    /\ wire = <<>> /\ output = <<>> /\ ~finSent
    /\ \A t \in Threads \cup {IoThread} : sent[t] = 0

FinLate == finSent => state \in {"disconnecting", "disconnected"}

SendAt(i) == i \in 1 .. Len(ioQueue) /\ ioQueue[i].what = "send"
Sender(i) == ioQueue[i].message.from
Number(i) == ioQueue[i].message.number

(* Only other threads queue what they send, and nobody has sent more than  *)
(* what the count of the sender says.                                      *)
QueueNumbered ==
  \A i \in 1 .. Len(ioQueue) :
    SendAt(i) => Sender(i) \in Threads /\ Number(i) <= sent[Sender(i)]

StreamNumbered ==
  \A i \in 1 .. Len(Stream) :
    Stream[i].message.number <= sent[Stream[i].message.from]

QueueOrder ==
  \A i, j \in 1 .. Len(ioQueue) :
    i < j /\ SendAt(i) /\ SendAt(j) /\ Sender(i) = Sender(j)
      => Number(i) <= Number(j)

StreamFirst ==
  \A i \in 1 .. Len(Stream) : \A j \in 1 .. Len(ioQueue) :
    SendAt(j) /\ Stream[i].message.from = Sender(j)
      => Stream[i].message.number <= Number(j)

(* StreamIntact and SenderOrder over the positions of the stream.          *)
Whole ==
  \A i \in 1 .. Len(Stream) :
    IF Stream[i].part = 1
    THEN i < Len(Stream) /\ Stream[i + 1] = Part(Stream[i].message, 2)
    ELSE i > 1 /\ Stream[i - 1] = Part(Stream[i].message, 1)

Sorted ==
  \A i, j \in 1 .. Len(Stream) :
    i < j /\ Stream[i].message.from = Stream[j].message.from
      => Stream[i].message.number <= Stream[j].message.number

OrderInv ==
  /\ QueueNumbered /\ StreamNumbered /\ QueueOrder /\ StreamFirst
  /\ Whole /\ Sorted

(* Where message n of t is while the connection is open.                   *)
OnItsWay(t, n) ==
  \/ \E i \in 1 .. Len(Stream) :
       Stream[i] = Part([from |-> t, number |-> n], 1)
  \/ \E i \in 1 .. Len(ioQueue) :
       SendAt(i) /\ ioQueue[i].message = [from |-> t, number |-> n]
  \/ n = sent[t] /\ t \in Threads /\ thread[t] = "sending"

Kept ==
  state = "connected" /\ peer # "reset" =>
    \A t \in Threads \cup {IoThread} : \A n \in Nat :
      n >= 1 /\ n <= sent[t] => OnItsWay(t, n)

OutInv ==
  /\ OutTyped /\ Silent /\ FinLate
  /\ FinAfterOutput /\ OutputWatched
  /\ OrderInv /\ Kept

(* What was written, then what is buffered: a sequence of parts.           *)
LEMMA StreamType ==
  ASSUME OutTyped
  PROVE  Stream \in Seq(AnyPart) /\ Len(Stream) \in Nat
  BY ConcatProperties DEF OutTyped, Stream

(* A sequence is what it is cut into.                                      *)
LEMMA CutAndJoined ==
  ASSUME NEW S, NEW s \in Seq(S), NEW n \in 0 .. Len(s)
  PROVE  /\ SubSeq(s, 1, n) \in Seq(S) /\ SubSeq(s, n + 1, Len(s)) \in Seq(S)
         /\ SubSeq(s, 1, n) \o SubSeq(s, n + 1, Len(s)) = s
         /\ SubSeq(s, n + 1, Len(s)) = <<>> <=> n = Len(s)
<1>1. SubSeq(s, 1, n) \o SubSeq(s, n + 1, Len(s)) = SubSeq(s, 1, Len(s))
  <2>1. Len(s) \in Nat /\ 1 \in 1 .. Len(s) + 1 /\ n \in 1 - 1 .. Len(s)
        /\ Len(s) \in n .. Len(s)
    OBVIOUS
  <2> QED
    BY <2>1, ConcatAdjacentSubSeq
<1>2. SubSeq(s, 1, Len(s)) = s
  BY SubSeqFull
<1>3. SubSeq(s, 1, n) \in Seq(S)
  OBVIOUS
<1>4. SubSeq(s, n + 1, Len(s)) \in Seq(S)
      /\ Len(SubSeq(s, n + 1, Len(s))) = Len(s) - n
  OBVIOUS
<1>5. SubSeq(s, n + 1, Len(s)) = <<>> <=> Len(SubSeq(s, n + 1, Len(s))) = 0
  BY <1>4, EmptySeq, Zenon
<1>6. n = Len(s) <=> Len(s) - n = 0
  OBVIOUS
<1> QED
  BY <1>1, <1>2, <1>3, <1>4, <1>5, <1>6, Zenon

(* What is written goes to the wire and what is left waits: the stream as  *)
(* a whole does not notice.                                                *)
LEMMA Rewritten ==
  ASSUME NEW S, NEW w \in Seq(S), NEW s \in Seq(S), NEW n \in 0 .. Len(s)
  PROVE  (w \o SubSeq(s, 1, n)) \o SubSeq(s, n + 1, Len(s)) = w \o s
<1> DEFINE a == SubSeq(s, 1, n)
           b == SubSeq(s, n + 1, Len(s))
<1>1. a \in Seq(S) /\ b \in Seq(S)
  BY CutAndJoined
<1>2. a \o b = s
  BY CutAndJoined
<1> HIDE DEF a, b
<1>3. (w \o a) \o b = w \o (a \o b)
  BY <1>1, ConcatAssociative
<1> QED
  BY <1>2, <1>3 DEF a, b

(* A message has two parts.                                                *)
LEMMA PartsType ==
  ASSUME NEW m \in AnyMessage
  PROVE  /\ Parts(m) \in Seq(AnyPart) /\ Len(Parts(m)) = 2
         /\ Parts(m)[1] = Part(m, 1) /\ Parts(m)[2] = Part(m, 2)
  BY DEF Parts, Part, AnyPart

(* What sendInLoop promises: the message joins the stream as a whole,      *)
(* unless nobody can be reached any more.                                  *)
Sending(m) ==
  /\ OutTyped' /\ finSent' = finSent
  /\ \/ Stream' = Stream \o Parts(m)
     \/ Stream' = Stream /\ Broken

(* sendInLoop puts the whole message behind the stream or drops it.        *)
LEMMA SendJoins ==
  ASSUME OutTyped, NEW m \in AnyMessage, SendInLoop(m)
  PROVE  Sending(m)
<1>1. Parts(m) \in Seq(AnyPart) /\ Len(Parts(m)) = 2
  BY PartsType
<1>2. wire \in Seq(AnyPart) /\ output \in Seq(AnyPart)
  BY DEF OutTyped
<1>3. CASE writing \/ output # <<>>
  <2>1. output' = output \o Parts(m) /\ writing' = TRUE
        /\ wire' = wire /\ finSent' = finSent
    BY <1>3 DEF SendInLoop
  <2>2. output' \in Seq(AnyPart)
    BY <1>1, <1>2, <2>1, ConcatProperties
  <2>3. (wire \o output) \o Parts(m) = wire \o (output \o Parts(m))
    BY <1>1, <1>2, ConcatAssociative
  <2> QED
    BY <2>1, <2>2, <2>3 DEF OutTyped, Stream, Sending
<1>4. CASE ~(writing \/ output # <<>>) /\ Broken
  BY <1>4 DEF SendInLoop, stream, OutTyped, Stream, Sending
<1>5. CASE ~(writing \/ output # <<>>) /\ ~Broken
  <2>1. PICK n \in 0 .. 2 :
          /\ wire' = wire \o SubSeq(Parts(m), 1, n)
          /\ output' = SubSeq(Parts(m), n + 1, 2)
          /\ writing' = (n < 2) /\ finSent' = finSent
    BY <1>5 DEF SendInLoop
  <2>2. SubSeq(Parts(m), 1, n) \in Seq(AnyPart)
        /\ SubSeq(Parts(m), n + 1, 2) \in Seq(AnyPart)
    BY <1>1, CutAndJoined
  <2>3. wire' \o output' = wire \o Parts(m)
    <3>1. (wire \o SubSeq(Parts(m), 1, n))
            \o SubSeq(Parts(m), n + 1, Len(Parts(m))) = wire \o Parts(m)
      BY <1>1, <1>2, Rewritten
    <3> QED
      BY <1>1, <2>1, <3>1
  <2>4. Stream = wire
    BY <1>2, <1>5, ConcatEmptySeq DEF Stream
  <2>5. wire' \in Seq(AnyPart)
    BY <1>2, <2>1, <2>2, ConcatProperties
  <2>6. OutTyped'
    BY <2>1, <2>2, <2>5 DEF OutTyped
  <2>7. Stream' = Stream \o Parts(m)
    BY <2>3, <2>4 DEF Stream
  <2> QED
    BY <2>1, <2>6, <2>7 DEF Sending
<1> QED
  BY <1>3, <1>4, <1>5

(* A send leaves output waiting only with the loop watching the socket,    *)
(* and none behind the end of the stream.                                  *)
LEMMA SendDrains ==
  ASSUME OutTyped, NEW m \in AnyMessage, SendInLoop(m),
         FinAfterOutput, writing <=> output # <<>>
  PROVE  FinAfterOutput' /\ (writing' <=> output' # <<>>)
<1>1. Parts(m) \in Seq(AnyPart) /\ Len(Parts(m)) = 2
  BY PartsType
<1>2. CASE output # <<>>
  <2>1. output' = output \o Parts(m) /\ writing' /\ finSent' = finSent
    BY <1>2 DEF SendInLoop
  <2>2. output \in Seq(AnyPart) /\ Len(output) \in Nat
    BY DEF OutTyped
  <2>3. Len(output \o Parts(m)) = Len(output) + Len(Parts(m))
    BY <1>1, <2>2, ConcatProperties
  <2>4. Len(output') > 0
    BY <1>1, <2>1, <2>2, <2>3
  <2>5. output' # <<>>
    BY <2>4
  <2> QED
    BY <1>2, <2>1, <2>5 DEF FinAfterOutput
<1>3. CASE output = <<>> /\ Broken
  BY <1>3 DEF SendInLoop, stream, FinAfterOutput
<1>4. CASE output = <<>> /\ ~Broken
  <2>1. PICK n \in 0 .. 2 :
          /\ output' = SubSeq(Parts(m), n + 1, 2)
          /\ writing' = (n < 2) /\ finSent' = finSent
    BY <1>4 DEF SendInLoop
  <2>2. n \in 0 .. Len(Parts(m))
    BY <1>1
  <2>3. SubSeq(Parts(m), n + 1, Len(Parts(m))) = <<>> <=> n = Len(Parts(m))
    BY <1>1, <2>2, CutAndJoined, Zenon
  <2>4. output' = <<>> <=> n = 2
    BY <1>1, <2>1, <2>3
  <2>5. FinAfterOutput'
    BY <1>4, <2>1 DEF FinAfterOutput, Broken
  <2>6. writing' <=> n < 2
    BY <2>1, Zenon
  <2>7. n < 2 <=> n # 2
    OBVIOUS
  <2> QED
    BY <2>4, <2>5, <2>6, <2>7, Zenon
<1> QED
  BY <1>2, <1>3, <1>4

(* handleWrite moves output to the wire.                                   *)
LEMMA WriteMoves ==
  ASSUME OutTyped, HandleWrite
  PROVE  /\ OutTyped' /\ Stream' = Stream
         /\ writing' <=> output' # <<>>
<1>1. wire \in Seq(AnyPart) /\ output \in Seq(AnyPart)
  BY DEF OutTyped
<1>2. PICK n \in 1 .. Len(output) :
        /\ wire' = wire \o SubSeq(output, 1, n)
        /\ output' = SubSeq(output, n + 1, Len(output))
  BY DEF HandleWrite
<1>3. n \in 0 .. Len(output)
  BY <1>1
<1>4. SubSeq(output, 1, n) \in Seq(AnyPart) /\ output' \in Seq(AnyPart)
  BY <1>1, <1>2, <1>3, CutAndJoined
<1>5. wire' \o output' = wire \o output
  BY <1>1, <1>2, <1>3, Rewritten
<1>6. wire' \in Seq(AnyPart)
  BY <1>1, <1>2, <1>4, ConcatProperties
<1>7. writing' = (output' # <<>>) /\ finSent' \in BOOLEAN
  BY DEF HandleWrite, OutTyped
<1> QED
  BY <1>4, <1>5, <1>6, <1>7 DEF OutTyped, Stream

(* The stream with one more message.                                       *)
LEMMA Grown ==
  ASSUME OutTyped, NEW m \in AnyMessage, Stream' = Stream \o Parts(m)
  PROVE  /\ Len(Stream) \in Nat /\ Len(Stream') = Len(Stream) + 2
         /\ \A i \in 1 .. Len(Stream) : Stream'[i] = Stream[i]
         /\ Stream'[Len(Stream) + 1] = Part(m, 1)
         /\ Stream'[Len(Stream) + 2] = Part(m, 2)
<1> DEFINE s == Stream
<1>1. s \in Seq(AnyPart) /\ Len(s) \in Nat
  BY StreamType
<1>2. /\ Parts(m) \in Seq(AnyPart) /\ Len(Parts(m)) = 2
      /\ Parts(m)[1] = Part(m, 1) /\ Parts(m)[2] = Part(m, 2)
  BY PartsType
<1> HIDE DEF s
<1>3. /\ Len(s \o Parts(m)) = Len(s) + Len(Parts(m))
      /\ \A i \in 1 .. Len(s) + Len(Parts(m)) :
           (s \o Parts(m))[i] = IF i <= Len(s) THEN s[i]
                                ELSE Parts(m)[i - Len(s)]
  BY <1>1, <1>2, ConcatProperties, Zenon
<1> DEFINE g == s \o Parts(m)
           p == Parts(m)
<1>4. /\ Len(s) \in Nat /\ Len(g) = Len(s) + 2
      /\ p[1] = Part(m, 1) /\ p[2] = Part(m, 2)
      /\ \A i \in 1 .. Len(s) + 2 :
           g[i] = IF i <= Len(s) THEN s[i] ELSE p[i - Len(s)]
  BY <1>1, <1>2, <1>3
<1> HIDE DEF g, p
<1>5. /\ \A i \in 1 .. Len(s) : g[i] = s[i]
      /\ g[Len(s) + 1] = p[1] /\ g[Len(s) + 2] = p[2]
  BY <1>4
<1> QED
  BY <1>4, <1>5 DEF s, g

-----------------------------------------------------------------------------
(* How a step moves the sends that are queued.  None comes in              *)
(* (SendsFrom), and those that stay keep their order: they move d places   *)
(* to the front.                                                           *)
SendsFrom(d) ==
  \A i \in 1 .. Len(ioQueue') : ioQueue'[i].what = "send" =>
    i + d \in 1 .. Len(ioQueue) /\ ioQueue[i + d] = ioQueue'[i]

SendsStay(d) ==
  \A i \in 1 .. Len(ioQueue) : ioQueue[i].what = "send" =>
    i - d \in 1 .. Len(ioQueue') /\ ioQueue'[i - d] = ioQueue[i]

(* An untouched queue keeps its sends where they were.                     *)
LEMMA SendsUnmoved ==
  ASSUME Typed, ioQueue' = ioQueue
  PROVE  SendsFrom(0) /\ SendsStay(0)
<1>1. Len(ioQueue) \in Nat
  BY DEF Typed
<1> QED
  BY <1>1 DEF SendsFrom, SendsStay

(* A functor queued behind the others moves no send.                       *)
LEMMA SendsBehind ==
  ASSUME Typed, NEW f \in AnyFunctor, ioQueue' = Append(ioQueue, f)
  PROVE  SendsStay(0) /\ (f.what # "send" => SendsFrom(0))
<1>1. /\ Len(ioQueue) \in Nat /\ Len(ioQueue') = Len(ioQueue) + 1
      /\ ioQueue'[Len(ioQueue) + 1] = f
      /\ \A i \in 1 .. Len(ioQueue) : ioQueue'[i] = ioQueue[i]
  BY AddedFunctor
<1> QED
  BY <1>1 DEF SendsFrom, SendsStay

(* Taking the first functor moves the others up by one.                    *)
LEMMA SendsTaken ==
  ASSUME Typed, NEW what, NextFunctor(what)
  PROVE  SendsFrom(1) /\ (what # "send" => SendsStay(1))
<1>1. ioQueue[1].what = what
  BY TakenFunctor
<1>2. \A i \in 1 .. Len(ioQueue') :
        i + 1 \in 1 .. Len(ioQueue) /\ ioQueue'[i] = ioQueue[i + 1]
  BY TakenFunctor
<1>3. \A i \in 1 .. Len(ioQueue) : i # 1 =>
        i - 1 \in 1 .. Len(ioQueue') /\ ioQueue'[i - 1] = ioQueue[i]
  BY TakenFunctor
<1> QED
  BY <1>1, <1>2, <1>3 DEF SendsFrom, SendsStay

(* A queued send carries a message.                                        *)
LEMMA SendMessage ==
  ASSUME Typed, NEW i \in 1 .. Len(ioQueue), ioQueue[i].what = "send"
  PROVE  ioQueue[i].message \in AnyMessage
<1>1. ioQueue[i] \in AnyFunctor
  BY DEF Typed
<1> QED
  BY <1>1 DEF AnyFunctor

(* Every part of the stream is a part of a message.                        *)
LEMMA StreamMessage ==
  ASSUME OutTyped, NEW i \in 1 .. Len(Stream)
  PROVE  Stream[i] \in AnyPart /\ Stream[i].message \in AnyMessage
<1>1. Stream[i] \in AnyPart
  BY StreamType
<1> QED
  BY <1>1 DEF AnyPart

(* No count of a sender goes back.                                         *)
CountsGrow == \A t \in Threads \cup {IoThread} : sent[t] <= sent'[t]

(* Queued sends stay numbered and in order while the queue moves up.       *)
LEMMA QueueStill ==
  ASSUME Typed, Typed', QueueNumbered, QueueOrder, CountsGrow,
         NEW d \in {0, 1}, SendsFrom(d)
  PROVE  QueueNumbered' /\ QueueOrder'
<1>1. ASSUME NEW i \in 1 .. Len(ioQueue'), ioQueue'[i].what = "send"
      PROVE  /\ ioQueue'[i].message.from \in Threads
             /\ ioQueue'[i].message.number <= sent'[ioQueue'[i].message.from]
  <2>1. i + d \in 1 .. Len(ioQueue) /\ ioQueue[i + d] = ioQueue'[i]
    BY <1>1 DEF SendsFrom
  <2>2. SendAt(i + d)
    BY <1>1, <2>1 DEF SendAt
  <2> DEFINE m == ioQueue[i + d].message
  <2>3. m.from \in Threads /\ m.number <= sent[m.from]
    BY <2>1, <2>2 DEF QueueNumbered, Sender, Number
  <2>4. m \in AnyMessage
    BY <1>1, <2>1, SendMessage
  <2>5. sent[m.from] \in Nat /\ sent'[m.from] \in Nat /\ m.number \in Nat
    BY <2>3, <2>4 DEF Typed, AnyMessage
  <2>6. sent[m.from] <= sent'[m.from]
    BY <2>3 DEF CountsGrow
  <2>7. m.number <= sent'[m.from]
    BY <2>3, <2>5, <2>6
  <2> QED
    BY <2>1, <2>3, <2>7
<1>2. QueueNumbered'
  BY <1>1 DEF QueueNumbered, SendAt, Sender, Number
<1>3. ASSUME NEW i \in 1 .. Len(ioQueue'), NEW j \in 1 .. Len(ioQueue'), i < j,
             ioQueue'[i].what = "send", ioQueue'[j].what = "send",
             ioQueue'[i].message.from = ioQueue'[j].message.from
      PROVE  ioQueue'[i].message.number <= ioQueue'[j].message.number
  <2>1. /\ i + d \in 1 .. Len(ioQueue) /\ ioQueue[i + d] = ioQueue'[i]
        /\ j + d \in 1 .. Len(ioQueue) /\ ioQueue[j + d] = ioQueue'[j]
    BY <1>3 DEF SendsFrom
  <2>2. i + d < j + d
    BY <1>3
  <2> QED
    BY <1>3, <2>1, <2>2 DEF QueueOrder, SendAt, Sender, Number
<1>4. QueueOrder'
  BY <1>3 DEF QueueOrder, SendAt, Sender, Number
<1> QED
  BY <1>2, <1>4

(* The order is kept when the stream does not change...                    *)
LEMMA OrderStill ==
  ASSUME Typed, Typed', OutTyped, OrderInv, CountsGrow,
         NEW d \in {0, 1}, SendsFrom(d), Stream' = Stream
  PROVE  OrderInv'
<1> USE DEF OrderInv
<1>1. QueueNumbered' /\ QueueOrder'
  BY QueueStill
<1>2. Whole' /\ Sorted'
  BY DEF Whole, Sorted
<1>3. ASSUME NEW i \in 1 .. Len(Stream)
      PROVE  Stream[i].message.number <= sent'[Stream[i].message.from]
  <2> DEFINE m == Stream[i].message
  <2>1. m \in AnyMessage
    BY StreamMessage
  <2>2. m.number <= sent[m.from]
    BY DEF StreamNumbered
  <2>3. m.from \in Threads \cup {IoThread} /\ m.number \in Nat
    BY <2>1 DEF AnyMessage
  <2>4. sent[m.from] <= sent'[m.from]
    BY <2>3 DEF CountsGrow
  <2>5. sent[m.from] \in Nat /\ sent'[m.from] \in Nat
    BY <2>3 DEF Typed
  <2> QED
    BY <2>2, <2>3, <2>4, <2>5
<1>4. StreamNumbered'
  BY <1>3 DEF StreamNumbered
<1>5. ASSUME NEW i \in 1 .. Len(Stream), NEW j \in 1 .. Len(ioQueue'),
             ioQueue'[j].what = "send",
             Stream[i].message.from = ioQueue'[j].message.from
      PROVE  Stream[i].message.number <= ioQueue'[j].message.number
  <2>1. j + d \in 1 .. Len(ioQueue) /\ ioQueue[j + d] = ioQueue'[j]
    BY <1>5 DEF SendsFrom
  <2> QED
    BY <1>5, <2>1 DEF StreamFirst, SendAt, Sender, Number
<1>6. StreamFirst'
  BY <1>5 DEF StreamFirst, SendAt, Sender, Number
<1> QED
  BY <1>1, <1>2, <1>4, <1>6

(* ... and when a message joins it that is the newest there and no newer   *)
(* than what its sender has queued.                                        *)
LEMMA OrderGrown ==
  ASSUME Typed, Typed', OutTyped, OrderInv, CountsGrow,
         NEW d \in {0, 1}, SendsFrom(d),
         NEW m \in AnyMessage, Stream' = Stream \o Parts(m),
         m.number <= sent'[m.from],
         \A i \in 1 .. Len(Stream) :
           Stream[i].message.from = m.from
             => Stream[i].message.number <= m.number,
         \A j \in 1 .. Len(ioQueue') :
           ioQueue'[j].what = "send" /\ ioQueue'[j].message.from = m.from
             => m.number <= ioQueue'[j].message.number
  PROVE  OrderInv'
<1> USE DEF OrderInv
<1> DEFINE n == Len(Stream)
<1>1. QueueNumbered' /\ QueueOrder'
  BY QueueStill
<1>2. /\ n \in Nat /\ Len(Stream') = n + 2
      /\ \A i \in 1 .. n : Stream'[i] = Stream[i]
      /\ Stream'[n + 1] = Part(m, 1) /\ Stream'[n + 2] = Part(m, 2)
  BY Grown
<1>3. /\ Part(m, 1).message = m /\ Part(m, 1).part = 1
      /\ Part(m, 2).message = m /\ Part(m, 2).part = 2
  BY DEF Part
<1>4. /\ \A i \in 1 .. n : Stream[i].message \in AnyMessage
      /\ m.number \in Nat
  BY StreamMessage DEF AnyMessage
<1>5. \A i \in 1 .. Len(Stream') :
        \/ i \in 1 .. n /\ Stream'[i] = Stream[i]
        \/ i \in {n + 1, n + 2} /\ Stream'[i].message = m
  BY <1>2, <1>3
<1>6. Whole'
  <2>1. ASSUME NEW i \in 1 .. n
        PROVE  IF Stream'[i].part = 1
               THEN i < n + 2 /\ Stream'[i + 1] = Part(Stream'[i].message, 2)
               ELSE i > 1 /\ Stream'[i - 1] = Part(Stream'[i].message, 1)
    BY <1>2 DEF Whole
  <2>2. ASSUME NEW i \in {n + 1, n + 2}
        PROVE  IF Stream'[i].part = 1
               THEN i < n + 2 /\ Stream'[i + 1] = Part(Stream'[i].message, 2)
               ELSE i > 1 /\ Stream'[i - 1] = Part(Stream'[i].message, 1)
    BY <1>2, <1>3
  <2> QED
    BY <1>2, <1>5, <2>1, <2>2 DEF Whole
<1>7. Sorted'
  <2>1. ASSUME NEW i \in 1 .. Len(Stream'), NEW j \in 1 .. Len(Stream'), i < j,
               Stream'[i].message.from = Stream'[j].message.from
        PROVE  Stream'[i].message.number <= Stream'[j].message.number
    <3>1. CASE j \in 1 .. n
      BY <1>2, <2>1, <3>1 DEF Sorted
    <3>2. CASE j \notin 1 .. n /\ i \in 1 .. n
      BY <1>2, <1>5, <2>1, <3>2
    <3>3. CASE j \notin 1 .. n /\ i \notin 1 .. n
      BY <1>4, <1>5, <3>3
    <3> QED
      BY <1>2, <2>1, <3>1, <3>2, <3>3
  <2> QED
    BY <2>1 DEF Sorted
<1>8. StreamNumbered'
  <2>1. ASSUME NEW i \in 1 .. n
        PROVE  Stream[i].message.number <= sent'[Stream[i].message.from]
    <3> DEFINE k == Stream[i].message
    <3>1. k.from \in Threads \cup {IoThread} /\ k.number \in Nat
      BY <1>4 DEF AnyMessage
    <3>2. k.number <= sent[k.from]
      BY DEF StreamNumbered
    <3>3. sent[k.from] <= sent'[k.from]
      BY <3>1 DEF CountsGrow
    <3>4. sent[k.from] \in Nat /\ sent'[k.from] \in Nat
      BY <3>1 DEF Typed
    <3> QED
      BY <3>1, <3>2, <3>3, <3>4
  <2> QED
    BY <1>5, <2>1 DEF StreamNumbered
<1>9. StreamFirst'
  <2>1. ASSUME NEW i \in 1 .. n, NEW j \in 1 .. Len(ioQueue'),
               ioQueue'[j].what = "send",
               Stream[i].message.from = ioQueue'[j].message.from
        PROVE  Stream[i].message.number <= ioQueue'[j].message.number
    <3>1. j + d \in 1 .. Len(ioQueue) /\ ioQueue[j + d] = ioQueue'[j]
      BY <2>1 DEF SendsFrom
    <3> QED
      BY <2>1, <3>1 DEF StreamFirst, SendAt, Sender, Number
  <2> QED
    BY <1>5, <2>1 DEF StreamFirst, SendAt, Sender, Number
<1> QED
  BY <1>1, <1>6, <1>7, <1>8, <1>9

(* ... and when a thread queues the last message it has sent.              *)
LEMMA OrderQueued ==
  ASSUME Typed, OutTyped, OrderInv, sent' = sent, Stream' = Stream,
         NEW t \in Threads, NEW f \in AnyFunctor, f.what = "send",
         f.message = [from |-> t, number |-> sent[t]],
         ioQueue' = Append(ioQueue, f)
  PROVE  OrderInv'
<1> USE DEF OrderInv
<1> DEFINE n == Len(ioQueue)
<1>1. /\ n \in Nat /\ Len(ioQueue') = n + 1 /\ ioQueue'[n + 1] = f
      /\ \A i \in 1 .. n : ioQueue'[i] = ioQueue[i]
  BY AddedFunctor
<1>2. f.message.from = t /\ f.message.number = sent[t] /\ sent[t] \in Nat
  BY DEF Typed
<1>3. Whole' /\ Sorted' /\ StreamNumbered'
  BY DEF Whole, Sorted, StreamNumbered
<1>4. QueueNumbered'
  BY <1>1, <1>2 DEF QueueNumbered, SendAt, Sender, Number
<1>5. QueueOrder'
  <2>1. ASSUME NEW i \in 1 .. n + 1, NEW j \in 1 .. n + 1, i < j,
               ioQueue'[i].what = "send", ioQueue'[j].what = "send",
               ioQueue'[i].message.from = ioQueue'[j].message.from
        PROVE  ioQueue'[i].message.number <= ioQueue'[j].message.number
    <3>1. i \in 1 .. n /\ ioQueue'[i] = ioQueue[i]
      BY <1>1, <2>1
    <3>2. CASE j \in 1 .. n
      BY <1>1, <2>1, <3>1, <3>2 DEF QueueOrder, SendAt, Sender, Number
    <3>3. CASE j = n + 1
      BY <1>1, <1>2, <2>1, <3>1, <3>3 DEF QueueNumbered, SendAt, Sender, Number
    <3> QED
      BY <1>1, <3>2, <3>3
  <2> QED
    BY <1>1, <2>1 DEF QueueOrder, SendAt, Sender, Number
<1>6. StreamFirst'
  <2>1. ASSUME NEW i \in 1 .. Len(Stream), NEW j \in 1 .. n + 1,
               ioQueue'[j].what = "send",
               Stream[i].message.from = ioQueue'[j].message.from
        PROVE  Stream[i].message.number <= ioQueue'[j].message.number
    <3>1. CASE j \in 1 .. n
      BY <1>1, <2>1, <3>1 DEF StreamFirst, SendAt, Sender, Number
    <3>2. CASE j = n + 1
      BY <1>1, <1>2, <2>1, <3>2 DEF StreamNumbered
    <3> QED
      BY <1>1, <3>1, <3>2
  <2> QED
    BY <1>1, <2>1 DEF StreamFirst, SendAt, Sender, Number
<1> QED
  BY <1>3, <1>4, <1>5, <1>6

(* What the steps other than a send do.                                    *)
Quiet ==
  /\ OutTyped' /\ Stream' = Stream /\ sent' = sent
  /\ \/ SendsFrom(0) /\ SendsStay(0)
     \/ SendsFrom(1) /\ SendsStay(1)

QuietStep ==
  \/ NewConnection \/ RemoveConnection \/ ForceCloseInLoop \/ ConnectDestroyed
  \/ ReadEnd \/ HandleWrite \/ PeerEnds
  \/ \E t \in Threads : Find(t) \/ Release(t)
  \/ UNCHANGED vars

(* The message an own send of the loop carries.                            *)
Own == [from |-> IoThread, number |-> sent[IoThread] + 1]

OwnSend ==
  /\ SendInLoop(Own) /\ sent' = [sent EXCEPT ![IoThread] = @ + 1]
  /\ thread' = thread
  /\ ConnectEstablished \/ ReadData

(* The steps that neither send nor write are quiet.                        *)
LEMMA QuietSteps ==
  ASSUME Typed, OutTyped, QuietStep
  PROVE  Quiet
<1>1. CASE NewConnection
  <2>1. Functor("establish") \in AnyFunctor
        /\ Functor("establish").what # "send"
    BY DEF Functor, AnyFunctor
  <2>2. SendsFrom(0) /\ SendsStay(0)
    BY <1>1, <2>1, SendsBehind DEF NewConnection
  <2> QED
    BY <1>1, <2>2 DEF NewConnection, Quiet, OutTyped, Stream, stream, channel
<1>2. CASE RemoveConnection
  <2>1. Functor("destroy") \in AnyFunctor /\ Functor("destroy").what # "send"
    BY DEF Functor, AnyFunctor
  <2>2. SendsFrom(0) /\ SendsStay(0)
    BY <1>2, <2>1, SendsBehind DEF RemoveConnection
  <2> QED
    BY <1>2, <2>2 DEF RemoveConnection, Quiet, OutTyped, Stream, stream, channel
<1>3. CASE ForceCloseInLoop
  <2>1. SendsFrom(1) /\ SendsStay(1)
    BY <1>3, SendsTaken DEF ForceCloseInLoop
  <2>2. CASE HandleClose
    BY <2>1, <2>2 DEF HandleClose, Quiet, OutTyped, Stream, stream
  <2>3. CASE UNCHANGED <<channel, stream, sent>>
    BY <2>1, <2>3 DEF Quiet, OutTyped, Stream, stream, channel
  <2> QED
    BY <1>3, <2>2, <2>3 DEF ForceCloseInLoop
<1>4. CASE ConnectDestroyed
  <2>1. SendsFrom(1) /\ SendsStay(1)
    BY <1>4, SendsTaken DEF ConnectDestroyed
  <2>2. writing' \in BOOLEAN
    BY <1>4 DEF ConnectDestroyed, OutTyped
  <2>3. UNCHANGED <<wire, output, finSent, sent>>
    BY <1>4 DEF ConnectDestroyed, stream
  <2> QED
    BY <2>1, <2>2, <2>3 DEF Quiet, OutTyped, Stream
<1>5. CASE ReadEnd
  <2>1. SendsFrom(0) /\ SendsStay(0)
    BY <1>5, SendsUnmoved DEF ReadEnd
  <2> QED
    BY <1>5, <2>1 DEF ReadEnd, HandleClose, Quiet, OutTyped, Stream, stream
<1>6. CASE HandleWrite
  <2>1. SendsFrom(0) /\ SendsStay(0)
    BY <1>6, SendsUnmoved DEF HandleWrite, queues
  <2>2. OutTyped' /\ Stream' = Stream
    BY <1>6, WriteMoves
  <2>3. sent' = sent
    BY <1>6 DEF HandleWrite
  <2> QED
    BY <2>1, <2>2, <2>3 DEF Quiet
<1>7. CASE \/ PeerEnds \/ UNCHANGED vars
           \/ \E t \in Threads : Find(t) \/ Release(t)
  <2>1. UNCHANGED <<channel, stream, queues, sent>>
    BY <1>7 DEF PeerEnds, Find, Release, vars, channel, stream, queues
  <2>2. SendsFrom(0) /\ SendsStay(0)
    BY <2>1, SendsUnmoved DEF queues
  <2> QED
    BY <2>1, <2>2 DEF Quiet, OutTyped, Stream, stream, channel
<1> QED
  BY <1>1, <1>2, <1>3, <1>4, <1>5, <1>6, <1>7 DEF QuietStep

(* A read that does not answer asks for the end of the connection.         *)
ReadEnds ==
  /\ state' = "disconnecting" /\ state \in {"connected", "disconnecting"}
  /\ sent' = sent /\ thread' = thread /\ peer' = peer
  /\ UNCHANGED <<wire, output, writing>>
  /\ \/ ioQueue' = Append(ioQueue, Functor("forceClose")) /\ finSent' = finSent
     \/ ioQueue' = ioQueue /\ finSent' = (finSent \/ ~writing)

(* A read sends an answer of the callback's own, or ends the stream.       *)
LEMMA ReadKinds ==
  ASSUME ReadData
  PROVE  \/ OwnSend /\ state = "connected" /\ UNCHANGED <<state, ioQueue, peer>>
         \/ ReadEnds
<1>1. UNCHANGED <<peer, thread>>
  BY DEF ReadData
<1>2. CASE /\ state = "connected"
           /\ sent' = [sent EXCEPT ![IoThread] = @ + 1]
           /\ SendInLoop(Own)
           /\ UNCHANGED <<state, ioQueue>>
  BY <1>1, <1>2 DEF OwnSend
<1>3. CASE /\ state \in {"connected", "disconnecting"}
           /\ state' = "disconnecting"
           /\ ioQueue' = Append(ioQueue, Functor("forceClose"))
           /\ UNCHANGED <<writing, stream, sent>>
  BY <1>1, <1>3 DEF ReadEnds, stream
<1>4. CASE /\ state = "connected"
           /\ state' = "disconnecting"
           /\ ShutdownInLoop
           /\ UNCHANGED <<writing, output, wire, ioQueue, sent>>
  BY <1>1, <1>4 DEF ReadEnds, ShutdownInLoop
<1> QED
  BY <1>2, <1>3, <1>4 DEF ReadData, Own

(* A read that ends the stream sends nothing.                              *)
LEMMA ReadEndsQuiet ==
  ASSUME Typed, OutTyped, ReadEnds
  PROVE  Quiet
<1>1. Functor("forceClose") \in AnyFunctor
      /\ Functor("forceClose").what # "send"
  BY DEF Functor, AnyFunctor
<1>2. SendsFrom(0) /\ SendsStay(0)
  BY <1>1, SendsBehind, SendsUnmoved DEF ReadEnds
<1>3. finSent' \in BOOLEAN
  BY DEF ReadEnds, OutTyped
<1> QED
  BY <1>2, <1>3 DEF ReadEnds, Quiet, OutTyped, Stream

(* Every step is quiet or deals with one message.                          *)
LEMMA StepKinds ==
  ASSUME [Next]_vars
  PROVE  \/ QuietStep \/ ReadEnds \/ OwnSend \/ RunSend
         \/ \E t \in Threads : Send(t) \/ QueueSend(t)
<1>1. CASE ConnectEstablished
  BY <1>1 DEF ConnectEstablished, OwnSend, Own
<1>2. CASE ReadData
  BY <1>2, ReadKinds
<1> QED
  BY <1>1, <1>2 DEF Next, LoopStep, Finish, QuietStep

(* The message callback's own send is counted as one of the loop's.        *)
LEMMA OwnCounts ==
  ASSUME Typed, OwnSend
  PROVE  /\ Own \in AnyMessage /\ CountsGrow
         /\ sent'[IoThread] = sent[IoThread] + 1 /\ sent[IoThread] \in Nat
         /\ \A t \in Threads : sent'[t] = sent[t]
<1>1. sent \in [Threads \cup {IoThread} -> Nat]
      /\ sent' = [sent EXCEPT ![IoThread] = @ + 1]
  BY DEF Typed, OwnSend
<1>2. sent'[IoThread] = sent[IoThread] + 1 /\ sent[IoThread] \in Nat
  BY <1>1
<1>3. \A t \in Threads : sent'[t] = sent[t] /\ sent[t] \in Nat
  BY <1>1, ThreadAssumption
<1>4. CountsGrow
  BY <1>2, <1>3 DEF CountsGrow
<1>5. Own \in AnyMessage
  BY <1>2 DEF Own, AnyMessage
<1> QED
  BY <1>2, <1>3, <1>4, <1>5

(* A send of the loop's own thread leaves the queued sends in order.       *)
LEMMA OwnQueue ==
  ASSUME LifeInv, OwnSend
  PROVE  \E d \in {0, 1} : SendsFrom(d) /\ SendsStay(d)
<1>1. CASE ConnectEstablished
  BY <1>1, SendsTaken DEF ConnectEstablished, LifeInv
<1>2. CASE ReadData
  <2>1. CASE ioQueue' = ioQueue
    BY <2>1, SendsUnmoved DEF LifeInv
  <2>2. CASE ReadEnds
    <3>1. Functor("forceClose") \in AnyFunctor
          /\ Functor("forceClose").what # "send"
      BY DEF Functor, AnyFunctor
    <3> QED
      BY <2>2, <3>1, SendsBehind, SendsUnmoved DEF LifeInv, ReadEnds
  <2> QED
    BY <1>2, <2>1, <2>2, ReadKinds
<1> QED
  BY <1>1, <1>2 DEF OwnSend

(* The message RunSend takes from the queue, and what becomes of it.       *)
LEMMA RunKinds ==
  ASSUME Typed, RunSend
  PROVE  /\ SendsFrom(1) /\ SendAt(1) /\ ioQueue[1].message \in AnyMessage
         /\ sent' = sent /\ thread' = thread /\ peer' = peer /\ state' = state
         /\ \A i \in 1 .. Len(ioQueue) : i # 1 =>
              i - 1 \in 1 .. Len(ioQueue') /\ ioQueue'[i - 1] = ioQueue[i]
         /\ \/ /\ Alive /\ state # "disconnected"
               /\ SendInLoop(ioQueue[1].message)
            \/ /\ ~(Alive /\ state # "disconnected")
               /\ UNCHANGED <<stream, writing>>
<1>1. NextFunctor("send")
  BY DEF RunSend
<1>2. /\ 1 \in 1 .. Len(ioQueue) /\ ioQueue[1].what = "send"
      /\ \A i \in 1 .. Len(ioQueue) : i # 1 =>
           i - 1 \in 1 .. Len(ioQueue') /\ ioQueue'[i - 1] = ioQueue[i]
  BY <1>1, TakenFunctor
<1>3. SendsFrom(1)
  BY <1>1, SendsTaken
<1>4. ioQueue[1].message \in AnyMessage
  BY <1>2, SendMessage
<1>5. Head(ioQueue) = ioQueue[1]
  BY <1>1 DEF Typed, NextFunctor
<1>6. \/ /\ Alive /\ state # "disconnected"
         /\ SendInLoop(ioQueue[1].message)
      \/ /\ ~(Alive /\ state # "disconnected")
         /\ UNCHANGED <<stream, writing>>
  BY <1>5 DEF RunSend
<1>7. sent' = sent /\ thread' = thread /\ peer' = peer /\ state' = state
  BY DEF RunSend
<1> QED
  BY <1>2, <1>3, <1>4, <1>6, <1>7 DEF SendAt

(* Every step keeps the order of the messages of each thread.              *)
LEMMA OrderNext ==
  ASSUME LifeInv, LifeInv', OutTyped, OrderInv, [Next]_vars
  PROVE  OutTyped' /\ OrderInv'
<1> USE DEF LifeInv
<1>1. ASSUME Quiet
      PROVE  OutTyped' /\ OrderInv'
  <2>1. CountsGrow
    BY <1>1 DEF Quiet, CountsGrow, Typed
  <2> QED
    BY <1>1, <2>1, OrderStill DEF Quiet
<1>2. CASE OwnSend
  <2>1. PICK d \in {0, 1} : SendsFrom(d)
    BY <1>2, OwnQueue
  <2>2. Own \in AnyMessage /\ CountsGrow /\ Own.number <= sent'[Own.from]
        /\ Own.from = IoThread /\ Own.number = sent[IoThread] + 1
        /\ sent[IoThread] \in Nat
    BY <1>2, OwnCounts DEF Own
  <2>3. Sending(Own)
    BY <1>2, <2>2, SendJoins DEF OwnSend
  <2>4. CASE Stream' = Stream \o Parts(Own)
    <3>1. ASSUME NEW i \in 1 .. Len(Stream), Stream[i].message.from = Own.from
          PROVE  Stream[i].message.number <= Own.number
      <4>1. Stream[i].message.number \in Nat
        BY StreamMessage DEF AnyMessage
      <4>2. Stream[i].message.number <= sent[IoThread]
        BY <2>2, <3>1 DEF OrderInv, StreamNumbered
      <4> QED
        BY <2>2, <4>1, <4>2
    <3>2. ASSUME NEW j \in 1 .. Len(ioQueue'), ioQueue'[j].what = "send",
                 ioQueue'[j].message.from = Own.from
          PROVE  FALSE
      <4>1. j + d \in 1 .. Len(ioQueue) /\ ioQueue[j + d] = ioQueue'[j]
        BY <2>1, <3>2 DEF SendsFrom
      <4>2. ioQueue'[j].message.from \in Threads
        BY <3>2, <4>1 DEF OrderInv, QueueNumbered, SendAt, Sender
      <4> QED
        BY <2>2, <3>2, <4>2, ThreadAssumption
    <3>3. OrderInv'
      BY <2>1, <2>2, <2>4, <3>1, <3>2, OrderGrown
    <3> QED
      BY <2>3, <3>3 DEF Sending
  <2>5. CASE Stream' = Stream
    BY <2>1, <2>2, <2>3, <2>5, OrderStill DEF Sending
  <2> QED
    BY <2>3, <2>4, <2>5 DEF Sending
<1>3. CASE RunSend
  <2> DEFINE m == ioQueue[1].message
  <2>1. /\ SendsFrom(1) /\ SendAt(1) /\ m \in AnyMessage /\ sent' = sent
        /\ \/ SendInLoop(m) \/ UNCHANGED <<stream, writing>>
    BY <1>3, RunKinds
  <2>2. CountsGrow
    BY <2>1 DEF CountsGrow, Typed
  <2>3. CASE Stream' = Stream /\ OutTyped'
    BY <2>1, <2>2, <2>3, OrderStill
  <2>4. CASE Stream' = Stream \o Parts(m) /\ OutTyped'
    <3>1. m.number <= sent'[m.from]
      BY <2>1 DEF OrderInv, QueueNumbered, SendAt, Sender, Number
    <3>2. \A i \in 1 .. Len(Stream) :
            Stream[i].message.from = m.from
              => Stream[i].message.number <= m.number
      BY <2>1 DEF OrderInv, StreamFirst, SendAt, Sender, Number
    <3>3. ASSUME NEW j \in 1 .. Len(ioQueue'), ioQueue'[j].what = "send",
                 ioQueue'[j].message.from = m.from
          PROVE  m.number <= ioQueue'[j].message.number
      <4>1. j + 1 \in 1 .. Len(ioQueue) /\ ioQueue[j + 1] = ioQueue'[j]
        BY <2>1, <3>3 DEF SendsFrom
      <4>2. 1 \in 1 .. Len(ioQueue) /\ 1 < j + 1
        BY <2>1, <3>3 DEF SendAt
      <4> QED
        BY <2>1, <3>3, <4>1, <4>2
        DEF OrderInv, QueueOrder, SendAt, Sender, Number
    <3>4. OrderInv'
      BY <2>1, <2>2, <2>4, <3>1, <3>2, <3>3, OrderGrown
    <3> QED
      BY <2>4, <3>4
  <2>5. SendInLoop(m) =>
          /\ OutTyped'
          /\ Stream' = Stream \o Parts(m) \/ Stream' = Stream
    BY <2>1, SendJoins DEF Sending
  <2>6. UNCHANGED <<stream, writing>> => OutTyped' /\ Stream' = Stream
    BY DEF stream, OutTyped, Stream
  <2> QED
    BY <2>1, <2>3, <2>4, <2>5, <2>6
<1>4. ASSUME NEW t \in Threads, Send(t)
      PROVE  OutTyped' /\ OrderInv'
  <2>1. OutTyped' /\ Stream' = Stream /\ ioQueue' = ioQueue
    BY <1>4 DEF Send, stream, channel, queues, OutTyped, Stream
  <2>2. CountsGrow
    BY <1>4 DEF Send, CountsGrow, Typed
  <2>3. SendsFrom(0)
    BY <2>1, SendsUnmoved
  <2> QED
    BY <2>1, <2>2, <2>3, OrderStill
<1>5. ASSUME NEW t \in Threads, QueueSend(t)
      PROVE  OutTyped' /\ OrderInv'
  <2> DEFINE m == [from |-> t, number |-> sent[t]]
  <2>1. OutTyped' /\ Stream' = Stream /\ sent' = sent
        /\ ioQueue' = Append(ioQueue, SendFunctor(m))
    BY <1>5 DEF QueueSend, stream, channel, OutTyped, Stream
  <2>2. SendFunctor(m) \in AnyFunctor /\ SendFunctor(m).what = "send"
        /\ SendFunctor(m).message = m
    BY DEF AnyFunctor, AnyMessage, SendFunctor, Typed
  <2> QED
    BY <2>1, <2>2, OrderQueued
<1> QED
  BY <1>1, <1>2, <1>3, <1>4, <1>5, StepKinds, QuietSteps, ReadEndsQuiet

-----------------------------------------------------------------------------
(* A connection is established once, before anything was sent on it.       *)
LEMMA Establishing ==
  ASSUME LifeInv, Silent, ConnectEstablished
  PROVE  /\ state = "connecting" /\ output = <<>> /\ ~writing /\ ~finSent
         /\ \A t \in Threads \cup {IoThread} : sent[t] = 0
<1>1. Queued("establish")
  BY TakenFunctor DEF ConnectEstablished, LifeInv, Queued
<1>2. state = "connecting"
  BY <1>1 DEF LifeInv, Typed, Unknown, Open, Closed, Queued
<1> QED
  BY <1>2 DEF LifeInv, Unknown, Silent

(* Before a connection is established nobody sends, and shutdown comes     *)
(* after kDisconnecting.                                                   *)
LEMMA SilentNext ==
  ASSUME LifeInv, LifeInv', OutTyped, Silent, FinLate, [Next]_vars
  PROVE  Silent' /\ FinLate'
<1> USE DEF LifeInv
<1>1. CASE NewConnection
  BY <1>1 DEF NewConnection, Silent, FinLate, stream
<1>2. CASE RemoveConnection \/ PeerEnds \/ UNCHANGED vars
  <2>1. UNCHANGED <<state, stream, sent>>
    BY <1>2 DEF RemoveConnection, PeerEnds, vars, stream
  <2> QED
    BY <2>1 DEF Silent, FinLate, stream
<1>3. CASE ConnectEstablished
  <2>1. ~finSent
    BY <1>3, Establishing
  <2>2. Own \in AnyMessage
    BY <1>3, OwnCounts, StepKinds DEF ConnectEstablished, OwnSend, Own
  <2>3. finSent' = finSent
    BY <1>3, <2>2, SendJoins DEF ConnectEstablished, Own, Sending
  <2>4. state' = "connected"
    BY <1>3 DEF ConnectEstablished
  <2> QED
    BY <2>1, <2>3, <2>4 DEF Silent, FinLate
<1>4. CASE RunSend
  <2>1. SendAt(1) /\ state' = state /\ ioQueue[1].message \in AnyMessage
    BY <1>4, RunKinds
  <2>2. state \notin {"none", "connecting"}
    BY <2>1 DEF Unknown, SendAt, Functor
  <2>3. finSent' = finSent
    BY <1>4, <2>1, RunKinds, SendJoins DEF Sending, stream
  <2> QED
    BY <2>1, <2>2, <2>3 DEF Silent, FinLate
<1>5. CASE ForceCloseInLoop \/ ReadEnd \/ ConnectDestroyed
  <2>1. /\ UNCHANGED <<stream, sent>>
        /\ state' = state \/ state' = "disconnected"
    BY <1>5
    DEF ForceCloseInLoop, ReadEnd, ConnectDestroyed, HandleClose, stream
  <2> QED
    BY <2>1 DEF Silent, FinLate, stream
<1>6. CASE ReadData
  <2>1. CASE OwnSend /\ state = "connected" /\ state' = state
    <3>1. finSent' = finSent
      BY <2>1, OwnCounts, SendJoins DEF OwnSend, Sending
    <3> QED
      BY <2>1, <3>1 DEF Silent, FinLate
  <2>2. CASE ReadEnds
    BY <2>2 DEF ReadEnds, Silent, FinLate
  <2> QED
    BY <1>6, <2>1, <2>2, ReadKinds
<1>7. CASE HandleWrite
  <2>1. state' = state /\ state \notin {"none", "connecting"}
        /\ (finSent' => finSent \/ state = "disconnecting")
    BY <1>7 DEF HandleWrite, Unknown
  <2> QED
    BY <2>1 DEF Silent, FinLate
<1>8. ASSUME NEW t \in Threads,
             Find(t) \/ Release(t) \/ Send(t) \/ QueueSend(t)
      PROVE  Silent' /\ FinLate'
  <2>1. UNCHANGED <<state, stream>>
    BY <1>8 DEF Find, Release, Send, QueueSend, stream
  <2>2. state \notin {"none", "connecting"}
    BY <1>8 DEF Find, Release, Send, QueueSend, Move, Unknown, Registered
  <2> QED
    BY <2>1, <2>2 DEF Silent, FinLate, stream
<1> QED
  BY <1>1, <1>2, <1>3, <1>4, <1>5, <1>6, <1>7, <1>8 DEF Next, LoopStep, Finish

(* Waiting output is watched, and nothing waits behind the end.            *)
LEMMA DrainNext ==
  ASSUME LifeInv, LifeInv', OutTyped, Silent, FinLate,
         FinAfterOutput, OutputWatched, [Next]_vars
  PROVE  FinAfterOutput' /\ OutputWatched'
<1> USE DEF LifeInv
<1>1. CASE UNCHANGED <<writing, stream>>
           /\ (state' = state \/ state' \notin {"connected", "disconnecting"})
  BY <1>1 DEF FinAfterOutput, OutputWatched, stream
<1>2. CASE ConnectEstablished
  <2>1. output = <<>> /\ ~writing
    BY <1>2, Establishing
  <2>2. Own \in AnyMessage
    BY <1>2, OwnCounts DEF ConnectEstablished, OwnSend, Own
  <2>3. SendInLoop(Own)
    BY <1>2 DEF ConnectEstablished, Own
  <2> QED
    BY <2>1, <2>2, <2>3, SendDrains DEF OutputWatched
<1>3. CASE RunSend
  <2> DEFINE m == ioQueue[1].message
  <2>1. m \in AnyMessage /\ SendAt(1) /\ state' = state
        /\ \/ state # "disconnected" /\ SendInLoop(m)
           \/ UNCHANGED <<stream, writing>>
    BY <1>3, RunKinds
  <2>2. state \notin {"none", "connecting"}
    BY <2>1 DEF Unknown, SendAt, Functor
  <2>3. CASE state # "disconnected" /\ SendInLoop(m)
    <3>1. writing <=> output # <<>>
      BY <2>2, <2>3 DEF OutputWatched, Typed
    <3> QED
      BY <2>1, <2>3, <3>1, SendDrains DEF OutputWatched
  <2> QED
    BY <1>1, <2>1, <2>3
<1>4. CASE /\ ForceCloseInLoop \/ ReadEnd \/ ConnectDestroyed
           /\ ~UNCHANGED <<state, writing>>
  <2>1. UNCHANGED stream /\ state' = "disconnected"
    BY <1>4
    DEF ForceCloseInLoop, ReadEnd, ConnectDestroyed, HandleClose, channel
  <2> QED
    BY <2>1 DEF FinAfterOutput, OutputWatched, stream
<1>5. CASE ReadData
  <2>1. CASE OwnSend /\ state = "connected" /\ state' = state
    <3>1. writing <=> output # <<>>
      BY <2>1 DEF OutputWatched
    <3>2. Own \in AnyMessage /\ SendInLoop(Own)
      BY <2>1, OwnCounts DEF OwnSend
    <3> QED
      BY <3>1, <3>2, SendDrains DEF OutputWatched
  <2>2. CASE ReadEnds
    <3>1. writing <=> output # <<>>
      BY <2>2 DEF OutputWatched, ReadEnds
    <3>2. writing' = writing /\ output' = output
      BY <2>2 DEF ReadEnds
    <3>3. finSent' => finSent \/ ~writing
      BY <2>2, Zenon DEF ReadEnds
    <3> QED
      BY <3>1, <3>2, <3>3 DEF FinAfterOutput, OutputWatched
  <2> QED
    BY <1>5, <2>1, <2>2, ReadKinds
<1>6. CASE HandleWrite
  <2>1. writing' <=> output' # <<>>
    BY <1>6, WriteMoves
  <2>2. ~finSent /\ (finSent' => finSent \/ output' = <<>>)
    BY <1>6 DEF HandleWrite, Broken
  <2> QED
    BY <2>1, <2>2 DEF FinAfterOutput, OutputWatched
<1>7. CASE \/ NewConnection \/ RemoveConnection \/ PeerEnds \/ UNCHANGED vars
           \/ \E t \in Threads :
                Find(t) \/ Release(t) \/ Send(t) \/ QueueSend(t)
  <2>1. UNCHANGED <<writing, stream>>
        /\ (state' = state \/ state' \notin {"connected", "disconnecting"})
    BY <1>7 DEF NewConnection, RemoveConnection, PeerEnds, vars, Find, Release,
                Send, QueueSend, channel, stream
  <2> QED
    BY <1>1, <2>1
<1>8. CASE /\ ForceCloseInLoop \/ ReadEnd \/ ConnectDestroyed
           /\ UNCHANGED <<state, writing>>
  <2>1. UNCHANGED stream
    BY <1>8 DEF ForceCloseInLoop, ReadEnd, ConnectDestroyed, HandleClose
  <2> QED
    BY <1>1, <1>8, <2>1
<1> QED
  BY <1>2, <1>3, <1>4, <1>5, <1>6, <1>7, <1>8 DEF Next, LoopStep, Finish

-----------------------------------------------------------------------------
(* A message that is on its way stays on its way, in the stream, in the    *)
(* queue or with the thread that sends it.                                 *)
LEMMA WayKept ==
  ASSUME OutTyped, NEW d \in {0, 1},
         \A i \in 1 .. Len(Stream) :
           i \in 1 .. Len(Stream') /\ Stream'[i] = Stream[i],
         \A i \in 1 .. Len(ioQueue) : ioQueue[i].what = "send" =>
           \/ i - d \in 1 .. Len(ioQueue') /\ ioQueue'[i - d] = ioQueue[i]
           \/ \E k \in 1 .. Len(Stream') :
                Stream'[k] = Part(ioQueue[i].message, 1),
         NEW t, NEW n, OnItsWay(t, n),
         t \in Threads /\ thread[t] = "sending" =>
           thread'[t] = "sending" /\ sent'[t] = sent[t]
  PROVE  OnItsWay(t, n)'
<1> DEFINE m == [from |-> t, number |-> n]
<1>1. CASE \E i \in 1 .. Len(Stream) : Stream[i] = Part(m, 1)
  BY <1>1 DEF OnItsWay
<1>2. CASE \E i \in 1 .. Len(ioQueue) : SendAt(i) /\ ioQueue[i].message = m
  <2>1. PICK i \in 1 .. Len(ioQueue) :
          ioQueue[i].what = "send" /\ ioQueue[i].message = m
    BY <1>2 DEF SendAt
  <2>2. CASE i - d \in 1 .. Len(ioQueue') /\ ioQueue'[i - d] = ioQueue[i]
    <3>1. ioQueue'[i - d].what = "send" /\ ioQueue'[i - d].message = m
      BY <2>1, <2>2
    <3> QED
      BY <2>2, <3>1 DEF OnItsWay, SendAt
  <2>3. CASE \E k \in 1 .. Len(Stream') : Stream'[k] = Part(m, 1)
    BY <2>3 DEF OnItsWay
  <2> QED
    BY <2>1, <2>2, <2>3
<1>3. CASE n = sent[t] /\ t \in Threads /\ thread[t] = "sending"
  BY <1>3 DEF OnItsWay
<1> QED
  BY <1>1, <1>2, <1>3 DEF OnItsWay

(* A quiet step neither opens a connection nor takes a thread's message.   *)
LEMMA QuietConnected ==
  ASSUME Typed, QuietStep, state' = "connected", peer' # "reset"
  PROVE  /\ state = "connected" /\ peer # "reset"
         /\ \A t \in Threads :
              thread[t] = "sending" => thread'[t] = "sending"
<1>1. /\ state = "connected" /\ peer # "reset"
      /\ thread' = thread \/ \E t \in Threads : Find(t) \/ Release(t)
  BY DEF QuietStep, NewConnection, RemoveConnection, ForceCloseInLoop,
         ConnectDestroyed, ReadEnd, HandleWrite, HandleClose, PeerEnds, Find,
         Release, vars, channel, stream, queues, callbacks
<1>2. ASSUME NEW t \in Threads, Find(t) \/ Release(t)
      PROVE  \A u \in Threads : thread[u] = "sending" => thread'[u] = "sending"
  BY <1>2 DEF Find, Release, Move, Typed
<1> QED
  BY <1>1, <1>2

(* Every step keeps what is accepted until it is written or dropped.       *)
LEMMA KeptNext ==
  ASSUME LifeInv, LifeInv', OutInv, [Next]_vars
  PROVE  Kept'
<1> USE DEF LifeInv, OutInv
<1> SUFFICES ASSUME state' = "connected", peer' # "reset",
                    NEW t \in Threads \cup {IoThread}, NEW n \in Nat,
                    n >= 1, n <= sent'[t]
             PROVE  OnItsWay(t, n)'
  BY DEF Kept
<1> DEFINE Before == \A i \in 1 .. Len(Stream) :
                       i \in 1 .. Len(Stream') /\ Stream'[i] = Stream[i]
<1>1. CASE QuietStep
  <2>1. Quiet
    BY <1>1, QuietSteps
  <2>2. state = "connected" /\ peer # "reset"
        /\ \A u \in Threads : thread[u] = "sending" => thread'[u] = "sending"
    BY <1>1, QuietConnected
  <2>3. OnItsWay(t, n)
    BY <2>1, <2>2 DEF Kept, Quiet
  <2>4. PICK d \in {0, 1} : SendsStay(d)
    BY <2>1 DEF Quiet
  <2> QED
    BY <2>1, <2>2, <2>3, <2>4, WayKept DEF Quiet, SendsStay
<1>2. CASE ReadEnds
  BY <1>2 DEF ReadEnds
<1>3. CASE OwnSend
  <2>1. Own \in AnyMessage /\ sent'[IoThread] = sent[IoThread] + 1
        /\ sent[IoThread] \in Nat /\ \A u \in Threads : sent'[u] = sent[u]
    BY <1>3, OwnCounts
  <2>2. /\ ~finSent /\ peer = peer'
        /\ state = "connected" \/ sent[t] = 0
    <3>1. CASE ConnectEstablished
      BY <3>1, Establishing DEF ConnectEstablished
    <3>2. CASE ReadData
      <4>1. peer' = peer
        BY <3>2 DEF ReadData
      <4>2. state = "connected"
        BY <3>2, ReadKinds DEF ReadEnds
      <4> QED
        BY <4>1, <4>2 DEF FinLate
    <3> QED
      BY <1>3, <3>1, <3>2 DEF OwnSend
  <2>3. Stream' = Stream \o Parts(Own)
    BY <1>3, <2>1, <2>2, SendJoins DEF OwnSend, Sending, Broken
  <2>4. Before /\ Len(Stream) \in Nat /\ Len(Stream') = Len(Stream) + 2
        /\ Stream'[Len(Stream) + 1] = Part(Own, 1)
    BY <2>1, <2>3, Grown, SMTT(20)
  <2>5. CASE n <= sent[t]
    <3>1. OnItsWay(t, n)
      BY <2>2, <2>5 DEF Kept
    <3>2. PICK d \in {0, 1} : SendsStay(d)
      BY <1>3, OwnQueue
    <3>3. t \in Threads => thread'[t] = thread[t] /\ sent'[t] = sent[t]
      BY <1>3, <2>1 DEF OwnSend
    <3> QED
      BY <2>4, <3>1, <3>2, <3>3, WayKept DEF SendsStay
  <2>6. CASE ~(n <= sent[t])
    <3>1. t = IoThread /\ n = sent[IoThread] + 1
      BY <2>1, <2>6 DEF Typed
    <3>2. Len(Stream) + 1 \in 1 .. Len(Stream')
          /\ Stream'[Len(Stream) + 1] = Part([from |-> t, number |-> n], 1)
      BY <2>4, <3>1 DEF Own
    <3> QED
      BY <3>2 DEF OnItsWay
  <2> QED
    BY <2>5, <2>6
<1>4. CASE RunSend
  <2> DEFINE m == ioQueue[1].message
  <2>1. /\ m \in AnyMessage /\ SendAt(1)
        /\ sent' = sent /\ thread' = thread /\ peer' = peer /\ state' = state
        /\ \A i \in 1 .. Len(ioQueue) : i # 1 =>
             i - 1 \in 1 .. Len(ioQueue') /\ ioQueue'[i - 1] = ioQueue[i]
        /\ Alive => SendInLoop(m)
    BY <1>4, RunKinds
  <2>2. Alive /\ ~Broken
    BY <2>1 DEF Alive, Open, FinLate, Broken
  <2>3. Stream' = Stream \o Parts(m)
    BY <2>1, <2>2, SendJoins DEF Sending
  <2>4. Before /\ Len(Stream) \in Nat /\ Len(Stream') = Len(Stream) + 2
        /\ Stream'[Len(Stream) + 1] = Part(m, 1)
    BY <2>1, <2>3, Grown
  <2>5. OnItsWay(t, n)
    BY <2>1 DEF Kept
  <2>6. \E k \in 1 .. Len(Stream') : Stream'[k] = Part(m, 1)
    BY <2>4
  <2>7. \A i \in 1 .. Len(ioQueue) :
          \/ i - 1 \in 1 .. Len(ioQueue') /\ ioQueue'[i - 1] = ioQueue[i]
          \/ \E k \in 1 .. Len(Stream') :
               Stream'[k] = Part(ioQueue[i].message, 1)
    BY <2>1, <2>6
  <2> QED
    BY <2>1, <2>4, <2>5, <2>7, WayKept
<1>5. ASSUME NEW u \in Threads, Send(u)
      PROVE  OnItsWay(t, n)'
  <2>1. /\ Stream' = Stream /\ ioQueue' = ioQueue /\ state = "connected"
        /\ peer' = peer
        /\ thread[u] = "found" /\ thread' = [thread EXCEPT ![u] = "sending"]
        /\ sent' = [sent EXCEPT ![u] = @ + 1]
    BY <1>5 DEF Send, Move, Stream, stream, queues
  <2>2. CASE n <= sent[t]
    <3>1. OnItsWay(t, n)
      BY <2>1, <2>2 DEF Kept
    <3>2. SendsStay(0)
      BY <2>1, SendsUnmoved
    <3>3. t \in Threads /\ thread[t] = "sending" =>
            thread'[t] = "sending" /\ sent'[t] = sent[t]
      BY <2>1 DEF Typed
    <3> QED
      BY <2>1, <3>1, <3>2, <3>3, WayKept DEF SendsStay
  <2>3. CASE ~(n <= sent[t])
    <3>1. t = u /\ n = sent'[t] /\ thread'[t] = "sending"
      BY <2>1, <2>3 DEF Typed
    <3> QED
      BY <3>1 DEF OnItsWay
  <2> QED
    BY <2>2, <2>3
<1>6. ASSUME NEW u \in Threads, QueueSend(u)
      PROVE  OnItsWay(t, n)'
  <2> DEFINE m == [from |-> u, number |-> sent[u]]
  <2>1. /\ Stream' = Stream /\ state' = state /\ peer' = peer /\ sent' = sent
        /\ ioQueue' = Append(ioQueue, SendFunctor(m))
        /\ thread[u] = "sending" /\ thread' = [thread EXCEPT ![u] = "found"]
    BY <1>6 DEF QueueSend, Move, Stream, stream
  <2>2. SendFunctor(m) \in AnyFunctor /\ SendFunctor(m).what = "send"
        /\ SendFunctor(m).message = m
    BY DEF AnyFunctor, AnyMessage, SendFunctor, Typed
  <2>3. OnItsWay(t, n)
    BY <2>1 DEF Kept
  <2>4. CASE t = u /\ n = sent[u]
    <3>1. Len(ioQueue) \in Nat /\ Len(ioQueue') = Len(ioQueue) + 1
          /\ ioQueue'[Len(ioQueue) + 1] = SendFunctor(m)
      BY <2>1, <2>2, AddedFunctor
    <3>2. Len(ioQueue) + 1 \in 1 .. Len(ioQueue')
      BY <3>1
    <3> QED
      BY <2>2, <2>4, <3>1, <3>2 DEF OnItsWay, SendAt
  <2>5. CASE t = u /\ n # sent[u]
    <3>1. SendsStay(0)
      BY <2>1, <2>2, SendsBehind
    <3>2. \/ \E i \in 1 .. Len(Stream) :
               Stream[i] = Part([from |-> t, number |-> n], 1)
          \/ \E i \in 1 .. Len(ioQueue) :
               SendAt(i) /\ ioQueue[i].message = [from |-> t, number |-> n]
      BY <2>3, <2>5 DEF OnItsWay
    <3>3. CASE \E i \in 1 .. Len(ioQueue) :
                 SendAt(i) /\ ioQueue[i].message = [from |-> t, number |-> n]
      <4>1. PICK i \in 1 .. Len(ioQueue) :
              /\ ioQueue[i].what = "send"
              /\ ioQueue[i].message = [from |-> t, number |-> n]
        BY <3>3 DEF SendAt
      <4>2. i \in 1 .. Len(ioQueue') /\ ioQueue'[i] = ioQueue[i]
        BY <3>1, <4>1 DEF SendsStay
      <4> QED
        BY <4>1, <4>2 DEF OnItsWay, SendAt
    <3> QED
      BY <2>1, <3>2, <3>3 DEF OnItsWay
  <2>6. CASE t # u
    <3>1. SendsStay(0)
      BY <2>1, <2>2, SendsBehind
    <3>2. t \in Threads /\ thread[t] = "sending" =>
            thread'[t] = "sending" /\ sent'[t] = sent[t]
      BY <2>1, <2>6 DEF Typed
    <3> QED
      BY <2>1, <2>3, <3>1, <3>2, WayKept DEF SendsStay
  <2> QED
    BY <2>4, <2>5, <2>6
<1> QED
  BY <1>1, <1>2, <1>3, <1>4, <1>5, <1>6, StepKinds

(* At the start nothing is sent, queued or written.                        *)
LEMMA OutInit == Init => OutInv
<1> SUFFICES ASSUME Init
             PROVE  OutInv
  OBVIOUS
<1>1. wire = <<>> /\ output = <<>> /\ ioQueue = <<>>
  BY DEF Init
<1>2. <<>> \in Seq(AnyPart)
  OBVIOUS
<1>3. OutTyped
  BY <1>1, <1>2 DEF OutTyped, Init
<1>4. Len(Stream) = 0 /\ Len(ioQueue) = 0
  <2>1. <<>> \o <<>> = <<>>
    BY <1>2, ConcatEmptySeq
  <2> QED
    BY <1>1, <2>1 DEF Stream
<1>5. OrderInv
  BY <1>4 DEF OrderInv, QueueNumbered, StreamNumbered, QueueOrder, StreamFirst,
              Whole, Sorted
<1>6. Silent /\ FinLate /\ FinAfterOutput /\ OutputWatched /\ Kept
  BY DEF Init, Silent, FinLate, FinAfterOutput, OutputWatched, Kept
<1> QED
  BY <1>3, <1>5, <1>6 DEF OutInv

(* Both invariants hold in every state of the specification.               *)
LEMMA OutInvHolds == Spec => [](LifeInv /\ OutInv)
<1>1. Init => LifeInv /\ OutInv
  BY InitInv, OutInit
<1>2. LifeInv /\ OutInv /\ [Next]_vars => (LifeInv /\ OutInv)'
  <2> SUFFICES ASSUME LifeInv, OutInv, [Next]_vars
               PROVE  LifeInv' /\ OutInv'
    OBVIOUS
  <2>1. LifeInv'
    BY NextInv
  <2>2. OutTyped' /\ OrderInv'
    BY <2>1, OrderNext DEF OutInv
  <2>3. Silent' /\ FinLate'
    BY <2>1, SilentNext DEF OutInv
  <2>4. FinAfterOutput' /\ OutputWatched'
    BY <2>1, DrainNext DEF OutInv
  <2>5. Kept'
    BY <2>1, KeptNext
  <2> QED
    BY <2>1, <2>2, <2>3, <2>4, <2>5 DEF OutInv
<1> QED
  BY <1>1, <1>2, PTL DEF Spec

(* Messages are not torn, and those of one sender do not overtake each     *)
(* other, whether they are written at once, queued by another thread or    *)
(* wait behind a full socket (TcpConnection.cc:92-192, 368-406).           *)
THEOREM OutputAlwaysInOrder == Spec => []OutputInOrder
<1>1. OutInv => OutputInOrder
  <2> SUFFICES ASSUME OutInv
               PROVE  StreamIntact /\ SenderOrder
    BY DEF OutputInOrder
  <2>1. DOMAIN Stream = 1 .. Len(Stream)
    BY StreamType DEF OutInv
  <2>2. StreamIntact
    BY <2>1 DEF OutInv, OrderInv, Whole, StreamIntact
  <2>3. SenderOrder
    BY <2>1 DEF OutInv, OrderInv, Sorted, SenderOrder
  <2> QED
    BY <2>2, <2>3
<1> QED
  BY <1>1, OutInvHolds, PTL

(* While the connection is open everything sent on it is on the wire, in   *)
(* the output buffer, in the queue of its loop or about to be queued.      *)
THEOREM NothingEverLost == Spec => []NothingLost
<1>1. LifeInv /\ OutInv => NothingLost
  <2> SUFFICES ASSUME LifeInv, OutInv, state = "connected", peer # "reset",
                      NEW t \in Threads \cup {IoThread},
                      NEW n \in 1 .. sent[t]
               PROVE  LET m == [from |-> t, number |-> n] IN
                        \/ Part(m, 1) \in Range(Stream)
                        \/ \E f \in Range(ioQueue) :
                             f.what = "send" /\ f.message = m
                        \/ n = sent[t] /\ t \in Threads /\ thread[t] = "sending"
    BY DEF NothingLost, LifeInv, Typed
  <2>1. sent[t] \in Nat /\ n \in Nat /\ n >= 1 /\ n <= sent[t]
    BY DEF LifeInv, Typed
  <2>2. OnItsWay(t, n)
    BY <2>1 DEF OutInv, Kept
  <2>3. DOMAIN Stream = 1 .. Len(Stream) /\ DOMAIN ioQueue = 1 .. Len(ioQueue)
    BY StreamType DEF OutInv, LifeInv, Typed
  <2> QED
    BY <2>2, <2>3 DEF OnItsWay, SendAt, Range
<1> QED
  BY <1>1, OutInvHolds, PTL

(* Waiting output is written when the socket takes it, and shutdown closes *)
(* the stream behind it (TcpConnection.cc:174-213, 368-406).               *)
THEOREM OutputAlwaysDrains == Spec => []OutputDrains
<1>1. OutInv => OutputDrains
  BY DEF OutInv, OutputDrains
<1> QED
  BY <1>1, OutInvHolds, PTL
=============================================================================
