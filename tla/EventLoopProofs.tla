-------------------------- MODULE EventLoopProofs --------------------------
(***************************************************************************)
(* A loop runs its functors once each and in order, and never blocks over  *)
(* one that nobody is going to wake it for: for any threads.               *)
(***************************************************************************)
EXTENDS EventLoop, SequenceTheorems, TLAPS

WakeupComing == signalled \/ \E t \in Threads : thread[t] = "waking"

(* Only between the return of poll and the swap may a functor be pending   *)
(* without a wake-up: this iteration still takes it.                       *)
PendingIsCovered ==
  pc \notin {"events", "swap"} /\ pending # <<>> => WakeupComing

QuitIsCovered == pc = "poll" /\ quit => WakeupComing

CallingInFunctors == calling <=> pc \in {"swap", "run"}

BatchOnlyInRun == batch # <<>> => pc = "run"

LoopInv ==
  /\ TypeOK /\ InOrder
  /\ PendingIsCovered /\ QuitIsCovered /\ CallingInFunctors /\ BatchOnlyInRun

(* At the start no thread has queued anything and no loop runs.            *)
LEMMA InitInv == Init => LoopInv
<1> SUFFICES ASSUME Init
             PROVE  LoopInv
  OBVIOUS
<1> USE DEF Init
<1>1. TypeOK
  <2>1. <<>> \in Seq(1 .. MaxFunctors)
    OBVIOUS
  <2>2. 0 \in 0 .. MaxFunctors
    BY MaxFunctorsAssumption
  <2>3. thread \in [Threads -> {"idle", "waking"}]
    OBVIOUS
  <2> QED
    BY <2>1, <2>2, <2>3 DEF TypeOK
<1>2. InOrder
  BY DEF InOrder
<1>3. PendingIsCovered /\ QuitIsCovered /\ BatchOnlyInRun
  BY DEF PendingIsCovered, QuitIsCovered, BatchOnlyInRun
<1>4. CallingInFunctors
  BY DEF CallingInFunctors
<1> QED
  BY <1>1, <1>2, <1>3, <1>4 DEF LoopInv

(* A pushed functor comes after all the others.                            *)
LEMMA PushInOrder ==
  ASSUME TypeOK, InOrder, Push
  PROVE  /\ pending' \in Seq(1 .. MaxFunctors)
         /\ queued' \in 0 .. MaxFunctors
         /\ Len(pending') = Len(pending) + 1
         /\ \A i \in 1 .. Len(pending') :
              pending'[i] = ran + Len(batch) + i
<1>1. queued + 1 \in 1 .. MaxFunctors
  BY MaxFunctorsAssumption DEF Push, TypeOK
<1>2. pending' \in Seq(1 .. MaxFunctors) /\ Len(pending') = Len(pending) + 1
  BY <1>1 DEF Push, TypeOK
<1>3. ASSUME NEW i \in 1 .. Len(pending')
      PROVE  pending'[i] = ran + Len(batch) + i
  <2>1. Len(pending) \in Nat /\ Len(batch) \in Nat /\ ran \in Nat
    BY DEF TypeOK
  <2>2. CASE i = Len(pending) + 1
    <3>1. pending'[i] = queued + 1
      BY <2>2 DEF Push, TypeOK
    <3> QED
      BY <2>1, <2>2, <3>1 DEF InOrder
  <2>3. CASE i \in 1 .. Len(pending)
    <3>1. pending'[i] = pending[i]
      BY <2>3 DEF Push, TypeOK
    <3> QED
      BY <2>3, <3>1 DEF InOrder
  <2> QED
    BY <1>2, <2>1, <2>2, <2>3
<1> QED
  BY <1>1, <1>2, <1>3 DEF Push

(* The functor that runs is the first of the batch.                        *)
LEMMA RunInOrder ==
  ASSUME TypeOK, InOrder, RunNext
  PROVE  /\ batch' \in Seq(1 .. MaxFunctors)
         /\ Len(batch') = Len(batch) - 1
         /\ ran' = ran + 1 /\ ran' \in 0 .. MaxFunctors
         /\ ran' + Len(batch') = ran + Len(batch)
         /\ \A i \in 1 .. Len(batch') : batch'[i] = ran' + i
<1>1. Len(batch) \in Nat \ {0}
  BY DEF TypeOK, RunNext
<1>2. Head(batch) = batch[1] /\ batch[1] \in 1 .. MaxFunctors
  <2>1. batch \in Seq(1 .. MaxFunctors) /\ batch # <<>>
    BY DEF TypeOK, RunNext
  <2>2. 1 \in 1 .. Len(batch)
    BY <1>1
  <2>3. batch[1] \in 1 .. MaxFunctors
    BY <2>1, <2>2, ElementOfSeq
  <2>4. Head(batch) = batch[1]
    BY <2>1
  <2> QED
    BY <2>3, <2>4
<1>3. batch' \in Seq(1 .. MaxFunctors) /\ Len(batch') = Len(batch) - 1
  BY <1>1 DEF TypeOK, RunNext
<1>4. ran' = ran + 1
  BY <1>1, <1>2 DEF RunNext, InOrder
<1>5. ASSUME NEW i \in 1 .. Len(batch')
      PROVE  batch'[i] = ran' + i
  <2>1. batch'[i] = batch[i + 1] /\ i + 1 \in 1 .. Len(batch)
    BY <1>1, <1>3 DEF RunNext, TypeOK
  <2> QED
    BY <1>4, <2>1 DEF InOrder, TypeOK
<1> QED
  BY <1>2, <1>3, <1>4, <1>5, MaxFunctorsAssumption DEF TypeOK, RunNext

(* Every step of the loop and of the threads keeps the invariant.          *)
LEMMA NextInv == LoopInv /\ [Next]_vars => LoopInv'
<1> SUFFICES ASSUME LoopInv, [Next]_vars
             PROVE  LoopInv'
  OBVIOUS
<1> USE DEF LoopInv
<1> DEFINE Covered == /\ PendingIsCovered /\ QuitIsCovered
                      /\ CallingInFunctors /\ BatchOnlyInRun
<1>1. CASE UNCHANGED vars
  BY <1>1 DEF vars, TypeOK, InOrder, PendingIsCovered, QuitIsCovered,
              WakeupComing, CallingInFunctors, BatchOnlyInRun
<1>2. ASSUME NEW t \in Threads, QueueInLoop(t)
      PROVE  LoopInv'
  <2>1. TypeOK' /\ InOrder'
    BY <1>2, PushInOrder DEF QueueInLoop, Push, TypeOK, InOrder
  <2>2. WakeupComing'
    BY <1>2 DEF QueueInLoop, WakeupComing, TypeOK
  <2> QED
    BY <1>2, <2>1, <2>2 DEF QueueInLoop, PendingIsCovered, QuitIsCovered,
                            CallingInFunctors, BatchOnlyInRun
<1>3. ASSUME NEW t \in Threads, Quit(t)
      PROVE  LoopInv'
  <2>1. TypeOK' /\ InOrder'
    BY <1>3 DEF Quit, TypeOK, InOrder
  <2>2. WakeupComing'
    BY <1>3 DEF Quit, WakeupComing, TypeOK
  <2> QED
    BY <1>3, <2>1, <2>2 DEF Quit, PendingIsCovered, QuitIsCovered,
                            CallingInFunctors, BatchOnlyInRun
<1>4. ASSUME NEW t \in Threads, Wakeup(t)
      PROVE  LoopInv'
  <2>1. TypeOK' /\ InOrder'
    BY <1>4 DEF Wakeup, TypeOK, InOrder
  <2>2. WakeupComing'
    BY <1>4 DEF Wakeup, WakeupComing
  <2> QED
    BY <1>4, <2>1, <2>2 DEF Wakeup, PendingIsCovered, QuitIsCovered,
                            CallingInFunctors, BatchOnlyInRun
<1>5. CASE StartLoop \/ CheckQuit \/ PollWoken \/ PollOther \/ HandleEvents
           \/ EndFunctors
  <2>1. TypeOK' /\ InOrder'
    BY <1>5 DEF StartLoop, CheckQuit, PollWoken, PollOther, HandleEvents,
                EndFunctors, TypeOK, InOrder
  <2>2. ASSUME UNCHANGED <<signalled, thread>>, WakeupComing
        PROVE  WakeupComing'
    BY <2>2 DEF WakeupComing
  <2>3. signalled' => WakeupComing'
    BY DEF WakeupComing
  <2>4. PendingIsCovered'
    <3> USE DEF PendingIsCovered
    <3>1. CASE StartLoop
      BY <2>2, <3>1 DEF StartLoop
    <3>2. CASE CheckQuit
      BY <2>2, <3>2 DEF CheckQuit
    <3>3. CASE PollWoken \/ PollOther \/ HandleEvents
      BY <3>3 DEF PollWoken, PollOther, HandleEvents
    <3>4. CASE EndFunctors
      BY <2>2, <3>4 DEF EndFunctors
    <3> QED
      BY <1>5, <3>1, <3>2, <3>3, <3>4
  <2>5. QuitIsCovered'
    <3> USE DEF QuitIsCovered
    <3>1. CASE CheckQuit
      BY <3>1 DEF CheckQuit, TypeOK
    <3>2. CASE ~CheckQuit
      BY <1>5, <3>2 DEF StartLoop, PollWoken, PollOther, HandleEvents, EndFunctors
    <3> QED
      BY <3>1, <3>2
  <2>6. BatchOnlyInRun'
    BY <1>5 DEF StartLoop, CheckQuit, PollWoken, PollOther, HandleEvents,
                EndFunctors, BatchOnlyInRun
  <2>7. CallingInFunctors'
    <3> USE DEF CallingInFunctors
    <3>1. CASE StartLoop \/ CheckQuit \/ PollWoken \/ PollOther
      <4>1. calling' = calling /\ ~calling /\ pc' \notin {"swap", "run"}
        BY <3>1 DEF StartLoop, CheckQuit, PollWoken, PollOther
      <4> QED
        BY <4>1
    <3>2. CASE HandleEvents
      BY <3>2 DEF HandleEvents
    <3>3. CASE EndFunctors
      BY <3>3 DEF EndFunctors
    <3> QED
      BY <1>5, <3>1, <3>2, <3>3
  <2> QED
    BY <2>1, <2>4, <2>5, <2>6, <2>7
<1>6. CASE QueueInCallback
  <2>1. TypeOK' /\ InOrder'
    BY <1>6, PushInOrder DEF QueueInCallback, Push, TypeOK, InOrder
  <2>2. Covered'
    BY <1>6 DEF QueueInCallback, PendingIsCovered, QuitIsCovered,
                CallingInFunctors, BatchOnlyInRun
  <2> QED
    BY <2>1, <2>2
<1>7. CASE SwapFunctors
  <2>1. batch = <<>> /\ pending' = <<>> /\ batch' = pending
    BY <1>7 DEF SwapFunctors, BatchOnlyInRun
  <2>2. TypeOK' /\ InOrder'
    BY <1>7, <2>1 DEF SwapFunctors, TypeOK, InOrder
  <2>3. Covered'
    BY <1>7, <2>1 DEF SwapFunctors, PendingIsCovered, QuitIsCovered,
                      CallingInFunctors, BatchOnlyInRun
  <2> QED
    BY <2>2, <2>3
<1>8. CASE RunFunctor
  <2>1. calling /\ pc' = "run" /\ UNCHANGED <<thread, calling>>
    BY <1>8 DEF RunFunctor, RunNext, CallingInFunctors
  <2>2. CASE Push /\ signalled' = (signalled \/ calling)
    <3>1. TypeOK'
      BY <1>8, <2>1, <2>2, PushInOrder, RunInOrder DEF RunFunctor, TypeOK
    <3>2. InOrder'
      <4>1. /\ Len(pending) \in Nat /\ Len(pending') = Len(pending) + 1
            /\ queued' = queued + 1
        BY <2>2, PushInOrder DEF Push, TypeOK
      <4>2. /\ RunNext /\ batch' \in Seq(1 .. MaxFunctors)
            /\ ran' + Len(batch') = ran + Len(batch)
            /\ \A i \in 1 .. Len(batch') : batch'[i] = ran' + i
        BY <1>8, RunInOrder DEF RunFunctor
      <4>3. \A i \in 1 .. Len(pending') : pending'[i] = ran' + Len(batch') + i
        BY <2>2, <4>2, PushInOrder
      <4>4. queued' = ran' + Len(batch') + Len(pending')
        BY <2>1, <4>1, <4>2 DEF TypeOK, InOrder
      <4> QED
        BY <4>2, <4>3, <4>4 DEF InOrder
    <3>3. WakeupComing'
      BY <2>1, <2>2 DEF WakeupComing
    <3> QED
      BY <1>8, <2>1, <3>1, <3>2, <3>3 DEF PendingIsCovered, QuitIsCovered,
                              CallingInFunctors, BatchOnlyInRun
  <2>3. CASE UNCHANGED <<pending, queued, signalled>>
    <3>1. TypeOK'
      BY <1>8, <2>1, <2>3, RunInOrder DEF RunFunctor, TypeOK
    <3>3. InOrder'
      BY <1>8, <2>3, RunInOrder DEF RunFunctor, TypeOK, InOrder
    <3>2. Covered'
      BY <1>8, <2>1, <2>3
      DEF RunFunctor, RunNext, PendingIsCovered, QuitIsCovered, WakeupComing,
          CallingInFunctors, BatchOnlyInRun
    <3> QED
      BY <3>1, <3>2, <3>3
  <2> QED
    BY <1>8, <2>2, <2>3 DEF RunFunctor
<1>9. CASE RunQuit
  <2>1. TypeOK' /\ InOrder'
    <3>1. TypeOK'
      BY <1>9, RunInOrder DEF RunQuit, TypeOK
    <3>2. InOrder'
      BY <1>9, RunInOrder DEF RunQuit, TypeOK, InOrder
    <3> QED
      BY <3>1, <3>2
  <2>2. Covered'
    BY <1>9 DEF RunQuit, RunNext, PendingIsCovered, QuitIsCovered,
                WakeupComing, CallingInFunctors, BatchOnlyInRun
  <2> QED
    BY <2>1, <2>2
<1> QED
  BY <1>1, <1>2, <1>3, <1>4, <1>5, <1>6, <1>7, <1>8, <1>9 DEF Next, LoopStep

(* Every functor runs once and in the order of the queue, whichever thread *)
(* queued it (doPendingFunctors).                                          *)
THEOREM FunctorsInOrder == Spec => []InOrder
<1>1. LoopInv => InOrder
  BY DEF LoopInv
<1> QED
  BY <1>1, InitInv, NextInv, PTL DEF Spec

(* No functor and no quit() is left to poll's time-out (queueInLoop, quit, *)
(* wakeup).                                                                *)
THEOREM WakeupNeverLost == Spec => []NoLostWakeup
<1>1. LoopInv => NoLostWakeup
  BY DEF LoopInv, PendingIsCovered, QuitIsCovered, WakeupComing, NoLostWakeup
<1> QED
  BY <1>1, InitInv, NextInv, PTL DEF Spec
=============================================================================
