---------------------------- MODULE LoopThreads ----------------------------
(***************************************************************************)
(* The threads of the server's loops: net/EventLoopThread.cc and           *)
(* EventLoopThreadPool.cc.  The thread of the base loop starts the others, *)
(* deals the connections out to their loops, and ends them when the pool   *)
(* is destroyed.  What a loop does between its beginning and its end is in *)
(* EventLoop; here it begins, and ends after quit().                       *)
(***************************************************************************)
EXTENDS Integers, Sequences

CONSTANTS MaxThreads,     \* bound on the threads
          MaxDealt        \* bound on the connections

VARIABLES
  numThreads,\* numThreads_; 0: all connections belong to the base loop
  base,      \* the thread of the base loop: [at: "start", "wait" (for loop_),
             \*  "deal", "destroy", "join" or "gone", thread: the one it is at]
  loops,     \* loops_: loop i is that of thread i, the base loop is 0
  nextLoop,  \* next_, from 1
  thread,    \* "none", "callback", "published", "loop", "ended" or "returned"
  pointer,   \* is loop_ of the thread set
  quit,      \* quit_ of its loop
  dealt      \* the loops in the order they got a connection

threadVars == <<numThreads, base, loops, nextLoop, thread, pointer, quit, dealt>>

LoopThreads == 1..MaxThreads

ThreadsInit ==
  /\ numThreads \in 0..MaxThreads
  /\ base = [at |-> "start", thread |-> 1] /\ loops = <<>> /\ nextLoop = 1
  /\ thread = [i \in LoopThreads |-> "none"]
  /\ pointer = [i \in LoopThreads |-> FALSE]
  /\ quit = [i \in LoopThreads |-> FALSE] /\ dealt = <<>>

-----------------------------------------------------------------------------
(* The thread of the base loop                                             *)

(* EventLoopThreadPool::start, EventLoopThread::startLoop                  *)
StartLoop ==
  /\ base.at = "start"
  /\ IF base.thread > numThreads
     THEN base' = [base EXCEPT !.at = "deal"] /\ UNCHANGED thread
     ELSE /\ base' = [base EXCEPT !.at = "wait"]
          /\ thread' = [thread EXCEPT ![base.thread] = "callback"]
  /\ UNCHANGED <<loops, nextLoop, pointer, quit, dealt>>

LoopStarted ==
  /\ base.at = "wait" /\ pointer[base.thread]
  /\ loops' = Append(loops, base.thread)
  /\ base' = [at |-> "start", thread |-> base.thread + 1]
  /\ UNCHANGED <<nextLoop, thread, pointer, quit, dealt>>

(* Mutant: the wrap-around comes one connection late.                      *)
NextLoopStays ==
  /\ base.at = "deal" /\ Len(dealt) < MaxDealt
  /\ IF loops = <<>>
     THEN dealt' = Append(dealt, 0) /\ UNCHANGED nextLoop
     ELSE /\ dealt' = Append(dealt, loops[nextLoop])
          /\ nextLoop' = IF nextLoop + 1 > Len(loops) THEN nextLoop
                         ELSE nextLoop + 1
  /\ UNCHANGED <<base, loops, thread, pointer, quit>>

(* getNextLoop, for a new connection                                       *)
GetNextLoop ==
  /\ base.at = "deal" /\ Len(dealt) < MaxDealt
  /\ IF loops = <<>>
     THEN dealt' = Append(dealt, 0) /\ UNCHANGED nextLoop
     ELSE /\ dealt' = Append(dealt, loops[nextLoop])
          /\ nextLoop' = IF nextLoop + 1 > Len(loops) THEN 1 ELSE nextLoop + 1
  /\ UNCHANGED <<base, loops, thread, pointer, quit>>

DestroyPool ==
  /\ base.at = "deal" /\ base' = [at |-> "destroy", thread |-> 1]
  /\ UNCHANGED <<loops, nextLoop, thread, pointer, quit, dealt>>

(* ~EventLoopThread: loop_ is read without the lock.                       *)
DestroyThread ==
  /\ base.at = "destroy"
  /\ IF base.thread > numThreads
     THEN base' = [base EXCEPT !.at = "gone"] /\ UNCHANGED quit
     ELSE IF pointer[base.thread]
     THEN /\ base' = [base EXCEPT !.at = "join"]
          /\ quit' = [quit EXCEPT ![base.thread] = TRUE]
     ELSE base' = [base EXCEPT !.thread = @ + 1] /\ UNCHANGED quit
  /\ UNCHANGED <<loops, nextLoop, thread, pointer, dealt>>

Joined ==
  /\ base.at = "join" /\ thread[base.thread] = "returned"
  /\ base' = [at |-> "destroy", thread |-> base.thread + 1]
  /\ UNCHANGED <<loops, nextLoop, thread, pointer, quit, dealt>>

-----------------------------------------------------------------------------
(* EventLoopThread::threadFunc, and quit_ in EventLoop::loop.              *)

Publish(i) ==
  /\ thread[i] = "callback" /\ thread' = [thread EXCEPT ![i] = "published"]
  /\ pointer' = [pointer EXCEPT ![i] = TRUE]
  /\ UNCHANGED <<base, loops, nextLoop, quit, dealt>>

(* loop() begins with quit_ = false: a quit() before it is forgotten.      *)
EnterLoop(i) ==
  /\ thread[i] = "published" /\ thread' = [thread EXCEPT ![i] = "loop"]
  /\ quit' = [quit EXCEPT ![i] = FALSE]
  /\ UNCHANGED <<base, loops, nextLoop, pointer, dealt>>

LeaveLoop(i) ==
  /\ thread[i] = "loop" /\ quit[i] /\ thread' = [thread EXCEPT ![i] = "ended"]
  /\ UNCHANGED <<base, loops, nextLoop, pointer, quit, dealt>>

(* The EventLoop on the thread's stack is destroyed.                       *)
ThreadReturns(i) ==
  /\ thread[i] = "ended" /\ thread' = [thread EXCEPT ![i] = "returned"]
  /\ pointer' = [pointer EXCEPT ![i] = FALSE]
  /\ UNCHANGED <<base, loops, nextLoop, quit, dealt>>

ThreadStep(i) == Publish(i) \/ EnterLoop(i) \/ LeaveLoop(i) \/ ThreadReturns(i)

BaseStep == StartLoop \/ LoopStarted \/ DestroyThread \/ Joined

ThreadsNext ==
  /\ \/ BaseStep \/ GetNextLoop \/ DestroyPool
     \/ \E i \in LoopThreads : ThreadStep(i)
  /\ UNCHANGED numThreads

-----------------------------------------------------------------------------
(* EventLoopThreadPool.cc:33-71: the connections are dealt out evenly, and *)
(* a loop that has one is there until the pool is destroyed.               *)
LoopsShare ==
  /\ \A i, j \in 1..numThreads :
       Len(SelectSeq(dealt, LAMBDA l : l = i)) <=
       Len(SelectSeq(dealt, LAMBDA l : l = j)) + 1
  /\ base.at = "deal" => \A k \in DOMAIN dealt :
       dealt[k] # 0 => thread[dealt[k]] \in {"published", "loop"}

(* EventLoopThread.cc:27-76, EventLoop.cc:103-146: the pool gets started,  *)
(* and its destruction ends, unless it begins before one of its loops      *)
(* does, which forgets the quit() and is joined for ever.                  *)
PoolEnds ==
  /\ base.at = "start" ~> base.at = "deal"
  /\ (base.at = "destroy" /\ \A i \in LoopThreads : thread[i] # "published")
       ~> base.at = "gone"
=============================================================================
