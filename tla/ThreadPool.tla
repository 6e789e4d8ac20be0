----------------------------- MODULE ThreadPool -----------------------------
(***************************************************************************)
(* muduo's threads and thread pool: base/ThreadPool.cc, Thread.cc with its *)
(* CountDownLatch.cc.  One thread starts the pool and stops it; producers  *)
(* hand it tasks; its threads run them.  A critical section is one step; a *)
(* thread that waits for a condition is in a stage of its own and goes     *)
(* back to the loop around the wait when it is notified.                   *)
(***************************************************************************)
EXTENDS Integers, Sequences

CONSTANTS Workers,        \* a sequence: the threads in the order of start
          Producers,
          maxQueueSize,   \* 0: the queue is not bounded
          MaxTasks        \* bound on the tasks of one producer

VARIABLES
  owner,      \* the starting thread: "start", "latch", "started", "join", "done"
  started,    \* how many threads were created
  latch,      \* count_ of the latch of the newest thread
  running,
  queue,
  worker,     \* "none", "created", "loop", "take", "notEmpty" (waits for it),
              \* "task" or "exited"
  producer,   \* [stage: "idle", "run" or "notFull" (waits for it), left: tasks]
  ran         \* tasks that were begun

poolVars == <<owner, started, latch, running, queue, worker, producer, ran>>

Threads == {Workers[i] : i \in DOMAIN Workers}

PoolInit ==
  /\ owner = "start" /\ started = 0 /\ latch = 0 /\ running = FALSE
  /\ queue = <<>> /\ worker = [w \in Threads |-> "none"]
  /\ producer = [p \in Producers |-> [stage |-> "idle", left |-> MaxTasks]]
  /\ ran = <<>>

isFull == maxQueueSize > 0 /\ Len(queue) >= maxQueueSize

-----------------------------------------------------------------------------
(* The starting thread                                                     *)

(* start: Thread::start creates a thread and waits for its latch.          *)
StartThread ==
  /\ owner = "start" /\ running' = TRUE
  /\ IF started = Len(Workers)
     THEN owner' = "started" /\ UNCHANGED <<started, latch, worker>>
     ELSE /\ owner' = "latch" /\ started' = started + 1 /\ latch' = 1
          /\ worker' = [worker EXCEPT ![Workers[started + 1]] = "created"]
  /\ UNCHANGED <<queue, producer, ran>>

(* CountDownLatch::wait                                                    *)
LatchOpens ==
  /\ owner = "latch" /\ latch = 0 /\ owner' = "start"
  /\ UNCHANGED <<started, latch, running, queue, worker, producer, ran>>

(* Mutant: those who wait for room are not notified.                       *)
StopNotEmptyOnly ==
  /\ owner = "started" /\ owner' = "join" /\ running' = FALSE
  /\ worker' = [w \in Threads |-> IF worker[w] = "notEmpty" THEN "take"
                                  ELSE worker[w]]
  /\ UNCHANGED <<started, latch, queue, producer, ran>>

(* stop: everybody who waits is notified, the threads are joined.          *)
Stop ==
  /\ owner = "started" /\ owner' = "join" /\ running' = FALSE
  /\ worker' = [w \in Threads |-> IF worker[w] = "notEmpty" THEN "take"
                                  ELSE worker[w]]
  /\ producer' = [p \in Producers |->
                    IF producer[p].stage = "notFull"
                    THEN [producer[p] EXCEPT !.stage = "run"]
                    ELSE producer[p]]
  /\ UNCHANGED <<started, latch, queue, ran>>

Join ==
  /\ owner = "join" /\ \A w \in Threads : worker[w] = "exited"
  /\ owner' = "done"
  /\ UNCHANGED <<started, latch, running, queue, worker, producer, ran>>

-----------------------------------------------------------------------------
(* The threads                                                             *)

(* ThreadData::runInThread: countDown                                      *)
Begin(w) ==
  /\ worker[w] = "created" /\ worker' = [worker EXCEPT ![w] = "loop"]
  /\ latch' = latch - 1
  /\ UNCHANGED <<owner, started, running, queue, producer, ran>>

(* ThreadPool::runInThread reads running_ without the lock.                *)
Loop(w) ==
  /\ worker[w] = "loop"
  /\ worker' = [worker EXCEPT ![w] = IF running THEN "take" ELSE "exited"]
  /\ UNCHANGED <<owner, started, latch, running, queue, producer, ran>>

NotifyNotFull ==
  LET waiting == {p \in Producers : producer[p].stage = "notFull"} IN
  IF maxQueueSize = 0 \/ waiting = {} THEN UNCHANGED producer
  ELSE \E p \in waiting :
         producer' = [producer EXCEPT ![p].stage = "run"]

(* take                                                                    *)
Take(w) ==
  /\ worker[w] = "take"
  /\ IF queue # <<>>
     THEN /\ worker' = [worker EXCEPT ![w] = "task"]
          /\ ran' = Append(ran, Head(queue)) /\ queue' = Tail(queue)
          /\ NotifyNotFull
     ELSE /\ worker' = [worker EXCEPT ![w] = IF running THEN "notEmpty"
                                             ELSE "loop"]
          /\ UNCHANGED <<queue, ran, producer>>
  /\ UNCHANGED <<owner, started, latch, running>>

TaskEnds(w) ==
  /\ worker[w] = "task" /\ worker' = [worker EXCEPT ![w] = "loop"]
  /\ UNCHANGED <<owner, started, latch, running, queue, producer, ran>>

-----------------------------------------------------------------------------
(* The producers: run                                                      *)

Call(p) ==
  /\ owner \in {"started", "join", "done"}
  /\ producer[p].stage = "idle" /\ producer[p].left > 0
  /\ producer' = [producer EXCEPT ![p] = [stage |-> "run", left |-> @.left - 1]]
  /\ UNCHANGED <<owner, started, latch, running, queue, worker, ran>>

NotifyNotEmpty ==
  LET waiting == {w \in Threads : worker[w] = "notEmpty"} IN
  IF waiting = {} THEN UNCHANGED worker
  ELSE \E w \in waiting : worker' = [worker EXCEPT ![w] = "take"]

Run(p) ==
  /\ producer[p].stage = "run"
  /\ IF isFull /\ running
     THEN /\ producer' = [producer EXCEPT ![p].stage = "notFull"]
          /\ UNCHANGED <<queue, worker>>
     ELSE /\ producer' = [producer EXCEPT ![p].stage = "idle"]
          /\ IF running
             THEN /\ queue' = Append(queue, <<p, producer[p].left>>)
                  /\ NotifyNotEmpty
             ELSE UNCHANGED <<queue, worker>>
  /\ UNCHANGED <<owner, started, latch, running, ran>>

SpuriousWakeup ==
  /\ \/ \E w \in Threads : worker[w] = "notEmpty"
          /\ worker' = [worker EXCEPT ![w] = "take"] /\ UNCHANGED producer
     \/ \E p \in Producers : producer[p].stage = "notFull"
          /\ producer' = [producer EXCEPT ![p].stage = "run"]
          /\ UNCHANGED worker
  /\ UNCHANGED <<owner, started, latch, running, queue, ran>>

WorkerStep(w) == Begin(w) \/ Loop(w) \/ Take(w) \/ TaskEnds(w)

PoolNext ==
  \/ StartThread \/ LatchOpens \/ Stop \/ Join
  \/ \E w \in Threads : WorkerStep(w)
  \/ \E p \in Producers : Call(p) \/ Run(p)
  \/ SpuriousWakeup

-----------------------------------------------------------------------------
(* ThreadPool.cc:33-112, Thread.cc:70-198, CountDownLatch.cc:17-34: the    *)
(* pool gets started; no caller of run waits for ever, even if the pool is *)
(* stopped meanwhile; a task that was queued runs unless the pool stops;   *)
(* and stop returns.                                                       *)
PoolServes ==
  /\ owner = "start" ~> owner = "started"
  /\ \A p \in Producers : producer[p].stage # "idle" ~> producer[p].stage = "idle"
  /\ queue # <<>> ~> (queue = <<>> \/ ~running)
  /\ owner = "join" ~> owner = "done"
=============================================================================
