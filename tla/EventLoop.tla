----------------------------- MODULE EventLoop -----------------------------
(***************************************************************************)
(* muduo/net/EventLoop: functors queued for a loop by other threads, by    *)
(* its own event callbacks and by functors it is running, and the eventfd  *)
(* that wakes the loop from poll.                                          *)
(*                                                                         *)
(* A functor is a number, counted in the order the functors are queued.    *)
(* queueInLoop pushes under the mutex and writes to the eventfd after it   *)
(* has released it: two steps for another thread.                          *)
(***************************************************************************)
EXTENDS Naturals, Sequences

CONSTANTS
  Threads,        \* the threads that call queueInLoop and quit
  MaxFunctors     \* bound on the functors queued

ASSUME MaxFunctorsAssumption == MaxFunctors \in Nat

VARIABLES
  pc,          \* where the loop's thread is
  quit,        \* quit_
  woken,       \* the eventfd is among the active channels of this iteration
  signalled,   \* the eventfd is readable
  calling,     \* callingPendingFunctors_
  pending,     \* pendingFunctors_
  batch,       \* the functors swapped out and not yet run
  thread,      \* whether a thread is between the push and the wake-up
  queued,      \* how many functors have been queued
  ran          \* the last functor that ran

vars == <<pc, quit, woken, signalled, calling, pending, batch, thread, queued,
          ran>>

Init ==
  /\ pc = "new"
  /\ quit = FALSE
  /\ woken = FALSE
  /\ signalled = FALSE
  /\ calling = FALSE
  /\ pending = <<>>
  /\ batch = <<>>
  /\ thread = [t \in Threads |-> "idle"]
  /\ queued = 0
  /\ ran = 0

Push ==
  /\ queued < MaxFunctors
  /\ queued' = queued + 1
  /\ pending' = Append(pending, queued + 1)

-----------------------------------------------------------------------------
(* Other threads.                                                          *)

QueueInLoop(t) ==
  /\ thread[t] = "idle"
  /\ Push
  /\ thread' = [thread EXCEPT ![t] = "waking"]
  /\ UNCHANGED <<pc, quit, woken, signalled, calling, batch, ran>>

(* Mutant: quit() does not wake the loop.                                  *)
QuitSilent(t) ==
  /\ thread[t] = "idle"
  /\ quit' = TRUE
  /\ UNCHANGED <<pc, woken, signalled, calling, pending, batch, thread, queued,
                 ran>>

Quit(t) ==
  /\ thread[t] = "idle"
  /\ quit' = TRUE
  /\ thread' = [thread EXCEPT ![t] = "waking"]
  /\ UNCHANGED <<pc, woken, signalled, calling, pending, batch, queued, ran>>

Wakeup(t) ==
  /\ thread[t] = "waking"
  /\ signalled' = TRUE
  /\ thread' = [thread EXCEPT ![t] = "idle"]
  /\ UNCHANGED <<pc, quit, woken, calling, pending, batch, queued, ran>>

-----------------------------------------------------------------------------
(* The loop's own thread.                                                  *)

(* loop() forgets a quit() that came before it.                            *)
StartLoop ==
  /\ pc = "new"
  /\ pc' = "check"
  /\ quit' = FALSE
  /\ UNCHANGED <<woken, signalled, calling, pending, batch, thread, queued, ran>>

CheckQuit ==
  /\ pc = "check"
  /\ pc' = IF quit THEN "exited" ELSE "poll"
  /\ UNCHANGED <<quit, woken, signalled, calling, pending, batch, thread, queued,
                 ran>>

(* poll returns at once when the eventfd is readable.                      *)
PollWoken ==
  /\ pc = "poll" /\ signalled
  /\ woken' = TRUE
  /\ pc' = "events"
  /\ UNCHANGED <<quit, signalled, calling, pending, batch, thread, queued, ran>>

(* Another channel is ready, or kPollTimeMs are over.                      *)
PollOther ==
  /\ pc = "poll" /\ ~signalled
  /\ pc' = "events"
  /\ UNCHANGED <<quit, woken, signalled, calling, pending, batch, thread, queued,
                 ran>>

(* An event callback queues a functor: this iteration will still run it.   *)
QueueInCallback ==
  /\ pc = "events"
  /\ Push
  /\ UNCHANGED <<pc, quit, woken, signalled, calling, batch, thread, ran>>

(* The callbacks are over, handleRead of the eventfd among them.           *)
HandleEvents ==
  /\ pc = "events"
  /\ signalled' = IF woken THEN FALSE ELSE signalled
  /\ woken' = FALSE
  /\ calling' = TRUE
  /\ pc' = "swap"
  /\ UNCHANGED <<quit, pending, batch, thread, queued, ran>>

(* Mutant: the functors are run from a copy and the queue cleared later.   *)
SwapClearsLate ==
  /\ pc = "swap"
  /\ batch' = pending
  /\ pc' = "run"
  /\ UNCHANGED <<quit, woken, signalled, calling, pending, thread, queued, ran>>

SwapFunctors ==
  /\ pc = "swap"
  /\ batch' = pending
  /\ pending' = <<>>
  /\ pc' = "run"
  /\ UNCHANGED <<quit, woken, signalled, calling, thread, queued, ran>>

RunNext ==
  /\ pc = "run" /\ batch # <<>>
  /\ ran' = Head(batch)
  /\ batch' = Tail(batch)

(* Mutant: only other threads write to the eventfd.                        *)
RunFunctorSilent ==
  /\ RunNext
  /\ \/ Push
     \/ UNCHANGED <<pending, queued>>
  /\ UNCHANGED <<pc, quit, woken, signalled, calling, thread>>

(* A functor may queue another: its batch is closed already, so the loop   *)
(* wakes itself for the next poll.                                         *)
RunFunctor ==
  /\ RunNext
  /\ \/ Push /\ signalled' = (signalled \/ calling)
     \/ UNCHANGED <<pending, queued, signalled>>
  /\ UNCHANGED <<pc, quit, woken, calling, thread>>

(* A functor may also end the loop, which needs no wake-up.                *)
RunQuit ==
  /\ RunNext
  /\ quit' = TRUE
  /\ UNCHANGED <<pc, woken, signalled, calling, pending, thread, queued>>

(* Mutant: the eventfd is read once more when the functors are done.       *)
EndFunctorsReads ==
  /\ pc = "run" /\ batch = <<>>
  /\ signalled' = FALSE
  /\ calling' = FALSE
  /\ pc' = "check"
  /\ UNCHANGED <<quit, woken, pending, batch, thread, queued, ran>>

EndFunctors ==
  /\ pc = "run" /\ batch = <<>>
  /\ calling' = FALSE
  /\ pc' = "check"
  /\ UNCHANGED <<quit, woken, signalled, pending, batch, thread, queued, ran>>

LoopStep ==
  \/ StartLoop \/ CheckQuit \/ PollWoken
  \/ HandleEvents \/ SwapFunctors
  \/ RunFunctor \/ EndFunctors

Next ==
  \/ LoopStep
  \/ PollOther \/ QueueInCallback \/ RunQuit
  \/ \E t \in Threads : QueueInLoop(t) \/ Quit(t) \/ Wakeup(t)

Spec == Init /\ [][Next]_vars

(* The loop's thread runs, but no channel other than the eventfd need ever *)
(* become ready; a thread that has pushed goes on to wake the loop.        *)
FairSpec ==
  Spec /\ WF_vars(LoopStep) /\ \A t \in Threads : WF_vars(Wakeup(t))

-----------------------------------------------------------------------------
TypeOK ==
  /\ pc \in {"new", "check", "poll", "events", "swap", "run", "exited"}
  /\ quit \in BOOLEAN /\ woken \in BOOLEAN /\ signalled \in BOOLEAN
  /\ calling \in BOOLEAN
  /\ pending \in Seq(1 .. MaxFunctors) /\ batch \in Seq(1 .. MaxFunctors)
  /\ thread \in [Threads -> {"idle", "waking"}]
  /\ queued \in 0 .. MaxFunctors /\ ran \in 0 .. MaxFunctors

(* Functors run once each and in the order they were queued, whichever     *)
(* thread queued them (EventLoop::doPendingFunctors swaps the queue out):  *)
(* what has run, what is swapped out and what is pending are, in this      *)
(* order, all functors ever queued.                                        *)
InOrder ==
  /\ queued = ran + Len(batch) + Len(pending)
  /\ \A i \in 1 .. Len(batch) : batch[i] = ran + i
  /\ \A i \in 1 .. Len(pending) : pending[i] = ran + Len(batch) + i

(* The loop never blocks in poll over a functor, or over another thread's  *)
(* quit(), that no wake-up is on its way for (EventLoop::queueInLoop, quit *)
(* and wakeup): the eventfd is readable or the thread is about to write it.*)
NoLostWakeup ==
  pc = "poll" /\ (pending # <<>> \/ quit) =>
    signalled \/ \E t \in Threads : thread[t] = "waking"

(* A queued functor is run, without the help of poll's ten-second time-out *)
(* or of any other event, unless the loop ends first; quit() of a loop     *)
(* that has started ends it, wherever the loop is (EventLoop.cc:103-160).  *)
LoopServes ==
  /\ \A i \in 1 .. MaxFunctors : queued >= i ~> ran >= i \/ pc = "exited"
  /\ (quit /\ pc # "new") ~> pc = "exited"
=============================================================================
