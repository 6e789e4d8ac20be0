----------------------------- MODULE TimerQueue -----------------------------
(***************************************************************************)
(* The timers of an event loop: net/TimerQueue.cc, Timer.cc.  Timers are   *)
(* added and cancelled by the callbacks and functors of the loop, and by   *)
(* another thread, whose calls are queued.  A timer is an address and a    *)
(* sequence number: an address is used again once its timer is deleted.    *)
(***************************************************************************)
EXTENDS Integers, Sequences, FiniteSetsExt

CONSTANTS Addresses,
          MaxTimers, MaxTime, MaxDelay, MaxQueued   \* bounds

VARIABLES
  now,          \* the clock
  heap,         \* address -> the Timer that lives there, or None
  created,      \* the address of every timer made; s_numCreated_ is its length
  status,       \* of every timer made: "created", "waiting", "cancelled", "done"
  timers,       \* timers_: {<<expiration, address>>}
  activeTimers, \* {<<address, sequence>>}
  cancelingTimers,
  handling,     \* handleRead: callingExpiredTimers_, its time, the entries
                \* that expired and those not called back yet
  armed,        \* when the timerfd becomes readable, or Never
  queued        \* addTimerInLoop and cancelInLoop calls of the other thread

timerVars == <<now, heap, created, status, timers, activeTimers, cancelingTimers,
               handling, armed, queued>>

None == [sequence |-> 0, expiration |-> 0, interval |-> 0]
Never == MaxTime + MaxDelay + 1
Idle == [calling |-> FALSE, at |-> 0, expired |-> {}, left |-> {}]

TimerInit ==
  /\ now = 0 /\ heap = [a \in Addresses |-> None]
  /\ created = <<>> /\ status = <<>>
  /\ timers = {} /\ activeTimers = {} /\ cancelingTimers = {}
  /\ handling = Idle /\ armed = Never /\ queued = <<>>

EarliestOf(entries) == Min({e[1] : e \in entries})

Becomes(timer, s) == [status EXCEPT ![timer.sequence] = s]

-----------------------------------------------------------------------------
(* addTimer makes the timer; the loop inserts it.                          *)
NewTimer(delay, interval) ==
  [sequence |-> Len(status) + 1, expiration |-> now + delay,
   interval |-> interval]

(* addTimerInLoop and insert: the timerfd is armed again when there is a   *)
(* new earliest expiration.                                                *)
AddTimerInLoop(a, timer) ==
  /\ timers' = timers \cup {<<timer.expiration, a>>}
  /\ activeTimers' = activeTimers \cup {<<a, timer.sequence>>}
  /\ armed' = IF timers = {} \/ timer.expiration < EarliestOf(timers)
              THEN timer.expiration ELSE armed

(* Mutant: a timer is known by its address only.                           *)
CancelInLoopByAddress(id) ==
  LET found == {t \in activeTimers : t[1] = id[1]} IN
  /\ status' = IF status[id[2]] = "waiting"
               THEN [status EXCEPT ![id[2]] = "cancelled"] ELSE status
  /\ IF found # {}
     THEN /\ timers' = timers \ {<<heap[id[1]].expiration, id[1]>>}
          /\ activeTimers' = activeTimers \ found
          /\ heap' = [heap EXCEPT ![id[1]] = None]
          /\ UNCHANGED cancelingTimers
     ELSE /\ cancelingTimers' = IF handling.calling
                                THEN cancelingTimers \cup {id}
                                ELSE cancelingTimers
          /\ UNCHANGED <<timers, activeTimers, heap>>

(* cancelInLoop: a timer that is being called back is only remembered; one *)
(* that is not there, or not there yet, is nothing to cancel.              *)
CancelInLoop(id) ==
  /\ status' = IF status[id[2]] = "waiting"
               THEN [status EXCEPT ![id[2]] = "cancelled"] ELSE status
  /\ IF id \in activeTimers
     THEN /\ timers' = timers \ {<<heap[id[1]].expiration, id[1]>>}
          /\ activeTimers' = activeTimers \ {id}
          /\ heap' = [heap EXCEPT ![id[1]] = None]
          /\ UNCHANGED cancelingTimers
     ELSE /\ cancelingTimers' = IF handling.calling
                                THEN cancelingTimers \cup {id}
                                ELSE cancelingTimers
          /\ UNCHANGED <<timers, activeTimers, heap>>

-----------------------------------------------------------------------------
Delays == 0..MaxDelay
Intervals == {0, MaxDelay}      \* 0: the timer does not repeat

(* Every TimerId that was returned, whatever became of its timer.          *)
Ids == {<<created[s], s>> : s \in DOMAIN created}

(* addTimer and cancel on the loop thread, in a callback or a functor      *)
AddTimer ==
  \E a \in Addresses, delay \in Delays, interval \in Intervals :
    LET timer == NewTimer(delay, interval) IN
    /\ heap[a] = None /\ Len(status) < MaxTimers
    /\ heap' = [heap EXCEPT ![a] = timer]
    /\ created' = Append(created, a) /\ status' = Append(status, "waiting")
    /\ AddTimerInLoop(a, timer)
    /\ UNCHANGED <<now, cancelingTimers, handling, queued>>

Cancel ==
  \E id \in Ids : CancelInLoop(id) /\ UNCHANGED <<now, created, handling, armed, queued>>

(* The same on the other thread                                            *)
QueueAddTimer ==
  \E a \in Addresses, delay \in Delays, interval \in Intervals :
    /\ heap[a] = None /\ Len(status) < MaxTimers /\ Len(queued) < MaxQueued
    /\ heap' = [heap EXCEPT ![a] = NewTimer(delay, interval)]
    /\ created' = Append(created, a) /\ status' = Append(status, "created")
    /\ queued' = Append(queued, <<"add", a>>)
    /\ UNCHANGED <<now, timers, activeTimers, cancelingTimers, handling, armed>>

QueueCancel ==
  /\ Len(queued) < MaxQueued
  /\ \E id \in Ids : queued' = Append(queued, <<"cancel", id>>)
  /\ UNCHANGED <<now, heap, created, status, timers, activeTimers,
                 cancelingTimers, handling, armed>>

RunQueued ==
  /\ ~handling.calling /\ queued # <<>> /\ queued' = Tail(queued)
  /\ LET call == Head(queued) IN
       \/ /\ call[1] = "add" /\ AddTimerInLoop(call[2], heap[call[2]])
          /\ status' = Becomes(heap[call[2]], "waiting")
          /\ UNCHANGED <<heap, cancelingTimers>>
       \/ call[1] = "cancel" /\ CancelInLoop(call[2]) /\ UNCHANGED armed
  /\ UNCHANGED <<now, created, handling>>

-----------------------------------------------------------------------------
(* handleRead up to the callbacks, with getExpired                         *)
HandleRead ==
  /\ ~handling.calling /\ armed <= now /\ armed' = Never
  /\ LET expired == {e \in timers : e[1] <= now} IN
       /\ handling' = [calling |-> TRUE, at |-> now, expired |-> expired,
                       left |-> expired]
       /\ timers' = timers \ expired
       /\ activeTimers' = activeTimers \
                            {<<e[2], heap[e[2]].sequence>> : e \in expired}
  /\ cancelingTimers' = {}
  /\ UNCHANGED <<now, heap, created, status, queued>>

(* Timer::run; what the callback adds and cancels are steps of their own.  *)
RunCallback ==
  \E e \in handling.left :
    /\ e[1] = EarliestOf(handling.left)
    /\ handling' = [handling EXCEPT !.left = @ \ {e}]
    /\ LET timer == heap[e[2]] IN
         status' = IF timer.interval = 0 /\ status[timer.sequence] = "waiting"
                   THEN Becomes(timer, "done") ELSE status
    /\ UNCHANGED <<now, heap, created, timers, activeTimers, cancelingTimers,
                   armed, queued>>

(* reset: Timer::restart for those that repeat and were not cancelled      *)
Reset ==
  LET Again(e) == /\ heap[e[2]].interval > 0
                  /\ <<e[2], heap[e[2]].sequence>> \notin cancelingTimers
      again == {e[2] : e \in {x \in handling.expired : Again(x)}}
      over == {e[2] : e \in handling.expired} \ again IN
  /\ handling.calling /\ handling.left = {} /\ handling' = Idle
  /\ heap' = [a \in Addresses |->
                IF a \in over THEN None
                ELSE IF a \in again
                THEN [heap[a] EXCEPT !.expiration = handling.at + heap[a].interval]
                ELSE heap[a]]
  /\ timers' = timers \cup {<<heap'[a].expiration, a>> : a \in again}
  /\ activeTimers' = activeTimers \cup {<<a, heap[a].sequence>> : a \in again}
  /\ armed' = IF timers' = {} THEN armed ELSE EarliestOf(timers')
  /\ UNCHANGED <<now, created, status, cancelingTimers, queued>>

Tick ==
  /\ now < MaxTime /\ now' = now + 1
  /\ UNCHANGED <<heap, created, status, timers, activeTimers, cancelingTimers,
                 handling, armed, queued>>

TimerNext ==
  \/ AddTimer \/ Cancel \/ QueueAddTimer \/ QueueCancel \/ RunQueued
  \/ HandleRead \/ RunCallback \/ Reset \/ Tick

-----------------------------------------------------------------------------
(* TimerQueue.cc:132-259: whatever callbacks add and cancel, themselves    *)
(* included, and whichever address is used again, the two sets hold the    *)
(* same timers, all alive: those that were added, were not cancelled and   *)
(* have not run out; and the timerfd fires in time for the first of them.  *)
TimersExact ==
  /\ timers = {<<heap[t[1]].expiration, t[1]>> : t \in activeTimers}
  /\ \A t \in activeTimers : heap[t[1]].sequence = t[2]
  /\ \A e \in handling.expired : heap[e[2]] # None
  /\ \A t \in activeTimers : status[t[2]] = "waiting"
  /\ ~handling.calling =>
       /\ \A s \in DOMAIN status :
            status[s] = "waiting" => \E a \in Addresses : <<a, s>> \in activeTimers
       /\ timers # {} => armed <= EarliestOf(timers)
=============================================================================
