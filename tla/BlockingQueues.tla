--------------------------- MODULE BlockingQueues ---------------------------
(***************************************************************************)
(* muduo's queues between threads: base/BlockingQueue.h, which may grow,   *)
(* and base/BoundedBlockingQueue.h, over a boost::circular_buffer.  A      *)
(* critical section is one step; a thread that waits for a condition is    *)
(* notified, or wakes by itself, and goes back to the test of its loop,    *)
(* where others may have come before it.                                   *)
(***************************************************************************)
EXTENDS Integers, Sequences, FiniteSets

CONSTANTS Putters, Takers,
          capacity,   \* of the bounded queue
          MaxPuts     \* bound on the values of one putter

VARIABLES
  bounded,   \* which of the two queues it is
  items,     \* queue_
  putter,    \* [at: "idle", "put" (called), "notFull" (waits for it) or
             \*  "woken", left: values to put]
  taker,     \* "idle", "take", "notEmpty" (waits for it) or "woken"
  put,       \* the values in the order they were put
  taken      \* and in the order they were taken

queueVars == <<bounded, items, putter, taker, put, taken>>

QueueInit ==
  /\ bounded \in BOOLEAN /\ items = <<>>
  /\ putter = [p \in Putters |-> [at |-> "idle", left |-> MaxPuts]]
  /\ taker = [t \in Takers |-> "idle"] /\ put = <<>> /\ taken = <<>>

full == bounded /\ Len(items) = capacity

(* A full circular_buffer overwrites its first element.                    *)
PushBack(value) ==
  items' = Append(IF full THEN Tail(items) ELSE items, value)

NotifyNotEmpty ==
  LET waiting == {t \in Takers : taker[t] = "notEmpty"} IN
  IF waiting = {} THEN UNCHANGED taker
  ELSE \E t \in waiting : taker' = [taker EXCEPT ![t] = "woken"]

NotifyNotFull ==
  LET waiting == {p \in Putters : putter[p].at = "notFull"} IN
  IF ~bounded \/ waiting = {} THEN UNCHANGED putter
  ELSE \E p \in waiting : putter' = [putter EXCEPT ![p].at = "woken"]

-----------------------------------------------------------------------------
CallPut(p) ==
  /\ putter[p].at = "idle" /\ putter[p].left > 0
  /\ putter' = [putter EXCEPT ![p].at = "put"]
  /\ UNCHANGED <<bounded, items, taker, put, taken>>

(* Mutant: "if (queue_.full())", which a woken thread does not repeat.     *)
PutTestsOnce(p) ==
  /\ putter[p].at \in {"put", "woken"}
  /\ IF full /\ putter[p].at = "put"
     THEN /\ putter' = [putter EXCEPT ![p].at = "notFull"]
          /\ UNCHANGED <<items, put, taker>>
     ELSE /\ putter' = [putter EXCEPT ![p] = [at |-> "idle", left |-> @.left - 1]]
          /\ LET value == <<p, putter[p].left>> IN
             PushBack(value) /\ put' = Append(put, value)
          /\ NotifyNotEmpty
  /\ UNCHANGED <<bounded, taken>>

(* put                                                                     *)
Put(p) ==
  /\ putter[p].at \in {"put", "woken"}
  /\ IF full
     THEN /\ putter' = [putter EXCEPT ![p].at = "notFull"]
          /\ UNCHANGED <<items, put, taker>>
     ELSE /\ putter' = [putter EXCEPT ![p] = [at |-> "idle", left |-> @.left - 1]]
          /\ LET value == <<p, putter[p].left>> IN
             PushBack(value) /\ put' = Append(put, value)
          /\ NotifyNotEmpty
  /\ UNCHANGED <<bounded, taken>>

CallTake(t) ==
  /\ taker[t] = "idle" /\ taker' = [taker EXCEPT ![t] = "take"]
  /\ UNCHANGED <<bounded, items, putter, put, taken>>

(* take                                                                    *)
Take(t) ==
  /\ taker[t] \in {"take", "woken"}
  /\ IF items = <<>>
     THEN /\ taker' = [taker EXCEPT ![t] = "notEmpty"]
          /\ UNCHANGED <<items, taken, putter>>
     ELSE /\ taker' = [taker EXCEPT ![t] = "idle"]
          /\ taken' = Append(taken, Head(items)) /\ items' = Tail(items)
          /\ NotifyNotFull
  /\ UNCHANGED <<bounded, put>>

(* drain: of the queue that may grow only.                                 *)
Drain ==
  /\ ~bounded /\ items # <<>> /\ taken' = taken \o items /\ items' = <<>>
  /\ UNCHANGED <<bounded, putter, taker, put>>

(* Condition::wait may return by itself.                                   *)
QueueSpurious ==
  /\ \/ \E t \in Takers : taker[t] = "notEmpty"
          /\ taker' = [taker EXCEPT ![t] = "woken"] /\ UNCHANGED putter
     \/ \E p \in Putters : putter[p].at = "notFull"
          /\ putter' = [putter EXCEPT ![p].at = "woken"] /\ UNCHANGED taker
  /\ UNCHANGED <<bounded, items, put, taken>>

QueueNext ==
  \/ \E p \in Putters : CallPut(p) \/ Put(p)
  \/ \E t \in Takers : CallTake(t) \/ Take(t)
  \/ Drain
  \/ QueueSpurious

-----------------------------------------------------------------------------
(* BlockingQueue.h:31-69, BoundedBlockingQueue.h:30-66: nobody waits for   *)
(* what is there.  While a thread waits for a value, every value in the    *)
(* queue has a thread that is awake to take it; and likewise for room.     *)
NobodyWaitsInVain ==
  /\ (\E t \in Takers : taker[t] = "notEmpty") =>
       Len(items) <= Cardinality({t \in Takers : taker[t] \in {"take", "woken"}})
  /\ (\E p \in Putters : putter[p].at = "notFull") =>
       capacity - Len(items) <=
         Cardinality({p \in Putters : putter[p].at \in {"put", "woken"}})

(* The same lines: no value overwrites another, each is taken once and in  *)
(* the order they were put in.                                             *)
ValuesInOrder == put = taken \o items
=============================================================================
