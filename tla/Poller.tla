------------------------------- MODULE Poller -------------------------------
(***************************************************************************)
(* The channels of an event loop and its poller: net/Channel.cc and the    *)
(* two pollers, EPollPoller.cc and PollPoller.cc, which are given the same *)
(* calls here.  The loop polls, then handles the active channels one by    *)
(* one, each with up to four callbacks; callbacks and functors enable,     *)
(* disable and remove channels.  Only one channel exists per descriptor.   *)
(***************************************************************************)
EXTENDS Integers, Sequences, FiniteSets

CONSTANT Fds       \* natural numbers

VARIABLES
  events,      \* events_ of the channel of a descriptor
  index,       \* EPollPoller's index_: "kNew", "kAdded" or "kDeleted"
  kernel,      \* epoll's interest list: {[fd, events]}
  slot,        \* PollPoller's index_: -1, or a position in pollfds, from 0
  pollfds,     \* sequence of [fd, events]
  channels,    \* channels_ of the pollers: the descriptors that are there
  active,      \* activeChannels_ that wait to be handled
  handled      \* the channel being handled, or none, and its callbacks

pollerVars == <<events, index, kernel, slot, pollfds, channels, active, handled>>

Nobody == [fd |-> -1, callbacks |-> <<>>]

PollerInit ==
  /\ events = [fd \in Fds |-> {}]
  /\ index = [fd \in Fds |-> "kNew"] /\ kernel = {}
  /\ slot = [fd \in Fds |-> -1] /\ pollfds = <<>>
  /\ channels = {} /\ active = {} /\ handled = Nobody

-----------------------------------------------------------------------------
(* epoll_ctl                                                               *)
Without(fd) == {entry \in kernel : entry.fd # fd}
CtlAdd(fd, es) == kernel' = kernel \cup {[fd |-> fd, events |-> es]}
CtlMod(fd, es) == kernel' = Without(fd) \cup {[fd |-> fd, events |-> es]}
CtlDel(fd) == kernel' = Without(fd)

(* EPollPoller::updateChannel                                              *)
EPollUpdate(fd, es) ==
  IF index[fd] # "kAdded"
  THEN CtlAdd(fd, es) /\ index' = [index EXCEPT ![fd] = "kAdded"]
  ELSE IF es = {}
  THEN CtlDel(fd) /\ index' = [index EXCEPT ![fd] = "kDeleted"]
  ELSE CtlMod(fd, es) /\ UNCHANGED index

(* EPollPoller::removeChannel                                              *)
EPollRemove(fd) ==
  /\ IF index[fd] = "kAdded" THEN CtlDel(fd) ELSE UNCHANGED kernel
  /\ index' = [index EXCEPT ![fd] = "kNew"]

-----------------------------------------------------------------------------
(* PollPoller::updateChannel: a channel without events keeps its slot, its *)
(* descriptor negative, so that poll ignores it.                           *)
PollUpdate(fd, es) ==
  LET entry == [fd |-> IF es = {} THEN -fd - 1 ELSE fd, events |-> es] IN
  IF slot[fd] < 0
  THEN /\ pollfds' = Append(pollfds, [fd |-> fd, events |-> es])
       /\ slot' = [slot EXCEPT ![fd] = Len(pollfds)]
  ELSE /\ pollfds' = [pollfds EXCEPT ![slot[fd] + 1] = entry]
       /\ UNCHANGED slot

Descriptor(n) == IF n < 0 THEN -n - 1 ELSE n

(* Mutant: the channel that is moved keeps its index.                      *)
PollRemoveForgets(fd) ==
  LET last == Len(pollfds)
      moved == [pollfds EXCEPT ![slot[fd] + 1] = pollfds[last]] IN
    /\ pollfds' = SubSeq(moved, 1, last - 1)
    /\ slot' = [slot EXCEPT ![fd] = -1]

(* PollPoller::removeChannel: the last entry takes the slot.  The code     *)
(* leaves the removed channel its index; here it is -1, that of a new      *)
(* channel, since a channel is removed only to be destroyed.               *)
PollRemove(fd) ==
  LET last == Len(pollfds)
      moved == [pollfds EXCEPT ![slot[fd] + 1] = pollfds[last]]
      atEnd == Descriptor(pollfds[last].fd) IN
    /\ pollfds' = SubSeq(moved, 1, last - 1)
    /\ slot' = [slot EXCEPT ![atEnd] = slot[fd], ![fd] = -1]

-----------------------------------------------------------------------------
(* enableReading to disableAll, then Channel::update.  No caller disables  *)
(* a channel that has no events.                                           *)
Update(fd, es) ==
  /\ es # {} \/ events[fd] # {}
  /\ events' = [events EXCEPT ![fd] = es]
  /\ channels' = channels \cup {fd}
  /\ EPollUpdate(fd, es) /\ PollUpdate(fd, es)
  /\ UNCHANGED <<active, handled>>

Kinds == {"read", "write"}
EnableReading(fd) == Update(fd, events[fd] \cup {"read"})
DisableReading(fd) == Update(fd, events[fd] \ {"read"})
EnableWriting(fd) == Update(fd, events[fd] \cup {"write"})
DisableWriting(fd) == Update(fd, events[fd] \ {"write"})
DisableAll(fd) == Update(fd, {})

(* Channel::remove and EventLoop::removeChannel, which asserts that a      *)
(* channel is removed by itself or while it is not active.                 *)
Remove(fd) ==
  /\ fd \in channels /\ events[fd] = {} /\ fd \notin active
  /\ channels' = channels \ {fd}
  /\ EPollRemove(fd) /\ PollRemove(fd)
  /\ UNCHANGED <<events, active, handled>>

-----------------------------------------------------------------------------
(* Channel::handleEventWithGuard: the callbacks for what poll returned, in *)
(* the order they are called.                                              *)
Callbacks(revents) ==
  LET If(condition, callback) == IF condition THEN <<callback>> ELSE <<>> IN
    If("hup" \in revents /\ "read" \notin revents, "close")
      \o If("err" \in revents, "error")
      \o If("read" \in revents, "read")
      \o If("write" \in revents, "write")

(* poll and fillActiveChannels: the watched descriptors that are ready.    *)
Poll ==
  /\ active = {} /\ handled = Nobody
  /\ active' \in SUBSET {entry.fd : entry \in kernel}
  /\ active' # {}
  /\ UNCHANGED <<events, index, kernel, slot, pollfds, channels, handled>>

(* EventLoop::loop, the next active channel.  What it was asked for when   *)
(* poll returned, and hang-ups and errors, may have happened.              *)
HandleEvent(fd) ==
  /\ fd \in active /\ handled = Nobody /\ active' = active \ {fd}
  /\ \E revents \in SUBSET (Kinds \cup {"hup", "err"}) :
       handled' = [fd |-> fd, callbacks |-> Callbacks(revents)]
  /\ UNCHANGED <<events, index, kernel, slot, pollfds, channels>>

(* A callback has returned; what it does to channels are steps of its own. *)
CallbackReturns ==
  /\ handled # Nobody
  /\ handled' = IF Len(handled.callbacks) <= 1 THEN Nobody
                ELSE [handled EXCEPT !.callbacks = Tail(@)]
  /\ UNCHANGED <<events, index, kernel, slot, pollfds, channels, active>>

PollerNext ==
  \/ \E fd \in Fds :
       \/ EnableReading(fd) \/ DisableReading(fd)
       \/ EnableWriting(fd) \/ DisableWriting(fd) \/ DisableAll(fd)
       \/ Remove(fd) \/ HandleEvent(fd)
  \/ Poll \/ CallbackReturns

-----------------------------------------------------------------------------
(* EPollPoller.cc:107-170, PollPoller.cc:75-140: in whatever order         *)
(* channels come, change and go, both pollers watch the same descriptors   *)
(* for the same events, those of the channels that want any; PollPoller    *)
(* finds every channel where its index says; and what waits to be handled  *)
(* is still there.                                                         *)
PollersAgree ==
  /\ kernel = {[fd |-> fd, events |-> events[fd]] :
                 fd \in {c \in channels : events[c] # {}}}
  /\ {pollfds[i] : i \in {j \in DOMAIN pollfds : pollfds[j].fd >= 0}} = kernel
  /\ Len(pollfds) = Cardinality(channels)
  /\ \A fd \in channels :
       /\ slot[fd] + 1 \in DOMAIN pollfds
       /\ Descriptor(pollfds[slot[fd] + 1].fd) = fd
  /\ active \subseteq channels
=============================================================================
