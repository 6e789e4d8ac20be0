---------------------------- MODULE ChatMessages ---------------------------
(***************************************************************************)
(* Private and room messages, from one page of the web client to another:  *)
(* ChatServer's handlers over the storage, the live events they send, and  *)
(* the conversations web-client/app.js builds from events and history.     *)
(*                                                                         *)
(* Connections, sessions, rooms and their handlers are those of ChatServer *)
(* without the calls.  A page logs in on one connection and keeps it until *)
(* it closes: the web client sends no logout.  Every connection is on a    *)
(* loop of its own, so what a handler sends to another connection is       *)
(* queued for that connection's loop, which takes it between handlers.     *)
(***************************************************************************)
EXTENDS ChatServer, Naturals, Sequences, FiniteSets

CONSTANTS DefaultLimit, MaxLimit,   \* of a history request
          MaxMessages               \* bound on the messages saved

ASSUME HistoryAssumption == DefaultLimit \in Nat \ {0} /\ MaxLimit \in Nat

VARIABLES
  messages,    \* ChatStorage
  job,         \* the message a handler is sending, and how far it has come
  queue,       \* events queued for a connection's loop
  requested,   \* the conversations whose history the page has asked for
  shown,       \* the messages on the page, by dedupeKey
  audience     \* whom each saved message was meant for when it was sent

ST == INSTANCE ChatStorage

serverVars == <<online, roomVars, callVars, link, session, view>>
allVars == <<serverVars, handler, messages, job, queue, requested, shown,
             audience>>

NoJob == [at |-> "none", conversation |-> NoCall, users |-> {}, id |-> 0,
          dest |-> {}]

MessagesInit ==
  /\ Init /\ ST!Init
  /\ job = [c \in Conns |-> NoJob]
  /\ queue = [c \in Conns |-> <<>>]
  /\ requested = [c \in Conns |-> {}]
  /\ shown = [c \in Conns |-> {}]
  /\ audience = <<>>

(* The steps of ChatServer that a page without calls takes part in.        *)
ServerStep ==
  /\ \E c \in Conns :
       \/ Connect(c) \/ Disconnect(c)
       \/ RoomRequest(c) \/ Continue(c)
       \/ \E u \in Users : Login(c, u)
  /\ UNCHANGED <<messages, job, queue, requested, shown, audience>>

-----------------------------------------------------------------------------
(* Sending.                                                                *)

StartJob(c, conversation, users) ==
  /\ handler' = [handler EXCEPT ![c].at = "message"]
  /\ job' = [job EXCEPT ![c] =
                [at |-> "save", conversation |-> conversation,
                 users |-> users, id |-> 0, dest |-> {}]]

FinishJob(c) ==
  /\ Return(c)
  /\ job' = [job EXCEPT ![c] = NoJob]

JobAt(c, step) == At(c, "message") /\ job[c].at = step

(* The bound on the messages counts those about to be saved.               *)
MayAddMessage ==
  Len(messages) + Cardinality({c \in Conns : JobAt(c, "save")}) < MaxMessages

(* A page sends to the conversation it shows: its history was asked for    *)
(* when it was selected.                                                   *)
SendPrivate(c, target) ==
  /\ Request(c)
  /\ MayAddMessage
  /\ ST!PrivateConversation(session[c], target) \in requested[c]
  /\ StartJob(c, ST!PrivateConversation(session[c], target), {target})
  /\ UNCHANGED <<serverVars, messages, queue, requested, shown, audience>>

(* A sender who is not in the room gets an error.                          *)
SendRoomMessage(c, r) ==
  /\ Request(c)
  /\ MayAddMessage
  /\ ST!RoomConversation(r) \in requested[c]
  /\ RM!MemberResult(r, session[c]) = "ok"
  /\ StartJob(c, ST!RoomConversation(r), rooms[r])
  /\ UNCHANGED <<serverVars, messages, queue, requested, shown, audience>>

(* The page has put its own message into the conversation when it sent it, *)
(* under a local key.                                                      *)
SaveMessage(c) ==
  /\ JobAt(c, "save")
  /\ \E ok \in BOOLEAN :
       /\ ST!Save(job[c].conversation, session[c], 0, ok)
       /\ IF ok
          THEN LET id == Len(messages') IN
               /\ job' = [job EXCEPT ![c] = [@ EXCEPT !.at = "find", !.id = id]]
               /\ shown' = [shown EXCEPT ![c] = @ \cup {<<"local", id>>}]
               /\ audience' = Append(audience, job[c].users \cup {session[c]})
               /\ UNCHANGED handler
          ELSE FinishJob(c) /\ UNCHANGED <<shown, audience>>
  /\ UNCHANGED <<serverVars, queue, requested>>

(* find for a private message, findMany for a room.                        *)
FindReceivers(c) ==
  /\ JobAt(c, "find")
  /\ LET dest == UNION {UM!Find(u) : u \in job[c].users} IN
       IF dest = {} THEN FinishJob(c)
       ELSE /\ job' = [job EXCEPT ![c] =
                          [@ EXCEPT !.at = "send", !.dest = dest]]
            /\ UNCHANGED handler
  /\ UNCHANGED <<serverVars, messages, queue, requested, shown, audience>>

(* Mutant: the loop over the receivers stops after the first.              *)
SendToFirst(c) ==
  /\ JobAt(c, "send")
  /\ \E d \in job[c].dest :
       queue' = [queue EXCEPT ![d] = IF link[d] = "up"
                                     THEN Append(@, job[c].id) ELSE @]
  /\ FinishJob(c)
  /\ UNCHANGED <<serverVars, messages, requested, shown, audience>>

(* One receiver after the other, in some order; send to a connection that  *)
(* is down does nothing.                                                   *)
SendToReceiver(c) ==
  /\ JobAt(c, "send")
  /\ \E d \in job[c].dest :
       /\ queue' = [queue EXCEPT ![d] = IF link[d] = "up"
                                        THEN Append(@, job[c].id) ELSE @]
       /\ IF job[c].dest = {d} THEN FinishJob(c)
          ELSE /\ job' = [job EXCEPT ![c].dest = @ \ {d}]
               /\ UNCHANGED handler
  /\ UNCHANGED <<serverVars, messages, requested, shown, audience>>

-----------------------------------------------------------------------------
(* Receiving.                                                              *)

(* Mutant: the page also adds the events of its own room messages.         *)
ReceiveOwn(c) ==
  /\ queue[c] # <<>> /\ At(c, "idle")
  /\ queue' = [queue EXCEPT ![c] = Tail(@)]
  /\ shown' = IF link[c] = "up"
              THEN [shown EXCEPT ![c] = @ \cup {<<"db", Head(queue[c])>>}]
              ELSE shown
  /\ UNCHANGED <<serverVars, handler, messages, job, requested, audience>>

(* The loop writes a queued event to the socket, and the page adds it      *)
(* under the key of its id, unless it is there.  The event of the page's   *)
(* own room message is ignored.                                            *)
Receive(c) ==
  /\ queue[c] # <<>> /\ At(c, "idle")
  /\ queue' = [queue EXCEPT ![c] = Tail(@)]
  /\ LET id == Head(queue[c])
         own == /\ messages[id].conversation.type = "room"
                /\ messages[id].sender = session[c]
     IN shown' = IF link[c] = "up" /\ ~own
                 THEN [shown EXCEPT ![c] = @ \cup {<<"db", id>>}] ELSE shown
  /\ UNCHANGED <<serverVars, handler, messages, job, requested, audience>>

(* The first time a conversation is selected the page asks for its         *)
(* history; the answer is written at once, the request being handled on    *)
(* the connection's own loop.                                              *)
LoadHistory(c, conversation) ==
  /\ Request(c) /\ conversation \notin requested[c]
  /\ requested' = [requested EXCEPT ![c] = @ \cup {conversation}]
  /\ shown' = [shown EXCEPT ![c] =
                 @ \cup {<<"db", id>> :
                           id \in ST!HistoryIds(conversation, 0, 0)}]
  /\ UNCHANGED <<serverVars, handler, messages, job, queue, audience>>

(* Other users are selected from the list of users, rooms once joined.     *)
Selectable(c) ==
  {ST!PrivateConversation(session[c], v) : v \in Users \ {session[c]}}
    \cup {ST!RoomConversation(r) :
            r \in {r \in DOMAIN rooms : session[c] \in rooms[r]}}

MessageStep(c) ==
  \/ \E u \in Users : SendPrivate(c, u)
  \/ \E r \in Rooms : SendRoomMessage(c, r)
  \/ SaveMessage(c) \/ FindReceivers(c) \/ SendToReceiver(c)
  \/ Receive(c)
  \/ Request(c) /\ \E conversation \in Selectable(c) :
                     LoadHistory(c, conversation)

MessagesNext == ServerStep \/ \E c \in Conns : MessageStep(c)

MessagesSpec == MessagesInit /\ [][MessagesNext]_allVars

-----------------------------------------------------------------------------
Settled == Quiet /\ \A c \in Conns : queue[c] = <<>>

(* The page shows a conversation from the history's first message on: what *)
(* is further back it has not loaded.                                      *)
NewerMessages(i) ==
  {j \in DOMAIN messages :
     i < j /\ messages[j].conversation = messages[i].conversation}

(* A page whose user a message was meant for, and which has loaded the     *)
(* conversation, shows the message, unless a history's worth of newer      *)
(* messages have followed: nothing falls between the history and the live  *)
(* events, whether the user was online, logged in meanwhile, or came back  *)
(* on another connection (save before find, ChatServer.cc:412 and 423, and *)
(* 528 and 548).  A room message is meant for who is in the room when its  *)
(* handler begins (membersForMessage, line 520); a user who joins and      *)
(* loads the history before it is saved does not get it.                   *)
NothingMissed ==
  Settled =>
    \A c \in Conns, i \in DOMAIN messages :
      /\ link[c] = "up"
      /\ messages[i].conversation \in requested[c]
      /\ session[c] \in audience[i]
      => \/ {<<"local", i>>, <<"db", i>>} \cap shown[c] # {}
         \/ Cardinality(NewerMessages(i)) >= DefaultLimit

(* No page shows a message twice: not as a live event and from the history *)
(* (dedupeKey, app.js:401-408), and not a message of its own that comes    *)
(* back from the server under another key (the room event sent to all      *)
(* members, ChatServer.cc:547-558, or the history).                        *)
NothingTwice ==
  \A c \in Conns, i \in DOMAIN messages :
    ~ {<<"local", i>>, <<"db", i>>} \subseteq shown[c]
=============================================================================
