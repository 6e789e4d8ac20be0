------------------------------ MODULE QtClient ------------------------------
(***************************************************************************)
(* qt-client: the main window of a logged-in user (MainWindow.cpp) over    *)
(* its connection (ChatClient.cpp), and as much of the server as it sees.  *)
(*                                                                         *)
(* A handler of the window calls others, and Qt's lists call handlers      *)
(* back, so the window is a record and a handler is an operator from a     *)
(* window to a window; an event is an action.  The requests a handler      *)
(* makes are collected in "out".                                           *)
(***************************************************************************)
EXTENDS Integers, Sequences, FiniteSets, SequencesExt

CONSTANTS Peers, Rooms, NoRoom,
          HistoryLimit,          \* ClientConfig::DEFAULT_HISTORY_LIMIT
          MaxTexts, MaxTime, MaxRoomRequests, MaxLocal   \* bounds: messages,
                                 \* by the user or to him, seconds, requests
                                 \* and keys; MaxLocal <= 9, see Before

VARIABLES
  window,
  qtRequests, qtReplies,   \* what is under way to and from the server
  store,                   \* the server's messages of each conversation
  joined,                  \* and the rooms it has the user in
  texts, asked, clock,     \* counters: messages written, room requests, time
  got                      \* <<conversation, text>>: what the user wrote and
                           \* what came to him

qtVars == <<window, qtRequests, qtReplies, store, joined, texts, asked, clock,
            got>>

Conversations == ({"private"} \X Peers) \cup ({"room"} \X Rooms)
None == <<"none", NoRoom>>

QtInit ==
  /\ window = [view |-> [c \in Conversations |->
                           [messages |-> <<>>, historyRequested |-> FALSE,
                            unread |-> 0]],
               recents |-> <<>>, selected |-> None, current |-> None,
               users |-> {}, rooms |-> <<>>, roomRow |-> NoRoom,
               creating |-> NoRoom, joining |-> NoRoom, leaving |-> NoRoom,
               sequence |-> 0, editable |-> FALSE, connected |-> TRUE,
               reentered |-> FALSE, out |-> <<[type |-> "users"]>>]
  /\ qtRequests = <<>> /\ qtReplies = <<>>
  /\ store = [c \in Conversations |-> <<>>] /\ joined = {}
  /\ texts = 0 /\ asked = 0 /\ clock = 1 /\ got = {}

-----------------------------------------------------------------------------
(* The lists.                                                              *)

(* QListWidget::takeItem, of the entry that is selected: Qt selects the    *)
(* one below it, or above the last, before the entry goes.                 *)
Neighbour(list, i) == IF i < Len(list) THEN list[i + 1] ELSE list[i - 1]

AddRoomIfMissing(w, r) ==
  IF r \in ToSet(w.rooms) THEN w ELSE [w EXCEPT !.rooms = Append(@, r)]

-----------------------------------------------------------------------------
(* Messages.                                                               *)

(* The sort of addMessageToConversation.  Keys compare as text: the        *)
(* numbers of the local ones as long as they have one digit.               *)
Before(m, n) ==
  \/ m.at < n.at
  \/ m.at = n.at /\ m.id < n.id
  \/ m.at = n.at /\ m.id = n.id /\ m.key[2] < n.key[2]

(* Mutant: a message that comes later is taken for a later one.            *)
InsertLast(messages, m) ==
  IF \E i \in DOMAIN messages : messages[i].key = m.key THEN messages
  ELSE Append(messages, m)

Insert(messages, m) ==
  IF \E i \in DOMAIN messages : messages[i].key = m.key THEN messages
  ELSE SelectSeq(messages, LAMBDA n : Before(n, m)) \o <<m>>
         \o SelectSeq(messages, LAMBDA n : Before(m, n))

(* The message with its dedupeKey: that of the database, or a local one.   *)
LocalKey(w) == <<"local", w.sequence + 1>>
Keyed(w, id, at, text) ==
  [id |-> id, at |-> at, text |-> text,
   key |-> IF id > 0 THEN <<"db", id>> ELSE LocalKey(w)]
CountKey(w, id) ==
  IF id > 0 THEN w ELSE [w EXCEPT !.sequence = @ + 1]

(* addMessageToConversation, in a conversation whose entry is at the top   *)
(* by then.                                                                *)
Deliver(w, c, m, markUnread) ==
  LET messages == Insert(w.view[c].messages, m)
  IN  [w EXCEPT !.view[c].messages = messages,
                !.view[c].unread = IF /\ markUnread /\ w.current # c
                                      /\ messages # w.view[c].messages
                                   THEN @ + 1 ELSE @]

(* appendSystemMessage and appendErrorMessage, in an open conversation     *)
(* whose entry is at the top.                                              *)
Note(w) ==
  LET m == Keyed(w, 0, clock, <<"note", w.sequence + 1>>)
  IN  Deliver(CountKey(w, 0), w.current, m, FALSE)

Forget(w) ==
  [w EXCEPT !.creating = NoRoom, !.joining = NoRoom, !.leaving = NoRoom]

-----------------------------------------------------------------------------
(* Conversations.                                                          *)

(* Mutant: every visit loads the history.                                  *)
HistoryNeededAlways(w, c) == TRUE

HistoryNeeded(w, c) == ~w.view[c].historyRequested

(* selectConversation, once its entry is at the top: the conversation is   *)
(* read, opened, shown in its list, and its history is loaded the first    *)
(* time.                                                                   *)
Opened(w, c) ==
  LET v == [w EXCEPT !.view[c].unread = 0, !.view[c].historyRequested = TRUE,
                     !.current = c, !.selected = c, !.editable = TRUE]
      u == IF c[1] = "room"
           THEN [AddRoomIfMissing(v, c[2]) EXCEPT !.roomRow = c[2]]
           ELSE [v EXCEPT !.users = @ \cup {c[2]}]
  IN  IF ~HistoryNeeded(w, c) THEN u
      ELSE IF w.connected
      THEN [u EXCEPT !.out = Append(@, [type |-> "history", c |-> c])]
      ELSE Forget(Note(u))

(* updateConversationListItem: the conversation's entry goes to the top.   *)
(* When it is the selected one, takeItem selects a neighbour before the    *)
(* entry goes and so calls selectRecentConversation, which opens that      *)
(* other conversation and moves its entry to the top in its turn.  With    *)
(* two entries the neighbour is there already.  With more, it is taken     *)
(* out while the first one is being removed; Qt forbids that, its list     *)
(* removes by row, and the model ends here.                                *)
Touch(w, c) ==
  IF c \notin ToSet(w.recents) THEN [w EXCEPT !.recents = <<c>> \o @]
  ELSE LET row == CHOOSE i \in DOMAIN w.recents : w.recents[i] = c
           ToTop(v) == [v EXCEPT !.recents = <<c>> \o RemoveAt(@, row)]
       IN  IF row = 1 THEN w
           ELSE IF w.selected # c THEN ToTop(w)
           ELSE IF Len(w.recents) > 2 THEN [w EXCEPT !.reentered = TRUE]
           ELSE ToTop(Opened(w, Neighbour(w.recents, row)))

SelectConversation(w, c) == Opened(Touch(w, c), c)

AddMessage(w, c, m, markUnread) == Deliver(Touch(w, c), c, m, markUnread)

(* The note that a window with an open conversation shows.                 *)
AppendNote(w) ==
  IF w.current = None THEN w
  ELSE AddMessage(CountKey(w, 0), w.current,
                  Keyed(w, 0, clock, <<"note", w.sequence + 1>>), FALSE)

(* showError and handleConnectionError                                     *)
ShowError(w) == Forget(AppendNote(w))

(* ChatClient::sendLine                                                    *)
SendLine(w, request) ==
  IF w.connected THEN [w EXCEPT !.out = Append(@, request)] ELSE ShowError(w)

(* removeRoom: if the room that goes is the one the list is at, the list   *)
(* goes to the next and opens it.                                          *)
RemoveRoom(w, r) ==
  IF r \notin ToSet(w.rooms) THEN w
  ELSE LET row == CHOOSE i \in DOMAIN w.rooms : w.rooms[i] = r
           next == <<"room", Neighbour(w.rooms, row)>>
           v == IF w.roomRow # r THEN w
                ELSE IF Len(w.rooms) = 1 THEN [w EXCEPT !.roomRow = NoRoom]
                ELSE SelectConversation(w, next)
           u == [v EXCEPT !.rooms = SelectSeq(@, LAMBDA x : x # r)]
       IN  IF u.current = <<"room", r>>
           THEN [u EXCEPT !.current = None, !.editable = FALSE] ELSE u

-----------------------------------------------------------------------------
(* The user.                                                               *)

Act(w) ==
  /\ ~window.reentered /\ w.sequence <= MaxLocal
  /\ qtRequests' = qtRequests \o w.out
  /\ window' = [w EXCEPT !.out = <<>>]
  /\ UNCHANGED <<qtReplies, store, joined, clock>>

(* A click on an entry: one that is selected already signals nothing.      *)
SelectPrivateChat(p) ==
  /\ p \in window.users /\ window.current # <<"private", p>>
  /\ Act(SelectConversation(window, <<"private", p>>))
  /\ UNCHANGED <<texts, asked, got>>

SelectRoomChat(r) ==
  /\ r \in ToSet(window.rooms) /\ window.current # <<"room", r>>
  /\ Act(SelectConversation(window, <<"room", r>>))
  /\ UNCHANGED <<texts, asked, got>>

SelectRecentConversation(c) ==
  /\ c \in ToSet(window.recents) /\ window.selected # c
  /\ Act(SelectConversation([window EXCEPT !.selected = c], c))
  /\ UNCHANGED <<texts, asked, got>>

SendCurrentMessage ==
  /\ texts < MaxTexts
  /\ window.editable /\ window.current # None
  /\ LET c == window.current
         text == <<"mine", texts + 1>>
         m == Keyed(window, 0, clock, text)
         w == SendLine(CountKey(window, 0),
                       [type |-> "message", c |-> c, text |-> text])
     IN  /\ Act(AddMessage(w, c, m, FALSE))
         /\ got' = got \cup {<<c, text>>}
  /\ texts' = texts + 1
  /\ UNCHANGED asked

(* createRoom, joinRoom, leaveRoom (of the room shown), refreshUsers.      *)
AskRoom(r) ==
  /\ asked < MaxRoomRequests /\ asked' = asked + 1
  /\ \/ Act(SendLine([window EXCEPT !.creating = r],
                     [type |-> "create", room |-> r]))
     \/ Act(SendLine([window EXCEPT !.joining = r],
                     [type |-> "join", room |-> r]))
     \/ /\ window.current = <<"room", r>>
        /\ Act(SendLine([window EXCEPT !.leaving = r],
                        [type |-> "leave", room |-> r]))
  /\ UNCHANGED <<texts, got>>

RefreshUsers ==
  /\ asked < MaxRoomRequests /\ asked' = asked + 1
  /\ Act(SendLine(window, [type |-> "users"]))
  /\ UNCHANGED <<texts, got>>

-----------------------------------------------------------------------------
(* What the server does, one request at a time.                            *)

Reply(r) == qtReplies' = Append(qtReplies, r)

Entry(c, i) == [id |-> i, at |-> store[c][i].at, text |-> store[c][i].text]

History(c) ==
  LET n == Len(store[c])
      first == IF n > HistoryLimit THEN n - HistoryLimit ELSE 0
  IN  [i \in 1..(n - first) |-> Entry(c, first + i)]

Serve ==
  /\ qtRequests # <<>> /\ qtRequests' = Tail(qtRequests)
  /\ LET r == Head(qtRequests) IN
     \/ /\ r.type = "users"
        /\ \E present \in SUBSET Peers :
             Reply([type |-> "users", users |-> present])
        /\ UNCHANGED <<store, joined>>
     \/ /\ r.type = "history"
        /\ Reply([type |-> "history", c |-> r.c, entries |-> History(r.c)])
        /\ UNCHANGED <<store, joined>>
     \/ /\ r.type = "message"
        /\ r.c[1] = "room" => r.c[2] \in joined
        /\ store' = [store EXCEPT ![r.c] =
                       Append(@, [at |-> clock, text |-> r.text])]
        /\ UNCHANGED <<qtReplies, joined>>   \* the window ignores the answer
     \/ /\ r.type \in {"create", "join"}
        /\ r.type = "join" => r.room \notin joined
        /\ Reply([type |-> r.type])
        /\ joined' = IF r.type = "join" THEN joined \cup {r.room} ELSE joined
        /\ UNCHANGED store
     \/ /\ r.type = "leave" /\ r.room \in joined
        /\ Reply([type |-> "leave"]) /\ joined' = joined \ {r.room}
        /\ UNCHANGED store
     \/ /\ r.type \in {"message", "create", "join", "leave"}
        /\ Reply([type |-> "error"])
        /\ UNCHANGED <<store, joined>>
  /\ UNCHANGED <<window, texts, asked, clock, got>>

(* Another user writes to the user, or to a room he is in.                 *)
OtherWrites(c) ==
  /\ texts < MaxTexts /\ texts' = texts + 1
  /\ c[1] = "room" => c[2] \in joined
  /\ store' = [store EXCEPT ![c] =
                 Append(@, [at |-> clock, text |-> <<"other", texts + 1>>])]
  /\ Reply([type |-> "live", c |-> c,
            entry |-> [id |-> Len(store[c]) + 1, at |-> clock,
                       text |-> <<"other", texts + 1>>]])
  /\ UNCHANGED <<window, qtRequests, joined, asked, clock, got>>

(* Time goes on; as long as nothing has a time, this makes no difference.  *)
Tick ==
  /\ clock < MaxTime /\ clock' = clock + 1
  /\ texts > 0 \/ window.sequence > 0
  /\ UNCHANGED <<window, qtRequests, qtReplies, store, joined, texts, asked,
                 got>>

-----------------------------------------------------------------------------
(* What the window does with it: ChatClient::handleObject.                 *)

(* mergePrivateHistory and mergeRoomHistory                                *)
Merge(w, c, entries) ==
  FoldLeft(LAMBDA v, e : AddMessage(v, c, Keyed(v, e.id, e.at, e.text), FALSE),
           w, entries)

(* showInfo                                                                *)
ShowInfo(w, type) ==
  CASE type = "create" /\ w.creating # NoRoom ->
         SendLine([w EXCEPT !.joining = w.creating, !.creating = NoRoom],
                  [type |-> "join", room |-> w.creating])
    [] type = "join" /\ w.joining # NoRoom ->
         AppendNote(SelectConversation(
           [AddRoomIfMissing(w, w.joining) EXCEPT !.joining = NoRoom],
           <<"room", w.joining>>))
    [] type = "leave" /\ w.leaving # NoRoom ->
         AppendNote([RemoveRoom(w, w.leaving) EXCEPT !.leaving = NoRoom])
    [] OTHER -> AppendNote(w)

(* handlePrivateMessage and handleRoomMessage                              *)
Live(w, c, e) ==
  LET v == IF c[1] = "room" THEN AddRoomIfMissing(w, c[2])
           ELSE [w EXCEPT !.users = @ \cup {c[2]}]
  IN  AddMessage(v, c, Keyed(v, e.id, e.at, e.text), TRUE)

(* updateUsers                                                             *)
UpdateUsers(w, present) ==
  [w EXCEPT !.users = present \cup
              (IF w.current[1] = "private" THEN {w.current[2]} ELSE {})]

Handle(w, r) ==
  CASE r.type = "users" -> UpdateUsers(w, r.users)
    [] r.type = "history" -> Merge(w, r.c, r.entries)
    [] r.type = "live" -> Live(w, r.c, r.entry)
    [] r.type = "error" -> ShowError(w)
    [] OTHER -> ShowInfo(w, r.type)

Receive ==
  /\ window.connected /\ qtReplies # <<>> /\ ~window.reentered
  /\ LET r == Head(qtReplies)
         w == Handle(window, r)
         entries == CASE r.type = "live" -> {r.entry}
                      [] r.type = "history" -> ToSet(r.entries)
                      [] OTHER -> {}
     IN  /\ w.sequence <= MaxLocal
         /\ qtRequests' = qtRequests \o w.out
         /\ window' = [w EXCEPT !.out = <<>>]
         /\ got' = got \cup {<<r.c, e.text>> : e \in entries}
  /\ qtReplies' = Tail(qtReplies)
  /\ UNCHANGED <<store, joined, texts, asked, clock>>

(* handleDisconnected: what was under way is lost.                         *)
HandleDisconnected ==
  /\ window.connected /\ ~window.reentered
  /\ LET w == AppendNote([window EXCEPT !.connected = FALSE,
                                        !.editable = FALSE])
     IN  w.sequence <= MaxLocal /\ window' = w
  /\ qtRequests' = <<>> /\ qtReplies' = <<>>
  /\ UNCHANGED <<store, joined, texts, asked, clock, got>>

QtNext ==
  \/ \E p \in Peers : SelectPrivateChat(p)
  \/ \E r \in Rooms : SelectRoomChat(r) \/ AskRoom(r)
  \/ \E c \in Conversations : SelectRecentConversation(c) \/ OtherWrites(c)
  \/ SendCurrentMessage \/ RefreshUsers
  \/ Serve \/ Tick \/ Receive \/ HandleDisconnected

QtSpec == QtInit /\ [][QtNext]_qtVars

-----------------------------------------------------------------------------
(* qt-client/README.md, Protocol Notes.  Whatever the order of live        *)
(* messages, histories and the user's own, each conversation shows every   *)
(* text that came for it or was written in it exactly once, in the order   *)
(* of time, and the conversation on display has nothing unread; unless     *)
(* the list of conversations was changed from within a change, see Touch.  *)
ShownOnce ==
  /\ window.current # None => window.view[window.current].unread = 0
  /\ \A c \in Conversations :
       LET messages == window.view[c].messages IN
       /\ \A i, j \in DOMAIN messages : i < j =>
            /\ messages[i].at <= messages[j].at
            /\ messages[i].text # messages[j].text
       /\ ~window.reentered => \A g \in got :
            g[1] = c => \E i \in DOMAIN messages : messages[i].text = g[2]
=============================================================================
