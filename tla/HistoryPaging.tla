--------------------------- MODULE HistoryPaging ---------------------------
(***************************************************************************)
(* Reading a conversation backwards, page by page, while others write.     *)
(*                                                                         *)
(* A handler that sends a message reads the clock first (createdAt in      *)
(* ChatServer::sendPrivate and sendRoomMessage) and takes the storage's    *)
(* mutex later, so rows need not be stored in the order of their times.    *)
(* A reader asks for the latest page, then for what is before the oldest   *)
(* message of the page, until a page is empty.                             *)
(***************************************************************************)
EXTENDS ChatStorage

CONSTANTS Writers, Conversations,
          Limits,              \* the limits readers ask for
          LastSecond, MaxRows  \* bounds of the clock and of the table

ASSUME LimitsAssumption == Limits \subseteq Int

VARIABLES
  now,       \* the time in seconds
  stamp,     \* the time a writer's handler has read, 0 if none is running
  reader     \* what is read, how far, and which rows were there at first

vars == <<messages, now, stamp, reader>>

NotReading == [reading |-> FALSE, done |-> FALSE, conversation |-> "none",
               limit |-> 0, before |-> 0, got |-> {}, known |-> {}]

PagingInit ==
  /\ Init
  /\ now = 1
  /\ stamp = [w \in Writers |-> 0]
  /\ reader = NotReading

Tick ==
  /\ now < LastSecond
  /\ now' = now + 1
  /\ UNCHANGED <<messages, stamp, reader>>

ReadClock(w) ==
  /\ stamp[w] = 0 /\ Len(messages) < MaxRows
  /\ stamp' = [stamp EXCEPT ![w] = now]
  /\ UNCHANGED <<messages, now, reader>>

SaveMessage(w) ==
  /\ stamp[w] > 0 /\ Len(messages) < MaxRows
  /\ \E conversation \in Conversations, ok \in BOOLEAN :
       Save(conversation, w, stamp[w], ok)
  /\ stamp' = [stamp EXCEPT ![w] = 0]
  /\ UNCHANGED <<now, reader>>

StartReading(conversation, limit) ==
  /\ ~reader.reading
  /\ reader' = [NotReading EXCEPT
                  !.reading = TRUE, !.conversation = conversation,
                  !.limit = limit, !.known = Matching(conversation, 0)]
  /\ UNCHANGED <<messages, now, stamp>>

ReadPage ==
  /\ reader.reading /\ ~reader.done
  /\ LET page == History(reader.conversation, reader.limit, reader.before) IN
       reader' = IF page = <<>> THEN [reader EXCEPT !.done = TRUE]
                 ELSE [reader EXCEPT
                         !.got = @ \cup Range(page),
                         !.before = messages[Head(page)].createdAt]
  /\ UNCHANGED <<messages, now, stamp>>

Next ==
  \/ Tick \/ ReadPage
  \/ \E w \in Writers : ReadClock(w) \/ SaveMessage(w)
  \/ \E conversation \in Conversations, limit \in Limits :
       StartReading(conversation, limit)

Spec == PagingInit /\ [][Next]_vars

-----------------------------------------------------------------------------
(* A page holds only messages older than all that were read before it,     *)
(* whatever is stored meanwhile, late rows with an earlier time included:  *)
(* a client can put each page in front of what it has, and none repeats    *)
(* (created_at < ? with the order of the statement, ChatStorage.cc:236).   *)
PagesGoBack ==
  [][\A i \in reader'.got \ reader.got, j \in reader.got :
       Earlier(i, j)]_vars

(* What paging by time loses: when a reader has come to the end, it has    *)
(* every message that was there when it began, except that a page may end  *)
(* within a second, and then the next page (created_at < ?) skips the      *)
(* earlier ones of that second.  No limit, zero and limits out of range    *)
(* included, makes a reader stop early or lose any other message.          *)
LostOnlyWithinASecond ==
  reader.done =>
    \A i \in reader.known \ reader.got :
      \E j \in reader.got :
        messages[i].createdAt = messages[j].createdAt /\ i < j

(* ChatStorage.cc:16-30 and 217-297: reading back page by page neither     *)
(* repeats nor loses messages, except within a second.                     *)
PagingSound == []LostOnlyWithinASecond /\ PagesGoBack
=============================================================================
