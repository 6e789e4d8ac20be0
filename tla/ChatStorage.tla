---------------------------- MODULE ChatStorage ----------------------------
(***************************************************************************)
(* server/ChatStorage: the table of messages.                              *)
(*                                                                         *)
(* The rows in the order of their ids, which SQLite draws one by one under *)
(* the mutex: a row's id is its index.  Private and room messages go       *)
(* through the same statements but for the conversation they carry.  A     *)
(* statement SQLite refuses changes nothing.                               *)
(***************************************************************************)
EXTENDS Integers, SequencesExt

CONSTANTS DefaultLimit, MaxLimit    \* kDefaultHistoryLimit, kMaxHistoryLimit

ASSUME LimitAssumption ==
  DefaultLimit \in Nat \ {0} /\ MaxLimit \in Nat /\ DefaultLimit <= MaxLimit

VARIABLE messages

Init == messages = <<>>

(* The two users of a private conversation in either order make one id.    *)
PrivateConversation(u, v) == [type |-> "private", id |-> {u, v}]

RoomConversation(r) == [type |-> "room", id |-> r]

Save(conversation, sender, createdAt, ok) ==
  messages' = IF ok
              THEN Append(messages, [conversation |-> conversation,
                                     sender |-> sender,
                                     createdAt |-> createdAt])
              ELSE messages

(* Mutant: no limit asked for means no rows.                               *)
SanitizeLimitZero(limit) == IF limit > MaxLimit THEN MaxLimit ELSE limit

SanitizeLimit(limit) ==
  IF limit <= 0 THEN DefaultLimit
  ELSE IF limit > MaxLimit THEN MaxLimit
  ELSE limit

(* ORDER BY created_at, id                                                 *)
Earlier(i, j) ==
  \/ messages[i].createdAt < messages[j].createdAt
  \/ messages[i].createdAt = messages[j].createdAt /\ i < j

(* Mutant: the second of the time asked for is included.                   *)
MatchingUpTo(conversation, before) ==
  {i \in DOMAIN messages : /\ messages[i].conversation = conversation
                           /\ before <= 0 \/ messages[i].createdAt <= before}

(* A time that is not positive stands for no time.                         *)
Matching(conversation, before) ==
  {i \in DOMAIN messages : /\ messages[i].conversation = conversation
                           /\ before <= 0 \/ messages[i].createdAt < before}

(* The ids of the last messages before a time.                             *)
HistoryIds(conversation, limit, before) ==
  LET rows == Matching(conversation, before) IN
  {i \in rows :
     Cardinality({j \in rows : Earlier(i, j)}) < SanitizeLimit(limit)}

(* The oldest first: how many are earlier makes a row's place in the page. *)
History(conversation, limit, before) ==
  LET ids == HistoryIds(conversation, limit, before)
      Place(i) == Cardinality({j \in ids : Earlier(j, i)}) + 1
  IN [k \in 1..Cardinality(ids) |-> CHOOSE i \in ids : Place(i) = k]
=============================================================================
