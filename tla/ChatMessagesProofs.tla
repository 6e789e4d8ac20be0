------------------------- MODULE ChatMessagesProofs -------------------------
(***************************************************************************)
(* The handlers of the server, however they interleave over the managers,  *)
(* and messages over them: what a page shows of a conversation.            *)
(***************************************************************************)
EXTENDS ChatMessages, SequenceTheorems, FiniteSetTheorems, TLAPS

CMP == INSTANCE CallManagerProofs
RMP == INSTANCE RoomManagerProofs

(* A handler at one of these has a call's id and its other user.           *)
CallLabels == {"find_peer", "tell_peer", "start_call", "refind", "cancel_call",
               "send_invite", "find_partner", "hang_up", "find_ended",
               "send_end"}

(* A handler that has ended its user's call and logs the user out.         *)
LeaveLabels == {"find_peer", "tell_peer", "leave_rooms", "leave_server"}

Step(c) ==
  Connection(c) \/ RoomRequest(c) \/ CallRequest(c) \/ Continue(c)

(* The types of the variables that are not the managers' maps.             *)
OwnTypes ==
  /\ Range(online) \subseteq Conns
  /\ DOMAIN online \subseteq Users
  /\ link \in [Conns -> {"new", "up", "down"}]
  /\ session \in [Conns -> Users \cup {NoUser}]
  /\ handler \in [Conns -> [at : Labels, user : Users \cup {NoUser},
                            id : CallIds \cup {NoCall}, dest : SUBSET Conns]]
  /\ view \in [Conns -> [CallIds -> Views]]

HandlersSound ==
  \A c \in Conns :
    /\ handler[c].at = "idle" => handler[c] = Idle
    /\ handler[c].at = "set_username" =>
         session[c] = NoUser /\ handler[c].user \in Users
    /\ handler[c].at \notin {"idle", "set_username"} => session[c] \in Users
    /\ handler[c].at \in CallLabels =>
         /\ handler[c].id \in CallIds
         /\ handler[c].user \in Users /\ handler[c].user # session[c]

(* Nothing runs on a connection that is not there yet.                     *)
NewIdle ==
  \A c \in Conns : link[c] = "new" => session[c] = NoUser /\ At(c, "idle")

CallInv == CM!TypeOK /\ CM!MapsAgree

-----------------------------------------------------------------------------
(* What the operators of a handler's control do.                           *)

Changed(c, at, user, id, dest) ==
  /\ handler'[c] = [at |-> at, user |-> user, id |-> id, dest |-> dest]
  /\ \A d \in Conns \ {c} : handler'[d] = handler[d]
  /\ handler' = [d \in Conns |-> handler'[d]]

(* Goto, Start and Return change the handler of one connection.            *)
LEMMA HandlerChanges ==
  ASSUME OwnTypes, NEW c \in Conns
  PROVE  /\ \A label :
              Goto(c, label) =>
                Changed(c, label, handler[c].user, handler[c].id,
                        handler[c].dest)
         /\ \A label, user, id :
              Start(c, label, user, id) => Changed(c, label, user, id, {})
         /\ Return(c) => Changed(c, "idle", NoUser, NoCall, {})
<1>1. /\ handler = [d \in Conns |-> handler[d]]
      /\ handler[c] = [at |-> handler[c].at, user |-> handler[c].user,
                       id |-> handler[c].id, dest |-> handler[c].dest]
  BY DEF OwnTypes
<1>2. ASSUME NEW label, Goto(c, label)
      PROVE  Changed(c, label, handler[c].user, handler[c].id, handler[c].dest)
  BY <1>1, <1>2 DEF Goto, Changed
<1>3. ASSUME NEW label, NEW user, NEW id, Start(c, label, user, id)
      PROVE  Changed(c, label, user, id, {})
  BY <1>1, <1>3 DEF Start, Changed
<1>4. Return(c) => Changed(c, "idle", NoUser, NoCall, {})
  BY <1>1 DEF Return, Idle, Changed
<1> QED
  BY <1>2, <1>3, <1>4

(* A handler that has found a user holds the user's one connection.        *)
Found(c, label) ==
  /\ handler[c].user \in DOMAIN online
  /\ online[handler[c].user] \in Conns
  /\ Changed(c, label, handler[c].user, handler[c].id,
             {online[handler[c].user]})

(* A look-up of connections only notes what it found.                      *)
LEMMA FindChanges ==
  ASSUME OwnTypes, NEW c \in Conns, NEW label,
         handler[c].user \in DOMAIN online,
         handler' = [handler EXCEPT ![c].dest = UM!Find(handler[c].user),
                                    ![c].at = label]
  PROVE  Found(c, label)
<1>1. /\ handler = [d \in Conns |-> handler[d]]
      /\ handler[c] = [at |-> handler[c].at, user |-> handler[c].user,
                       id |-> handler[c].id, dest |-> handler[c].dest]
  BY DEF OwnTypes
<1>2. UM!Find(handler[c].user) = {online[handler[c].user]}
  BY DEF UM!Find
<1>3. online[handler[c].user] \in Conns
  BY DEF OwnTypes, Range
<1>4. Changed(c, label, handler[c].user, handler[c].id,
              {online[handler[c].user]})
  BY <1>1, <1>2 DEF Changed
<1> QED
  BY <1>3, <1>4 DEF Found

(* What the look-up of the other user does to the handler.                 *)
LEMMA FindsOrNot ==
  ASSUME OwnTypes, NEW c \in Conns
  PROVE  /\ FindPeer(c) => \/ Found(c, "tell_peer")
                           \/ /\ handler[c].user \notin DOMAIN online
                              /\ Goto(c, "leave_rooms")
         /\ Refind(c) => \/ Found(c, "send_invite")
                         \/ /\ handler[c].user \notin DOMAIN online
                            /\ Goto(c, "cancel_call")
         /\ FindEnded(c) => \/ Found(c, "send_end")
                            \/ /\ handler[c].user \notin DOMAIN online
                               /\ Return(c)
         /\ FindPartner(c) => \/ Return(c)
                              \/ /\ handler[c].user \notin DOMAIN online
                                 /\ Goto(c, "hang_up")
<1>1. CASE handler[c].user \in DOMAIN online
  <2>1. UM!Find(handler[c].user) # {}
    BY <1>1 DEF UM!Find
  <2> QED
    BY <1>1, <2>1, FindChanges
       DEF FindPeer, Refind, FindEnded, FindPartner, FindThen
<1>2. CASE handler[c].user \notin DOMAIN online
  <2>1. UM!Find(handler[c].user) = {}
    BY <1>2 DEF UM!Find
  <2> QED
    BY <1>2, <2>1 DEF FindPeer, Refind, FindEnded, FindPartner, FindThen
<1> QED
  BY <1>1, <1>2

(* A client that is up and does not know the call to be over hears it.     *)
LEMMA TellChanges ==
  ASSUME OwnTypes, NEW dest, NEW id \in CallIds, NEW news \in Views,
         Tell(dest, id, news)
  PROVE  /\ view' \in [Conns -> [CallIds -> Views]]
         /\ \A d \in Conns, i \in CallIds :
              i # id \/ d \notin dest => view'[d][i] = view[d][i]
         /\ \A d \in Conns :
              \/ view'[d][id] = view[d][id]
              \/ view'[d][id] = news /\ d \in dest
         /\ \A d \in Conns :
              d \in dest /\ link[d] = "up" =>
                view'[d][id] \in {news, "over"}
<1>1. \A d \in Conns :
        view'[d] = IF d \in dest /\ link[d] = "up" /\ view[d][id] # "over"
                   THEN [view[d] EXCEPT ![id] = news] ELSE view[d]
  BY DEF Tell
<1>2. \A d \in Conns : view[d] \in [CallIds -> Views]
  BY DEF OwnTypes
<1>3. view' \in [Conns -> [CallIds -> Views]]
  BY <1>2 DEF Tell
<1> QED
  BY <1>1, <1>2, <1>3

-----------------------------------------------------------------------------
(* The control of a handler, whatever it does to the managers' maps: how   *)
(* a step changes its label, the session and the users online.             *)

Rests(c) == UNCHANGED <<online, session, handler>>

LogsIn(c) ==
  /\ handler[c].at = "idle" /\ session[c] = NoUser /\ UNCHANGED session
  /\ \E u \in Users :
       /\ u \notin DOMAIN online
       /\ online' = UM!Put(online, u, c)
       /\ Changed(c, "set_username", u, NoCall, {})

Names(c) ==
  /\ handler[c].at = "set_username" /\ UNCHANGED online
  /\ session' = [session EXCEPT ![c] = handler[c].user]
  /\ Changed(c, "idle", NoUser, NoCall, {})

GoesOffline(c) ==
  /\ handler[c].at = "leave_server" /\ UNCHANGED session
  /\ UM!Logout(session[c], c)
  /\ Changed(c, "clear_username", handler[c].user, handler[c].id,
             handler[c].dest)

Forgets(c) ==
  /\ handler[c].at = "clear_username" /\ UNCHANGED online
  /\ session' = [session EXCEPT ![c] = NoUser]
  /\ Changed(c, "idle", NoUser, NoCall, {})

Leaves(c) ==
  /\ handler[c].at = "idle" /\ session[c] # NoUser
  /\ UNCHANGED <<online, session>>
  /\ Changed(c, "drop_call", NoUser, NoCall, {})

(* A request about a call, or the end of the call of a user who leaves.    *)
Takes(c) ==
  /\ UNCHANGED <<online, session>>
  /\ session[c] # NoUser
  /\ \E user \in Users \ {session[c]}, id \in CallIds :
       \/ /\ handler[c].at = "idle"
          /\ \E at \in {"start_call", "find_partner", "find_ended"} :
               Changed(c, at, user, id, {})
       \/ /\ handler[c].at = "drop_call"
          /\ Changed(c, "find_peer", user, id, {})

Following ==
  {<<"drop_call", "leave_rooms">>, <<"find_peer", "leave_rooms">>,
   <<"tell_peer", "leave_rooms">>, <<"leave_rooms", "leave_server">>,
   <<"start_call", "refind">>, <<"refind", "cancel_call">>,
   <<"find_partner", "hang_up">>,
   <<"find_peer", "tell_peer">>, <<"refind", "send_invite">>,
   <<"find_ended", "send_end">>}

(* On to the next label, with the connection of the other user if the next *)
(* step is to send to it.                                                  *)
GoesOn(c) ==
  /\ UNCHANGED <<online, session>>
  /\ \E at \in Labels, dest \in SUBSET Conns :
       /\ <<handler[c].at, at>> \in Following
       /\ Changed(c, at, handler[c].user, handler[c].id, dest)
       /\ at \in {"tell_peer", "send_invite", "send_end"} =>
            /\ handler[c].user \in DOMAIN online
            /\ dest = {online[handler[c].user]}
       /\ \/ <<handler[c].at, at>> = <<"find_peer", "leave_rooms">>
          \/ at \in {"cancel_call", "hang_up"}
          => handler[c].user \notin DOMAIN online

Returns(c) ==
  /\ UNCHANGED <<online, session>>
  /\ handler[c].at = "find_ended" => handler[c].user \notin DOMAIN online
  /\ handler[c].at \in {"start_call", "cancel_call", "send_invite",
                        "find_ended", "send_end", "find_partner", "hang_up"}
  /\ Changed(c, "idle", NoUser, NoCall, {})

Moves(c) ==
  \/ Rests(c) \/ LogsIn(c) \/ Names(c) \/ GoesOffline(c) \/ Forgets(c)
  \/ Leaves(c) \/ Takes(c) \/ GoesOn(c) \/ Returns(c)

(* A plain jump to the next step of a handler.                             *)
LEMMA GotoGoesOn ==
  ASSUME OwnTypes, NEW c \in Conns, NEW at \in Labels,
         UNCHANGED <<online, session>>, <<handler[c].at, at>> \in Following,
         \/ /\ Goto(c, at)
            /\ at \notin {"tell_peer", "send_invite", "send_end"}
            /\ \/ <<handler[c].at, at>> = <<"find_peer", "leave_rooms">>
               \/ at \in {"cancel_call", "hang_up"}
               => handler[c].user \notin DOMAIN online
         \/ Found(c, at) /\ at \in {"tell_peer", "send_invite", "send_end"}
  PROVE  GoesOn(c)
<1>1. CASE Goto(c, at) /\ at \notin {"tell_peer", "send_invite", "send_end"}
  <2>1. handler[c].dest \in SUBSET Conns
    BY DEF OwnTypes
  <2>2. Changed(c, at, handler[c].user, handler[c].id, handler[c].dest)
    BY <1>1, HandlerChanges
  <2> QED
    BY <1>1, <2>1, <2>2 DEF GoesOn
<1>2. CASE Found(c, at) /\ at \in {"tell_peer", "send_invite", "send_end"}
  BY <1>2 DEF Found, GoesOn
<1> QED
  BY <1>1, <1>2

(* Every step of a handler is one of these.                                *)
LEMMA StepMoves ==
  ASSUME OwnTypes, CallInv, HandlersSound, NEW c \in Conns, Step(c)
  PROVE  Moves(c)
<1> USE DEF At, Request
<1>1. ASSUME Connect(c) PROVE Moves(c)
  BY <1>1 DEF Connect, Moves, Rests
<1>2. ASSUME Disconnect(c) PROVE Moves(c)
  <2>1. handler[c].user = NoUser /\ handler[c].id = NoCall
        /\ handler[c].dest = {}
    BY <1>2 DEF Disconnect, HandlersSound, Idle
  <2> QED
    BY <1>2, <2>1, HandlerChanges DEF Disconnect, Moves, Rests, Leaves
<1>3. ASSUME Logout(c) PROVE Moves(c)
  BY <1>3, HandlerChanges DEF Logout, HandlersSound, Idle, Moves, Leaves
<1>4. ASSUME NEW u \in Users, Login(c, u) PROVE Moves(c)
  BY <1>4, HandlerChanges DEF Login, UM!Login, Moves, LogsIn, Rests
<1>5. ASSUME SetUsername(c) PROVE Moves(c)
  BY <1>5, HandlerChanges DEF SetUsername, Moves, Names
<1>6. ASSUME LeaveServer(c) PROVE Moves(c)
  BY <1>6, HandlerChanges DEF LeaveServer, Moves, GoesOffline
<1>7. ASSUME ClearUsername(c) PROVE Moves(c)
  BY <1>7, HandlerChanges DEF ClearUsername, Moves, Forgets
<1>8. ASSUME RoomRequest(c) PROVE Moves(c)
  BY <1>8 DEF RoomRequest, CreateRoom, JoinRoom, LeaveRoom, Moves, Rests
<1>9. ASSUME DropCall(c) PROVE Moves(c)
  <2>1. CASE session[c] \notin DOMAIN callUsers
    BY <1>9, <2>1, HandlerChanges
       DEF DropCall, CM!RemoveUser, Moves, GoesOn, Following, OwnTypes, Labels
  <2>2. CASE session[c] \in DOMAIN callUsers
    <3> DEFINE e == callUsers[session[c]]
    <3>1. /\ e.peer \in Users \ {session[c]} /\ e.callId \in CallIds
          /\ session[c] # NoUser
      BY <2>2, NoUserAssumption
         DEF CallInv, CM!TypeOK, CM!UserCall, CM!MapsAgree, CM!UsersHaveCalls,
             CM!CallsHaveUsers
    <3>2. Start(c, "find_peer", e.peer, e.callId)
      BY <1>9, <2>2 DEF DropCall, CM!RemoveUser, CM!DisconnectEvent
    <3>3. Changed(c, "find_peer", e.peer, e.callId, {})
      BY <3>2, HandlerChanges
    <3> QED
      BY <1>9, <3>1, <3>3 DEF DropCall, Moves, Takes
  <2> QED
    BY <2>1, <2>2
<1>10. ASSUME FindPeer(c) \/ Refind(c) \/ FindEnded(c)
       PROVE  Moves(c)
  <2>1. CASE FindPeer(c)
    <3>1. handler[c].at = "find_peer" /\ UNCHANGED <<online, session>>
      BY <2>1 DEF FindPeer
    <3>2. GoesOn(c)
      BY <2>1, <3>1, FindsOrNot, GotoGoesOn DEF Following, Labels
    <3> QED
      BY <3>2 DEF Moves
  <2>2. CASE Refind(c)
    <3>1. handler[c].at = "refind" /\ UNCHANGED <<online, session>>
      BY <2>2 DEF Refind
    <3>2. GoesOn(c)
      BY <2>2, <3>1, FindsOrNot, GotoGoesOn DEF Following, Labels
    <3> QED
      BY <3>2 DEF Moves
  <2>3. CASE FindEnded(c)
    <3>1. handler[c].at = "find_ended" /\ UNCHANGED <<online, session>>
      BY <2>3 DEF FindEnded
    <3>2. Found(c, "send_end") => GoesOn(c)
      BY <3>1, GotoGoesOn DEF Following, Labels
    <3>3. ASSUME Return(c), handler[c].user \notin DOMAIN online
          PROVE  Returns(c)
      BY <3>1, <3>3, HandlerChanges DEF Returns
    <3> QED
      BY <2>3, <3>2, <3>3, FindsOrNot DEF Moves
  <2> QED
    BY <1>10, <2>1, <2>2, <2>3
<1>11. ASSUME FindPartner(c) PROVE Moves(c)
  <2>1. handler[c].at = "find_partner" /\ UNCHANGED <<online, session>>
    BY <1>11 DEF FindPartner
  <2>2. ASSUME Goto(c, "hang_up"), handler[c].user \notin DOMAIN online
        PROVE  GoesOn(c)
    BY <2>1, <2>2, GotoGoesOn DEF Following, Labels
  <2>3. Return(c) => Returns(c)
    BY <2>1, HandlerChanges DEF Returns
  <2> QED
    BY <1>11, <2>2, <2>3, FindsOrNot DEF Moves
<1>12. ASSUME TellPeer(c) \/ LeaveRooms(c) PROVE Moves(c)
  BY <1>12, HandlerChanges
     DEF TellPeer, LeaveRooms, Moves, GoesOn, Following, OwnTypes, Labels
<1>13. ASSUME StartCall(c) PROVE Moves(c)
  BY <1>13, HandlerChanges
     DEF StartCall, Moves, GoesOn, Following, Returns, OwnTypes, Labels
<1>14. ASSUME CancelCall(c) \/ HangUp(c) \/ SendInvite(c) \/ SendEnd(c)
       PROVE  Moves(c)
  BY <1>14, HandlerChanges
     DEF CancelCall, HangUp, SendInvite, SendEnd, Moves, Returns
<1>15. ASSUME NEW target \in Users, NEW id \in CallIds, Invite(c, target, id)
       PROVE  Moves(c)
  BY <1>15, HandlerChanges DEF Invite, Moves, Rests, Takes
<1>16. ASSUME NEW target \in Users, NEW id \in CallIds, Accept(c, target, id)
       PROVE  Moves(c)
  BY <1>16, HandlerChanges DEF Accept, Moves, Rests, Takes
<1>17. ASSUME NEW target \in Users, NEW id \in CallIds, End(c, target, id)
       PROVE  Moves(c)
  BY <1>17, HandlerChanges DEF End, Moves, Rests, Takes
<1>18. ASSUME NEW target \in Users, NEW id \in CallIds, NEW type,
              Signal(c, target, id, type)
       PROVE  Moves(c)
  BY <1>18, HandlerChanges DEF Signal, Moves, Rests, Takes
<1> QED
  BY <1>1, <1>2, <1>3, <1>4, <1>5, <1>6, <1>7, <1>8, <1>9, <1>10, <1>11, <1>12,
     <1>13, <1>14, <1>15, <1>16, <1>17, <1>18
     DEF Step, Connection, CallRequest, Continue

-----------------------------------------------------------------------------
(* Sessions and handlers.                                                  *)

(* A user is found on the one connection whose session carries the name.   *)
OneSession ==
  \A c \in Conns, u \in Users :
    (u \in DOMAIN online /\ online[u] = c) <=>
      \/ session[c] = u /\ handler[c].at # "clear_username"
      \/ handler[c].at = "set_username" /\ handler[c].user = u

(* What a step does to its own connection and, nothing, to the others.     *)
LEMMA MovesOthers ==
  ASSUME OwnTypes, HandlersSound, NEW c \in Conns, Moves(c)
  PROVE  \A d \in Conns \ {c} :
           handler'[d] = handler[d] /\ session'[d] = session[d]
  BY DEF Moves, Rests, LogsIn, Names, GoesOffline, Forgets, Leaves, Takes,
         GoesOn, Returns, Changed, OwnTypes

(* The handler's label and locals keep their types and what they promise.  *)
LEMMA OwnHandlerSound ==
  ASSUME OwnTypes, HandlersSound, NEW c \in Conns, Moves(c)
  PROVE  /\ handler'[c] \in [at : Labels, user : Users \cup {NoUser},
                             id : CallIds \cup {NoCall}, dest : SUBSET Conns]
         /\ session'[c] \in Users \cup {NoUser}
         /\ HandlersSound!(c)'
<1> USE DEF Changed, HandlersSound, OwnTypes, Labels, Idle, CallLabels
<1>1. CASE Rests(c)
  BY <1>1 DEF Rests
<1>2. CASE LogsIn(c)
  BY <1>2 DEF LogsIn
<1>3. CASE Names(c)
  BY <1>3 DEF Names
<1>4. CASE GoesOffline(c)
  BY <1>4 DEF GoesOffline
<1>5. CASE Forgets(c)
  BY <1>5 DEF Forgets
<1>6. CASE Leaves(c)
  BY <1>6 DEF Leaves
<1>7. CASE Takes(c)
  BY <1>7 DEF Takes
<1>8. CASE GoesOn(c)
  BY <1>8 DEF GoesOn, Following
<1>9. CASE Returns(c)
  BY <1>9 DEF Returns
<1> QED
  BY <1>1, <1>2, <1>3, <1>4, <1>5, <1>6, <1>7, <1>8, <1>9 DEF Moves

(* A handler keeps the user, call and connections its step needs.          *)
LEMMA HandlersStaySound ==
  ASSUME OwnTypes, HandlersSound, NEW c \in Conns, Moves(c)
  PROVE  HandlersSound'
<1> SUFFICES ASSUME NEW d \in Conns
             PROVE  HandlersSound!(d)'
  BY DEF HandlersSound
<1>1. CASE d = c
  BY <1>1, OwnHandlerSound
<1>2. CASE d # c
  BY <1>2, MovesOthers DEF HandlersSound, Idle
<1> QED
  BY <1>1, <1>2

(* Only a login and a logout change who is online.                         *)
CameOnline(c, u) ==
  /\ handler[c].at = "idle" /\ session[c] = NoUser /\ session'[c] = NoUser
  /\ handler'[c].at = "set_username" /\ handler'[c].user = u
  /\ u \notin DOMAIN online
  /\ DOMAIN online' = DOMAIN online \cup {u}
  /\ online'[u] = c
  /\ \A v \in DOMAIN online : online'[v] = online[v]

WentOffline(c) ==
  /\ handler[c].at = "leave_server" /\ handler'[c].at = "clear_username"
  /\ session'[c] = session[c]
  /\ session[c] \in DOMAIN online /\ online[session[c]] = c
  /\ DOMAIN online' = DOMAIN online \ {session[c]}
  /\ \A v \in DOMAIN online' : online'[v] = online[v]

(* Only a login enters the online users, only an exit leaves them.         *)
LEMMA OnlineMoves ==
  ASSUME OwnTypes, HandlersSound, OneSession, NEW c \in Conns, Moves(c)
  PROVE  /\ LogsIn(c) => \E u \in Users : CameOnline(c, u)
         /\ GoesOffline(c) => WentOffline(c)
         /\ ~LogsIn(c) /\ ~GoesOffline(c) => UNCHANGED online
<1>1. ASSUME LogsIn(c) PROVE \E u \in Users : CameOnline(c, u)
  <2>1. PICK u \in Users : /\ u \notin DOMAIN online
                           /\ online' = UM!Put(online, u, c)
                           /\ handler'[c].at = "set_username"
                           /\ handler'[c].user = u
    BY <1>1 DEF LogsIn, Changed
  <2>2. CameOnline(c, u)
    BY <1>1, <2>1 DEF LogsIn, CameOnline, UM!Put
  <2> QED
    BY <2>2
<1>2. ASSUME GoesOffline(c) PROVE WentOffline(c)
  <2>1. session[c] \in Users
    BY <1>2 DEF GoesOffline, HandlersSound
  <2>2. session[c] \in DOMAIN online /\ online[session[c]] = c
    BY <1>2, <2>1 DEF GoesOffline, OneSession
  <2>3. online' = UM!EraseKeys(online, {session[c]})
    BY <1>2, <2>2 DEF GoesOffline, UM!Logout
  <2>4. WentOffline(c)
    BY <1>2, <2>2, <2>3
       DEF GoesOffline, Changed, WentOffline, UM!EraseKeys, UM!Restrict
  <2> QED
    BY <2>4
<1> QED
  BY <1>1, <1>2
     DEF Moves, Rests, Names, Forgets, Leaves, Takes, GoesOn, Returns

(* Every move keeps the types of sessions and handlers.                    *)
LEMMA ControlTypes ==
  ASSUME OwnTypes, HandlersSound, OneSession, NEW c \in Conns, Moves(c)
  PROVE  /\ Range(online') \subseteq Conns
         /\ DOMAIN online' \subseteq Users
         /\ session' \in [Conns -> Users \cup {NoUser}]
         /\ handler' \in [Conns -> [at : Labels, user : Users \cup {NoUser},
                                    id : CallIds \cup {NoCall},
                                    dest : SUBSET Conns]]
<1>1. /\ handler' = [d \in Conns |-> handler'[d]]
      /\ session' = [d \in Conns |-> session'[d]]
  BY DEF Moves, Rests, LogsIn, Names, GoesOffline, Forgets, Leaves, Takes,
         GoesOn, Returns, Changed, OwnTypes
<1>2. \A d \in Conns :
        /\ session'[d] \in Users \cup {NoUser}
        /\ handler'[d] \in [at : Labels, user : Users \cup {NoUser},
                            id : CallIds \cup {NoCall}, dest : SUBSET Conns]
  BY OwnHandlerSound, MovesOthers DEF OwnTypes
<1>3. DOMAIN online' \subseteq Users /\ Range(online') \subseteq Conns
  <2>1. \A v \in DOMAIN online : v \in Users /\ online[v] \in Conns
    BY DEF OwnTypes, Range
  <2>2. \A v \in DOMAIN online' : v \in Users /\ online'[v] \in Conns
    <3>1. CASE LogsIn(c)
      <4>1. PICK u \in Users : CameOnline(c, u)
        BY <3>1, OnlineMoves
      <4> QED
        BY <2>1, <4>1 DEF CameOnline
    <3>2. CASE GoesOffline(c)
      BY <2>1, <3>2, OnlineMoves DEF WentOffline
    <3>3. CASE ~LogsIn(c) /\ ~GoesOffline(c)
      BY <2>1, <3>3, OnlineMoves
    <3> QED
      BY <3>1, <3>2, <3>3
  <2> QED
    BY <2>2 DEF Range
<1> QED
  BY <1>1, <1>2, <1>3

(* Login takes a free name and logout gives back its own.                  *)
LEMMA OneSessionKept ==
  ASSUME OwnTypes, HandlersSound, OneSession, NEW c \in Conns, Moves(c)
  PROVE  OneSession'
<1> SUFFICES ASSUME NEW d \in Conns, NEW u \in Users
             PROVE  OneSession!(d, u)'
  BY DEF OneSession
<1>0. OneSession!(d, u) /\ u # NoUser
  BY NoUserAssumption DEF OneSession
<1>1. CASE UNCHANGED online
  <2>1. CASE d # c
    BY <1>0, <1>1, <2>1, MovesOthers
  <2>2. CASE d = c
    <3>1. ~LogsIn(c) /\ ~GoesOffline(c)
      <4>1. ASSUME LogsIn(c) PROVE FALSE
        <5>1. PICK v \in Users : CameOnline(c, v)
          BY <4>1, OnlineMoves
        <5> QED
          BY <1>1, <5>1 DEF CameOnline
      <4>2. ASSUME GoesOffline(c) PROVE FALSE
        BY <1>1, <4>2, OnlineMoves DEF WentOffline
      <4> QED
        BY <4>1, <4>2
    <3>2. CASE Rests(c)
      BY <1>0, <1>1, <2>2, <3>2 DEF Rests
    <3>3. CASE Names(c)
      BY <1>0, <1>1, <2>2, <3>3 DEF Names, HandlersSound, Changed, OwnTypes
    <3>4. CASE Forgets(c)
      BY <1>0, <1>1, <2>2, <3>4 DEF Forgets, HandlersSound, Changed, OwnTypes
    <3>5. CASE Leaves(c)
      BY <1>0, <1>1, <2>2, <3>5 DEF Leaves, Changed
    <3>6. CASE Takes(c)
      BY <1>0, <1>1, <2>2, <3>6 DEF Takes, Changed
    <3>7. CASE GoesOn(c)
      BY <1>0, <1>1, <2>2, <3>7 DEF GoesOn, Following, Changed
    <3>8. CASE Returns(c)
      BY <1>0, <1>1, <2>2, <3>8 DEF Returns, Changed
    <3> QED
      BY <3>1, <3>2, <3>3, <3>4, <3>5, <3>6, <3>7, <3>8 DEF Moves
  <2> QED
    BY <2>1, <2>2
<1>2. ASSUME NEW v \in Users, CameOnline(c, v)
      PROVE  OneSession!(d, u)'
  <2>1. CASE d # c
    BY <1>0, <1>2, <2>1, MovesOthers DEF CameOnline
  <2>2. CASE d = c
    BY <1>0, <1>2, <2>2 DEF CameOnline
  <2> QED
    BY <2>1, <2>2
<1>3. CASE WentOffline(c)
  <2>1. CASE d # c
    BY <1>0, <1>3, <2>1, MovesOthers DEF WentOffline
  <2>2. CASE d = c
    BY <1>0, <1>3, <2>2 DEF WentOffline
  <2> QED
    BY <2>1, <2>2
<1>4. CASE ~LogsIn(c) /\ ~GoesOffline(c)
  BY <1>1, <1>4, OnlineMoves
<1> QED
  BY <1>2, <1>3, <1>4, OnlineMoves

-----------------------------------------------------------------------------
(* Calls: how a step changes the maps of the call manager.                 *)

Parties(id) == {calls[id].caller, calls[id].callee}

(* drop_call: the call of a user who leaves ends.                          *)
Drops(c) ==
  /\ handler[c].at = "drop_call" /\ UNCHANGED view
  /\ \E id \in DOMAIN calls, peer \in Users \ {session[c]} :
       /\ CMP!Erased(id)
       /\ Parties(id) = {session[c], peer}
       /\ Changed(c, "find_peer", peer, id, {})

HasNone(c) ==
  /\ handler[c].at = "drop_call" /\ UNCHANGED <<callVars, view>>
  /\ session[c] \notin DOMAIN callUsers
  /\ Changed(c, "leave_rooms", handler[c].user, handler[c].id, handler[c].dest)

(* start_call: the call begins, or its caller is told that it does not.    *)
Starts(c) ==
  /\ handler[c].at = "start_call" /\ UNCHANGED view
  /\ CMP!Started(session[c], handler[c].user, handler[c].id)
  /\ Changed(c, "refind", handler[c].user, handler[c].id, handler[c].dest)

StartsNot(c) ==
  /\ handler[c].at = "start_call" /\ UNCHANGED callVars
  /\ Tell({c}, handler[c].id, "over")
  /\ Changed(c, "idle", NoUser, NoCall, {})

(* A request of a logged-in user that the manager grants, or turns down.   *)
Answers(c, target, id) ==
  /\ handler[c].at = "idle" /\ session[c] # NoUser
  /\ CMP!Accepted(session[c], target, id)
  /\ Tell({c}, id, "in_call")
  /\ Changed(c, "find_partner", target, id, {})

Ends(c, target, id) ==
  /\ handler[c].at = "idle" /\ session[c] # NoUser
  /\ id \in DOMAIN calls /\ CMP!Erased(id)
  /\ Parties(id) = {session[c], target}
  /\ Tell({c}, id, "over")
  /\ Changed(c, "find_ended", target, id, {})

Refused(c, id) ==
  /\ handler[c].at = "idle" /\ session[c] # NoUser
  /\ UNCHANGED <<callVars, handler>>
  /\ Tell({c}, id, "over")

(* cancel_call and hang_up: the partner has gone, and so does the call.    *)
GivesUp(c) ==
  /\ handler[c].at \in {"cancel_call", "hang_up"}
  /\ \/ UNCHANGED callVars
     \/ /\ handler[c].id \in DOMAIN calls /\ CMP!Erased(handler[c].id)
        /\ Parties(handler[c].id) = {session[c], handler[c].user}
        /\ handler[c].at = "cancel_call" =>
             /\ ~calls[handler[c].id].accepted
             /\ calls[handler[c].id].caller = session[c]
  /\ Tell({c}, handler[c].id, "over")
  /\ Changed(c, "idle", NoUser, NoCall, {})

(* The invariant is the one proved of the call manager alone.              *)
LEMMA SameCallInv ==
  /\ CallInv <=> CMP!CallManagerInv
  /\ CallInv' <=> CMP!CallManagerInv'
  BY DEF CallInv, CMP!CallManagerInv, CM!TypeOK, CMP!TypeOK, CM!MapsAgree,
         CMP!MapsAgree, CM!UsersHaveCalls, CMP!UsersHaveCalls,
         CM!CallsHaveUsers, CMP!CallsHaveUsers, CM!StateIn, CMP!StateIn,
         CM!UserCall, CMP!UserCall, CM!CallUserState, CMP!CallUserState,
         CM!CallRecord, CMP!CallRecord

(* The two users of a call, and their entries.                             *)
LEMMA CallOfUser ==
  ASSUME CallInv, NEW u \in DOMAIN callUsers
  PROVE  /\ u \in Users
         /\ callUsers[u].callId \in DOMAIN calls
         /\ callUsers[u].callId \in CallIds
         /\ callUsers[u].peer \in Users \ {u}
         /\ Parties(callUsers[u].callId) = {u, callUsers[u].peer}
<1>1. CM!UsersHaveCalls!(u)
  BY DEF CallInv, CM!MapsAgree, CM!UsersHaveCalls
<1>2. CM!CallsHaveUsers!(callUsers[u].callId)
  BY <1>1 DEF CallInv, CM!MapsAgree, CM!CallsHaveUsers
<1>3. callUsers[u] \in CM!UserCall /\ u \in Users
  BY DEF CallInv, CM!TypeOK
<1> QED
  BY <1>1, <1>2, <1>3 DEF CM!UserCall, Parties

(* What the call manager's invariant says of one call.                     *)
LEMMA UsersOfCall ==
  ASSUME CallInv, NEW id \in DOMAIN calls
  PROVE  /\ id \in CallIds
         /\ calls[id].caller \in Users /\ calls[id].callee \in Users
         /\ calls[id].caller # calls[id].callee
         /\ \A u \in Parties(id) :
              /\ u \in DOMAIN callUsers
              /\ callUsers[u].callId = id
              /\ callUsers[u].state =
                   IF calls[id].accepted THEN "in_call"
                   ELSE IF u = calls[id].caller THEN "calling" ELSE "ringing"
<1>1. CM!CallsHaveUsers!(id)
  BY DEF CallInv, CM!MapsAgree, CM!CallsHaveUsers
<1>2. \A u \in Parties(id) : CM!UsersHaveCalls!(u)
  BY <1>1 DEF CallInv, CM!MapsAgree, CM!UsersHaveCalls, Parties
<1>3. id \in CallIds /\ calls[id] \in CM!CallRecord
  BY DEF CallInv, CM!TypeOK
<1> QED
  BY <1>1, <1>2, <1>3 DEF CM!StateIn, CM!CallRecord, Parties

(* CallManager's lemma for eraseCall, under this module's names.           *)
LEMMA EraseKeeps ==
  ASSUME CallInv, NEW id \in DOMAIN calls, CM!EraseCall(id)
  PROVE  CallInv' /\ CMP!Erased(id)
<1>1. CMP!EraseCall(id)
  BY DEF CM!EraseCall, CMP!EraseCall, CM!EraseKeys, CMP!EraseKeys,
         CM!Restrict, CMP!Restrict, CM!callVars, CMP!callVars
<1> QED
  BY <1>1, SameCallInv, CMP!EraseInv, CMP!EraseEffect

(* CallManager's lemma for startCall, under this module's names.           *)
LEMMA StartKeeps ==
  ASSUME CallInv, NEW caller \in Users, NEW callee \in Users,
         NEW id \in CallIds, caller # callee,
         CM!StartCall(caller, callee, id, "ok")
  PROVE  CallInv' /\ CMP!Started(caller, callee, id)
<1>1. CMP!StartCall(caller, callee, id, "ok")
  BY DEF CM!StartCall, CMP!StartCall, CM!StartResult, CMP!StartResult,
         CM!Put, CMP!Put, CM!callVars, CMP!callVars
<1> QED
  BY <1>1, SameCallInv, CMP!StartInv, CMP!StartEffect

(* CallManager's lemma for acceptCall, under this module's names.          *)
LEMMA AcceptKeeps ==
  ASSUME CallInv, NEW callee \in Users, NEW caller \in Users,
         NEW id \in CallIds, CM!AcceptCall(callee, caller, id, TRUE)
  PROVE  CallInv' /\ CMP!Accepted(callee, caller, id)
<1>1. CMP!AcceptCall(callee, caller, id, TRUE)
  BY DEF CM!AcceptCall, CMP!AcceptCall, CM!CanAccept, CMP!CanAccept,
         CM!Facing, CMP!Facing, CM!callVars, CMP!callVars
<1> QED
  BY <1>1, SameCallInv, CMP!AcceptInv, CMP!AcceptEffect

(* Untouched maps of calls still agree.                                    *)
LEMMA CallsStay ==
  ASSUME CallInv, UNCHANGED callVars
  PROVE  CallInv'
<1>1. UNCHANGED CMP!callVars
  BY DEF callVars, CMP!callVars
<1> QED
  BY <1>1, SameCallInv, CMP!UnchangedInv

(* A leaving session's call is dropped, or it has none.                    *)
LEMMA DropCallDoes ==
  ASSUME OwnTypes, CallInv, HandlersSound, NEW c \in Conns, DropCall(c)
  PROVE  CallInv' /\ (Drops(c) \/ HasNone(c))
<1> USE DEF At
<1>1. CASE session[c] \notin DOMAIN callUsers
  <2>1. UNCHANGED callVars /\ Goto(c, "leave_rooms")
    BY <1>1 DEF DropCall, CM!RemoveUser, CM!callVars, callVars
  <2> QED
    BY <1>1, <2>1, CallsStay, HandlerChanges DEF DropCall, HasNone
<1>2. CASE session[c] \in DOMAIN callUsers
  <2> DEFINE e == callUsers[session[c]]
  <2>1. CM!EraseCall(e.callId) /\ Start(c, "find_peer", e.peer, e.callId)
    BY <1>2 DEF DropCall, CM!RemoveUser, CM!DisconnectEvent
  <2>2. /\ e.callId \in DOMAIN calls
        /\ e.peer \in Users \ {session[c]}
        /\ Parties(e.callId) = {session[c], e.peer}
    BY <1>2, CallOfUser
  <2>3. CallInv' /\ CMP!Erased(e.callId)
    BY <2>1, <2>2, EraseKeeps
  <2>4. Changed(c, "find_peer", e.peer, e.callId, {})
    BY <2>1, HandlerChanges
  <2> HIDE DEF e
  <2> QED
    BY <2>2, <2>3, <2>4 DEF DropCall, Drops
<1> QED
  BY <1>1, <1>2

(* An invitation starts a call or changes nothing.                         *)
LEMMA StartCallDoes ==
  ASSUME OwnTypes, CallInv, HandlersSound, NEW c \in Conns, StartCall(c)
  PROVE  CallInv' /\ (Starts(c) \/ StartsNot(c))
<1>1. /\ handler[c].at = "start_call"
      /\ session[c] \in Users /\ handler[c].user \in Users
      /\ handler[c].id \in CallIds /\ handler[c].user # session[c]
  BY DEF StartCall, At, HandlersSound, CallLabels
<1>2. PICK result \in {"ok", "caller_busy", "target_busy",
                       "duplicate_call_id"} :
        /\ CM!StartCall(session[c], handler[c].user, handler[c].id, result)
        /\ IF result = "ok" THEN Goto(c, "refind") /\ UNCHANGED view
           ELSE Return(c) /\ Tell({c}, handler[c].id, "over")
  BY DEF StartCall
<1>3. CASE result = "ok"
  <2>1. CallInv' /\ CMP!Started(session[c], handler[c].user, handler[c].id)
    BY <1>1, <1>2, <1>3, StartKeeps
  <2> QED
    BY <1>1, <1>2, <1>3, <2>1, HandlerChanges DEF Starts
<1>4. CASE result # "ok"
  <2>1. UNCHANGED callVars
    BY <1>2, <1>4 DEF CM!StartCall, CM!callVars, callVars
  <2> QED
    BY <1>1, <1>2, <1>4, <2>1, CallsStay, HandlerChanges DEF StartsNot
<1> QED
  BY <1>3, <1>4

(* An acceptance answers the call or is refused.                           *)
LEMMA AcceptDoes ==
  ASSUME OwnTypes, CallInv, HandlersSound, NEW c \in Conns,
         NEW target \in Users, NEW id \in CallIds, Accept(c, target, id)
  PROVE  CallInv' /\ (Answers(c, target, id) \/ Refused(c, id))
<1>1. /\ handler[c].at = "idle" /\ session[c] # NoUser
      /\ session[c] \in Users
  BY DEF Accept, Request, At, OwnTypes
<1>2. PICK ok \in BOOLEAN :
        /\ CM!AcceptCall(session[c], target, id, ok)
        /\ IF ok
           THEN Tell({c}, id, "in_call") /\ Start(c, "find_partner", target, id)
           ELSE Tell({c}, id, "over") /\ UNCHANGED handler
  BY DEF Accept
<1>3. CASE ok = TRUE
  <2>1. CallInv' /\ CMP!Accepted(session[c], target, id)
    BY <1>1, <1>2, <1>3, AcceptKeeps
  <2> QED
    BY <1>1, <1>2, <1>3, <2>1, HandlerChanges DEF Answers
<1>4. CASE ok = FALSE
  <2>1. UNCHANGED callVars
    BY <1>2, <1>4 DEF CM!AcceptCall, CM!callVars, callVars
  <2> QED
    BY <1>1, <1>2, <1>4, <2>1, CallsStay DEF Refused
<1> QED
  BY <1>3, <1>4

(* Whoever the manager lets end a call is one of its two users, and names  *)
(* the other.                                                              *)
LEMMA EndersFace ==
  ASSUME CallInv, NEW u \in Users, NEW p \in Users, u # p, NEW id \in CallIds,
         CM!Facing(u, p, id)
  PROVE  id \in DOMAIN calls /\ Parties(id) = {u, p}
<1>1. u \in DOMAIN callUsers /\ callUsers[u].callId = id
      /\ callUsers[u].peer = p /\ id \in DOMAIN calls
  BY DEF CM!Facing
<1> QED
  BY <1>1, CallOfUser

(* A request to end a call ends it or is refused.                          *)
LEMMA EndDoes ==
  ASSUME OwnTypes, CallInv, HandlersSound, NEW c \in Conns,
         NEW target \in Users, NEW id \in CallIds, End(c, target, id)
  PROVE  CallInv' /\ (Ends(c, target, id) \/ Refused(c, id))
<1>1. /\ handler[c].at = "idle" /\ session[c] # NoUser
      /\ session[c] \in Users /\ target # session[c]
      /\ Tell({c}, id, "over")
  BY DEF End, Request, At, OwnTypes
<1>2. PICK ok \in BOOLEAN :
        /\ \/ CM!RejectCall(session[c], target, id, ok)
           \/ CM!CancelCall(session[c], target, id, ok)
           \/ CM!HangupCall(session[c], target, id, ok)
        /\ IF ok THEN Start(c, "find_ended", target, id)
                 ELSE UNCHANGED handler
  BY DEF End
<1>3. CASE ok = TRUE
  <2>1. CM!EraseCall(id) /\ CM!Facing(session[c], target, id)
    BY <1>2, <1>3 DEF CM!RejectCall, CM!CancelCall, CM!HangupCall,
       CM!CanReject, CM!CanCancel, CM!CanFinishPending, CM!InActiveCall
  <2>2. id \in DOMAIN calls /\ Parties(id) = {session[c], target}
    BY <1>1, <2>1, EndersFace
  <2>3. CallInv' /\ CMP!Erased(id)
    BY <2>1, <2>2, EraseKeeps
  <2> QED
    BY <1>1, <1>2, <1>3, <2>2, <2>3, HandlerChanges DEF Ends
<1>4. CASE ok = FALSE
  <2>1. UNCHANGED callVars
    BY <1>2, <1>4 DEF CM!RejectCall, CM!CancelCall, CM!HangupCall,
       CM!callVars, callVars
  <2> QED
    BY <1>1, <1>2, <1>4, <2>1, CallsStay DEF Refused
<1> QED
  BY <1>3, <1>4

(* A call whose callee could not be reached is given up.                   *)
LEMMA GiveUpDoes ==
  ASSUME OwnTypes, CallInv, HandlersSound, NEW c \in Conns,
         CancelCall(c) \/ HangUp(c)
  PROVE  CallInv' /\ GivesUp(c)
<1> DEFINE u == handler[c].user
           i == handler[c].id
<1>1. /\ handler[c].at \in {"cancel_call", "hang_up"}
      /\ session[c] \in Users /\ u \in Users /\ i \in CallIds
      /\ u # session[c]
      /\ Tell({c}, i, "over") /\ Return(c)
  BY DEF CancelCall, HangUp, At, HandlersSound, CallLabels
<1>2. PICK ok \in BOOLEAN :
        \/ CM!CancelCall(session[c], u, i, ok)
        \/ CM!HangupCall(session[c], u, i, ok) /\ handler[c].at = "hang_up"
  BY DEF CancelCall, HangUp, At
<1>3. Changed(c, "idle", NoUser, NoCall, {})
  BY <1>1, HandlerChanges
<1>4. CASE ok = TRUE
  <2>1. /\ CM!EraseCall(i) /\ CM!Facing(session[c], u, i)
        /\ handler[c].at = "cancel_call" =>
             ~calls[i].accepted /\ calls[i].caller = session[c]
    BY <1>1, <1>2, <1>4 DEF CM!CancelCall, CM!HangupCall, CM!CanCancel,
       CM!CanFinishPending, CM!InActiveCall
  <2>2. i \in DOMAIN calls /\ Parties(i) = {session[c], u}
    BY <1>1, <2>1, EndersFace
  <2>3. CallInv' /\ CMP!Erased(i)
    BY <2>1, <2>2, EraseKeeps
  <2> QED
    BY <1>1, <1>3, <2>1, <2>2, <2>3 DEF GivesUp
<1>5. CASE ok = FALSE
  <2>1. UNCHANGED callVars
    BY <1>2, <1>5 DEF CM!CancelCall, CM!HangupCall, CM!callVars, callVars
  <2> QED
    BY <1>1, <1>3, <2>1, CallsStay DEF GivesUp
<1> QED
  BY <1>4, <1>5

(* The other steps that change what the clients know.                      *)
Invites(c, target, id) ==
  /\ handler[c].at = "idle" /\ session[c] # NoUser
  /\ Unheard(id) /\ UNCHANGED callVars
  /\ \/ /\ view' = [view EXCEPT ![c][id] = "over"]
        /\ UNCHANGED handler
     \/ /\ view' = [view EXCEPT ![c][id] = "calling"]
        /\ Changed(c, "start_call", target, id, {})

Signals(c, target, id) ==
  /\ handler[c].at = "idle" /\ session[c] # NoUser
  /\ UNCHANGED <<callVars, view>>
  /\ id \in DOMAIN calls /\ calls[id].accepted
  /\ Parties(id) = {session[c], target}
  /\ Changed(c, "find_partner", target, id, {})

Tells(c) ==
  /\ UNCHANGED callVars
  /\ \/ /\ handler[c].at = "tell_peer"
        /\ Tell(handler[c].dest, handler[c].id, "over")
        /\ Changed(c, "leave_rooms", handler[c].user, handler[c].id,
                   handler[c].dest)
     \/ /\ handler[c].at = "send_end"
        /\ Tell(handler[c].dest, handler[c].id, "over")
        /\ Changed(c, "idle", NoUser, NoCall, {})
     \/ /\ handler[c].at = "send_invite"
        /\ Tell(handler[c].dest, handler[c].id, "ringing")
        /\ Changed(c, "idle", NoUser, NoCall, {})

Clears(c) ==
  /\ UNCHANGED callVars /\ Forgets(c)
  /\ view' = [view EXCEPT ![c] = [id \in CallIds |-> "none"]]

(* Nothing is changed of the calls or of what is known of them.            *)
Silent(c) ==
  /\ UNCHANGED <<callVars, view>>
  /\ handler[c].at \notin {"drop_call", "tell_peer", "send_end", "send_invite",
                           "start_call", "cancel_call", "hang_up",
                           "clear_username"}
     \/ UNCHANGED handler
  /\ ~Takes(c)

Acts(c) ==
  \/ Drops(c) \/ HasNone(c) \/ Starts(c) \/ StartsNot(c) \/ GivesUp(c)
  \/ Tells(c) \/ Clears(c) \/ Silent(c)
  \/ \E target \in Users \ {session[c]}, id \in CallIds :
       \/ Answers(c, target, id) \/ Ends(c, target, id) \/ Refused(c, id)
       \/ Invites(c, target, id) \/ Signals(c, target, id)

(* A handler that takes a request moves on.                                *)
LEMMA TakesMoves ==
  ASSUME NEW c \in Conns, Takes(c)
  PROVE  /\ handler'[c].at # handler[c].at
         /\ handler'[c].at # "drop_call"
<1>1. PICK at \in {"start_call", "find_partner", "find_ended", "find_peer"} :
        handler[c].at \in {"idle", "drop_call"} /\ handler'[c].at = at
  BY DEF Takes, Changed
<1> QED
  BY <1>1

(* Every step does one of these to the calls and to what is known of them. *)
LEMMA StepActs ==
  ASSUME OwnTypes, CallInv, HandlersSound, NEW c \in Conns, Step(c)
  PROVE  CallInv' /\ Acts(c)
<1> USE DEF At, Request
<1>1. ASSUME Connect(c) \/ Disconnect(c) \/ Logout(c)
      PROVE  CallInv' /\ Acts(c)
  <2>1. /\ UNCHANGED <<callVars, view>>
        /\ \/ UNCHANGED handler
           \/ handler[c].at = "idle" /\ Goto(c, "drop_call")
    BY <1>1 DEF Connect, Disconnect, Logout
  <2>2. UNCHANGED handler \/ handler'[c].at = "drop_call"
    <3>1. ASSUME Goto(c, "drop_call")
          PROVE  handler'[c].at = "drop_call"
      <4>1. Changed(c, "drop_call", handler[c].user, handler[c].id,
                    handler[c].dest)
        BY <3>1, HandlerChanges
      <4> QED
        BY <4>1 DEF Changed
    <3> QED
      BY <2>1, <3>1
  <2>3. ~Takes(c)
    BY <2>2, TakesMoves
  <2> QED
    BY <2>1, <2>3, CallsStay DEF Acts, Silent
<1>2. ASSUME NEW u \in Users, Login(c, u)
      PROVE  CallInv' /\ Acts(c)
  <2>1. /\ UNCHANGED <<callVars, view>> /\ handler[c].at = "idle"
        /\ session[c] = NoUser
    BY <1>2 DEF Login
  <2> QED
    BY <2>1, CallsStay DEF Acts, Silent, Takes
<1>3. ASSUME RoomRequest(c)
      PROVE  CallInv' /\ Acts(c)
  <2>1. UNCHANGED <<callVars, view, handler>>
    BY <1>3 DEF RoomRequest, CreateRoom, JoinRoom, LeaveRoom
  <2>2. ~Takes(c)
    BY <2>1, TakesMoves
  <2> QED
    BY <2>1, <2>2, CallsStay DEF Acts, Silent
<1>4. ASSUME \/ SetUsername(c) \/ FindPeer(c) \/ LeaveRooms(c)
             \/ LeaveServer(c) \/ Refind(c) \/ FindEnded(c) \/ FindPartner(c)
      PROVE  CallInv' /\ Acts(c)
  <2>1. /\ UNCHANGED <<callVars, view>>
        /\ handler[c].at \in {"set_username", "find_peer", "leave_rooms",
              "leave_server", "refind", "find_ended", "find_partner"}
    BY <1>4 DEF SetUsername, FindPeer, LeaveRooms, LeaveServer, Refind,
                FindEnded, FindPartner
  <2> QED
    BY <2>1, CallsStay DEF Acts, Silent, Takes
<1>5. ASSUME ClearUsername(c)
      PROVE  CallInv' /\ Acts(c)
  <2>1. UNCHANGED callVars /\ Clears(c)
    BY <1>5, HandlerChanges DEF ClearUsername, Clears, Forgets
  <2> QED
    BY <2>1, CallsStay DEF Acts
<1>6. ASSUME TellPeer(c) \/ SendInvite(c) \/ SendEnd(c)
      PROVE  CallInv' /\ Acts(c)
  <2>1. UNCHANGED callVars /\ Tells(c)
    BY <1>6, HandlerChanges DEF TellPeer, SendInvite, SendEnd, Tells
  <2> QED
    BY <2>1, CallsStay DEF Acts
<1>7. ASSUME DropCall(c)
      PROVE  CallInv' /\ Acts(c)
  BY <1>7, DropCallDoes DEF Acts
<1>8. ASSUME StartCall(c)
      PROVE  CallInv' /\ Acts(c)
  BY <1>8, StartCallDoes DEF Acts
<1>9. ASSUME CancelCall(c) \/ HangUp(c)
      PROVE  CallInv' /\ Acts(c)
  BY <1>9, GiveUpDoes DEF Acts
<1>10. ASSUME NEW target \in Users, NEW id \in CallIds, Invite(c, target, id)
       PROVE  CallInv' /\ Acts(c)
  <2>1. UNCHANGED callVars /\ target # session[c]
    BY <1>10 DEF Invite
  <2>2. Invites(c, target, id)
    BY <1>10, HandlerChanges DEF Invite, Invites
  <2> QED
    BY <2>1, <2>2, CallsStay DEF Acts
<1>11. ASSUME NEW target \in Users, NEW id \in CallIds, Accept(c, target, id)
       PROVE  CallInv' /\ Acts(c)
  BY <1>11, AcceptDoes DEF Acts, Accept
<1>12. ASSUME NEW target \in Users, NEW id \in CallIds, End(c, target, id)
       PROVE  CallInv' /\ Acts(c)
  BY <1>12, EndDoes DEF Acts, End
<1>13. ASSUME NEW target \in Users, NEW id \in CallIds, NEW type,
              Signal(c, target, id, type)
       PROVE  CallInv' /\ Acts(c)
  <2>1. /\ UNCHANGED callVars /\ target # session[c]
        /\ session[c] # NoUser /\ session[c] \in Users
    BY <1>13 DEF Signal, OwnTypes
  <2>2. CASE CM!SignalingResult(session[c], target, id, type) = "ok"
    <3>1. CM!InActiveCall(session[c], target, id)
      BY <2>2 DEF CM!SignalingResult
    <3>2. /\ id \in DOMAIN calls /\ calls[id].accepted
          /\ Parties(id) = {session[c], target}
      BY <2>1, <3>1, EndersFace DEF CM!InActiveCall
    <3>3. Signals(c, target, id)
      BY <1>13, <2>2, <3>2, HandlerChanges DEF Signal, Signals
    <3> QED
      BY <2>1, <3>3, CallsStay DEF Acts
  <2>3. CASE CM!SignalingResult(session[c], target, id, type) # "ok"
    <3>1. Refused(c, id)
      BY <1>13, <2>3 DEF Signal, Refused
    <3> QED
      BY <2>1, <3>1, CallsStay DEF Acts
  <2> QED
    BY <2>2, <2>3
<1> QED
  BY <1>1, <1>2, <1>3, <1>4, <1>5, <1>6, <1>7, <1>8, <1>9, <1>10, <1>11, <1>12,
     <1>13 DEF Step, Connection, CallRequest, Continue

-----------------------------------------------------------------------------
(* Rooms: a step adds its own user to a room, or takes members away.       *)
RoomInv == RM!TypeOK /\ RM!IndexExact

Members == {m \in (DOMAIN rooms) \X Users : m[2] \in rooms[m[1]]}

RoomsMove(c) ==
  /\ \/ Members' \subseteq Members
     \/ /\ \A m \in Members' \ Members : m[2] = session[c]
        /\ handler[c].at = "idle" /\ session[c] \in Users
        /\ UNCHANGED <<online, session, handler>>
  /\ handler[c].at = "leave_rooms" => \A m \in Members' : m[2] # session[c]

(* The room manager's invariant, under this module's names.                *)
LEMMA SameRoomInv ==
  /\ RoomInv <=> RMP!RoomManagerInv
  /\ RoomInv' <=> RMP!RoomManagerInv'
  /\ Members = RMP!Memberships
  /\ Members' = RMP!Memberships'
  BY DEF RoomInv, RMP!RoomManagerInv, RM!TypeOK, RMP!TypeOK, RM!IndexExact,
         RMP!IndexExact, Members, RMP!Memberships

(* Untouched rooms keep the members they had.                              *)
LEMMA RoomsStay ==
  ASSUME RoomInv, UNCHANGED roomVars
  PROVE  RoomInv' /\ Members' = Members
<1>1. UNCHANGED RMP!roomVars
  BY DEF roomVars, RMP!roomVars
<1> QED
  BY <1>1, SameRoomInv, RMP!UnchangedEffect

(* A room request changes only its own user's memberships.                 *)
LEMMA RequestRooms ==
  ASSUME OwnTypes, RoomInv, NEW c \in Conns, RoomRequest(c)
  PROVE  RoomInv' /\ RoomsMove(c)
<1>1. PICK r \in Rooms : CreateRoom(c, r) \/ JoinRoom(c, r) \/ LeaveRoom(c, r)
  BY DEF RoomRequest
<1>2. /\ handler[c].at = "idle" /\ session[c] \in Users
      /\ UNCHANGED <<online, session, handler>>
  BY <1>1 DEF CreateRoom, JoinRoom, LeaveRoom, Request, At, OwnTypes
<1>3. CASE UNCHANGED roomVars
  BY <1>2, <1>3, RoomsStay DEF RoomsMove
<1>4. CASE RM!CreateRoom(r, TRUE)
  <2>1. RMP!CreateRoom(r, TRUE)
    BY <1>4 DEF RM!CreateRoom, RMP!CreateRoom, RM!Put, RMP!Put
  <2>2. RoomInv' /\ Members' = Members
    BY <2>1, SameRoomInv, RMP!CreateEffect
  <2> QED
    BY <1>2, <2>2 DEF RoomsMove
<1>5. CASE RM!JoinRoom(r, session[c], TRUE)
  <2>1. RMP!JoinRoom(r, session[c], TRUE)
    BY <1>5 DEF RM!JoinRoom, RMP!JoinRoom, RM!Put, RMP!Put, RM!RoomsOf,
                RMP!RoomsOf
  <2>2. RoomInv' /\ Members' = Members \cup {<<r, session[c]>>}
    BY <1>2, <2>1, SameRoomInv, RMP!JoinEffect
  <2>3. \A m \in Members' \ Members : m[2] = session[c]
    BY <2>2
  <2> QED
    BY <1>2, <2>2, <2>3 DEF RoomsMove
<1>6. CASE RM!LeaveRoom(r, session[c], "ok")
  <2>1. RMP!LeaveRoom(r, session[c], "ok")
    BY <1>6 DEF RM!LeaveRoom, RMP!LeaveRoom, RM!MemberResult,
       RMP!MemberResult, RM!EraseKeys, RMP!EraseKeys, RM!Restrict, RMP!Restrict
  <2>2. RoomInv' /\ Members' = Members \ {<<r, session[c]>>}
    BY <1>2, <2>1, SameRoomInv, RMP!LeaveEffect
  <2> QED
    BY <1>2, <2>2 DEF RoomsMove
<1>7. \/ UNCHANGED roomVars
      \/ RM!CreateRoom(r, TRUE)
      \/ RM!JoinRoom(r, session[c], TRUE)
      \/ RM!LeaveRoom(r, session[c], "ok")
  <2>1. CASE CreateRoom(c, r)
    BY <2>1 DEF CreateRoom, RM!CreateRoom, roomVars
  <2>2. CASE JoinRoom(c, r)
    BY <2>2 DEF JoinRoom, RM!JoinRoom, RM!roomVars, roomVars
  <2>3. CASE LeaveRoom(c, r)
    BY <2>3 DEF LeaveRoom, RM!LeaveRoom, RM!roomVars, roomVars
  <2> QED
    BY <1>1, <2>1, <2>2, <2>3
<1> QED
  BY <1>3, <1>4, <1>5, <1>6, <1>7

(* Every step moves memberships only as RoomsMove says.                    *)
LEMMA StepRooms ==
  ASSUME OwnTypes, RoomInv, HandlersSound, NewIdle, NEW c \in Conns, Step(c)
  PROVE  RoomInv' /\ RoomsMove(c)
<1>1. CASE RoomRequest(c)
  BY <1>1, RequestRooms
<1>2. CASE LeaveRooms(c)
  <2>1. /\ handler[c].at = "leave_rooms" /\ session[c] \in Users
        /\ RM!LeaveAll(session[c])
    BY <1>2 DEF LeaveRooms, At, HandlersSound
  <2>2. RMP!LeaveAll(session[c])
    BY <2>1 DEF RM!LeaveAll, RMP!LeaveAll, RM!EraseKeys, RMP!EraseKeys,
       RM!Restrict, RMP!Restrict, RM!roomVars, RMP!roomVars
  <2>3. RoomInv' /\ Members' = {m \in Members : m[2] # session[c]}
    BY <2>1, <2>2, SameRoomInv, RMP!LeaveAllEffect
  <2> QED
    BY <2>3 DEF RoomsMove
<1>3. CASE ~RoomRequest(c) /\ ~LeaveRooms(c)
  <2>1. CASE Connection(c)
    BY <2>1, RoomsStay DEF Connection, Connect, Disconnect, Logout, Login,
       Request, NewIdle, At, RoomsMove
  <2>2. CASE CallRequest(c)
    BY <2>2, RoomsStay DEF CallRequest, Invite, Accept, End, Signal, Request,
       At, RoomsMove
  <2>3. CASE Continue(c)
    BY <1>3, <2>3, RoomsStay
       DEF Continue, At, SetUsername, DropCall, FindPeer, TellPeer,
           LeaveServer, ClearUsername, StartCall, Refind, CancelCall,
           SendInvite, FindEnded, SendEnd, FindPartner, HangUp, RoomsMove
  <2> QED
    BY <1>3, <2>1, <2>2, <2>3 DEF Step
<1> QED
  BY <1>1, <1>2, <1>3

-----------------------------------------------------------------------------
(* What the clients know keeps its type, and connections come once.        *)

(* Every step keeps the types of what pages believe of calls.              *)
LEMMA ViewTypes ==
  ASSUME OwnTypes, CallInv, HandlersSound, NEW c \in Conns, Acts(c)
  PROVE  view' \in [Conns -> [CallIds -> Views]]
<1>1. ASSUME NEW dest, NEW id \in CallIds, NEW news \in Views,
             Tell(dest, id, news)
      PROVE  view' \in [Conns -> [CallIds -> Views]]
  BY <1>1, TellChanges
<1>2. CASE UNCHANGED view
  BY <1>2 DEF OwnTypes
<1>3. handler[c].at \in CallLabels => handler[c].id \in CallIds
  BY DEF HandlersSound
<1>4. CASE StartsNot(c) \/ GivesUp(c) \/ Tells(c)
  BY <1>1, <1>3, <1>4 DEF StartsNot, GivesUp, Tells, CallLabels, Views
<1>5. CASE Clears(c)
  BY <1>5 DEF Clears, OwnTypes, Views
<1>6. ASSUME NEW target \in Users, NEW id \in CallIds,
             \/ Answers(c, target, id) \/ Ends(c, target, id)
             \/ Refused(c, id)
      PROVE  view' \in [Conns -> [CallIds -> Views]]
  BY <1>1, <1>6 DEF Answers, Ends, Refused, Views
<1>7. ASSUME NEW target \in Users, NEW id \in CallIds, Invites(c, target, id)
      PROVE  view' \in [Conns -> [CallIds -> Views]]
  <2>1. PICK news \in Views : view' = [view EXCEPT ![c][id] = news]
    BY <1>7 DEF Invites, Views
  <2>2. [view[c] EXCEPT ![id] = news] \in [CallIds -> Views]
    BY DEF OwnTypes
  <2> QED
    BY <2>1, <2>2 DEF OwnTypes
<1> QED
  BY <1>2, <1>4, <1>5, <1>6, <1>7
     DEF Acts, Drops, HasNone, Starts, Silent, Signals

(* A connection comes up once, and goes down for good.                     *)
LEMMA LinkMoves ==
  ASSUME OwnTypes, HandlersSound, NewIdle, NEW c \in Conns, Moves(c), Step(c)
  PROVE  /\ link' \in [Conns -> {"new", "up", "down"}]
         /\ NewIdle'
         /\ \A d \in Conns \ {c} : link'[d] = link[d]
         /\ link'[c] = "up" => \/ link[c] = "up"
                               \/ /\ link[c] = "new"
                                  /\ UNCHANGED <<session, handler, view,
                                                 callVars>>
<1>1. \/ UNCHANGED link /\ link[c] # "new"
      \/ /\ link' = [link EXCEPT ![c] = "up"] /\ link[c] = "new"
         /\ UNCHANGED <<session, handler, view, callVars>>
      \/ link' = [link EXCEPT ![c] = "down"]
  <2>1. CASE Connection(c)
    BY <2>1
       DEF Connection, Connect, Disconnect, Logout, Login, Request
  <2>2. CASE RoomRequest(c)
    BY <2>2 DEF RoomRequest, CreateRoom, JoinRoom, LeaveRoom, Request
  <2>3. CASE CallRequest(c)
    BY <2>3 DEF CallRequest, Invite, Accept, End, Signal, Request
  <2>4. CASE Continue(c)
    <3>1. UNCHANGED link /\ ~At(c, "idle")
      BY <2>4
         DEF Continue, At, SetUsername, DropCall, FindPeer, TellPeer,
             LeaveRooms, LeaveServer, ClearUsername, StartCall, Refind,
             CancelCall, SendInvite, FindEnded, SendEnd, FindPartner, HangUp
    <3> QED
      BY <3>1 DEF NewIdle
  <2> QED
    BY <2>1, <2>2, <2>3, <2>4 DEF Step
<1>2. /\ link' \in [Conns -> {"new", "up", "down"}]
      /\ \A d \in Conns \ {c} : link'[d] = link[d]
      /\ link'[c] # "new"
  BY <1>1 DEF OwnTypes
<1>3. NewIdle'
  BY <1>2, MovesOthers DEF NewIdle, At
<1> QED
  BY <1>1, <1>2, <1>3 DEF OwnTypes

-----------------------------------------------------------------------------
(* Only users who are online are in rooms, calling or in a call.           *)

RoomsOnline == \A m \in Members : m[2] \in DOMAIN online

CallsOnline ==
  \A u \in DOMAIN callUsers :
    callUsers[u].state \in {"calling", "in_call"} => u \in DOMAIN online

(* Whoever is being logged out has left the rooms, and can at most ring.   *)
LeaversOut ==
  \A c \in Conns :
    handler[c].at = "leave_server" => \A m \in Members : m[2] # session[c]

LeaversFree ==
  \A c \in Conns :
    handler[c].at \in LeaveLabels /\ session[c] \in DOMAIN callUsers =>
      callUsers[session[c]].state = "ringing"

(* The last connection of a user is the one that is found.                 *)
LEMMA OwnOnline ==
  ASSUME OneSession, NEW c \in Conns, session[c] \in Users,
         handler[c].at # "clear_username"
  PROVE  /\ session[c] \in DOMAIN online /\ online[session[c]] = c
         /\ \A d \in Conns : session[d] = session[c] =>
              d = c \/ handler[d].at = "clear_username"
  BY DEF OneSession

(* A call that is erased is one of the handler's own user.                 *)
LEMMA ActsCalls ==
  ASSUME NEW c \in Conns, Acts(c)
  PROVE  \/ UNCHANGED callVars
         \/ Starts(c)
         \/ \E target \in Users \ {session[c]}, id \in CallIds :
              Answers(c, target, id)
         \/ \E id \in DOMAIN calls :
              /\ CMP!Erased(id) /\ session[c] \in Parties(id)
              /\ handler'[c].at # handler[c].at
              /\ handler[c].at \in {"drop_call", "cancel_call", "hang_up",
                                    "idle"}
              /\ session[c] # NoUser \/ handler[c].at # "idle"
<1>1. CASE Drops(c)
  BY <1>1 DEF Drops, Changed
<1>2. CASE GivesUp(c)
  BY <1>2 DEF GivesUp, Changed
<1>3. ASSUME NEW target \in Users \ {session[c]}, NEW id \in CallIds,
             Ends(c, target, id)
      PROVE  /\ id \in DOMAIN calls /\ session[c] \in Parties(id)
             /\ CMP!Erased(id)
             /\ handler'[c].at # handler[c].at
             /\ handler[c].at = "idle" /\ session[c] # NoUser
  BY <1>3 DEF Ends, Changed
<1>4. CASE \/ HasNone(c) \/ StartsNot(c) \/ Tells(c) \/ Clears(c) \/ Silent(c)
  BY <1>4 DEF HasNone, StartsNot, Tells, Clears, Silent
<1>5. ASSUME NEW target \in Users, NEW id \in CallIds,
             \/ Refused(c, id) \/ Invites(c, target, id)
             \/ Signals(c, target, id)
      PROVE  UNCHANGED callVars
  BY <1>5 DEF Refused, Invites, Signals
<1> QED
  BY <1>1, <1>2, <1>3, <1>4, <1>5 DEF Acts

(* Only a fresh session and a leaving one change who is online.            *)
LEMMA OnlineStays ==
  ASSUME OwnTypes, HandlersSound, OneSession, NEW c \in Conns, Moves(c),
         handler[c].at # "leave_server",
         session[c] # NoUser \/ handler[c].at # "idle"
  PROVE  UNCHANGED online
  BY OnlineMoves DEF LogsIn, GoesOffline

(* A handler that logs its user out has been doing so, from drop_call on.  *)
LEMMA LeavingMoves ==
  ASSUME OwnTypes, NEW c \in Conns, Moves(c), handler'[c].at \in LeaveLabels
  PROVE  /\ session'[c] = session[c]
         /\ handler[c].at \in LeaveLabels \cup {"drop_call"}
         /\ handler'[c].at = "leave_server" =>
              handler[c].at \in {"leave_rooms", "leave_server"}
<1>1. CASE Rests(c)
  BY <1>1 DEF Rests
<1>2. CASE GoesOn(c)
  <2>1. PICK at \in Labels : /\ <<handler[c].at, at>> \in Following
                            /\ handler'[c].at = at
    BY <1>2 DEF GoesOn, Changed
  <2>2. /\ handler[c].at \in LeaveLabels \cup {"drop_call"}
        /\ at = "leave_server" => handler[c].at = "leave_rooms"
    BY <2>1 DEF Following, LeaveLabels
  <2> QED
    BY <1>2, <2>1, <2>2 DEF GoesOn
<1>3. CASE Takes(c)
  <2>1. /\ handler[c].at \in {"idle", "drop_call"}
        /\ handler'[c].at = "find_peer" => handler[c].at = "drop_call"
        /\ handler'[c].at \in {"start_call", "find_partner", "find_ended",
                               "find_peer"}
    BY <1>3 DEF Takes, Changed
  <2> QED
    BY <1>3, <2>1 DEF Takes, LeaveLabels
<1>4. handler'[c].at \notin {"idle", "set_username", "clear_username",
                            "drop_call"}
  BY DEF LeaveLabels
<1>5. CASE \/ LogsIn(c) \/ Names(c) \/ GoesOffline(c) \/ Forgets(c)
           \/ Leaves(c) \/ Returns(c)
  <2>1. LogsIn(c) => handler'[c].at = "set_username"
    BY DEF LogsIn, Changed
  <2>2. Names(c) \/ Forgets(c) \/ Returns(c) => handler'[c].at = "idle"
    BY DEF Names, Forgets, Returns, Changed
  <2>3. GoesOffline(c) => handler'[c].at = "clear_username"
    BY DEF GoesOffline, Changed
  <2>4. Leaves(c) => handler'[c].at = "drop_call"
    BY DEF Leaves, Changed
  <2> QED
    BY <1>4, <1>5, <2>1, <2>2, <2>3, <2>4
<1> QED
  BY <1>1, <1>2, <1>3, <1>5 DEF Moves

(* A member of a room is online, and one who leaves is out of all.         *)
LEMMA RoomsOnlineKept ==
  ASSUME OwnTypes, HandlersSound, OneSession, RoomsOnline, LeaversOut,
         NEW c \in Conns, Moves(c), RoomsMove(c)
  PROVE  RoomsOnline' /\ LeaversOut'
<1>1. ASSUME NEW m \in Members'
      PROVE  m[2] \in DOMAIN online'
  <2>1. CASE m \notin Members
    BY <2>1, OwnOnline DEF RoomsMove
  <2>2. CASE m \in Members
    <3>1. m[2] \in DOMAIN online
      BY <2>2 DEF RoomsOnline
    <3>2. CASE GoesOffline(c)
      <4>1. WentOffline(c)
        BY <3>2, OnlineMoves
      <4> QED
        BY <2>2, <3>1, <4>1 DEF WentOffline, LeaversOut
    <3>3. CASE LogsIn(c)
      <4>1. PICK u \in Users : CameOnline(c, u)
        BY <3>3, OnlineMoves
      <4> QED
        BY <3>1, <4>1 DEF CameOnline
    <3>4. CASE ~LogsIn(c) /\ ~GoesOffline(c)
      BY <3>1, <3>4, OnlineMoves
    <3> QED
      BY <3>2, <3>3, <3>4
  <2> QED
    BY <2>1, <2>2
<1>2. ASSUME NEW d \in Conns, handler'[d].at = "leave_server",
             NEW m \in Members'
      PROVE  m[2] # session'[d]
  <2>1. CASE d # c
    <3>1. /\ handler[d].at = "leave_server" /\ session'[d] = session[d]
          /\ session[d] \in Users
      BY <1>2, <2>1, MovesOthers DEF HandlersSound
    <3>2. CASE m \in Members
      BY <3>1, <3>2 DEF LeaversOut
    <3>3. CASE m \notin Members
      BY <2>1, <3>1, <3>3, OwnOnline DEF RoomsMove
    <3> QED
      BY <3>2, <3>3
  <2>2. CASE d = c
    <3>1. session'[c] = session[c]
          /\ handler[c].at \in {"leave_rooms", "leave_server"}
      BY <1>2, <2>2, LeavingMoves DEF LeaveLabels
    <3> QED
      BY <2>2, <3>1 DEF RoomsMove, LeaversOut
  <2> QED
    BY <2>1, <2>2
<1> QED
  BY <1>1, <1>2 DEF RoomsOnline, LeaversOut

(* A user of a call is online, or about to drop it.                        *)
LEMMA CallsOnlineKept ==
  ASSUME OwnTypes, CallInv, HandlersSound, OneSession, CallsOnline, LeaversFree,
         NEW c \in Conns, Moves(c), Acts(c)
  PROVE  CallsOnline'
<1>1. CASE UNCHANGED callVars
  <2>1. CASE GoesOffline(c)
    <3>1. WentOffline(c)
      BY <2>1, OnlineMoves
    <3> QED
      BY <1>1, <3>1
         DEF WentOffline, CallsOnline, LeaversFree, LeaveLabels, callVars
  <2>2. CASE LogsIn(c)
    <3>1. PICK u \in Users : CameOnline(c, u)
      BY <2>2, OnlineMoves
    <3> QED
      BY <1>1, <3>1 DEF CameOnline, CallsOnline, callVars
  <2>3. CASE ~LogsIn(c) /\ ~GoesOffline(c)
    BY <1>1, <2>3, OnlineMoves DEF CallsOnline, callVars
  <2> QED
    BY <2>1, <2>2, <2>3
<1>2. CASE Starts(c)
  <2>1. UNCHANGED online /\ session[c] \in DOMAIN online
    BY <1>2, OnlineStays, OwnOnline DEF Starts, HandlersSound
  <2>2. /\ DOMAIN callUsers' =
             DOMAIN callUsers \cup {session[c], handler[c].user}
        /\ \A u \in DOMAIN callUsers : callUsers'[u] = callUsers[u]
        /\ callUsers'[handler[c].user].state = "ringing"
    BY <1>2 DEF Starts, CMP!Started
  <2> QED
    BY <2>1, <2>2 DEF CallsOnline
<1>3. ASSUME NEW target \in Users \ {session[c]}, NEW id \in CallIds,
             Answers(c, target, id)
      PROVE  CallsOnline'
  <2>1. UNCHANGED online /\ session[c] \in DOMAIN online
    BY <1>3, OnlineStays, OwnOnline DEF Answers, OwnTypes
  <2>2. /\ id \in DOMAIN calls /\ ~calls[id].accepted
        /\ calls[id].caller = target
        /\ DOMAIN callUsers' = DOMAIN callUsers
        /\ \A u \in DOMAIN callUsers :
             u \notin {target, session[c]} =>
               callUsers'[u].state = callUsers[u].state
    BY <1>3 DEF Answers, CMP!Accepted
  <2>3. target \in DOMAIN callUsers /\ callUsers[target].state = "calling"
    BY <2>2, UsersOfCall DEF Parties
  <2> QED
    BY <2>1, <2>2, <2>3 DEF CallsOnline
<1>4. ASSUME NEW id \in DOMAIN calls, CMP!Erased(id),
             handler[c].at # "leave_server",
             session[c] # NoUser \/ handler[c].at # "idle"
      PROVE  CallsOnline'
  BY <1>4, OnlineStays DEF CMP!Erased, CallsOnline
<1> QED
  BY <1>1, <1>2, <1>3, <1>4, ActsCalls

(* A user who has dropped his call while leaving gets no other.            *)
LEMMA LeaversFreeKept ==
  ASSUME OwnTypes, CallInv, HandlersSound, OneSession, LeaversFree,
         NEW c \in Conns, Moves(c), Acts(c)
  PROVE  LeaversFree'
<1> SUFFICES ASSUME NEW d \in Conns, handler'[d].at \in LeaveLabels,
                    session'[d] \in DOMAIN callUsers'
             PROVE  callUsers'[session'[d]].state = "ringing"
  BY DEF LeaversFree
<1>1. CASE d # c
  <2>1. /\ handler[d].at \in LeaveLabels /\ session'[d] = session[d]
        /\ session[d] \in Users
        /\ session[d] \in DOMAIN callUsers =>
             callUsers[session[d]].state = "ringing"
    BY <1>1, MovesOthers DEF LeaversFree, HandlersSound, LeaveLabels
  <2>2. \/ session[c] # session[d]
        \/ handler[c].at \in {"clear_username"}
    BY <1>1, <2>1, OwnOnline DEF LeaveLabels
  <2>3. CASE UNCHANGED callVars
    BY <2>1, <2>3 DEF callVars
  <2>4. CASE Starts(c)
    BY <2>1, <2>2, <2>4 DEF Starts, CMP!Started
  <2>5. ASSUME NEW target \in Users \ {session[c]}, NEW id \in CallIds,
               Answers(c, target, id)
        PROVE  callUsers'[session'[d]].state = "ringing"
    <3>1. /\ id \in DOMAIN calls /\ ~calls[id].accepted
          /\ calls[id].caller = target
          /\ DOMAIN callUsers' = DOMAIN callUsers
          /\ \A u \in DOMAIN callUsers :
               u \notin {target, session[c]} =>
                 callUsers'[u].state = callUsers[u].state
      BY <2>5 DEF Answers, CMP!Accepted
    <3>2. callUsers[target].state = "calling"
      BY <3>1, UsersOfCall DEF Parties
    <3> QED
      BY <2>1, <2>2, <2>5, <3>1, <3>2 DEF Answers
  <2>6. ASSUME NEW id \in DOMAIN calls, CMP!Erased(id)
        PROVE  callUsers'[session'[d]].state = "ringing"
    BY <2>1, <2>6 DEF CMP!Erased
  <2> QED
    BY <2>3, <2>4, <2>5, <2>6, ActsCalls
<1>2. CASE d = c
  <2>1. CASE Drops(c)
    <3>1. session[c] \notin DOMAIN callUsers'
      BY <2>1 DEF Drops, CMP!Erased, Parties
    <3>2. handler[c].at = "drop_call"
      BY <2>1 DEF Drops
    <3>3. session'[c] = session[c]
      BY <1>2, LeavingMoves
    <3> QED
      BY <1>2, <3>1, <3>3
  <2>2. CASE HasNone(c)
    <3>1. session[c] \notin DOMAIN callUsers' /\ handler[c].at = "drop_call"
      BY <2>2 DEF HasNone, callVars
    <3>2. session'[c] = session[c]
      BY <1>2, LeavingMoves
    <3> QED
      BY <1>2, <3>1, <3>2
  <2>3. CASE ~Drops(c) /\ ~HasNone(c)
    <3>1. /\ handler[c].at \in LeaveLabels \cup {"drop_call"}
          /\ session'[c] = session[c]
      BY <1>2, LeavingMoves
    <3>2. handler[c].at \in LeaveLabels
      <4>1. ASSUME handler[c].at = "drop_call" PROVE FALSE
        <5>1. UNCHANGED handler
          BY <2>3, <4>1
             DEF Acts, Starts, StartsNot, GivesUp, Tells, Clears, Forgets,
                 Silent, Answers, Ends, Refused, Invites, Signals
        <5> QED
          BY <1>2, <4>1, <5>1 DEF LeaveLabels
      <4> QED
        BY <3>1, <4>1
    <3>3. UNCHANGED callVars
      BY <3>2, ActsCalls DEF LeaveLabels, Starts, Answers
    <3> QED
      BY <1>2, <3>1, <3>2, <3>3 DEF LeaversFree, callVars
  <2> QED
    BY <2>1, <2>2, <2>3
<1> QED
  BY <1>1, <1>2

-----------------------------------------------------------------------------
(* Ids of calls are not used again, and what a client knows of its calls.  *)

(* Nobody else has the id of a call that is about to begin.                *)
NewIdFree(c) ==
  /\ handler[c].id \notin DOMAIN calls
  /\ view[c][handler[c].id] = "calling"
  /\ \A d \in Conns \ {c} :
       /\ handler[d].id # handler[c].id
       /\ view[d][handler[c].id] \in {"none", "over"}

NewIdsFree ==
  \A c \in Conns : handler[c].at = "start_call" => NewIdFree(c)

(* The call whose acceptance or signaling is sent on is the one accepted   *)
(* between the two; it has ended when the partner is found to be gone.     *)
PartnersKnown ==
  \A c \in Conns :
    /\ handler[c].at = "find_partner" /\ handler[c].id \in DOMAIN calls =>
         /\ calls[handler[c].id].accepted
         /\ Parties(handler[c].id) = {session[c], handler[c].user}
    /\ handler[c].at = "hang_up" => handler[c].id \notin DOMAIN calls

ViewsTrue ==
  \A c \in Conns, id \in CallIds :
    /\ session[c] = NoUser => view[c][id] \notin {"calling", "in_call"}
    /\ id \in DOMAIN calls /\ view[c][id] = "calling" =>
         session[c] = calls[id].caller
    /\ id \in DOMAIN calls /\ view[c][id] = "in_call" => calls[id].accepted

(* A request's labels are entered from idle, hang_up from find_partner.    *)
LEMMA EnteringMoves ==
  ASSUME OwnTypes, NEW c \in Conns, Moves(c), ~Takes(c)
  PROVE  /\ handler'[c].at \in {"start_call", "find_partner"} =>
              UNCHANGED <<online, session, handler>>
         /\ handler'[c].at = "hang_up" =>
              \/ UNCHANGED <<online, session, handler>>
              \/ /\ handler[c].at = "find_partner"
                 /\ handler[c].user \notin DOMAIN online
                 /\ UNCHANGED <<online, session>>
                 /\ handler'[c].id = handler[c].id
         /\ handler'[c].id \in {handler[c].id, NoCall}
<1>1. CASE Rests(c)
  BY <1>1 DEF Rests
<1>2. CASE GoesOn(c)
  <2>1. PICK at \in Labels :
          /\ <<handler[c].at, at>> \in Following
          /\ handler'[c].at = at /\ handler'[c].id = handler[c].id
          /\ at = "hang_up" => handler[c].user \notin DOMAIN online
    BY <1>2 DEF GoesOn, Changed
  <2>2. /\ at \notin {"start_call", "find_partner"}
        /\ at = "hang_up" => handler[c].at = "find_partner"
    BY <2>1 DEF Following
  <2> QED
    BY <1>2, <2>1, <2>2 DEF GoesOn
<1>3. CASE LogsIn(c)
  BY <1>3 DEF LogsIn, Changed
<1>4. CASE Names(c) \/ Forgets(c) \/ Returns(c)
  BY <1>4 DEF Names, Forgets, Returns, Changed
<1>5. CASE GoesOffline(c)
  BY <1>5 DEF GoesOffline, Changed
<1>6. CASE Leaves(c)
  BY <1>6 DEF Leaves, Changed
<1> QED
  BY <1>1, <1>2, <1>3, <1>4, <1>5, <1>6 DEF Moves

(* A step of another connection leaves a new call's id alone.              *)
LEMMA NewIdLeftAlone ==
  ASSUME OwnTypes, CallInv, HandlersSound, NewIdsFree,
         NEW c \in Conns, NEW d \in Conns \ {c}, Moves(c), Acts(c),
         handler[d].at = "start_call"
  PROVE  /\ handler[d].id \notin DOMAIN calls'
         /\ handler'[c].id # handler[d].id
         /\ view'[c][handler[d].id] \in {"none", "over"}
         /\ \A e \in Conns \ {c} :
              view'[e][handler[d].id] = view[e][handler[d].id]
<1> DEFINE i == handler[d].id
<1>1. /\ i \in CallIds /\ i \notin DOMAIN calls /\ i # NoCall
      /\ handler[c].id # i /\ view[c][i] \in {"none", "over"}
  BY NoCallAssumption DEF NewIdsFree, NewIdFree, HandlersSound, CallLabels
<1>2. handler[c].at \in CallLabels => handler[c].id \in CallIds
  BY DEF HandlersSound
<1> HIDE DEF i
<1>3. ASSUME NEW dest, NEW id \in CallIds, NEW news \in Views, id # i,
             Tell(dest, id, news)
      PROVE  \A e \in Conns : view'[e][i] = view[e][i]
  <2>1. \A e \in Conns, j \in CallIds :
          j # id \/ e \notin dest => view'[e][j] = view[e][j]
    BY <1>3, TellChanges
  <2> QED
    BY <1>1, <1>3, <2>1
<1>4. CASE Drops(c)
  BY <1>1, <1>4 DEF Drops, CMP!Erased, Changed, i
<1>5. CASE HasNone(c)
  BY <1>1, <1>5 DEF HasNone, Changed, callVars, i
<1>6. CASE Starts(c)
  BY <1>1, <1>6 DEF Starts, CMP!Started, Changed, i
<1>7. CASE StartsNot(c)
  <2>1. \A e \in Conns : view'[e][i] = view[e][i]
    BY <1>1, <1>2, <1>3, <1>7 DEF StartsNot, CallLabels, Views
  <2> QED
    BY <1>1, <1>7, <2>1 DEF StartsNot, Changed, callVars, i
<1>8. CASE GivesUp(c)
  <2>1. \A e \in Conns : view'[e][i] = view[e][i]
    BY <1>1, <1>2, <1>3, <1>8 DEF GivesUp, CallLabels, Views
  <2> QED
    BY <1>1, <1>8, <2>1 DEF GivesUp, Changed, CMP!Erased, callVars, i
<1>9. CASE Tells(c)
  <2>1. \A e \in Conns : view'[e][i] = view[e][i]
    BY <1>1, <1>2, <1>3, <1>9 DEF Tells, CallLabels, Views
  <2> QED
    BY <1>1, <1>9, <2>1 DEF Tells, Changed, callVars, i
<1>10. CASE Clears(c)
  BY <1>1, <1>10 DEF Clears, Forgets, Changed, callVars, OwnTypes, i
<1>11. CASE Silent(c)
  BY <1>1, <1>11, EnteringMoves DEF Silent, callVars, i
<1>12. ASSUME NEW target \in Users, NEW id \in CallIds,
              Answers(c, target, id) \/ Ends(c, target, id)
       PROVE  /\ i \notin DOMAIN calls' /\ handler'[c].id # i
              /\ \A e \in Conns : view'[e][i] = view[e][i]
  <2>1. /\ id \in DOMAIN calls /\ handler'[c].id = id
        /\ DOMAIN calls' \subseteq DOMAIN calls
    BY <1>12 DEF Answers, Ends, CMP!Accepted, CMP!Erased, Changed
  <2> QED
    BY <1>1, <1>3, <1>12, <2>1 DEF Answers, Ends, Views
<1>13. ASSUME NEW id \in CallIds, Refused(c, id)
       PROVE  /\ i \notin DOMAIN calls' /\ handler'[c].id # i
              /\ view'[c][i] \in {"none", "over"}
              /\ \A e \in Conns \ {c} : view'[e][i] = view[e][i]
  BY <1>1, <1>13, TellChanges DEF Refused, callVars, Views
<1>14. ASSUME NEW target \in Users, NEW id \in CallIds, Invites(c, target, id)
       PROVE  /\ i \notin DOMAIN calls' /\ handler'[c].id # i
              /\ \A e \in Conns : view'[e][i] = view[e][i]
  <2>1. id # i
    BY <1>14 DEF Invites, Unheard, i
  <2>2. \A e \in Conns : view[e] \in [CallIds -> Views]
    BY DEF OwnTypes
  <2>3. \E news : view' = [view EXCEPT ![c][id] = news]
    BY <1>14 DEF Invites
  <2>4. \A e \in Conns : view'[e][i] = view[e][i]
    BY <1>1, <2>1, <2>2, <2>3 DEF OwnTypes
  <2>5. handler'[c].id \in {handler[c].id, id}
    BY <1>14 DEF Invites, Changed
  <2> QED
    BY <1>1, <1>14, <2>1, <2>4, <2>5 DEF Invites, callVars
<1>15. ASSUME NEW target \in Users, NEW id \in CallIds, Signals(c, target, id)
       PROVE  /\ i \notin DOMAIN calls' /\ handler'[c].id # i
              /\ \A e \in Conns : view'[e][i] = view[e][i]
  BY <1>1, <1>15 DEF Signals, Changed, callVars
<1>16. \A e \in Conns \ {c} : e \in Conns
  OBVIOUS
<1> QED
  BY <1>1, <1>4, <1>5, <1>6, <1>7, <1>8, <1>9, <1>10, <1>11, <1>12, <1>13,
     <1>14, <1>15, <1>16 DEF Acts, i

(* A handler comes to the labels of a request only with that request.      *)
LEMMA EnteringActs ==
  ASSUME OwnTypes, HandlersSound, NEW c \in Conns, Moves(c), Acts(c),
         handler'[c].at \in {"start_call", "find_partner", "hang_up"}
  PROVE  \/ UNCHANGED <<session, handler, callVars, view>>
         \/ /\ handler'[c].at = "start_call"
            /\ \E target \in Users, id \in CallIds : Invites(c, target, id)
         \/ /\ handler'[c].at = "find_partner"
            /\ \E target \in Users, id \in CallIds :
                 Answers(c, target, id) \/ Signals(c, target, id)
         \/ /\ handler'[c].at = "hang_up" /\ handler[c].at = "find_partner"
            /\ handler[c].user \notin DOMAIN online
            /\ UNCHANGED <<session, callVars, view>>
            /\ handler'[c].id = handler[c].id
<1>1. CASE Silent(c)
  BY <1>1, EnteringMoves DEF Silent
<1>2. ASSUME NEW target \in Users, NEW id \in CallIds,
             \/ Answers(c, target, id) \/ Signals(c, target, id)
      PROVE  handler'[c].at = "find_partner"
  BY <1>2 DEF Answers, Signals, Changed
<1>3. ASSUME NEW target \in Users, NEW id \in CallIds, Invites(c, target, id)
      PROVE  handler'[c].at \in {"start_call", "idle"}
  BY <1>3 DEF Invites, Changed
<1>4. ASSUME NEW target \in Users, NEW id \in CallIds,
             Ends(c, target, id) \/ Refused(c, id)
      PROVE  handler'[c].at \in {"find_ended", "idle"}
  BY <1>4 DEF Ends, Refused, Changed
<1>5. Drops(c) \/ HasNone(c) \/ Starts(c) =>
        handler'[c].at \in {"find_peer", "leave_rooms", "refind"}
  <2>1. Drops(c) => handler'[c].at = "find_peer"
    BY DEF Drops, Changed
  <2>2. HasNone(c) => handler'[c].at = "leave_rooms"
    BY DEF HasNone, Changed
  <2>3. Starts(c) => handler'[c].at = "refind"
    BY DEF Starts, Changed
  <2> QED
    BY <2>1, <2>2, <2>3
<1>6. StartsNot(c) \/ GivesUp(c) \/ Tells(c) \/ Clears(c) =>
        handler'[c].at \in {"idle", "leave_rooms"}
  BY DEF StartsNot, GivesUp, Tells, Clears, Forgets, Changed
<1> QED
  BY <1>1, <1>2, <1>3, <1>4, <1>5, <1>6 DEF Acts

(* The id of a call that is to be started is in no use.                    *)
LEMMA NewIdsFreeKept ==
  ASSUME OwnTypes, CallInv, HandlersSound, NewIdsFree,
         NEW c \in Conns, Moves(c), Acts(c)
  PROVE  NewIdsFree'
<1> SUFFICES ASSUME NEW d \in Conns, handler'[d].at = "start_call"
             PROVE  NewIdFree(d)'
  BY DEF NewIdsFree
<1>1. CASE d # c
  <2>1. handler'[d] = handler[d] /\ handler[d].at = "start_call"
    BY <1>1, MovesOthers
  <2>2. /\ view[d][handler[d].id] = "calling"
        /\ \A e \in Conns \ {d} :
             /\ handler[e].id # handler[d].id
             /\ view[e][handler[d].id] \in {"none", "over"}
    BY <2>1 DEF NewIdsFree, NewIdFree
  <2>3. /\ handler[d].id \notin DOMAIN calls'
        /\ handler'[c].id # handler[d].id
        /\ view'[c][handler[d].id] \in {"none", "over"}
        /\ \A e \in Conns \ {c} :
             view'[e][handler[d].id] = view[e][handler[d].id]
    BY <1>1, <2>1, NewIdLeftAlone
  <2>4. \A e \in Conns \ {c} : handler'[e] = handler[e]
    BY MovesOthers
  <2> QED
    BY <1>1, <2>1, <2>2, <2>3, <2>4 DEF NewIdFree
<1>2. CASE d = c
  <2>1. CASE UNCHANGED <<session, handler, callVars, view>>
    BY <2>1 DEF NewIdsFree, NewIdFree, callVars
  <2>2. ASSUME NEW target \in Users, NEW id \in CallIds, Invites(c, target, id)
        PROVE  NewIdFree(d)'
    <3>1. /\ id \notin DOMAIN calls
          /\ \A e \in Conns : view[e][id] = "none" /\ handler[e].id # id
      BY <2>2 DEF Invites, Unheard
    <3>2. /\ handler'[c].id = id /\ UNCHANGED callVars
          /\ view' = [view EXCEPT ![c][id] = "calling"]
      BY <1>2, <2>2 DEF Invites, Changed
    <3>3. \A e \in Conns : view[e] \in [CallIds -> Views]
      BY DEF OwnTypes
    <3>4. /\ view'[c][id] = "calling"
          /\ \A e \in Conns \ {c} : view'[e] = view[e]
      BY <3>2, <3>3 DEF OwnTypes
    <3> QED
      BY <1>2, <3>1, <3>2, <3>4, MovesOthers DEF callVars, NewIdFree
  <2> QED
    BY <1>2, <2>1, <2>2, EnteringActs
<1> QED
  BY <1>1, <1>2

(* The users of an accepted call are online.                               *)
LEMMA PartnersOnline ==
  ASSUME CallInv, CallsOnline, NEW id \in DOMAIN calls, calls[id].accepted
  PROVE  Parties(id) \subseteq DOMAIN online
  BY UsersOfCall DEF CallsOnline

(* A call keeps its users, and stays accepted, until it ends.              *)
LEMMA CallsChange ==
  ASSUME OwnTypes, CallInv, NEW c \in Conns, Acts(c), NEW i \in DOMAIN calls'
  PROVE  \/ /\ i \in DOMAIN calls
            /\ calls'[i].caller = calls[i].caller
            /\ calls'[i].callee = calls[i].callee
            /\ calls[i].accepted => calls'[i].accepted
         \/ /\ Starts(c) /\ i = handler[c].id /\ i \notin DOMAIN calls
            /\ calls'[i].caller = session[c]
<1>1. CASE UNCHANGED callVars
  BY <1>1 DEF callVars
<1>2. CASE Starts(c)
  BY <1>2 DEF Starts, CMP!Started
<1>3. ASSUME NEW target \in Users, NEW id \in CallIds, Answers(c, target, id)
      PROVE  /\ i \in DOMAIN calls
             /\ calls'[i].caller = calls[i].caller
             /\ calls'[i].callee = calls[i].callee
             /\ calls[i].accepted => calls'[i].accepted
  <2>1. CMP!Accepted(session[c], target, id)
    BY <1>3 DEF Answers
  <2> QED
    BY <2>1 DEF CMP!Accepted
<1>4. ASSUME NEW id \in DOMAIN calls, CMP!Erased(id)
      PROVE  i \in DOMAIN calls /\ calls'[i] = calls[i]
  BY <1>4 DEF CMP!Erased
<1> QED
  BY <1>1, <1>2, <1>3, <1>4, ActsCalls

(* A handler that tells a partner knows who it is.                         *)
LEMMA PartnersKnownKept ==
  ASSUME OwnTypes, CallInv, HandlersSound, CallsOnline, NewIdsFree,
         PartnersKnown, NEW c \in Conns, Moves(c), Acts(c)
  PROVE  PartnersKnown'
<1> SUFFICES ASSUME NEW d \in Conns
             PROVE  PartnersKnown!(d)'
  BY DEF PartnersKnown
<1>1. CASE d # c
  <2>1. handler'[d] = handler[d] /\ session'[d] = session[d]
    BY <1>1, MovesOthers
  <2>2. handler[c].at = "start_call" => handler[c].id # handler[d].id
    BY <1>1 DEF NewIdsFree, NewIdFree
  <2>3. ASSUME NEW i, i = handler[d].id, i \in DOMAIN calls'
        PROVE  /\ i \in DOMAIN calls
               /\ Parties(i)' = Parties(i)
               /\ calls[i].accepted => calls'[i].accepted
    BY <2>2, <2>3, CallsChange DEF Starts, Parties
  <2>4. PartnersKnown!(d)
    BY DEF PartnersKnown
  <2> QED
    BY <2>1, <2>3, <2>4 DEF Parties
<1>2. CASE d = c
  <2>1. CASE handler'[c].at \notin {"find_partner", "hang_up"}
    BY <1>2, <2>1
  <2>2. CASE UNCHANGED <<session, handler, callVars, view>>
    BY <2>2 DEF PartnersKnown, Parties, callVars
  <2>3. ASSUME NEW target \in Users, NEW id \in CallIds,
               Answers(c, target, id)
        PROVE  PartnersKnown!(d)'
    <3>1. /\ handler'[c] = [at |-> "find_partner", user |-> target, id |-> id,
                            dest |-> {}]
          /\ calls'[id] = [caller |-> target, callee |-> session[c],
                           accepted |-> TRUE]
          /\ handler[c].at = "idle" /\ session[c] # NoUser
      BY <2>3 DEF Answers, CMP!Accepted, Changed
    <3>2. session'[c] = session[c]
      BY <3>1
         DEF Moves, Rests, LogsIn, Names, GoesOffline, Forgets, Leaves, Takes,
             GoesOn, Returns
    <3> QED
      BY <1>2, <3>1, <3>2 DEF Parties
  <2>4. ASSUME NEW target \in Users, NEW id \in CallIds,
               Signals(c, target, id)
        PROVE  PartnersKnown!(d)'
    <3>1. /\ handler'[c] = [at |-> "find_partner", user |-> target, id |-> id,
                            dest |-> {}]
          /\ UNCHANGED callVars /\ calls[id].accepted
          /\ Parties(id) = {session[c], target}
          /\ handler[c].at = "idle" /\ session[c] # NoUser
      BY <2>4 DEF Signals, Changed
    <3>2. session'[c] = session[c]
      BY <3>1
         DEF Moves, Rests, LogsIn, Names, GoesOffline, Forgets, Leaves, Takes,
             GoesOn, Returns
    <3> QED
      BY <1>2, <3>1, <3>2 DEF Parties, callVars
  <2>5. ASSUME handler'[c].at = "hang_up", handler[c].at = "find_partner",
               handler[c].user \notin DOMAIN online,
               UNCHANGED <<session, callVars, view>>,
               handler'[c].id = handler[c].id
        PROVE  PartnersKnown!(d)'
    <3>1. handler[c].id \notin DOMAIN calls
      BY <2>5, PartnersOnline DEF PartnersKnown
    <3> QED
      BY <1>2, <2>5, <3>1 DEF callVars
  <2> QED
    BY <1>2, <2>1, <2>2, <2>3, <2>4, <2>5, EnteringActs
<1> QED
  BY <1>1, <1>2

(* Only an invitation or an acceptance of its own makes a client believe   *)
(* that it is in a call.                                                   *)
LEMMA ViewMoves ==
  ASSUME OwnTypes, CallInv, HandlersSound, NEW c \in Conns, Acts(c),
         NEW d \in Conns, NEW i \in CallIds
  PROVE  \/ view'[d][i] = view[d][i]
         \/ view'[d][i] \notin {"calling", "in_call"}
         \/ /\ d = c /\ view'[c][i] = "calling"
            /\ \E target \in Users : Invites(c, target, i)
            /\ handler'[c].at = "start_call" /\ handler'[c].id = i
         \/ /\ d = c /\ view'[c][i] = "in_call"
            /\ \E target \in Users : Answers(c, target, i)
<1>1. ASSUME NEW dest, NEW id \in CallIds, NEW news \in {"over", "ringing"},
             Tell(dest, id, news)
      PROVE  \/ view'[d][i] = view[d][i]
             \/ view'[d][i] \notin {"calling", "in_call"}
  <2>1. /\ \A e \in Conns, j \in CallIds :
             j # id => view'[e][j] = view[e][j]
        /\ \A e \in Conns : view'[e][id] \in {news, view[e][id]}
    BY <1>1, TellChanges DEF Views
  <2> QED
    BY <2>1
<1>2. handler[c].at \in CallLabels => handler[c].id \in CallIds
  BY DEF HandlersSound
<1>3. CASE UNCHANGED view
  BY <1>3
<1>4. CASE StartsNot(c) \/ GivesUp(c) \/ Tells(c)
  BY <1>1, <1>2, <1>4 DEF StartsNot, GivesUp, Tells, CallLabels
<1>5. CASE Clears(c)
  BY <1>5 DEF Clears, OwnTypes
<1>6. ASSUME NEW target \in Users, NEW id \in CallIds,
             Ends(c, target, id) \/ Refused(c, id)
      PROVE  \/ view'[d][i] = view[d][i]
             \/ view'[d][i] \notin {"calling", "in_call"}
  BY <1>1, <1>6 DEF Ends, Refused
<1>7. ASSUME NEW target \in Users, NEW id \in CallIds, Answers(c, target, id)
      PROVE  \/ view'[d][i] = view[d][i]
             \/ d = c /\ i = id /\ view'[c][i] = "in_call"
  <2>1. /\ \A e \in Conns, j \in CallIds :
             j # id \/ e \notin {c} => view'[e][j] = view[e][j]
        /\ \A e \in Conns : view'[e][id] \in {"in_call", view[e][id]}
    BY <1>7, TellChanges DEF Answers, Views
  <2> QED
    BY <2>1
<1>8. ASSUME NEW target \in Users, NEW id \in CallIds, Invites(c, target, id)
      PROVE  \/ view'[d][i] = view[d][i]
             \/ view'[d][i] \notin {"calling", "in_call"}
             \/ /\ d = c /\ i = id /\ view'[c][i] = "calling"
                /\ handler'[c].at = "start_call" /\ handler'[c].id = i
  <2>1. view[c] \in [CallIds -> Views]
    BY DEF OwnTypes
  <2>2. CASE view' = [view EXCEPT ![c][id] = "over"]
    BY <2>1, <2>2 DEF OwnTypes
  <2>3. CASE /\ view' = [view EXCEPT ![c][id] = "calling"]
             /\ Changed(c, "start_call", target, id, {})
    BY <2>1, <2>3 DEF OwnTypes, Changed
  <2> QED
    BY <1>8, <2>2, <2>3 DEF Invites
<1> QED
  BY <1>3, <1>4, <1>5, <1>6, <1>7, <1>8
     DEF Acts, Drops, HasNone, Starts, Silent, Signals

(* A client whose session ends forgets its calls, and one whose session    *)
(* begins has none to remember.                                            *)
LEMMA SessionMoves ==
  ASSUME OwnTypes, HandlersSound, ViewsTrue, NEW c \in Conns, Moves(c), Acts(c),
         NEW d \in Conns, NEW i \in CallIds,
         view'[d][i] = view[d][i], view[d][i] \in {"calling", "in_call"}
  PROVE  session'[d] = session[d] /\ session[d] # NoUser
<1>1. session[d] # NoUser
  BY DEF ViewsTrue
<1>2. CASE d # c
  BY <1>1, <1>2, MovesOthers
<1>3. CASE d = c
  <2>1. ASSUME Forgets(c) PROVE FALSE
    <3>1. handler[c].at = "clear_username" /\ handler'[c].at = "idle"
      BY <2>1 DEF Forgets, Changed
    <3>2. Clears(c)
      BY <3>1
         DEF Acts, Drops, HasNone, Starts, StartsNot, GivesUp, Tells, Silent,
             Answers, Ends, Refused, Invites, Signals
    <3>3. view'[c][i] = "none"
      BY <3>2 DEF Clears, OwnTypes
    <3> QED
      BY <1>3, <3>3
  <2>2. ~Names(c)
    BY <1>1, <1>3 DEF Names, HandlersSound
  <2> QED
    BY <1>1, <1>3, <2>1, <2>2
       DEF Moves, Rests, LogsIn, GoesOffline, Leaves, Takes, GoesOn, Returns
<1> QED
  BY <1>2, <1>3

(* What a page believes of a call stays true of the call.                  *)
LEMMA ViewsTrueKept ==
  ASSUME OwnTypes, CallInv, HandlersSound, NewIdsFree, ViewsTrue,
         NEW c \in Conns, Moves(c), Acts(c)
  PROVE  ViewsTrue'
<1> SUFFICES ASSUME NEW d \in Conns, NEW i \in CallIds,
                    view'[d][i] \in {"calling", "in_call"}
             PROVE  /\ session'[d] # NoUser
                    /\ i \in DOMAIN calls' /\ view'[d][i] = "calling" =>
                         session'[d] = calls'[i].caller
                    /\ i \in DOMAIN calls' /\ view'[d][i] = "in_call" =>
                         calls'[i].accepted
  BY DEF ViewsTrue
<1>1. CASE view'[d][i] = view[d][i]
  <2>1. session'[d] = session[d] /\ session[d] # NoUser
    BY <1>1, SessionMoves
  <2>2. ASSUME i \in DOMAIN calls'
        PROVE  /\ view'[d][i] = "calling" => session'[d] = calls'[i].caller
               /\ view'[d][i] = "in_call" => calls'[i].accepted
    <3>1. CASE /\ i \in DOMAIN calls
               /\ calls'[i].caller = calls[i].caller
               /\ calls[i].accepted => calls'[i].accepted
      BY <1>1, <2>1, <3>1 DEF ViewsTrue
    <3>2. CASE /\ Starts(c) /\ i = handler[c].id
               /\ calls'[i].caller = session[c]
      <4>1. NewIdFree(c)
        BY <3>2 DEF Starts, NewIdsFree
      <4>2. d = c /\ view[d][i] = "calling"
        BY <1>1, <3>2, <4>1 DEF NewIdFree
      <4> QED
        BY <1>1, <2>1, <3>2, <4>2
    <3> QED
      BY <2>2, <3>1, <3>2, CallsChange
  <2> QED
    BY <2>1, <2>2
<1>2. ASSUME NEW target \in Users, Invites(c, target, i), d = c,
             view'[c][i] = "calling"
      PROVE  session'[d] # NoUser /\ i \notin DOMAIN calls'
  <2>1. /\ handler[c].at = "idle" /\ session[c] # NoUser
        /\ i \notin DOMAIN calls'
    BY <1>2 DEF Invites, Unheard, callVars
  <2>2. session'[c] = session[c]
    BY <2>1
       DEF Moves, Rests, LogsIn, Names, GoesOffline, Forgets, Leaves, Takes,
           GoesOn, Returns
  <2> QED
    BY <1>2, <2>1, <2>2
<1>3. ASSUME NEW target \in Users, Answers(c, target, i), d = c,
             view'[c][i] = "in_call"
      PROVE  session'[d] # NoUser /\ calls'[i].accepted
  <2>1. /\ handler[c].at = "idle" /\ session[c] # NoUser
        /\ calls'[i].accepted
    BY <1>3 DEF Answers, CMP!Accepted
  <2>2. session'[c] = session[c]
    BY <2>1
       DEF Moves, Rests, LogsIn, Names, GoesOffline, Forgets, Leaves, Takes,
           GoesOn, Returns
  <2> QED
    BY <1>3, <2>1, <2>2
<1> QED
  BY <1>1, <1>2, <1>3, ViewMoves

-----------------------------------------------------------------------------
(* Why a client may believe that it is in a call.                          *)

(* A handler is on its way to tell the client that the call is over.       *)
NewsFrom(d, c, id) ==
  /\ handler[d].id = id
  /\ \/ handler[d].at \in {"find_peer", "find_ended"}
        /\ handler[d].user = session[c]
     \/ handler[d].at \in {"tell_peer", "send_end"} /\ c \in handler[d].dest

(* The server knows the call, or is about to begin it, or the client is    *)
(* being logged out, or will hear that the call is over.                   *)
Backed(c, id) ==
  \/ id \in DOMAIN calls /\ session[c] \in Parties(id)
  \/ handler[c].at = "start_call" /\ handler[c].id = id
  \/ handler[c].at \in LeaveLabels \cup {"clear_username"}
  \/ \E d \in Conns : NewsFrom(d, c, id)

BeliefsBacked ==
  \A c \in Conns, id \in CallIds :
    link[c] = "up" /\ view[c][id] \in {"calling", "in_call"} => Backed(c, id)

(* A call that goes is the handler's own, and its other user is to hear.   *)
LEMMA EndedCallsTold ==
  ASSUME OwnTypes, CallInv, HandlersSound, OneSession, PartnersKnown, ViewsTrue,
         NEW c \in Conns, Moves(c), Acts(c),
         NEW d \in Conns, NEW i \in CallIds, link[d] = "up",
         view'[d][i] = view[d][i], view[d][i] \in {"calling", "in_call"},
         session'[d] = session[d], session[d] # NoUser,
         i \in DOMAIN calls \ DOMAIN calls', session[d] \in Parties(i)
  PROVE  Backed(d, i)'
<1>1. session[d] \in Users
  BY DEF OwnTypes
<1>2. ASSUME d # c, session[d] = session[c], handler[c].at # "clear_username"
      PROVE  Backed(d, i)'
  <2>1. handler[d].at = "clear_username"
    BY <1>1, <1>2, OwnOnline
  <2>2. handler'[d] = handler[d]
    BY <1>2, MovesOthers
  <2> QED
    BY <2>1, <2>2 DEF Backed
<1>3. CASE Drops(c)
  <2>1. PICK peer \in Users \ {session[c]} :
          /\ Parties(i) = {session[c], peer}
          /\ Changed(c, "find_peer", peer, i, {})
    BY <1>3 DEF Drops, CMP!Erased
  <2>2. handler[c].at = "drop_call"
    BY <1>3 DEF Drops
  <2>3. CASE session[d] = peer
    <3>1. NewsFrom(c, d, i)'
      BY <2>1, <2>3 DEF NewsFrom, Changed
    <3> QED
      BY <3>1 DEF Backed
  <2>4. CASE d = c
    BY <2>1, <2>4 DEF Backed, Changed, LeaveLabels
  <2> QED
    BY <1>2, <2>1, <2>2, <2>3, <2>4
<1>4. ASSUME NEW target \in Users, NEW id \in CallIds, Ends(c, target, id)
      PROVE  Backed(d, i)'
  <2>1. /\ i = id /\ Parties(i) = {session[c], target}
        /\ Changed(c, "find_ended", target, i, {})
        /\ Tell({c}, i, "over") /\ handler[c].at = "idle"
    BY <1>4 DEF Ends, CMP!Erased
  <2>2. d # c
    <3>1. d \in {c} => view'[d][i] = "over"
      BY <2>1, TellChanges DEF Views
    <3> QED
      BY <3>1
  <2>3. CASE session[d] = target
    <3>1. NewsFrom(c, d, i)'
      BY <2>1, <2>3 DEF NewsFrom, Changed
    <3> QED
      BY <3>1 DEF Backed
  <2> QED
    BY <1>2, <2>1, <2>2, <2>3
<1>5. CASE GivesUp(c)
  <2>1. /\ i = handler[c].id /\ handler[c].at \in {"cancel_call", "hang_up"}
        /\ handler[c].at = "cancel_call" =>
             ~calls[i].accepted /\ calls[i].caller = session[c]
        /\ Tell({c}, i, "over")
    BY <1>5 DEF GivesUp, CMP!Erased, callVars
  <2>2. handler[c].at = "cancel_call"
    BY <2>1 DEF PartnersKnown
  <2>3. d # c
    <3>1. d \in {c} => view'[d][i] = "over"
      BY <2>1, TellChanges DEF Views
    <3> QED
      BY <3>1
  <2>4. session[d] = session[c]
    BY <2>1, <2>2 DEF ViewsTrue
  <2> QED
    BY <1>2, <2>2, <2>3, <2>4
<1>6. DOMAIN calls' # DOMAIN calls
  OBVIOUS
<1>7. ~Starts(c) /\ \A target \in Users, id \in CallIds : ~Answers(c, target, id)
  BY DEF Starts, Answers, CMP!Started, CMP!Accepted
<1> QED
  BY <1>3, <1>4, <1>5, <1>6, <1>7
     DEF Acts, HasNone, StartsNot, Tells, Clears, Silent, Refused, Invites,
         Signals, callVars

(* What was to be told is told, or still to be.                            *)
LEMMA NewsKept ==
  ASSUME OwnTypes, CallInv, HandlersSound, OneSession,
         NEW c \in Conns, Moves(c), Acts(c),
         NEW d \in Conns, NEW i \in CallIds, link[d] = "up",
         view'[d][i] = view[d][i], view[d][i] \in {"calling", "in_call"},
         session'[d] = session[d], session[d] # NoUser,
         NEW e \in Conns, NewsFrom(e, d, i)
  PROVE  Backed(d, i)'
<1>1. CASE e # c
  <2>1. handler'[e] = handler[e]
    BY <1>1, MovesOthers
  <2>2. NewsFrom(e, d, i)'
    BY <2>1 DEF NewsFrom
  <2> QED
    BY <2>2 DEF Backed
<1>2. CASE e = c /\ UNCHANGED handler
  <2>1. NewsFrom(e, d, i)'
    BY <1>2 DEF NewsFrom
  <2> QED
    BY <2>1 DEF Backed
<1>3. CASE /\ e = c /\ ~UNCHANGED handler
           /\ handler[c].at \in {"find_peer", "find_ended"}
  <2>1. /\ handler[c].id = i /\ handler[c].user = session[d]
        /\ session[d] \in Users /\ session[c] # session[d] /\ d # c
    BY <1>3 DEF NewsFrom, HandlersSound, CallLabels, OwnTypes
  <2>2. handler'[d] = handler[d]
    BY <2>1, MovesOthers
  <2>3. CASE session[d] \notin DOMAIN online
    <3>1. handler[d].at = "clear_username"
      BY <2>1, <2>3, OwnOnline
    <3> QED
      BY <2>2, <3>1 DEF Backed
  <2>4. CASE session[d] \in DOMAIN online
    <3>1. PICK at \in Labels, dest \in SUBSET Conns :
            /\ <<handler[c].at, at>> \in Following
            /\ Changed(c, at, handler[c].user, handler[c].id, dest)
            /\ at \in {"tell_peer", "send_invite", "send_end"} =>
                 dest = {online[handler[c].user]}
            /\ <<handler[c].at, at>> # <<"find_peer", "leave_rooms">>
      <4>1. ~Returns(c)
        BY <1>3, <2>1, <2>4 DEF Returns
      <4>2. GoesOn(c)
        BY <1>3, <4>1
           DEF Moves, Rests, LogsIn, Names, GoesOffline, Forgets, Leaves, Takes
      <4> QED
        BY <2>1, <2>4, <4>2 DEF GoesOn
    <3>2. at \in {"tell_peer", "send_end"}
      BY <1>3, <3>1 DEF Following
    <3>3. CASE handler[d].at = "clear_username"
      BY <2>2, <3>3 DEF Backed
    <3>4. CASE handler[d].at # "clear_username"
      <4>1. online[session[d]] = d
        BY <2>1, <3>4, OwnOnline
      <4>2. NewsFrom(c, d, i)'
        BY <2>1, <3>1, <3>2, <4>1 DEF NewsFrom, Changed
      <4> QED
        BY <4>2 DEF Backed
    <3> QED
      BY <3>3, <3>4
  <2> QED
    BY <2>3, <2>4
<1>4. CASE /\ e = c /\ ~UNCHANGED handler
           /\ handler[c].at \in {"tell_peer", "send_end"}
  <2>1. Tell(handler[c].dest, i, "over") /\ d \in handler[c].dest
    <3>1. Tells(c)
      BY <1>4 DEF Acts, Drops, HasNone, Starts, StartsNot, GivesUp, Clears,
         Forgets, Silent, Answers, Ends, Refused, Invites, Signals
    <3> QED
      BY <1>4, <3>1 DEF Tells, NewsFrom
  <2>2. view'[d][i] = "over"
    BY <2>1, TellChanges DEF Views
  <2> QED
    BY <2>2
<1> QED
  BY <1>1, <1>2, <1>3, <1>4 DEF NewsFrom

(* A page that believes in a call has one, or is about to be told.         *)
LEMMA BeliefsBackedKept ==
  ASSUME OwnTypes, CallInv, HandlersSound, NewIdle, OneSession, PartnersKnown,
         ViewsTrue, BeliefsBacked, NEW c \in Conns, Moves(c), Acts(c), Step(c)
  PROVE  BeliefsBacked'
<1> SUFFICES ASSUME NEW d \in Conns, NEW i \in CallIds, link'[d] = "up",
                    view'[d][i] \in {"calling", "in_call"}
             PROVE  Backed(d, i)'
  BY DEF BeliefsBacked
<1>1. ASSUME NEW target \in Users, Answers(c, target, i), d = c
      PROVE  Backed(d, i)'
  <2>1. /\ handler[c].at = "idle" /\ session[c] # NoUser
        /\ i \in DOMAIN calls' /\ session[c] \in Parties(i)'
    BY <1>1 DEF Answers, CMP!Accepted, Parties
  <2>2. session'[c] = session[c]
    BY <2>1
       DEF Moves, Rests, LogsIn, Names, GoesOffline, Forgets, Leaves, Takes,
           GoesOn, Returns
  <2> QED
    BY <1>1, <2>1, <2>2 DEF Backed
<1>2. CASE d = c /\ handler'[c].at = "start_call" /\ handler'[c].id = i
  BY <1>2 DEF Backed
<1>3. CASE view'[d][i] = view[d][i]
  <2>1. session'[d] = session[d] /\ session[d] # NoUser
    BY <1>3, SessionMoves
  <2>2. link[d] = "up"
    <3>1. link[d] = "new" => session[d] = NoUser
      BY DEF NewIdle
    <3> QED
      BY <1>3, <2>1, <3>1, LinkMoves
  <2>3. Backed(d, i)
    BY <1>3, <2>2 DEF BeliefsBacked
  <2>4. CASE i \in DOMAIN calls /\ session[d] \in Parties(i)
    <3>1. CASE i \in DOMAIN calls'
      <4>1. session'[d] \in Parties(i)'
        BY <2>1, <2>4, <3>1, CallsChange DEF Parties
      <4> QED
        BY <3>1, <4>1 DEF Backed
    <3>2. CASE i \notin DOMAIN calls'
      BY <1>3, <2>1, <2>2, <2>4, <3>2, EndedCallsTold
    <3> QED
      BY <3>1, <3>2
  <2>5. CASE handler[d].at = "start_call" /\ handler[d].id = i
    <3>1. CASE handler'[d] = handler[d]
      BY <2>5, <3>1 DEF Backed
    <3>2. CASE d = c /\ Starts(c)
      BY <2>1, <2>5, <3>2 DEF Starts, CMP!Started, Backed, Parties
    <3>3. CASE d = c /\ StartsNot(c)
      <4>1. Tell({c}, i, "over")
        BY <2>5, <3>3 DEF StartsNot
      <4>2. view'[c][i] = "over"
        BY <2>2, <3>3, <4>1, TellChanges DEF Views
      <4> QED
        BY <3>3, <4>2
    <3> QED
      BY <2>5, <3>1, <3>2, <3>3, MovesOthers
         DEF Acts, Drops, HasNone, GivesUp, Tells, Clears, Forgets, Silent,
             Answers, Ends, Refused, Invites, Signals
  <2>6. CASE handler[d].at \in LeaveLabels \cup {"clear_username"}
    <3>1. CASE d # c
      BY <2>6, <3>1, MovesOthers DEF Backed
    <3>2. CASE d = c
      <4>1. handler'[c].at \in LeaveLabels \cup {"clear_username"}
        <5>1. CASE Rests(c)
          BY <2>6, <3>2, <5>1 DEF Rests
        <5>2. CASE GoesOn(c)
          <6>1. PICK at \in Labels : /\ <<handler[c].at, at>> \in Following
                                    /\ handler'[c].at = at
            BY <5>2 DEF GoesOn, Changed
          <6> QED
            BY <2>6, <3>2, <6>1 DEF Following, LeaveLabels
        <5>3. CASE GoesOffline(c)
          BY <5>3 DEF GoesOffline, Changed
        <5>4. ~Forgets(c)
          BY <2>1, <3>2 DEF Forgets, OwnTypes
        <5>5. ~LogsIn(c) /\ ~Names(c) /\ ~Leaves(c) /\ ~Takes(c) /\ ~Returns(c)
          BY <2>6, <3>2
             DEF LogsIn, Names, Leaves, Takes, Returns, LeaveLabels
        <5> QED
          BY <5>1, <5>2, <5>3, <5>4, <5>5 DEF Moves
      <4> QED
        BY <3>2, <4>1 DEF Backed
    <3> QED
      BY <3>1, <3>2
  <2>7. ASSUME NEW e \in Conns, NewsFrom(e, d, i)
        PROVE  Backed(d, i)'
    BY <1>3, <2>1, <2>2, <2>7, NewsKept
  <2> QED
    BY <2>3, <2>4, <2>5, <2>6, <2>7 DEF Backed
<1> QED
  BY <1>1, <1>2, <1>3, ViewMoves

-----------------------------------------------------------------------------

(* Inductive.  Each conjunct leans on earlier ones: that a user is found   *)
(* on one connection (OneSession) is what keeps a second session of the    *)
(* user from joining a room or taking a call while the first leaves; that  *)
(* a leaver is free of them then gives RoomsOnline and CallsOnline; and    *)
(* whether a belief is backed depends on all of it.                        *)
ServerInv ==
  /\ OwnTypes /\ CallInv /\ RoomInv
  /\ HandlersSound /\ NewIdle /\ OneSession
  /\ RoomsOnline /\ LeaversOut /\ CallsOnline /\ LeaversFree
  /\ NewIdsFree /\ PartnersKnown /\ ViewsTrue /\ BeliefsBacked

(* At the start no connection has a session and nobody is online.          *)
LEMMA InitServer == Init => ServerInv
<1> SUFFICES ASSUME Init PROVE ServerInv
  OBVIOUS
<1>1. /\ DOMAIN online = {} /\ DOMAIN rooms = {} /\ DOMAIN userRooms = {}
      /\ DOMAIN callUsers = {} /\ DOMAIN calls = {}
      /\ rooms = [r \in {} |-> r] /\ userRooms = [r \in {} |-> r]
      /\ callUsers = [r \in {} |-> r] /\ calls = [r \in {} |-> r]
  BY DEF Init, UM!Init, RM!Init, CM!Init, UM!EmptyMap, RM!EmptyMap, CM!EmptyMap
<1>2. \A c \in Conns : /\ handler[c] = Idle /\ session[c] = NoUser
                       /\ link[c] = "new"
                       /\ \A id \in CallIds : view[c][id] = "none"
  BY DEF Init
<1>3. OwnTypes
  BY <1>1 DEF Init, OwnTypes, Range, Idle, Labels, Views
<1>4. CallInv
  BY <1>1 DEF CallInv, CM!TypeOK, CM!MapsAgree, CM!UsersHaveCalls,
              CM!CallsHaveUsers
<1>5. RoomInv /\ Members = {}
  <2>1. RoomInv
    BY <1>1 DEF RoomInv, RM!TypeOK, RM!IndexExact
  <2>2. ASSUME NEW m \in Members PROVE FALSE
    <3>1. m[1] \in DOMAIN rooms
      BY <2>2 DEF Members
    <3> QED
      BY <1>1, <3>1
  <2> QED
    BY <2>1, <2>2
<1>6. HandlersSound /\ NewIdle /\ LeaversOut /\ LeaversFree /\ NewIdsFree
      /\ PartnersKnown
  <2>1. \A c \in Conns : handler[c].at = "idle"
    BY <1>2 DEF Idle
  <2>2. HandlersSound
    BY <1>2, <2>1 DEF HandlersSound, CallLabels
  <2> QED
    BY <1>2, <2>1, <2>2 DEF NewIdle, LeaversOut, LeaversFree, NewIdsFree,
                            PartnersKnown, At, LeaveLabels
<1>7. OneSession
  BY <1>1, <1>2, NoUserAssumption DEF OneSession, Idle
<1>8. RoomsOnline /\ CallsOnline
  BY <1>1, <1>5 DEF RoomsOnline, CallsOnline
<1>9. ViewsTrue /\ BeliefsBacked
  BY <1>2 DEF ViewsTrue, BeliefsBacked
<1> QED
  BY <1>3, <1>4, <1>5, <1>6, <1>7, <1>8, <1>9 DEF ServerInv

(* Every step of a connection keeps the invariant.                         *)
LEMMA StepServer ==
  ASSUME ServerInv, NEW c \in Conns, Step(c)
  PROVE  ServerInv'
<1> USE DEF ServerInv
<1>1. Moves(c)
  BY StepMoves
<1>2. CallInv' /\ Acts(c)
  BY StepActs
<1>3. RoomInv' /\ RoomsMove(c)
  BY StepRooms
<1>4. OwnTypes'
  BY <1>1, <1>2, ControlTypes, LinkMoves, ViewTypes DEF OwnTypes
<1>5. HandlersSound' /\ NewIdle' /\ OneSession'
  BY <1>1, HandlersStaySound, LinkMoves, OneSessionKept
<1>6. RoomsOnline' /\ LeaversOut'
  BY <1>1, <1>3, RoomsOnlineKept
<1>7. CallsOnline' /\ LeaversFree'
  BY <1>1, <1>2, CallsOnlineKept, LeaversFreeKept
<1>8. NewIdsFree' /\ PartnersKnown'
  BY <1>1, <1>2, NewIdsFreeKept, PartnersKnownKept
<1>9. ViewsTrue' /\ BeliefsBacked'
  BY <1>1, <1>2, ViewsTrueKept, BeliefsBackedKept
<1> QED
  BY <1>2, <1>3, <1>4, <1>5, <1>6, <1>7, <1>8, <1>9

(* A stuttering step keeps the invariant.                                  *)
LEMMA StutterServer ==
  ASSUME ServerInv, UNCHANGED vars
  PROVE  ServerInv'
<1>1. /\ UNCHANGED <<online, link, session, handler, view>>
      /\ UNCHANGED callVars /\ UNCHANGED roomVars
      /\ calls' = calls /\ callUsers' = callUsers /\ rooms' = rooms
  BY DEF vars, callVars, roomVars
<1>2. CallInv' /\ RoomInv' /\ Members' = Members
  BY <1>1, CallsStay, RoomsStay DEF ServerInv
<1>3. OwnTypes' /\ HandlersSound' /\ NewIdle' /\ OneSession'
  BY <1>1 DEF ServerInv, OwnTypes, HandlersSound, NewIdle, At, OneSession, Range
<1>4. RoomsOnline' /\ LeaversOut' /\ CallsOnline' /\ LeaversFree'
  BY <1>1, <1>2 DEF ServerInv, RoomsOnline, LeaversOut, CallsOnline, LeaversFree
<1>5. NewIdsFree' /\ PartnersKnown' /\ ViewsTrue'
  BY <1>1 DEF ServerInv, NewIdsFree, NewIdFree, PartnersKnown, ViewsTrue, Parties
<1>6. BeliefsBacked'
  BY <1>1 DEF ServerInv, BeliefsBacked, Backed, NewsFrom, Parties
<1> QED
  BY <1>2, <1>3, <1>4, <1>5, <1>6 DEF ServerInv

(* The invariant holds in every state of the specification.                *)
LEMMA ServerAlways == Spec => []ServerInv
<1>1. ServerInv /\ [Next]_vars => ServerInv'
  BY StepServer, StutterServer DEF Next, Step
<1> QED
  BY <1>1, InitServer, PTL DEF Spec

(* However connections close, log out and log in again under the same      *)
(* name, a user is found on the connection whose session has the name.     *)
THEOREM SessionsAlwaysAgree == Spec => []SessionsAgree
<1>1. ServerInv => SessionsAgree
  BY DEF ServerInv, OwnTypes, CallInv, RoomInv, OneSession, SessionsAgree,
         TypeOK, At
<1> QED
  BY <1>1, ServerAlways, PTL

(* Logging out and closing the connection take the user out of rooms and   *)
(* calls before the name is free for another session.                      *)
THEOREM OnlyOnlineEverBusy == Spec => []OnlyOnlineBusy
<1>1. ServerInv => OnlyOnlineBusy
  <2>1. ASSUME ServerInv, NEW r \in DOMAIN rooms, NEW u \in rooms[r]
        PROVE  u \in DOMAIN online
    <3>1. <<r, u>> \in Members
      BY <2>1 DEF ServerInv, RoomInv, RM!TypeOK, Members
    <3> QED
      BY <2>1, <3>1 DEF ServerInv, RoomsOnline
  <2> QED
    BY <2>1 DEF ServerInv, CallsOnline, OnlyOnlineBusy
<1> QED
  BY <1>1, ServerAlways, PTL

(* When no handler runs, the client of a user who called or accepted, and  *)
(* has not been told otherwise, is in that call for the server.            *)
THEOREM NobodyEverStranded == Spec => []NobodyStranded
<1>1. ASSUME ServerInv, Quiet, NEW c \in Conns, NEW id \in CallIds,
             link[c] = "up", view[c][id] \in {"calling", "in_call"}
      PROVE  id \in DOMAIN calls /\ session[c] \in Parties(id)
  <2>1. Backed(c, id)
    BY <1>1 DEF ServerInv, BeliefsBacked
  <2>2. \A d \in Conns : handler[d].at = "idle"
    BY <1>1 DEF Quiet, At
  <2> QED
    BY <2>1, <2>2 DEF Backed, NewsFrom, LeaveLabels
<1>2. ServerInv => NobodyStranded
  BY <1>1 DEF NobodyStranded, Parties
<1> QED
  BY <1>2, ServerAlways, PTL

(* A call that the server forgets is ended by a step of one of its users.  *)
THEOREM OnlyPartiesEverEnd == Spec => OnlyPartiesEnd
<1> DEFINE Ended ==
      \A id \in DOMAIN calls \ DOMAIN calls' :
        \E c \in Conns : /\ handler'[c] # handler[c]
                         /\ session[c] \in {calls[id].caller, calls[id].callee}
<1>1. ServerInv /\ [Next]_vars => [Ended]_vars
  <2>1. ASSUME ServerInv, NEW c \in Conns, Step(c)
        PROVE  Ended
    <3> SUFFICES ASSUME NEW id \in DOMAIN calls \ DOMAIN calls'
                 PROVE  /\ handler'[c] # handler[c]
                        /\ session[c] \in Parties(id)
      BY DEF Parties
    <3>1. Acts(c)
      BY <2>1, StepActs DEF ServerInv
    <3> QED
      BY <3>1, ActsCalls
         DEF callVars, Starts, Answers, CMP!Started, CMP!Accepted, CMP!Erased
  <2> QED
    BY <2>1 DEF Next, Step
<1> QED
  BY <1>1, ServerAlways, PTL DEF Spec, OnlyPartiesEnd

-----------------------------------------------------------------------------
(* The messages.                                                           *)

(* The user of a page, whose session may be about to be named.             *)
UserOf(c) == IF At(c, "set_username") THEN handler[c].user ELSE session[c]

PrivateConversations ==
  {ST!PrivateConversation(u, v) : u \in Users, v \in Users}

RoomConversations == {ST!RoomConversation(r) : r \in Rooms}

Conversations == PrivateConversations \cup RoomConversations

(* An event for the page is queued, or a handler is about to queue it.     *)
Queued(c, i) == \E k \in DOMAIN queue[c] : queue[c][k] = i

Destined(c, i) ==
  \E s \in Conns : JobAt(s, "send") /\ job[s].id = i /\ c \in job[s].dest

Pending(c, i) == Queued(c, i) \/ Destined(c, i)

Jobs == [at : {"none", "save", "find", "send"},
         conversation : Conversations \cup {NoCall},
         users : SUBSET Users, id : Nat, dest : SUBSET Conns]

(* The types of the messages, and of what is known of them.                *)
MessageTypes ==
  /\ messages \in Seq([conversation : Conversations, sender : Users,
                       createdAt : {0}])
  /\ audience \in Seq(SUBSET Users) /\ Len(audience) = Len(messages)
  /\ queue \in [Conns -> Seq(Nat)]
  /\ requested \in [Conns -> SUBSET Conversations]
  /\ shown \in [Conns -> SUBSET ({"local", "db"} \X Nat)]
  /\ job \in [Conns -> Jobs]

(* A page is served until it closes, and closes between two requests.      *)
PagesServed ==
  \A c \in Conns :
    /\ link[c] = "up" => handler[c].at \in {"idle", "set_username", "message"}
    /\ handler[c].at = "message" => link[c] = "up"
    /\ handler[c].at = "message" <=> job[c].at # "none"

(* Nothing has come to a page that has not logged in.                      *)
PagesBlank ==
  \A c \in Conns :
    link[c] # "down" /\ session[c] = NoUser =>
      /\ requested[c] = {} /\ shown[c] = {}
      /\ UserOf(c) = NoUser => \A i \in Nat : ~Pending(c, i)

(* A page knows the private conversations of its user.                     *)
RequestsOwn ==
  \A c \in Conns : \A conversation \in requested[c] :
    link[c] = "up" /\ conversation.type = "private" =>
      \E v \in Users \ {session[c]} : conversation.id = {session[c], v}

(* What a handler holds of the message it sends.                           *)
JobSound(c) ==
  /\ job[c].conversation \in requested[c]
  /\ job[c].conversation.type = "private" => session[c] \notin job[c].users
  /\ job[c].at # "save" =>
       /\ job[c].id \in DOMAIN messages
       /\ messages[job[c].id].conversation = job[c].conversation
       /\ messages[job[c].id].sender = session[c]
       /\ audience[job[c].id] = job[c].users \cup {session[c]}
       /\ <<"local", job[c].id>> \in shown[c]

JobsSound == \A c \in Conns : handler[c].at = "message" => JobSound(c)

(* What is on a page or on its way to it has been saved, and the page's    *)
(* own messages are of conversations it has asked for.                     *)
PagesSound ==
  \A c \in Conns :
    /\ \A m \in shown[c] :
         /\ m[2] \in DOMAIN messages
         /\ m[1] = "local" /\ link[c] = "up" =>
              /\ messages[m[2]].sender = session[c]
              /\ messages[m[2]].conversation \in requested[c]
    /\ \A i \in Nat : Pending(c, i) => i \in DOMAIN messages

(* A page's own messages come back to it from rooms only, and after it has *)
(* shown them.                                                             *)
OwnFromRooms ==
  \A c \in Conns, i \in DOMAIN messages :
    Pending(c, i) /\ link[c] = "up" /\ messages[i].sender = UserOf(c) =>
      /\ messages[i].conversation.type = "room"
      /\ <<"local", i>> \in shown[c]

Shown(c, i) == <<"local", i>> \in shown[c] \/ <<"db", i>> \in shown[c]

(* A handler has still to look for the page's connection.                  *)
Sought(c, i) ==
  \E s \in Conns :
    JobAt(s, "find") /\ job[s].id = i /\ session[c] \in job[s].users

MeantFor(c, i) ==
  /\ link[c] = "up"
  /\ messages[i].conversation \in requested[c]
  /\ session[c] \in audience[i]

(* A message meant for a page is on it, or on its way to it.               *)
Reaches ==
  \A c \in Conns, i \in DOMAIN messages :
    MeantFor(c, i) =>
      \/ Shown(c, i) \/ Pending(c, i) \/ Sought(c, i)
      \/ Cardinality(NewerMessages(i)) >= DefaultLimit

MessagesInv ==
  /\ ServerInv /\ MessageTypes /\ PagesServed /\ PagesBlank /\ RequestsOwn
  /\ JobsSound /\ PagesSound /\ OwnFromRooms /\ Reaches /\ NothingTwice

-----------------------------------------------------------------------------
(* The server beneath.                                                     *)

(* A handler begins or ends the sending of a message, or does neither.     *)
Sends(c) ==
  /\ UNCHANGED serverVars
  /\ \/ UNCHANGED handler
     \/ /\ At(c, "idle") /\ link[c] = "up" /\ session[c] # NoUser
        /\ Changed(c, "message", NoUser, NoCall, {})
     \/ /\ At(c, "message")
        /\ Changed(c, "idle", NoUser, NoCall, {})

(* To the server's invariant a handler that sends is as good as idle.      *)
LEMMA SendsServer ==
  ASSUME ServerInv, NEW c \in Conns, Sends(c)
  PROVE  ServerInv'
<1>1. /\ UNCHANGED <<online, link, session, view>>
      /\ UNCHANGED callVars /\ UNCHANGED roomVars
      /\ calls' = calls /\ callUsers' = callUsers /\ rooms' = rooms
  BY DEF Sends, serverVars, callVars, roomVars
<1> DEFINE Moved(d) ==
      /\ handler[d].at \in {"idle", "message"}
      /\ handler'[d].at \in {"idle", "message"}
      /\ handler'[d] = [at |-> handler'[d].at, user |-> NoUser,
                        id |-> NoCall, dest |-> {}]
      /\ handler'[d].at = "message" => link[d] = "up" /\ session[d] # NoUser
<1>2. \A d \in Conns : handler'[d] = handler[d] \/ Moved(d)
  BY DEF Sends, At, Changed
<1> HIDE DEF Moved
<1>12. \A d \in Conns :
         \/ handler'[d] = handler[d]
         \/ /\ handler[d].at \in {"idle", "message"}
            /\ handler'[d].at \in {"idle", "message"}
            /\ handler'[d].id = NoCall
  <2>1. ASSUME NEW d \in Conns, Moved(d)
        PROVE  /\ handler[d].at \in {"idle", "message"}
               /\ handler'[d].at \in {"idle", "message"}
               /\ handler'[d].id = NoCall
    BY <2>1 DEF Moved
  <2> QED
    BY <1>2, <2>1
<1>3. handler' = [d \in Conns |-> handler'[d]]
  BY DEF Sends, Changed, ServerInv, OwnTypes
<1>4. CallInv' /\ RoomInv' /\ Members' = Members
  BY <1>1, CallsStay, RoomsStay DEF ServerInv
<1>5. OwnTypes'
  <2>1. ASSUME NEW d \in Conns
        PROVE  handler'[d] \in [at : Labels, user : Users \cup {NoUser},
                                id : CallIds \cup {NoCall}, dest : SUBSET Conns]
    <3>1. CASE handler'[d] = handler[d]
      BY <3>1 DEF ServerInv, OwnTypes
    <3>2. CASE Moved(d)
      BY <3>2 DEF Moved, Labels
    <3> QED
      BY <1>2, <3>1, <3>2
  <2>2. handler' \in [Conns -> [at : Labels, user : Users \cup {NoUser},
                                id : CallIds \cup {NoCall},
                                dest : SUBSET Conns]]
    BY <1>3, <2>1
  <2>3. Range(online)' = Range(online)
    BY <1>1 DEF Range
  <2> QED
    BY <1>1, <2>2, <2>3 DEF ServerInv, OwnTypes
<1>6. HandlersSound' /\ NewIdle'
  <2> SUFFICES ASSUME NEW d \in Conns
               PROVE  HandlersSound!(d)' /\ NewIdle!(d)'
    BY DEF HandlersSound, NewIdle
  <2>1. session[d] \in Users \cup {NoUser}
    BY DEF ServerInv, OwnTypes
  <2>2. CASE handler'[d] = handler[d]
    BY <1>1, <2>2 DEF ServerInv, HandlersSound, NewIdle, At, Idle
  <2>3. CASE Moved(d)
    BY <1>1, <2>1, <2>3
       DEF Moved, ServerInv, HandlersSound, NewIdle, At, Idle, CallLabels
  <2> QED
    BY <1>2, <2>2, <2>3
<1>7. OneSession' /\ LeaversOut' /\ LeaversFree'
  BY <1>1, <1>4, <1>12
     DEF ServerInv, OneSession, LeaversOut, LeaversFree, LeaveLabels
<1>8. RoomsOnline' /\ CallsOnline'
  BY <1>1, <1>4 DEF ServerInv, RoomsOnline, CallsOnline
<1>9. NewIdsFree'
  <2> SUFFICES ASSUME NEW d \in Conns, handler'[d].at = "start_call"
               PROVE  NewIdFree(d)'
    BY DEF NewIdsFree
  <2>1. handler'[d] = handler[d]
    BY <1>12
  <2>2. NewIdFree(d) /\ handler[d].id # NoCall
    BY <2>1, NoCallAssumption
       DEF ServerInv, NewIdsFree, HandlersSound, CallLabels
  <2>3. \A e \in Conns \ {d} : handler'[e].id # handler[d].id
    BY <1>12, <2>2 DEF NewIdFree
  <2> QED
    BY <1>1, <2>1, <2>2, <2>3 DEF NewIdFree
<1>10. PartnersKnown' /\ ViewsTrue'
  BY <1>1, <1>12 DEF ServerInv, PartnersKnown, ViewsTrue, Parties
<1>11. BeliefsBacked'
  <2>1. \A d \in Conns : handler[d].at \notin {"idle", "message"} =>
                           handler'[d] = handler[d]
    BY <1>12
  <2> SUFFICES ASSUME NEW d \in Conns, NEW id \in CallIds,
                      link[d] = "up", view[d][id] \in {"calling", "in_call"}
               PROVE  Backed(d, id)'
    BY <1>1 DEF BeliefsBacked
  <2>2. Backed(d, id)
    BY DEF ServerInv, BeliefsBacked
  <2>3. CASE \E e \in Conns : NewsFrom(e, d, id)
    BY <1>1, <2>1, <2>3 DEF NewsFrom, Backed
  <2>4. CASE ~\E e \in Conns : NewsFrom(e, d, id)
    BY <1>1, <2>1, <2>2, <2>4 DEF Backed, Parties, LeaveLabels
  <2> QED
    BY <2>3, <2>4
<1> QED
  BY <1>4, <1>5, <1>6, <1>7, <1>8, <1>9, <1>10, <1>11 DEF ServerInv

(* What the steps of the server mean to the pages.                         *)
Opens(c) ==
  /\ link[c] = "new" /\ link'[c] = "up"
  /\ session'[c] = session[c] /\ handler'[c] = handler[c]

LogsOn(c) ==
  /\ link[c] = "up" /\ link'[c] = "up"
  /\ handler[c].at = "idle" /\ handler'[c].at = "set_username"
  /\ session[c] = NoUser /\ session'[c] = NoUser

GetsName(c) ==
  /\ link[c] = "up" /\ link'[c] = "up"
  /\ handler[c].at = "set_username" /\ handler'[c].at = "idle"
  /\ session'[c] = handler[c].user

PageMoves(c) ==
  /\ \A d \in Conns \ {c} : /\ link'[d] = link[d] /\ session'[d] = session[d]
                            /\ handler'[d] = handler[d]
  /\ (handler'[c].at = "message") <=> (handler[c].at = "message")
  /\ \/ /\ link'[c] = link[c] /\ session'[c] = session[c]
        /\ handler'[c] = handler[c]
     \/ Opens(c) \/ LogsOn(c) \/ GetsName(c)
     \/ link'[c] = "down" /\ handler'[c].at # "message"

(* A step of the server without messages is the move of one page.          *)
LEMMA ServerStepMoves ==
  ASSUME ServerInv, PagesServed, ServerStep
  PROVE  /\ ServerInv'
         /\ UNCHANGED <<messages, job, queue, requested, shown, audience>>
         /\ \E c \in Conns : PageMoves(c)
<1>1. PICK c \in Conns :
        \/ Connect(c) \/ Disconnect(c) \/ RoomRequest(c) \/ Continue(c)
        \/ \E u \in Users : Login(c, u)
  BY DEF ServerStep
<1>2. Step(c)
  BY <1>1 DEF Step, Connection
<1>3. ServerInv'
  BY <1>2, StepServer
<1>4. Moves(c)
  BY <1>2, StepMoves DEF ServerInv
<1>5. \A d \in Conns \ {c} : /\ link'[d] = link[d] /\ session'[d] = session[d]
                             /\ handler'[d] = handler[d]
  BY <1>2, <1>4, LinkMoves, MovesOthers DEF ServerInv
<1>6. (handler'[c].at = "message") <=> (handler[c].at = "message")
  <2>1. CASE GoesOn(c)
    BY <2>1 DEF GoesOn, Changed, Following
  <2>2. CASE Rests(c)
    BY <2>2 DEF Rests
  <2>3. CASE LogsIn(c)
    BY <2>3 DEF LogsIn, Changed
  <2>4. CASE Names(c) \/ GoesOffline(c) \/ Forgets(c) \/ Leaves(c)
    BY <2>4 DEF Names, GoesOffline, Forgets, Leaves, Changed
  <2>5. CASE Takes(c)
    BY <2>5 DEF Takes, Changed
  <2>6. CASE Returns(c)
    BY <2>6 DEF Returns, Changed
  <2> QED
    BY <1>4, <2>1, <2>2, <2>3, <2>4, <2>5, <2>6 DEF Moves
<1>7. link[c] \in {"new", "up", "down"}
  BY DEF ServerInv, OwnTypes
<1> SUFFICES PageMoves(c)
  BY <1>1, <1>3 DEF ServerStep
<1>8. CASE Connect(c)
  BY <1>5, <1>6, <1>8 DEF Connect, PageMoves, Opens, ServerInv, OwnTypes
<1>9. CASE Disconnect(c)
  BY <1>5, <1>6, <1>9 DEF Disconnect, At, PageMoves, ServerInv, OwnTypes
<1>10. CASE RoomRequest(c)
  BY <1>5, <1>6, <1>10
     DEF RoomRequest, CreateRoom, JoinRoom, LeaveRoom, PageMoves
<1>11. ASSUME NEW u \in Users, Login(c, u)
       PROVE  PageMoves(c)
  <2>1. CASE UNCHANGED handler
    BY <1>5, <1>6, <1>11, <2>1 DEF Login, PageMoves
  <2>2. CASE Start(c, "set_username", u, NoCall)
    <3>1. Changed(c, "set_username", u, NoCall, {})
      BY <2>2, HandlerChanges DEF ServerInv
    <3>2. handler'[c].at = "set_username"
      BY <3>1 DEF Changed
    <3> QED
      BY <1>5, <1>6, <1>11, <3>2 DEF Login, PageMoves, LogsOn, At
  <2> QED
    BY <1>11, <2>1, <2>2 DEF Login
<1>12. CASE Continue(c)
  <2>1. UNCHANGED link
    BY <1>12
       DEF Continue, SetUsername, DropCall, FindPeer, TellPeer, LeaveRooms,
           LeaveServer, ClearUsername, StartCall, Refind, CancelCall,
           SendInvite, FindEnded, SendEnd, FindPartner, HangUp
  <2>2. handler[c].at \notin {"idle", "message"}
    BY <1>12
       DEF Continue, At, SetUsername, DropCall, FindPeer, TellPeer, LeaveRooms,
           LeaveServer, ClearUsername, StartCall, Refind, CancelCall,
           SendInvite, FindEnded, SendEnd, FindPartner, HangUp
  <2>3. link[c] # "new"
    BY <2>2 DEF ServerInv, NewIdle, At
  <2>4. CASE link[c] = "down"
    BY <1>5, <1>6, <2>1, <2>2, <2>4 DEF PageMoves
  <2>5. CASE link[c] = "up"
    <3>1. handler[c].at = "set_username"
      BY <2>2, <2>5 DEF PagesServed
    <3>2. SetUsername(c)
      BY <1>12, <3>1
         DEF Continue, At, DropCall, FindPeer, TellPeer, LeaveRooms,
             LeaveServer, ClearUsername, StartCall, Refind, CancelCall,
             SendInvite, FindEnded, SendEnd, FindPartner, HangUp
    <3>3. /\ session'[c] = handler[c].user
          /\ handler'[c].at = "idle"
      BY <3>2, HandlerChanges
         DEF SetUsername, Changed, ServerInv, OwnTypes
    <3> QED
      BY <1>5, <1>6, <2>1, <2>5, <3>1, <3>3 DEF PageMoves, GetsName
  <2> QED
    BY <1>7, <2>3, <2>4, <2>5
<1> QED
  BY <1>1, <1>8, <1>9, <1>10, <1>11, <1>12

-----------------------------------------------------------------------------
(* What the steps of a message do.                                         *)

(* The job a handler is at, with other values of what changes on the way.  *)
Job(c, at, id, dest) ==
  [at |-> at, conversation |-> job[c].conversation, users |-> job[c].users,
   id |-> id, dest |-> dest]

JobMoves(c, j) ==
  /\ job' = [job EXCEPT ![c] = j]
  /\ \A d \in Conns \ {c} : handler'[d] = handler[d]
  /\ handler'[c].at = IF j.at = "none" THEN "idle" ELSE "message"

StartsJob(c) ==
  /\ handler[c].at = "idle" /\ link[c] = "up"
  /\ \E conversation \in requested[c], users \in SUBSET Users :
       /\ conversation.type = "private" => session[c] \notin users
       /\ JobMoves(c, [at |-> "save", conversation |-> conversation,
                       users |-> users, id |-> 0, dest |-> {}])
  /\ UNCHANGED <<messages, queue, requested, shown, audience>>

(* A message is not saved, or nobody is there to receive it.               *)
GivesUpJob(c) ==
  /\ JobAt(c, "save") \/ JobAt(c, "find")
  /\ JobAt(c, "find") => \A u \in job[c].users : u \notin DOMAIN online
  /\ JobMoves(c, NoJob)
  /\ UNCHANGED <<messages, queue, requested, shown, audience>>

Saved(c) == [conversation |-> job[c].conversation, sender |-> session[c],
             createdAt |-> 0]

Saves(c, id) ==
  /\ JobAt(c, "save") /\ id = Len(messages) + 1
  /\ messages' = Append(messages, Saved(c))
  /\ audience' = Append(audience, job[c].users \cup {session[c]})
  /\ shown' = [shown EXCEPT ![c] = @ \cup {<<"local", id>>}]
  /\ JobMoves(c, Job(c, "find", id, job[c].dest))
  /\ UNCHANGED <<queue, requested>>

Finds(c) ==
  /\ JobAt(c, "find")
  /\ \E dest \in SUBSET Conns :
       /\ \A u \in job[c].users : u \in DOMAIN online => online[u] \in dest
       /\ \A d \in dest :
            \E u \in job[c].users : u \in DOMAIN online /\ online[u] = d
       /\ JobMoves(c, Job(c, "send", job[c].id, dest))
  /\ UNCHANGED <<messages, queue, requested, shown, audience>>

SendsTo(c, d) ==
  /\ JobAt(c, "send") /\ d \in job[c].dest
  /\ queue' = [queue EXCEPT ![d] = IF link[d] = "up"
                                   THEN Append(@, job[c].id) ELSE @]
  /\ \/ job[c].dest = {d} /\ JobMoves(c, NoJob)
     \/ JobMoves(c, Job(c, "send", job[c].id, job[c].dest \ {d}))
  /\ UNCHANGED <<messages, requested, shown, audience>>

Loads(c) ==
  \E conversation \in Selectable(c) :
    Request(c) /\ LoadHistory(c, conversation)

Does(c) ==
  \/ StartsJob(c) \/ GivesUpJob(c) \/ \E id \in Nat : Saves(c, id)
  \/ Finds(c) \/ \E d \in Conns : SendsTo(c, d)
  \/ Receive(c) \/ Loads(c)

(* A step with messages sends, finds, delivers or reads as Does says.      *)
LEMMA MessageStepDoes ==
  ASSUME ServerInv, MessageTypes, PagesServed, RequestsOwn,
         NEW c \in Conns, MessageStep(c)
  PROVE  Sends(c) /\ Does(c)
<1> USE DEF At, JobAt
<1>1. /\ OwnTypes /\ handler = [d \in Conns |-> handler[d]]
      /\ session[c] \in Users \cup {NoUser}
      /\ handler[c].at = "idle" => handler[c] = Idle
      /\ \A u \in DOMAIN online : online[u] \in Conns
  BY DEF ServerInv, OwnTypes, HandlersSound, Range
<1>12. /\ job = [d \in Conns |-> job[d]]
       /\ job[c] = [at |-> job[c].at, conversation |-> job[c].conversation,
                    users |-> job[c].users, id |-> job[c].id,
                    dest |-> job[c].dest]
  BY DEF MessageTypes, Jobs
<1>2. ASSUME NEW conversation \in requested[c], NEW users \in SUBSET Users,
             conversation.type = "private" => session[c] \notin users,
             Request(c), StartJob(c, conversation, users),
             UNCHANGED <<serverVars, messages, queue, requested, shown,
                         audience>>
      PROVE  Sends(c) /\ StartsJob(c)
  <2>1. /\ handler'[c] = [at |-> "message", user |-> NoUser, id |-> NoCall,
                          dest |-> {}]
        /\ \A d \in Conns \ {c} : handler'[d] = handler[d]
        /\ handler' = [d \in Conns |-> handler'[d]]
    <3>1. Changed(c, "message", handler[c].user, handler[c].id,
                  handler[c].dest)
      BY <1>1, <1>2, HandlerChanges DEF StartJob, Goto
    <3> QED
      BY <1>1, <1>2, <3>1 DEF Request, Idle, Changed
  <2>2. Sends(c)
    BY <1>2, <2>1 DEF Sends, Changed, Request
  <2>3. JobMoves(c, [at |-> "save", conversation |-> conversation,
                     users |-> users, id |-> 0, dest |-> {}])
    BY <1>2, <2>1 DEF JobMoves, StartJob
  <2> QED
    BY <1>2, <2>2, <2>3 DEF StartsJob, Request
<1>3. ASSUME handler[c].at = "message", UNCHANGED serverVars, FinishJob(c)
      PROVE  Sends(c) /\ JobMoves(c, NoJob)
  <2>1. Changed(c, "idle", NoUser, NoCall, {})
    BY <1>1, <1>3, HandlerChanges DEF FinishJob
  <2> QED
    BY <1>3, <2>1 DEF Sends, JobMoves, FinishJob, NoJob, Changed
<1>4. ASSUME handler[c].at = "message", UNCHANGED <<serverVars, handler>>,
             NEW j, j.at # "none", job' = [job EXCEPT ![c] = j]
      PROVE  Sends(c) /\ JobMoves(c, j)
  BY <1>4 DEF Sends, JobMoves
<1>5. ASSUME NEW u \in Users, SendPrivate(c, u)
      PROVE  Sends(c) /\ Does(c)
  <2> DEFINE conversation == ST!PrivateConversation(session[c], u)
  <2>1. conversation \in requested[c] /\ conversation.type = "private"
        /\ conversation.id = {session[c], u} /\ link[c] = "up"
    BY <1>5 DEF SendPrivate, ST!PrivateConversation, Request
  <2>2. PICK v \in Users \ {session[c]} : {session[c], u} = {session[c], v}
    BY <2>1 DEF RequestsOwn
  <2>3. session[c] \notin {u}
    BY <2>2
  <2> HIDE DEF conversation
  <2> QED
    BY <1>2, <1>5, <2>1, <2>3 DEF SendPrivate, Does, conversation
<1>6. ASSUME NEW r \in Rooms, SendRoomMessage(c, r)
      PROVE  Sends(c) /\ Does(c)
  <2>1. ST!RoomConversation(r).type # "private"
    BY DEF ST!RoomConversation
  <2>2. r \in DOMAIN rooms /\ rooms[r] \in SUBSET Users
    BY <1>6
       DEF SendRoomMessage, RM!MemberResult, ServerInv, RoomInv, RM!TypeOK
  <2> QED
    BY <1>2, <1>6, <2>1, <2>2 DEF SendRoomMessage, Does
<1>7. ASSUME SaveMessage(c)
      PROVE  Sends(c) /\ Does(c)
  <2>1. PICK ok \in BOOLEAN :
          /\ ST!Save(job[c].conversation, session[c], 0, ok)
          /\ IF ok
             THEN LET id == Len(messages') IN
                  /\ job' = [job EXCEPT ![c] =
                            [@ EXCEPT !.at = "find", !.id = id]]
                  /\ shown' = [shown EXCEPT ![c] = @ \cup {<<"local", id>>}]
                  /\ audience' =
                       Append(audience, job[c].users \cup {session[c]})
                  /\ UNCHANGED handler
             ELSE FinishJob(c) /\ UNCHANGED <<shown, audience>>
    BY <1>7 DEF SaveMessage
  <2>2. CASE ok
    <3>1. messages' = Append(messages, Saved(c))
      BY <2>1, <2>2 DEF ST!Save, Saved
    <3>2. Len(messages') = Len(messages) + 1 /\ Len(messages') \in Nat
      BY <3>1 DEF MessageTypes
    <3> DEFINE j == Job(c, "find", Len(messages'), job[c].dest)
    <3>3. job' = [job EXCEPT ![c] = j] /\ j.at = "find"
      BY <1>12, <2>1, <2>2 DEF Job
    <3>4. Sends(c) /\ JobMoves(c, j)
      BY <1>4, <1>7, <2>1, <2>2, <3>3 DEF SaveMessage
    <3>5. Saves(c, Len(messages'))
      BY <1>7, <2>1, <2>2, <3>1, <3>2, <3>4 DEF SaveMessage, Saves
    <3> QED
      BY <3>2, <3>4, <3>5 DEF Does
  <2>3. CASE ~ok
    <3>1. Sends(c) /\ JobMoves(c, NoJob)
      BY <1>3, <1>7, <2>1, <2>3 DEF SaveMessage
    <3>2. UNCHANGED messages
      BY <2>1, <2>3 DEF ST!Save
    <3> QED
      BY <1>7, <2>1, <2>3, <3>1, <3>2 DEF SaveMessage, GivesUpJob, Does
  <2> QED
    BY <2>2, <2>3
<1>8. ASSUME FindReceivers(c)
      PROVE  Sends(c) /\ Does(c)
  <2> DEFINE dest == UNION {UM!Find(u) : u \in job[c].users}
  <2>1. /\ \A u \in job[c].users : u \in DOMAIN online => online[u] \in dest
        /\ \A d \in dest :
             \E u \in job[c].users : u \in DOMAIN online /\ online[u] = d
        /\ dest \in SUBSET Conns
    BY <1>1 DEF UM!Find
  <2>2. IF dest = {} THEN FinishJob(c)
        ELSE /\ job' = [job EXCEPT ![c] =
                       [@ EXCEPT !.at = "send", !.dest = dest]]
             /\ UNCHANGED handler
    BY <1>8 DEF FindReceivers
  <2> HIDE DEF dest
  <2>3. CASE dest = {}
    <3>1. Sends(c) /\ JobMoves(c, NoJob)
      BY <1>3, <1>8, <2>2, <2>3 DEF FindReceivers
    <3> QED
      BY <1>8, <2>1, <2>3, <3>1 DEF FindReceivers, GivesUpJob, Does
  <2>4. CASE dest # {}
    <3> DEFINE j == Job(c, "send", job[c].id, dest)
    <3>1. job' = [job EXCEPT ![c] = j] /\ j.at = "send"
      BY <1>12, <2>2, <2>4 DEF Job
    <3>2. Sends(c) /\ JobMoves(c, j)
      BY <1>4, <1>8, <2>2, <2>4, <3>1 DEF FindReceivers
    <3> QED
      BY <1>8, <2>1, <3>2 DEF FindReceivers, Finds, Does
  <2> QED
    BY <2>3, <2>4
<1>9. ASSUME SendToReceiver(c)
      PROVE  Sends(c) /\ Does(c)
  <2>1. PICK d \in job[c].dest :
          /\ queue' = [queue EXCEPT ![d] = IF link[d] = "up"
                                           THEN Append(@, job[c].id) ELSE @]
          /\ IF job[c].dest = {d} THEN FinishJob(c)
             ELSE /\ job' = [job EXCEPT ![c].dest = @ \ {d}]
                  /\ UNCHANGED handler
    BY <1>9 DEF SendToReceiver
  <2>2. d \in Conns
    BY DEF MessageTypes, Jobs
  <2>3. CASE job[c].dest = {d}
    <3>1. Sends(c) /\ JobMoves(c, NoJob)
      BY <1>3, <1>9, <2>1, <2>3 DEF SendToReceiver
    <3> QED
      BY <1>9, <2>1, <2>2, <2>3, <3>1 DEF SendToReceiver, SendsTo, Does
  <2>4. CASE job[c].dest # {d}
    <3> DEFINE j == Job(c, "send", job[c].id, job[c].dest \ {d})
    <3>1. job' = [job EXCEPT ![c] = j] /\ j.at = "send"
      BY <1>9, <1>12, <2>1, <2>4 DEF Job, SendToReceiver
    <3>2. Sends(c) /\ JobMoves(c, j)
      BY <1>4, <1>9, <2>1, <2>4, <3>1 DEF SendToReceiver
    <3> QED
      BY <1>9, <2>1, <2>2, <3>2 DEF SendToReceiver, SendsTo, Does
  <2> QED
    BY <2>3, <2>4
<1>10. ASSUME Receive(c)
       PROVE  Sends(c) /\ Does(c)
  BY <1>10 DEF Receive, Sends, Does
<1>11. ASSUME Loads(c)
       PROVE  Sends(c) /\ Does(c)
  BY <1>11 DEF Loads, LoadHistory, Sends, Does
<1> QED
  BY <1>5, <1>6, <1>7, <1>8, <1>9, <1>10, <1>11 DEF MessageStep, Loads

-----------------------------------------------------------------------------
(* Types, and that pages are served between two requests.                  *)

(* The job of one handler moves, and its label with it.                    *)
LEMMA JobMovesOne ==
  ASSUME MessageTypes, NEW c \in Conns, NEW j, JobMoves(c, j)
  PROVE  /\ \A d \in Conns : job'[d] = IF d = c THEN j ELSE job[d]
         /\ \A d \in Conns :
              handler'[d].at = IF d = c
                               THEN IF j.at = "none" THEN "idle" ELSE "message"
                               ELSE handler[d].at
         /\ j \in Jobs => job' \in [Conns -> Jobs]
<1>1. job \in [Conns -> Jobs]
  BY DEF MessageTypes, Jobs
<1> QED
  BY <1>1 DEF JobMoves

(* What every stored row holds.                                            *)
LEMMA MessageRows ==
  ASSUME MessageTypes
  PROVE  \A i \in DOMAIN messages :
           /\ messages[i].conversation \in Conversations
           /\ messages[i].sender \in Users /\ messages[i].createdAt = 0
<1> DEFINE Rows == [conversation : Conversations, sender : Users,
                    createdAt : {0}]
<1>1. \A i \in DOMAIN messages : messages[i] \in Rows
  <2>1. messages \in Seq(Rows)
    BY DEF MessageTypes
  <2> HIDE DEF Rows
  <2> QED
    BY <2>1
<1> QED
  BY <1>1

(* A step of one connection leaves the jobs of the others alone.           *)
LEMMA OthersStay ==
  ASSUME MessageTypes, NEW c \in Conns, Does(c)
  PROVE  \A s \in Conns \ {c} :
           job'[s] = job[s] /\ handler'[s].at = handler[s].at
<1>1. ASSUME NEW j, JobMoves(c, j)
      PROVE  \A s \in Conns \ {c} :
               job'[s] = job[s] /\ handler'[s].at = handler[s].at
  BY <1>1, JobMovesOne
<1>2. CASE Receive(c) \/ Loads(c)
  BY <1>2 DEF Receive, Loads, LoadHistory
<1>3. CASE ~Receive(c) /\ ~Loads(c)
  <2>1. \E j : JobMoves(c, j)
    BY <1>3 DEF Does, StartsJob, GivesUpJob, Saves, Finds, SendsTo
  <2> QED
    BY <1>1, <2>1
<1> QED
  BY <1>2, <1>3

(* Sending a message changes nobody's user.                                *)
LEMMA SendsUsers ==
  ASSUME MessagesInv, NEW c \in Conns, Sends(c)
  PROVE  /\ UNCHANGED <<online, link, session>>
         /\ \A d \in Conns : UserOf(d)' = UserOf(d)
         /\ handler[c].at \in {"idle", "message"} \/ UNCHANGED handler
<1>1. /\ UNCHANGED <<online, link, session>>
      /\ handler[c].at \in {"idle", "message"} \/ UNCHANGED handler
  BY DEF Sends, serverVars, At
<1>2. \A d \in Conns :
        \/ handler'[d] = handler[d]
        \/ /\ handler[d].at # "set_username"
           /\ handler'[d].at # "set_username"
  BY DEF Sends, At, Changed
<1> QED
  BY <1>1, <1>2 DEF UserOf, At

(* Every step keeps the types of rows, jobs, queues and pages.             *)
LEMMA TypesKept ==
  ASSUME MessagesInv, NEW c \in Conns, Sends(c), Does(c)
  PROVE  MessageTypes'
<1> USE DEF MessagesInv
<1>1. /\ job[c] \in Jobs /\ NoJob \in Jobs
      /\ \A at \in {"save", "find", "send"}, id \in Nat, dest \in SUBSET Conns :
           Job(c, at, id, dest) \in Jobs
  BY DEF MessageTypes, NoJob, Jobs, Job
<1>2. ASSUME NEW j \in Jobs, JobMoves(c, j)
      PROVE  job' \in [Conns -> Jobs]
  BY <1>2, JobMovesOne
<1>3. job[c].id \in Nat /\ job[c].dest \in SUBSET Conns
  BY DEF MessageTypes, Jobs
<1>4. CASE StartsJob(c) \/ GivesUpJob(c) \/ Finds(c)
  <2>1. CASE StartsJob(c)
    <3>1. PICK conversation \in requested[c], users \in SUBSET Users :
            JobMoves(c, [at |-> "save", conversation |-> conversation,
                         users |-> users, id |-> 0, dest |-> {}])
      BY <2>1 DEF StartsJob
    <3>2. [at |-> "save", conversation |-> conversation, users |-> users,
           id |-> 0, dest |-> {}] \in Jobs
      BY DEF MessageTypes, Jobs
    <3>3. job' \in [Conns -> Jobs]
      BY <1>2, <3>1, <3>2
    <3> QED
      BY <2>1, <3>3 DEF StartsJob, MessageTypes, Jobs
  <2>2. CASE GivesUpJob(c)
    <3>1. job' \in [Conns -> Jobs]
      BY <1>1, <1>2, <2>2 DEF GivesUpJob
    <3> QED
      BY <2>2, <3>1 DEF GivesUpJob, MessageTypes, Jobs
  <2>3. CASE Finds(c)
    <3>1. job' \in [Conns -> Jobs]
      BY <1>1, <1>2, <1>3, <2>3 DEF Finds
    <3> QED
      BY <2>3, <3>1 DEF Finds, MessageTypes, Jobs
  <2> QED
    BY <1>4, <2>1, <2>2, <2>3
<1>5. ASSUME NEW id \in Nat, Saves(c, id)
      PROVE  MessageTypes'
  <2>1. job[c].at = "save" /\ handler[c].at = "message"
    BY <1>5 DEF Saves, JobAt, At
  <2>2. job' \in [Conns -> Jobs]
    BY <1>1, <1>2, <1>3, <1>5 DEF Saves
  <2>3. /\ session[c] \in Users /\ job[c].conversation \in Conversations
        /\ job[c].users \in SUBSET Users
    BY <2>1
       DEF ServerInv, HandlersSound, JobsSound, JobSound, MessageTypes, Jobs
  <2>4. messages' \in Seq([conversation : Conversations, sender : Users,
                           createdAt : {0}])
    BY <1>5, <2>3 DEF Saves, Saved, MessageTypes
  <2>5. audience' \in Seq(SUBSET Users) /\ Len(audience') = Len(messages')
    BY <1>5, <2>3 DEF Saves, MessageTypes
  <2>6. shown' \in [Conns -> SUBSET ({"local", "db"} \X Nat)]
    BY <1>5 DEF Saves, MessageTypes
  <2> QED
    BY <1>5, <2>2, <2>4, <2>5, <2>6 DEF Saves, MessageTypes, Jobs
<1>6. ASSUME NEW d \in Conns, SendsTo(c, d)
      PROVE  MessageTypes'
  <2>1. job' \in [Conns -> Jobs]
    BY <1>1, <1>2, <1>3, <1>6 DEF SendsTo
  <2>2. queue' \in [Conns -> Seq(Nat)]
    BY <1>3, <1>6 DEF SendsTo, MessageTypes
  <2> QED
    BY <1>6, <2>1, <2>2 DEF SendsTo, MessageTypes, Jobs
<1>7. CASE Receive(c)
  <2>1. Tail(queue[c]) \in Seq(Nat) /\ Head(queue[c]) \in Nat
    BY <1>7 DEF Receive, MessageTypes
  <2>2. queue' \in [Conns -> Seq(Nat)]
    BY <1>7, <2>1 DEF Receive, MessageTypes
  <2>3. shown' \in [Conns -> SUBSET ({"local", "db"} \X Nat)]
    BY <1>7, <2>1 DEF Receive, MessageTypes
  <2> QED
    BY <1>7, <2>2, <2>3 DEF Receive, MessageTypes
<1>8. CASE Loads(c)
  <2>1. PICK conversation \in Selectable(c) : LoadHistory(c, conversation)
    BY <1>8 DEF Loads
  <2>2. session[c] \in Users
    BY <1>8 DEF Loads, Request, ServerInv, OwnTypes
  <2>3. conversation \in Conversations
    BY <2>1, <2>2
       DEF Selectable, Conversations, PrivateConversations, RoomConversations,
           ServerInv, RoomInv, RM!TypeOK
  <2>4. requested' \in [Conns -> SUBSET Conversations]
    BY <2>1, <2>3 DEF LoadHistory, MessageTypes
  <2>5. \A id \in ST!HistoryIds(conversation, 0, 0) : id \in Nat
    BY DEF ST!HistoryIds, ST!Matching, MessageTypes
  <2>6. shown' \in [Conns -> SUBSET ({"local", "db"} \X Nat)]
    BY <2>1, <2>5 DEF LoadHistory, MessageTypes
  <2> QED
    BY <2>1, <2>4, <2>6 DEF LoadHistory, MessageTypes
<1> QED
  BY <1>4, <1>5, <1>6, <1>7, <1>8 DEF Does

(* A page that is up has only the handlers of a served page.               *)
LEMMA ServedKept ==
  ASSUME MessagesInv, NEW c \in Conns, Sends(c), Does(c)
  PROVE  PagesServed'
<1> USE DEF MessagesInv, PagesServed
<1>1. UNCHANGED link
  BY SendsUsers
<1>2. ASSUME NEW j, JobMoves(c, j), link[c] = "up"
      PROVE  PagesServed'
  BY <1>1, <1>2, JobMovesOne
<1>3. ASSUME UNCHANGED <<handler, job>> PROVE PagesServed'
  BY <1>1, <1>3
<1>4. CASE Receive(c) \/ Loads(c)
  BY <1>3, <1>4 DEF Receive, Loads, LoadHistory
<1>5. CASE StartsJob(c)
  BY <1>2, <1>5 DEF StartsJob
<1>6. \A step : JobAt(c, step) => link[c] = "up"
  BY DEF JobAt, At
<1>7. CASE \/ GivesUpJob(c) \/ \E id \in Nat : Saves(c, id)
           \/ Finds(c) \/ \E d \in Conns : SendsTo(c, d)
  BY <1>2, <1>6, <1>7 DEF GivesUpJob, Saves, Finds, SendsTo
<1> QED
  BY <1>4, <1>5, <1>7 DEF Does

-----------------------------------------------------------------------------
(* What grows, and what is on its way.                                     *)

(* Messages stay as they are, and pages forget nothing.                    *)
LEMMA OnlyGrows ==
  ASSUME MessagesInv, NEW c \in Conns, Sends(c), Does(c)
  PROVE  /\ \A i \in DOMAIN messages :
              /\ i \in DOMAIN messages'
              /\ messages'[i] = messages[i] /\ audience'[i] = audience[i]
         /\ \A d \in Conns :
              /\ shown[d] \subseteq shown'[d]
              /\ requested[d] \subseteq requested'[d]
         /\ \A d \in Conns \ {c} :
              shown'[d] = shown[d] /\ requested'[d] = requested[d]
<1> USE DEF MessagesInv
<1>1. CASE StartsJob(c) \/ GivesUpJob(c) \/ Finds(c)
  BY <1>1 DEF StartsJob, GivesUpJob, Finds
<1>2. CASE \E id \in Nat : Saves(c, id)
  <2>1. /\ messages \in Seq([conversation : Conversations, sender : Users,
                             createdAt : {0}])
        /\ audience \in Seq(SUBSET Users) /\ Len(audience) = Len(messages)
    BY DEF MessageTypes
  <2>2. messages' = Append(messages, Saved(c))
        /\ audience' = Append(audience, job[c].users \cup {session[c]})
        /\ UNCHANGED requested
    BY <1>2 DEF Saves
  <2>3. \A i \in DOMAIN messages :
          /\ i \in DOMAIN messages'
          /\ messages'[i] = messages[i] /\ audience'[i] = audience[i]
    BY <2>1, <2>2
  <2> QED
    BY <1>2, <2>2, <2>3 DEF Saves, MessageTypes
<1>3. CASE \E d \in Conns : SendsTo(c, d)
  BY <1>3 DEF SendsTo
<1>4. CASE Receive(c)
  BY <1>4 DEF Receive, MessageTypes
<1>5. CASE Loads(c)
  BY <1>5 DEF Loads, LoadHistory, MessageTypes
<1> QED
  BY <1>1, <1>2, <1>3, <1>4, <1>5 DEF Does

(* A handler's connections, when its job moves.                            *)
LEMMA JobsElsewhere ==
  ASSUME MessageTypes, NEW c \in Conns, NEW j, JobMoves(c, j)
  PROVE  /\ \A d \in Conns, i \in Nat :
              Destined(d, i)' <=>
                \/ \E s \in Conns \ {c} :
                     JobAt(s, "send") /\ job[s].id = i /\ d \in job[s].dest
                \/ j.at = "send" /\ j.id = i /\ d \in j.dest
         /\ \A d \in Conns, i \in Nat :
              Sought(d, i)' <=>
                \/ \E s \in Conns \ {c} :
                     JobAt(s, "find") /\ job[s].id = i
                       /\ session'[d] \in job[s].users
                \/ j.at = "find" /\ j.id = i /\ session'[d] \in j.users
<1>1. /\ job'[c] = j
      /\ \A s \in Conns \ {c} : /\ job'[s] = job[s]
                                /\ handler'[s].at = handler[s].at
      /\ j.at # "none" => handler'[c].at = "message"
  BY JobMovesOne
<1>2. \A s \in Conns \ {c} :
        /\ JobAt(s, "find")' <=> JobAt(s, "find")
        /\ JobAt(s, "send")' <=> JobAt(s, "send")
  BY <1>1 DEF JobAt, At
<1>3. /\ JobAt(c, "find")' <=> j.at = "find"
      /\ JobAt(c, "send")' <=> j.at = "send"
  BY <1>1 DEF JobAt, At
<1>4. ASSUME NEW d \in Conns, NEW i \in Nat
      PROVE  Destined(d, i)' <=>
               \/ \E s \in Conns \ {c} :
                    JobAt(s, "send") /\ job[s].id = i /\ d \in job[s].dest
               \/ j.at = "send" /\ j.id = i /\ d \in j.dest
  <2>1. Destined(d, i)' <=>
          \E s \in Conns :
            JobAt(s, "send")' /\ job'[s].id = i /\ d \in job'[s].dest
    BY DEF Destined
  <2> QED
    BY <1>1, <1>2, <1>3, <2>1
<1>5. ASSUME NEW d \in Conns, NEW i \in Nat
      PROVE  Sought(d, i)' <=>
               \/ \E s \in Conns \ {c} :
                    JobAt(s, "find") /\ job[s].id = i
                      /\ session'[d] \in job[s].users
               \/ j.at = "find" /\ j.id = i /\ session'[d] \in j.users
  <2>1. Sought(d, i)' <=>
          \E s \in Conns :
            JobAt(s, "find")' /\ job'[s].id = i
              /\ session'[d] \in job'[s].users
    BY DEF Sought
  <2> QED
    BY <1>1, <1>2, <1>3, <2>1
<1> QED
  BY <1>4, <1>5

(* What comes to be on its way is the handler's own message, for pages it  *)
(* has found; what ceases to be is what its own page has taken.            *)
FoundFor(c, d, i) ==
  /\ Finds(c) /\ i = job[c].id
  /\ \E u \in job[c].users : u \in DOMAIN online /\ online[u] = d

(* A message on its way to a page was on its way before or has just been   *)
(* found for it, and leaves that state only as the page receives it.       *)
LEMMA PendingMoves ==
  ASSUME MessagesInv, NEW c \in Conns, Sends(c), Does(c)
  PROVE  /\ \A d \in Conns, i \in Nat :
              Pending(d, i)' => Pending(d, i) \/ FoundFor(c, d, i)
         /\ \A d \in Conns, i \in Nat :
              Pending(d, i) /\ link[d] = "up" =>
                \/ Pending(d, i)'
                \/ Receive(c) /\ d = c /\ i = Head(queue[c])
<1> USE DEF MessagesInv
<1>1. \A d \in Conns : queue[d] \in Seq(Nat)
  BY DEF MessageTypes
<1>2. ASSUME UNCHANGED <<queue, job, handler>>, NEW d \in Conns, NEW i \in Nat
      PROVE  Pending(d, i)' <=> Pending(d, i)
  BY <1>2 DEF Pending, Queued, Destined, JobAt, At
<1>3. ASSUME UNCHANGED queue, ~JobAt(c, "send"),
             NEW j, j.at # "send", JobMoves(c, j),
             NEW d \in Conns, NEW i \in Nat
      PROVE  Pending(d, i)' <=> Pending(d, i)
  <2>1. Destined(d, i)' <=>
          \E s \in Conns \ {c} :
            JobAt(s, "send") /\ job[s].id = i /\ d \in job[s].dest
    BY <1>3, JobsElsewhere
  <2>2. Destined(d, i)' <=> Destined(d, i)
    BY <1>3, <2>1 DEF Destined
  <2> QED
    BY <1>3, <2>2 DEF Pending, Queued
<1>4. \A step \in {"save", "find"} : JobAt(c, step) => ~JobAt(c, "send")
  BY DEF JobAt
<1>5. CASE StartsJob(c)
  <2>1. PICK conversation \in requested[c], users \in SUBSET Users :
          JobMoves(c, [at |-> "save", conversation |-> conversation,
                       users |-> users, id |-> 0, dest |-> {}])
    BY <1>5 DEF StartsJob
  <2>2. ~JobAt(c, "send") /\ UNCHANGED queue
    BY <1>5 DEF StartsJob, JobAt, At
  <2> QED
    BY <1>3, <2>1, <2>2
<1>6. CASE GivesUpJob(c)
  <2>1. NoJob.at # "send" /\ JobMoves(c, NoJob) /\ UNCHANGED queue
    BY <1>6 DEF GivesUpJob, NoJob
  <2>2. ~JobAt(c, "send")
    BY <1>4, <1>6 DEF GivesUpJob
  <2> QED
    BY <1>3, <2>1, <2>2
<1>7. ASSUME NEW id \in Nat, Saves(c, id), NEW d \in Conns, NEW i \in Nat
      PROVE  Pending(d, i)' <=> Pending(d, i)
  <2>1. Job(c, "find", id, job[c].dest).at # "send"
    BY DEF Job
  <2> QED
    BY <1>3, <1>4, <1>7, <2>1 DEF Saves
<1>8. CASE Finds(c)
  <2>1. PICK dest \in SUBSET Conns :
          /\ \A d \in dest :
               \E u \in job[c].users : u \in DOMAIN online /\ online[u] = d
          /\ JobMoves(c, Job(c, "send", job[c].id, dest))
    BY <1>8 DEF Finds
  <2>2. ASSUME NEW d \in Conns, NEW i \in Nat
        PROVE  Destined(d, i)' <=> \/ Destined(d, i)
                                   \/ job[c].id = i /\ d \in dest
    <3>1. ~JobAt(c, "send")
      BY <1>4, <1>8 DEF Finds
    <3> QED
      BY <2>1, <3>1, JobsElsewhere DEF Destined, Job
  <2>3. \A d \in Conns, i \in Nat : Queued(d, i)' <=> Queued(d, i)
    BY <1>8 DEF Finds, Queued
  <2> QED
    BY <1>8, <2>1, <2>2, <2>3 DEF Pending, FoundFor
<1>9. ASSUME NEW e \in Conns, SendsTo(c, e)
      PROVE  \A d \in Conns, i \in Nat :
               /\ Pending(d, i)' => Pending(d, i)
               /\ Pending(d, i) /\ link[d] = "up" => Pending(d, i)'
  <2>1. /\ JobAt(c, "send") /\ e \in job[c].dest /\ job[c].id \in Nat
    BY <1>9 DEF SendsTo, MessageTypes, Jobs
  <2>2. ASSUME NEW d \in Conns, NEW i \in Nat
        PROVE  Destined(d, i)' <=>
                 \/ \E s \in Conns \ {c} :
                      JobAt(s, "send") /\ job[s].id = i /\ d \in job[s].dest
                 \/ job[c].id = i /\ d \in job[c].dest \ {e}
    <3>1. CASE job[c].dest = {e} /\ JobMoves(c, NoJob)
      BY <3>1, JobsElsewhere DEF NoJob
    <3>2. CASE JobMoves(c, Job(c, "send", job[c].id, job[c].dest \ {e}))
      BY <3>2, JobsElsewhere DEF Job
    <3> QED
      BY <1>9, <3>1, <3>2 DEF SendsTo
  <2>3. ASSUME NEW d \in Conns, NEW i \in Nat
        PROVE  Queued(d, i)' <=>
                 \/ Queued(d, i)
                 \/ d = e /\ link[e] = "up" /\ i = job[c].id
    <3>1. queue'[d] = IF d = e /\ link[e] = "up"
                      THEN Append(queue[d], job[c].id) ELSE queue[d]
      BY <1>9 DEF SendsTo, MessageTypes
    <3>2. CASE d = e /\ link[e] = "up"
      <4>1. /\ DOMAIN queue'[d] = DOMAIN queue[d] \cup {Len(queue[d]) + 1}
            /\ queue'[d][Len(queue[d]) + 1] = job[c].id
            /\ \A k \in DOMAIN queue[d] :
                 k # Len(queue[d]) + 1 /\ queue'[d][k] = queue[d][k]
        BY <1>1, <2>1, <3>1, <3>2
      <4> QED
        BY <3>2, <4>1 DEF Queued
    <3>3. CASE ~(d = e /\ link[e] = "up")
      BY <3>1, <3>3 DEF Queued
    <3> QED
      BY <3>2, <3>3
  <2> QED
    BY <2>1, <2>2, <2>3 DEF Pending, Destined
<1>10. CASE Receive(c)
  <2>1. ASSUME NEW d \in Conns, NEW i \in Nat
        PROVE  /\ Queued(d, i)' => Queued(d, i)
               /\ Queued(d, i) => \/ Queued(d, i)'
                                  \/ d = c /\ i = Head(queue[c])
    <3>1. queue'[d] = IF d = c THEN Tail(queue[d]) ELSE queue[d]
      BY <1>10 DEF Receive, MessageTypes
    <3>2. queue[c] # <<>>
      BY <1>10 DEF Receive
    <3>3. ASSUME Queued(d, i), d = c, i # Head(queue[c])
          PROVE  Queued(d, i)'
      <4>1. PICK k \in DOMAIN queue[c] : queue[c][k] = i
        BY <3>3 DEF Queued
      <4>2. k \in 1 .. Len(queue[c]) /\ k # 1
        BY <1>1, <3>2, <3>3, <4>1
      <4>3. k - 1 \in DOMAIN Tail(queue[c]) /\ Tail(queue[c])[k - 1] = i
        BY <1>1, <3>2, <4>1, <4>2
      <4> QED
        BY <3>1, <3>3, <4>3 DEF Queued
    <3>4. ASSUME Queued(d, i)', d = c
          PROVE  Queued(d, i)
      <4>1. PICK k \in DOMAIN Tail(queue[c]) : Tail(queue[c])[k] = i
        BY <3>1, <3>4 DEF Queued
      <4>2. k + 1 \in DOMAIN queue[c] /\ queue[c][k + 1] = i
        BY <1>1, <3>2, <4>1
      <4> QED
        BY <3>4, <4>2 DEF Queued
    <3> QED
      BY <3>1, <3>3, <3>4 DEF Queued
  <2>2. \A d \in Conns, i \in Nat : Destined(d, i)' <=> Destined(d, i)
    BY <1>10 DEF Receive, Destined, JobAt, At
  <2> QED
    BY <1>10, <2>1, <2>2 DEF Pending
<1>11. CASE Loads(c)
  BY <1>2, <1>11 DEF Loads, LoadHistory
<1> QED
  BY <1>5, <1>6, <1>7, <1>8, <1>9, <1>10, <1>11 DEF Does

-----------------------------------------------------------------------------
(* The invariant and the steps of a message.                               *)

(* The server finds a user on the one page that is, or will be, his.       *)
LEMMA OnePage ==
  ASSUME ServerInv, PagesServed, NEW d \in Conns, NEW u \in Users
  PROVE  /\ u \in DOMAIN online /\ online[u] = d => UserOf(d) = u
         /\ link[d] = "up" /\ UserOf(d) = u =>
              u \in DOMAIN online /\ online[u] = d
<1>1. u # NoUser
  BY NoUserAssumption
<1>2. handler[d].at = "set_username" => session[d] = NoUser
  BY DEF ServerInv, HandlersSound
<1>3. link[d] = "up" => handler[d].at # "clear_username"
  BY DEF PagesServed
<1> QED
  BY <1>1, <1>2, <1>3 DEF ServerInv, OneSession, UserOf, At

(* A page that changes is one that is logged in.                           *)
LEMMA ChangesOwn ==
  ASSUME MessagesInv, NEW c \in Conns, Sends(c), Does(c)
  PROVE  \/ /\ session[c] \in Users /\ link[c] = "up"
            /\ handler[c].at \in {"idle", "message"}
         \/ shown' = shown /\ requested' = requested
<1> USE DEF MessagesInv
<1>1. session[c] # NoUser => session[c] \in Users
  BY DEF ServerInv, OwnTypes
<1>2. ASSUME NEW id \in Nat, Saves(c, id)
      PROVE  session[c] \in Users /\ link[c] = "up" /\ At(c, "message")
  BY <1>2 DEF Saves, JobAt, At, ServerInv, HandlersSound, PagesServed
<1>3. CASE Receive(c)
  <2>1. CASE session[c] = NoUser /\ link[c] = "up"
    <3>1. Queued(c, Head(queue[c])) /\ Head(queue[c]) \in Nat
      BY <1>3 DEF Receive, Queued, MessageTypes
    <3>2. UserOf(c) = NoUser
      BY <1>3, <2>1 DEF Receive, At, UserOf
    <3> QED
      BY <2>1, <3>1, <3>2 DEF PagesBlank, Pending
  <2>2. CASE link[c] # "up"
    BY <1>3, <2>2 DEF Receive
  <2>3. CASE session[c] # NoUser /\ link[c] = "up"
    BY <1>1, <1>3, <2>3 DEF Receive, At
  <2> QED
    BY <2>1, <2>2, <2>3
<1>4. CASE Loads(c)
  BY <1>1, <1>4 DEF Loads, Request, At
<1>5. CASE \/ StartsJob(c) \/ GivesUpJob(c) \/ Finds(c)
           \/ \E d \in Conns : SendsTo(c, d)
  BY <1>5 DEF StartsJob, GivesUpJob, Finds, SendsTo
<1> QED
  BY <1>2, <1>3, <1>4, <1>5 DEF Does, At

(* A page without a session has shown and requested nothing.               *)
LEMMA BlankKept ==
  ASSUME MessagesInv, NEW c \in Conns, Sends(c), Does(c)
  PROVE  PagesBlank'
<1> SUFFICES ASSUME NEW d \in Conns, link[d] # "down", session[d] = NoUser
             PROVE  /\ requested'[d] = {} /\ shown'[d] = {}
                    /\ UserOf(d) = NoUser => \A i \in Nat : ~Pending(d, i)'
  BY SendsUsers DEF PagesBlank
<1>1. requested[d] = {} /\ shown[d] = {}
  BY DEF MessagesInv, PagesBlank
<1>2. requested'[d] = requested[d] /\ shown'[d] = shown[d]
  BY OnlyGrows, ChangesOwn, NoUserAssumption
<1>3. ASSUME UserOf(d) = NoUser, NEW i \in Nat, Pending(d, i)'
      PROVE  FALSE
  <2>1. ~Pending(d, i)
    BY <1>3 DEF MessagesInv, PagesBlank
  <2>2. PICK u \in job[c].users : u \in DOMAIN online /\ online[u] = d
    BY <1>3, <2>1, PendingMoves DEF FoundFor
  <2>3. u \in Users
    BY <2>2 DEF MessagesInv, MessageTypes, Jobs
  <2>4. UserOf(d) = u
    BY <2>2, <2>3, OnePage DEF MessagesInv
  <2> QED
    BY <1>3, <2>3, <2>4, NoUserAssumption
<1> QED
  BY <1>1, <1>2, <1>3

(* What a page asks for is a conversation of its own user.                 *)
LEMMA RequestsKept ==
  ASSUME MessagesInv, NEW c \in Conns, Sends(c), Does(c)
  PROVE  RequestsOwn'
<1> USE DEF MessagesInv
<1>1. UNCHANGED <<link, session>>
  BY SendsUsers
<1>2. CASE Loads(c)
  <2>1. PICK conversation \in Selectable(c) : LoadHistory(c, conversation)
    BY <1>2 DEF Loads
  <2>2. conversation.type = "private" =>
          \E v \in Users \ {session[c]} : conversation.id = {session[c], v}
    BY <2>1
       DEF Selectable, ST!PrivateConversation, ST!RoomConversation
  <2>3. \A d \in Conns : \A other \in requested'[d] :
          other \in requested[d] \/ (d = c /\ other = conversation)
    <3>1. \A d \in Conns :
            requested'[d] = IF d = c THEN requested[d] \cup {conversation}
                            ELSE requested[d]
      BY <2>1 DEF LoadHistory, MessageTypes
    <3> QED
      BY <3>1
  <2> QED
    BY <1>1, <2>2, <2>3 DEF RequestsOwn
<1>3. CASE ~Loads(c)
  <2>1. UNCHANGED requested
    BY <1>3 DEF Does, StartsJob, GivesUpJob, Saves, Finds, SendsTo, Receive
  <2> QED
    BY <1>1, <2>1 DEF RequestsOwn
<1> QED
  BY <1>2, <1>3

(* What a handler holds stays true, and becomes true when it is taken.     *)
LEMMA JobsKept ==
  ASSUME MessagesInv, NEW c \in Conns, Sends(c), Does(c)
  PROVE  JobsSound'
<1> USE DEF MessagesInv
<1>1. UNCHANGED session
  BY SendsUsers
<1>2. ASSUME NEW d \in Conns, job'[d] = job[d], JobSound(d), job[d].at # "none"
      PROVE  JobSound(d)'
  BY <1>1, <1>2, OnlyGrows DEF JobSound
<1>3. ASSUME NEW j, JobMoves(c, j), j.at # "none" => JobSound(c)'
      PROVE  JobsSound'
  <2>1. SUFFICES ASSUME NEW d \in Conns, handler'[d].at = "message"
                 PROVE  JobSound(d)'
    BY DEF JobsSound
  <2>2. CASE d = c
    BY <1>3, <2>1, <2>2, JobMovesOne
  <2>3. CASE d # c
    BY <1>2, <1>3, <2>1, <2>3, JobMovesOne DEF JobsSound, PagesServed
  <2> QED
    BY <2>2, <2>3
<1>4. ASSUME NEW step, JobAt(c, step)
      PROVE  JobSound(c) /\ job[c].at = step
  BY <1>4 DEF JobAt, At, JobsSound
<1>5. CASE StartsJob(c)
  <2>1. PICK conversation \in requested[c], users \in SUBSET Users :
          /\ conversation.type = "private" => session[c] \notin users
          /\ JobMoves(c, [at |-> "save", conversation |-> conversation,
                          users |-> users, id |-> 0, dest |-> {}])
    BY <1>5 DEF StartsJob
  <2>2. job'[c] = [at |-> "save", conversation |-> conversation,
                   users |-> users, id |-> 0, dest |-> {}]
    BY <2>1, JobMovesOne
  <2>3. JobSound(c)'
    BY <1>1, <1>5, <2>1, <2>2 DEF StartsJob, JobSound
  <2> QED
    BY <1>3, <2>1, <2>3
<1>6. CASE GivesUpJob(c)
  <2>1. NoJob.at = "none" /\ JobMoves(c, NoJob)
    BY <1>6 DEF GivesUpJob, NoJob
  <2> QED
    BY <1>3, <2>1
<1>7. ASSUME NEW id \in Nat, Saves(c, id)
      PROVE  JobsSound'
  <2>1. job'[c] = Job(c, "find", id, job[c].dest)
    BY <1>7, JobMovesOne DEF Saves
  <2>2. JobSound(c)
    BY <1>4, <1>7 DEF Saves
  <2>3. /\ id \in DOMAIN messages' /\ messages'[id] = Saved(c)
        /\ audience'[id] = job[c].users \cup {session[c]}
    BY <1>7 DEF Saves, MessageTypes
  <2>4. <<"local", id>> \in shown'[c] /\ requested' = requested
    BY <1>7 DEF Saves, MessageTypes
  <2>5. JobSound(c)'
    BY <1>1, <2>1, <2>2, <2>3, <2>4 DEF JobSound, Job, Saved
  <2> QED
    BY <1>3, <1>7, <2>5 DEF Saves
<1>8. ASSUME JobAt(c, "find") \/ JobAt(c, "send"),
             UNCHANGED <<messages, requested, shown, audience>>,
             NEW dest, JobMoves(c, Job(c, "send", job[c].id, dest))
      PROVE  JobsSound'
  <2>1. JobSound(c) /\ job[c].at # "save"
    BY <1>4, <1>8
  <2>2. job'[c] = Job(c, "send", job[c].id, dest)
    BY <1>8, JobMovesOne
  <2>3. JobSound(c)'
    BY <1>1, <1>8, <2>1, <2>2 DEF JobSound, Job
  <2> QED
    BY <1>3, <1>8, <2>3
<1>9. CASE Finds(c)
  BY <1>8, <1>9 DEF Finds
<1>10. ASSUME NEW d \in Conns, SendsTo(c, d)
       PROVE  JobsSound'
  <2>1. CASE JobMoves(c, NoJob)
    BY <1>3, <2>1 DEF NoJob
  <2>2. CASE JobMoves(c, Job(c, "send", job[c].id, job[c].dest \ {d}))
    BY <1>8, <1>10, <2>2 DEF SendsTo
  <2> QED
    BY <1>10, <2>1, <2>2 DEF SendsTo
<1>11. CASE Receive(c) \/ Loads(c)
  <2>1. UNCHANGED <<job, handler>>
    BY <1>11 DEF Receive, Loads, LoadHistory
  <2> QED
    BY <1>2, <2>1 DEF JobsSound, PagesServed
<1> QED
  BY <1>5, <1>6, <1>7, <1>9, <1>10, <1>11 DEF Does

(* What is new on a page.                                                  *)
Adds(c, m) ==
  \/ m[1] = "local" /\ Saves(c, m[2])
  \/ /\ m[1] = "db" /\ Receive(c) /\ link[c] = "up"
     /\ m[2] = Head(queue[c]) /\ Pending(c, m[2])
     /\ ~ (/\ messages[m[2]].conversation.type = "room"
           /\ messages[m[2]].sender = session[c])
  \/ /\ m[1] = "db" /\ Loads(c) /\ m[2] \in DOMAIN messages
     /\ messages[m[2]].conversation \in requested'[c] \ requested[c]

(* What a page adds to what it shows is one that Adds allows.              *)
LEMMA PagesAdd ==
  ASSUME MessagesInv, NEW c \in Conns, Sends(c), Does(c),
         NEW m \in shown'[c], m \notin shown[c]
  PROVE  Adds(c, m)
<1> USE DEF MessagesInv
<1>1. ASSUME NEW id \in Nat, Saves(c, id)
      PROVE  Adds(c, m)
  <2>1. m = <<"local", id>>
    BY <1>1 DEF Saves, MessageTypes
  <2> QED
    BY <1>1, <2>1 DEF Adds
<1>2. CASE Receive(c)
  <2>1. /\ link[c] = "up" /\ m = <<"db", Head(queue[c])>>
        /\ ~ (/\ messages[Head(queue[c])].conversation.type = "room"
              /\ messages[Head(queue[c])].sender = session[c])
    BY <1>2 DEF Receive, MessageTypes
  <2>2. Queued(c, Head(queue[c]))
    BY <1>2 DEF Receive, Queued, MessageTypes
  <2> QED
    BY <1>2, <2>1, <2>2 DEF Adds, Pending
<1>3. CASE Loads(c)
  <2>1. PICK conversation \in Selectable(c) : LoadHistory(c, conversation)
    BY <1>3 DEF Loads
  <2>2. PICK id \in ST!HistoryIds(conversation, 0, 0) : m = <<"db", id>>
    BY <2>1 DEF LoadHistory, MessageTypes
  <2>3. id \in DOMAIN messages /\ messages[id].conversation = conversation
    BY DEF ST!HistoryIds, ST!Matching
  <2>4. conversation \in requested'[c] \ requested[c]
    BY <2>1 DEF LoadHistory, MessageTypes
  <2> QED
    BY <1>3, <2>2, <2>3, <2>4 DEF Adds
<1>4. CASE \/ StartsJob(c) \/ GivesUpJob(c) \/ Finds(c)
           \/ \E d \in Conns : SendsTo(c, d)
  BY <1>4 DEF StartsJob, GivesUpJob, Finds, SendsTo
<1> QED
  BY <1>1, <1>2, <1>3, <1>4 DEF Does

(* What is on a page or on its way to it has been saved.                   *)
LEMMA PagesKept ==
  ASSUME MessagesInv, NEW c \in Conns, Sends(c), Does(c)
  PROVE  PagesSound'
<1> USE DEF MessagesInv
<1>1. UNCHANGED <<link, session>>
  BY SendsUsers
<1>2. ASSUME NEW d \in Conns, NEW m \in shown'[d]
      PROVE  /\ m[2] \in DOMAIN messages'
             /\ m[1] = "local" /\ link[d] = "up" =>
                  /\ messages'[m[2]].sender = session[d]
                  /\ messages'[m[2]].conversation \in requested'[d]
  <2>1. CASE m \in shown[d]
    BY <2>1, OnlyGrows DEF PagesSound
  <2>2. CASE m \notin shown[d]
    <3>1. d = c /\ Adds(c, m)
      BY <1>2, <2>2, OnlyGrows, PagesAdd
    <3>2. CASE m[1] = "local" /\ Saves(c, m[2])
      <4>1. /\ m[2] \in DOMAIN messages' /\ messages'[m[2]] = Saved(c)
            /\ requested' = requested
        BY <3>2 DEF Saves, MessageTypes
      <4>2. JobSound(c)
        BY <3>2 DEF Saves, JobAt, At, JobsSound
      <4> QED
        BY <3>1, <4>1, <4>2 DEF JobSound, Saved
    <3>3. CASE m[1] = "db" /\ m[2] \in DOMAIN messages
      BY <3>3, OnlyGrows
    <3>4. CASE m[1] = "db" /\ Pending(c, m[2]) /\ m[2] = Head(queue[c])
               /\ Receive(c)
      <4>1. m[2] \in Nat
        BY <3>4 DEF Receive, MessageTypes
      <4> QED
        BY <3>4, <4>1, OnlyGrows DEF PagesSound
    <3> QED
      BY <3>1, <3>2, <3>3, <3>4 DEF Adds
  <2> QED
    BY <2>1, <2>2
<1>3. ASSUME NEW d \in Conns, NEW i \in Nat, Pending(d, i)'
      PROVE  i \in DOMAIN messages'
  <2>1. CASE Pending(d, i)
    BY <2>1, OnlyGrows DEF PagesSound
  <2>2. CASE FoundFor(c, d, i)
    BY <2>2, OnlyGrows DEF FoundFor, Finds, JobAt, At, JobsSound, JobSound
  <2> QED
    BY <1>3, <2>1, <2>2, PendingMoves
<1> QED
  BY <1>1, <1>2, <1>3 DEF PagesSound

(* A page's own messages come back to it from rooms only.                  *)
LEMMA OwnKept ==
  ASSUME MessagesInv, NEW c \in Conns, Sends(c), Does(c)
  PROVE  OwnFromRooms'
<1> USE DEF MessagesInv
<1>1. UNCHANGED link /\ \A d \in Conns : UserOf(d)' = UserOf(d)
  BY SendsUsers
<1> SUFFICES ASSUME NEW d \in Conns, NEW i \in DOMAIN messages', Pending(d, i)',
                    link[d] = "up", messages'[i].sender = UserOf(d)
             PROVE  /\ messages'[i].conversation.type = "room"
                    /\ <<"local", i>> \in shown'[d]
  BY <1>1 DEF OwnFromRooms
<1>2. i \in Nat
  BY TypesKept DEF MessageTypes
<1>3. CASE Pending(d, i)
  <2>1. i \in DOMAIN messages
    BY <1>2, <1>3 DEF PagesSound
  <2> QED
    BY <1>3, <2>1, OnlyGrows DEF OwnFromRooms
<1>4. CASE FoundFor(c, d, i)
  <2>1. /\ JobSound(c) /\ job[c].at = "find" /\ i = job[c].id
        /\ handler[c].at = "message"
    BY <1>4 DEF FoundFor, Finds, JobAt, At, JobsSound
  <2>2. PICK u \in job[c].users : u \in DOMAIN online /\ online[u] = d
    BY <1>4 DEF FoundFor
  <2>3. u \in Users /\ session[c] \in Users /\ link[c] = "up"
    BY <2>1, <2>2
       DEF MessageTypes, Jobs, ServerInv, HandlersSound, PagesServed
  <2>4. UserOf(d) = u /\ messages[i].sender = session[c]
    BY <2>1, <2>2, <2>3, OnePage DEF JobSound
  <2>5. i \in DOMAIN messages /\ messages'[i] = messages[i]
    BY <2>1, OnlyGrows DEF JobSound
  <2>6. UserOf(c) = session[c] /\ u = session[c]
    BY <2>1, <2>4, <2>5 DEF UserOf, At
  <2>7. d = c
    BY <2>2, <2>3, <2>6, OnePage
  <2>8. messages[i].conversation.type # "private"
    BY <2>1, <2>2, <2>6 DEF JobSound
  <2>9. messages[i].conversation.type \in {"private", "room"}
    <3>1. messages[i].conversation \in Conversations
      BY <2>5, MessageRows
    <3>2. \A conversation \in Conversations :
            conversation.type \in {"private", "room"}
      BY DEF Conversations, PrivateConversations, RoomConversations,
             ST!PrivateConversation, ST!RoomConversation
    <3> QED
      BY <3>1, <3>2
  <2> QED
    BY <2>1, <2>5, <2>7, <2>8, <2>9, OnlyGrows DEF JobSound
<1> QED
  BY <1>2, <1>3, <1>4, PendingMoves

(* No step puts a message on a page, or on its way, a second time.         *)
LEMMA TwiceKept ==
  ASSUME MessagesInv, NEW c \in Conns, Sends(c), Does(c)
  PROVE  NothingTwice'
<1> USE DEF MessagesInv
<1> SUFFICES ASSUME NEW d \in Conns, NEW i \in DOMAIN messages',
                    <<"local", i>> \in shown'[d], <<"db", i>> \in shown'[d]
             PROVE  FALSE
  BY DEF NothingTwice
<1>1. d = c
  <2>1. CASE d # c
    <3>1. shown'[d] = shown[d]
      BY <2>1, OnlyGrows
    <3>2. i \in DOMAIN messages
      BY <3>1 DEF PagesSound
    <3> QED
      BY <3>1, <3>2 DEF NothingTwice
  <2> QED
    BY <2>1
<1>2. CASE <<"local", i>> \notin shown[c]
  <2>1. Saves(c, i)
    BY <1>1, <1>2, PagesAdd DEF Adds
  <2>2. i \notin DOMAIN messages /\ UNCHANGED queue
    BY <2>1 DEF Saves, MessageTypes
  <2>3. <<"db", i>> \notin shown[c]
    BY <2>2 DEF PagesSound
  <2> QED
    BY <1>1, <2>1, <2>3 DEF Saves, MessageTypes
<1>3. CASE <<"local", i>> \in shown[c] /\ <<"db", i>> \in shown[c]
  BY <1>3 DEF NothingTwice, PagesSound
<1>4. CASE <<"local", i>> \in shown[c] /\ <<"db", i>> \notin shown[c]
  <2>1. Adds(c, <<"db", i>>) /\ i \in DOMAIN messages
    BY <1>1, <1>4, PagesAdd DEF PagesSound
  <2>2. session[c] \in Users /\ link[c] = "up" /\ handler[c].at # "set_username"
    BY <1>1, <1>4, ChangesOwn
  <2>3. /\ messages[i].sender = session[c]
        /\ messages[i].conversation \in requested[c]
    BY <1>4, <2>2 DEF PagesSound
  <2>4. CASE Receive(c) /\ Pending(c, i)
    <3>1. UserOf(c) = session[c]
      BY <2>2 DEF UserOf, At
    <3>2. messages[i].conversation.type = "room"
      BY <2>1, <2>2, <2>3, <2>4, <3>1 DEF OwnFromRooms
    <3>3. messages[i].conversation \notin requested'[c] \ requested[c]
      BY <2>3
    <3> QED
      BY <2>1, <2>3, <3>2, <3>3 DEF Adds
  <2> QED
    BY <2>1, <2>3, <2>4 DEF Adds
<1> QED
  BY <1>2, <1>3, <1>4

(* Newer messages do not become fewer.                                     *)
LEMMA NewerGrow ==
  ASSUME MessagesInv, NEW c \in Conns, Sends(c), Does(c),
         NEW i \in DOMAIN messages,
         Cardinality(NewerMessages(i)) >= DefaultLimit
  PROVE  Cardinality(NewerMessages(i)') >= DefaultLimit
<1>1. NewerMessages(i) \subseteq NewerMessages(i)'
  BY OnlyGrows DEF NewerMessages
<1>2. IsFiniteSet(NewerMessages(i)')
  <2>1. messages' \in Seq([conversation : Conversations, sender : Users,
                           createdAt : {0}])
    BY TypesKept DEF MessageTypes
  <2>2. NewerMessages(i)' \subseteq 1 .. Len(messages')
    BY <2>1 DEF NewerMessages
  <2>3. IsFiniteSet(1 .. Len(messages'))
    BY <2>1, FS_Interval
  <2> QED
    BY <2>2, <2>3, FS_Subset
<1>3. /\ Cardinality(NewerMessages(i)) <= Cardinality(NewerMessages(i)')
      /\ Cardinality(NewerMessages(i)) \in Nat
      /\ Cardinality(NewerMessages(i)') \in Nat
  <2>1. IsFiniteSet(NewerMessages(i))
    BY <1>1, <1>2, FS_Subset
  <2> QED
    BY <1>1, <1>2, <2>1, FS_Subset, FS_CardinalityType
<1> QED
  BY <1>3, HistoryAssumption

(* A message meant for a page stays on it or on its way to it.             *)
LEMMA ReachesKept ==
  ASSUME MessagesInv, NEW c \in Conns, Sends(c), Does(c)
  PROVE  Reaches'
<1> USE DEF MessagesInv
<1>1. UNCHANGED <<link, session, online>>
  BY SendsUsers
<1> SUFFICES ASSUME NEW d \in Conns, NEW i \in DOMAIN messages',
                    link[d] = "up", messages'[i].conversation \in requested'[d],
                    session[d] \in audience'[i]
             PROVE  \/ Shown(d, i)' \/ Pending(d, i)' \/ Sought(d, i)'
                    \/ Cardinality(NewerMessages(i)') >= DefaultLimit
  BY <1>1 DEF Reaches, MeantFor
<1>2. i \in Nat
  BY TypesKept DEF MessageTypes
<1>3. Shown(d, i) => Shown(d, i)'
  BY OnlyGrows DEF Shown
<1>4. CASE i \notin DOMAIN messages
  <2>1. Saves(c, i)
    <3>1. ~UNCHANGED messages
      BY <1>4
    <3>2. PICK id \in Nat : Saves(c, id)
      BY <3>1
         DEF Does, StartsJob, GivesUpJob, Finds, SendsTo, Receive, Loads,
             LoadHistory
    <3>3. i = id
      BY <1>4, <3>2 DEF Saves, MessageTypes
    <3> QED
      BY <3>2, <3>3
  <2>2. /\ audience'[i] = job[c].users \cup {session[c]}
        /\ session[c] \in Users /\ link[c] = "up" /\ handler[c].at = "message"
    <3>1. handler[c].at = "message"
      BY <2>1 DEF Saves, JobAt, At
    <3>2. session[c] \in Users /\ link[c] = "up"
      BY <3>1 DEF ServerInv, HandlersSound, PagesServed
    <3>3. audience'[i] = job[c].users \cup {session[c]}
      BY <2>1, <3>2 DEF Saves, MessageTypes, Jobs
    <3> QED
      BY <3>1, <3>2, <3>3
  <2>3. CASE session[d] \in job[c].users
    <3>1. JobMoves(c, Job(c, "find", i, job[c].dest))
      BY <2>1 DEF Saves
    <3>2. Sought(d, i)'
      BY <1>1, <1>2, <2>3, <3>1, JobsElsewhere DEF Job
    <3> QED
      BY <3>2
  <2>4. CASE session[d] = session[c]
    <3>1. UserOf(c) = session[c]
      BY <2>2 DEF UserOf, At
    <3>2. UserOf(d) = session[c]
      BY <2>2, <2>4, NoUserAssumption DEF UserOf, At, ServerInv, HandlersSound
    <3>3. d = c
      BY <2>2, <3>1, <3>2, OnePage
    <3>4. <<"local", i>> \in shown'[d]
      BY <2>1, <3>3 DEF Saves, MessageTypes
    <3> QED
      BY <3>4 DEF Shown
  <2> QED
    BY <2>2, <2>3, <2>4
<1>5. CASE i \in DOMAIN messages /\ messages[i].conversation \notin requested[d]
  <2>1. requested'[d] # requested[d]
    BY <1>5, OnlyGrows
  <2>2. d = c
    BY <2>1, OnlyGrows
  <2>7. Loads(c) \/ requested' = requested
    BY DEF Does, StartsJob, GivesUpJob, Saves, Finds, SendsTo, Receive
  <2>3. PICK conversation \in Selectable(c) : LoadHistory(c, conversation)
    BY <2>1, <2>7 DEF Loads
  <2>4. /\ messages[i].conversation = conversation
        /\ UNCHANGED messages
    BY <1>5, <2>2, <2>3 DEF LoadHistory, MessageTypes
  <2>5. CASE i \in ST!HistoryIds(conversation, 0, 0)
    <3>1. <<"db", i>> \in shown'[d]
      BY <2>2, <2>3, <2>5 DEF LoadHistory, MessageTypes
    <3> QED
      BY <3>1 DEF Shown
  <2>6. CASE i \notin ST!HistoryIds(conversation, 0, 0)
    <3> DEFINE rows == ST!Matching(conversation, 0)
    <3>1. /\ rows = {j \in DOMAIN messages :
                      messages[j].conversation = conversation}
          /\ i \in rows
      BY <1>5, <2>4 DEF ST!Matching
    <3>2. ST!SanitizeLimit(0) = DefaultLimit
      BY DEF ST!SanitizeLimit
    <3>3. {j \in rows : ST!Earlier(i, j)} = NewerMessages(i)
      <4>1. \A j \in DOMAIN messages : messages[j].createdAt = 0
        BY MessageRows
      <4>2. \A j \in DOMAIN messages : ST!Earlier(i, j) <=> i < j
        BY <1>5, <4>1 DEF ST!Earlier
      <4> HIDE DEF rows
      <4> QED
        BY <2>4, <3>1, <4>2 DEF NewerMessages
    <3>4. ~(Cardinality(NewerMessages(i)) < DefaultLimit)
      <4>1. i \in ST!Matching(conversation, 0)
        BY <3>1
      <4> DEFINE later(k) == {j \in ST!Matching(conversation, 0) :
                                ST!Earlier(k, j)}
      <4>2. ST!HistoryIds(conversation, 0, 0) =
              {k \in ST!Matching(conversation, 0) :
                 Cardinality(later(k)) < ST!SanitizeLimit(0)}
        BY Zenon DEF ST!HistoryIds, ST!Cardinality, Cardinality
      <4>3. ~(Cardinality(later(i)) < ST!SanitizeLimit(0))
        <5> HIDE DEF later
        <5> QED
          BY <2>6, <4>1, <4>2
      <4> QED
        BY <3>2, <3>3, <4>3
    <3>5. Cardinality(NewerMessages(i)) \in Nat
      <4>1. NewerMessages(i) \subseteq 1 .. Len(messages)
        BY DEF NewerMessages, MessageTypes
      <4>2. IsFiniteSet(1 .. Len(messages))
        BY FS_Interval DEF MessageTypes
      <4> QED
        BY <4>1, <4>2, FS_Subset, FS_CardinalityType
    <3> QED
      BY <1>5, <3>4, <3>5, NewerGrow, HistoryAssumption
  <2> QED
    BY <2>5, <2>6
<1>6. CASE i \in DOMAIN messages /\ messages[i].conversation \in requested[d]
  <2>1. MeantFor(d, i)
    BY <1>6, OnlyGrows DEF MeantFor
  <2>2. CASE Shown(d, i) \/ Cardinality(NewerMessages(i)) >= DefaultLimit
    BY <1>3, <1>6, <2>2, NewerGrow
  <2>3. CASE Pending(d, i) /\ ~Pending(d, i)'
    <3>1. Receive(c) /\ d = c /\ i = Head(queue[c])
      BY <1>2, <2>3, PendingMoves
    <3>2. session[c] # NoUser
      <4>1. audience[i] \in SUBSET Users
        BY <1>6, ElementOfSeq DEF MessageTypes
      <4> QED
        BY <2>1, <3>1, <4>1, NoUserAssumption DEF MeantFor
    <3>3. CASE /\ messages[i].conversation.type = "room"
               /\ messages[i].sender = session[c]
      <4>1. UserOf(c) = session[c]
        BY <3>1 DEF Receive, UserOf, At
      <4>2. <<"local", i>> \in shown[d]
        BY <1>6, <2>3, <3>1, <3>3, <4>1 DEF OwnFromRooms
      <4> QED
        BY <1>3, <4>2 DEF Shown
    <3>4. CASE ~ (/\ messages[i].conversation.type = "room"
                  /\ messages[i].sender = session[c])
      <4>1. <<"db", i>> \in shown'[d]
        BY <3>1, <3>4 DEF Receive, MessageTypes
      <4> QED
        BY <4>1 DEF Shown
    <3> QED
      BY <3>3, <3>4
  <2>4. CASE Sought(d, i)
    <3>1. PICK s \in Conns :
            JobAt(s, "find") /\ job[s].id = i /\ session[d] \in job[s].users
      BY <2>4 DEF Sought
    <3>2. session[d] \in Users
      BY <3>1 DEF MessageTypes, Jobs
    <3>3. UserOf(d) = session[d]
      BY <3>2, NoUserAssumption DEF UserOf, At, ServerInv, HandlersSound
    <3>4. session[d] \in DOMAIN online /\ online[session[d]] = d
      BY <3>2, <3>3, OnePage
    <3>5. CASE s = c /\ Finds(c)
      <4>1. PICK dest \in SUBSET Conns :
              /\ \A u \in job[c].users :
                   u \in DOMAIN online => online[u] \in dest
              /\ JobMoves(c, Job(c, "send", job[c].id, dest))
        BY <3>5 DEF Finds
      <4>2. d \in dest
        BY <3>1, <3>4, <3>5, <4>1
      <4>3. Destined(d, i)'
        BY <1>2, <3>1, <3>5, <4>1, <4>2, JobsElsewhere DEF Job
      <4> QED
        BY <4>3 DEF Pending
    <3>6. CASE s = c /\ ~Finds(c)
      <4>1. Receive(c) \/ Loads(c)
        BY <3>1, <3>4, <3>6
           DEF Does, StartsJob, GivesUpJob, Saves, SendsTo, JobAt, At
      <4>2. UNCHANGED <<job, handler>>
        BY <4>1 DEF Receive, Loads, LoadHistory
      <4>3. Sought(d, i)'
        BY <1>1, <2>4, <4>2 DEF Sought, JobAt, At
      <4> QED
        BY <4>3
    <3>7. CASE s # c
      <4>1. job'[s] = job[s] /\ handler'[s].at = handler[s].at
        BY <3>7, OthersStay
      <4>2. JobAt(s, "find")'
        BY <3>1, <4>1 DEF JobAt, At
      <4>3. Sought(d, i)'
        BY <1>1, <3>1, <4>1, <4>2 DEF Sought
      <4> QED
        BY <4>3
    <3> QED
      BY <3>5, <3>6, <3>7
  <2> QED
    BY <1>6, <2>1, <2>2, <2>3, <2>4 DEF Reaches
<1> QED
  BY <1>4, <1>5, <1>6

-----------------------------------------------------------------------------
(* The invariant and the steps of the server.                              *)

(* A move of a page that touches no message keeps the invariant.           *)
LEMMA PagesMoveOn ==
  ASSUME MessagesInv, NEW c \in Conns, PageMoves(c), ServerInv',
         UNCHANGED <<messages, job, queue, requested, shown, audience>>
  PROVE  MessagesInv'
<1> USE DEF MessagesInv
<1>1. \A s \in Conns :
        /\ JobAt(s, "find")' <=> JobAt(s, "find")
        /\ JobAt(s, "send")' <=> JobAt(s, "send")
        /\ (handler'[s].at = "message") <=> (handler[s].at = "message")
  BY DEF PageMoves, JobAt, At
<1>2. \A d \in Conns, i \in Nat : Pending(d, i)' <=> Pending(d, i)
  BY <1>1 DEF Pending, Queued, Destined
<1>3. \A d \in Conns :
        \/ /\ link'[d] = link[d] /\ session'[d] = session[d]
           /\ handler'[d] = handler[d]
        \/ Opens(d) \/ LogsOn(d) \/ GetsName(d)
        \/ link'[d] = "down" /\ handler'[d].at # "message"
  BY DEF PageMoves
<1>4. \A d \in Conns : Opens(d) => session[d] = NoUser /\ handler[d].at = "idle"
  BY DEF Opens, ServerInv, NewIdle, At
<1>5. \A d \in Conns :
        session[d] = NoUser /\ link[d] # "down" =>
          requested[d] = {} /\ shown[d] = {}
  BY DEF PagesBlank
<1>6. MessageTypes' /\ NothingTwice'
  BY DEF MessageTypes, NothingTwice
<1>7. PagesServed'
  <2> SUFFICES ASSUME NEW d \in Conns PROVE PagesServed!(d)'
    BY DEF PagesServed
  <2>1. (handler'[d].at = "message") <=> (job[d].at # "none")
    BY <1>1 DEF PagesServed
  <2>2. CASE /\ link'[d] = link[d] /\ session'[d] = session[d]
             /\ handler'[d] = handler[d]
    BY <2>1, <2>2 DEF PagesServed
  <2>3. CASE Opens(d) \/ LogsOn(d) \/ GetsName(d)
    BY <1>4, <2>1, <2>3 DEF PagesServed, Opens, LogsOn, GetsName
  <2>4. CASE link'[d] = "down" /\ handler'[d].at # "message"
    BY <2>1, <2>4
  <2> QED
    BY <1>3, <2>2, <2>3, <2>4
<1>8. PagesBlank'
  <2> SUFFICES ASSUME NEW d \in Conns, link'[d] # "down", session'[d] = NoUser
               PROVE  /\ requested[d] = {} /\ shown[d] = {}
                      /\ UserOf(d)' = NoUser => \A i \in Nat : ~Pending(d, i)
    BY <1>2 DEF PagesBlank
  <2>1. CASE /\ link'[d] = link[d] /\ session'[d] = session[d]
             /\ handler'[d] = handler[d]
    BY <2>1 DEF PagesBlank, UserOf, At
  <2>2. CASE Opens(d)
    BY <1>4, <2>2 DEF PagesBlank, Opens, UserOf, At
  <2>3. CASE LogsOn(d)
    BY <1>5, <2>3, NoUserAssumption
       DEF LogsOn, UserOf, At, ServerInv, HandlersSound
  <2>4. CASE GetsName(d)
    BY <2>4, NoUserAssumption DEF GetsName, ServerInv, HandlersSound
  <2> QED
    BY <1>3, <2>1, <2>2, <2>3, <2>4
<1>9. \A d \in Conns :
        link'[d] = "up" /\ requested[d] \cup shown[d] # {} =>
          link[d] = "up" /\ session'[d] = session[d]
  BY <1>3, <1>4, <1>5 DEF Opens, LogsOn, GetsName, ServerInv, HandlersSound
<1>10. RequestsOwn'
  BY <1>9 DEF RequestsOwn
<1>11. JobsSound'
  <2> SUFFICES ASSUME NEW d \in Conns, handler'[d].at = "message"
               PROVE  JobSound(d)'
    BY DEF JobsSound
  <2>1. JobSound(d)
    BY <1>1 DEF JobsSound
  <2>2. link'[d] = "up"
    BY <1>7 DEF PagesServed
  <2>3. session'[d] = session[d]
    BY <1>9, <2>1, <2>2 DEF JobSound
  <2> QED
    BY <2>1, <2>3 DEF JobSound
<1>12. PagesSound'
  <2>1. \A d \in Conns, i \in Nat : Pending(d, i)' => i \in DOMAIN messages
    BY <1>2 DEF PagesSound
  <2>2. \A d \in Conns : shown[d] # {} /\ link'[d] = "up" =>
          link[d] = "up" /\ session'[d] = session[d]
    BY <1>9
  <2> QED
    BY <2>1, <2>2 DEF PagesSound
<1>13. OwnFromRooms'
  <2> SUFFICES ASSUME NEW d \in Conns, NEW i \in DOMAIN messages,
                      Pending(d, i), link'[d] = "up",
                      messages[i].sender = UserOf(d)'
               PROVE  /\ messages[i].conversation.type = "room"
                      /\ <<"local", i>> \in shown[d]
    <3>1. DOMAIN messages \subseteq Nat
      BY DEF MessageTypes
    <3> QED
      BY <1>2, <3>1 DEF OwnFromRooms
  <2>1. i \in Nat
    BY DEF MessageTypes
  <2>2. ~Opens(d) /\ ~LogsOn(d)
    <3>1. UserOf(d) = NoUser /\ session[d] = NoUser => link[d] = "down"
      BY <2>1 DEF PagesBlank
    <3> QED
      BY <1>4, <3>1 DEF Opens, LogsOn, UserOf, At
  <2>3. link[d] = "up" /\ UserOf(d)' = UserOf(d)
    BY <1>3, <2>2 DEF GetsName, UserOf, At
  <2> QED
    BY <2>3 DEF OwnFromRooms
<1>14. Reaches'
  <2> SUFFICES ASSUME NEW d \in Conns, NEW i \in DOMAIN messages,
                      MeantFor(d, i)'
               PROVE  \/ Shown(d, i) \/ Pending(d, i)' \/ Sought(d, i)'
                      \/ Cardinality(NewerMessages(i)) >= DefaultLimit
    BY DEF Reaches, Shown, NewerMessages
  <2>1. i \in Nat
    BY DEF MessageTypes
  <2>2. link[d] = "up" /\ session'[d] = session[d] /\ MeantFor(d, i)
    BY <1>9 DEF MeantFor
  <2>3. Sought(d, i) => Sought(d, i)'
    BY <1>1, <2>2 DEF Sought
  <2> QED
    BY <1>2, <2>1, <2>2, <2>3 DEF Reaches
<1> QED
  BY <1>6, <1>7, <1>8, <1>10, <1>11, <1>12, <1>13, <1>14

-----------------------------------------------------------------------------

(* At the start nothing is stored, queued or shown.                        *)
LEMMA InitMessages == MessagesInit => MessagesInv
<1> SUFFICES ASSUME MessagesInit PROVE MessagesInv
  OBVIOUS
<1>1. ServerInv
  BY InitServer DEF MessagesInit
<1>2. /\ messages = <<>> /\ audience = <<>>
      /\ \A c \in Conns :
           /\ queue[c] = <<>> /\ requested[c] = {} /\ shown[c] = {}
           /\ job[c] = NoJob /\ handler[c] = Idle /\ link[c] = "new"
  BY DEF MessagesInit, Init, ST!Init
<1>3. NoJob \in Jobs /\ NoJob.at = "none" /\ Idle.at = "idle"
  BY DEF NoJob, Jobs, Idle
<1>4. MessageTypes
  BY <1>3 DEF MessagesInit, MessageTypes, ST!Init
<1>5. DOMAIN messages = {} /\ \A c \in Conns : DOMAIN queue[c] = {}
  BY <1>2
<1>6. \A c \in Conns : \A step : ~JobAt(c, step)
  BY <1>2, <1>3 DEF JobAt, At
<1>7. \A c \in Conns, i \in Nat : ~Pending(c, i)
  BY <1>5, <1>6 DEF Pending, Queued, Destined
<1>8. PagesServed /\ PagesBlank /\ RequestsOwn /\ JobsSound
  BY <1>2, <1>3, <1>7
     DEF PagesServed, PagesBlank, RequestsOwn, JobsSound
<1>9. PagesSound /\ OwnFromRooms /\ Reaches /\ NothingTwice
  BY <1>2, <1>5, <1>7 DEF PagesSound, OwnFromRooms, Reaches, NothingTwice
<1> QED
  BY <1>1, <1>4, <1>8, <1>9 DEF MessagesInv

(* The invariant holds in every state of the specification.                *)
LEMMA MessagesAlways == MessagesSpec => []MessagesInv
<1>1. ASSUME MessagesInv, NEW c \in Conns, MessageStep(c)
      PROVE  MessagesInv'
  <2>1. Sends(c) /\ Does(c)
    BY <1>1, MessageStepDoes DEF MessagesInv
  <2>2. ServerInv' /\ MessageTypes' /\ PagesServed'
    BY <1>1, <2>1, SendsServer, TypesKept, ServedKept DEF MessagesInv
  <2>3. PagesBlank' /\ RequestsOwn' /\ JobsSound'
    BY <1>1, <2>1, BlankKept, RequestsKept, JobsKept
  <2>4. PagesSound' /\ OwnFromRooms' /\ Reaches' /\ NothingTwice'
    BY <1>1, <2>1, PagesKept, OwnKept, ReachesKept, TwiceKept
  <2> QED
    BY <2>2, <2>3, <2>4 DEF MessagesInv
<1>2. ASSUME MessagesInv, ServerStep
      PROVE  MessagesInv'
  BY <1>2, ServerStepMoves, PagesMoveOn DEF MessagesInv
<1>3. ASSUME MessagesInv, UNCHANGED allVars
      PROVE  MessagesInv'
  <2>1. /\ UNCHANGED <<online, link, session, handler, messages, job, queue,
                       requested, shown, audience>>
        /\ UNCHANGED vars
    BY <1>3 DEF allVars, serverVars, vars
  <2>2. ServerInv'
    BY <1>3, <2>1, StutterServer DEF MessagesInv
  <2>3. \A c \in Conns, i \in Nat : Pending(c, i)' <=> Pending(c, i)
    BY <2>1 DEF Pending, Queued, Destined, JobAt, At
  <2> USE DEF MessagesInv
  <2>4. MessageTypes' /\ RequestsOwn' /\ NothingTwice'
    BY <1>3, <2>1 DEF MessageTypes, RequestsOwn, NothingTwice
  <2>5. PagesServed' /\ JobsSound'
    BY <1>3, <2>1 DEF PagesServed, JobsSound, JobSound
  <2>6. PagesBlank'
    BY <1>3, <2>1, <2>3 DEF PagesBlank, UserOf, At
  <2>7. PagesSound'
    BY <1>3, <2>1, <2>3 DEF PagesSound
  <2>8. \A i \in DOMAIN messages : i \in Nat
    BY <1>3 DEF MessageTypes
  <2>9. OwnFromRooms'
    BY <1>3, <2>1, <2>3, <2>8 DEF OwnFromRooms, UserOf, At
  <2>10. Reaches'
    <3>1. \A c \in Conns, i \in DOMAIN messages :
            /\ MeantFor(c, i)' <=> MeantFor(c, i)
            /\ Shown(c, i)' <=> Shown(c, i)
            /\ Sought(c, i)' <=> Sought(c, i)
            /\ NewerMessages(i)' = NewerMessages(i)
      BY <2>1 DEF MeantFor, Shown, Sought, NewerMessages, JobAt, At
    <3> QED
      BY <1>3, <2>1, <2>3, <2>8, <3>1 DEF Reaches
  <2> QED
    BY <2>2, <2>4, <2>5, <2>6, <2>7, <2>9, <2>10
<1>4. MessagesInv /\ [MessagesNext]_allVars => MessagesInv'
  BY <1>1, <1>2, <1>3 DEF MessagesNext
<1> QED
  BY <1>4, InitMessages, PTL DEF MessagesSpec

(* What was meant for a page when it was sent is on the page once nothing  *)
(* is on its way any more, unless newer messages have pushed it back.      *)
THEOREM NothingEverMissed == MessagesSpec => []NothingMissed
<1>1. MessagesInv => NothingMissed
  <2> SUFFICES ASSUME MessagesInv, Settled, NEW c \in Conns,
                      NEW i \in DOMAIN messages, MeantFor(c, i)
               PROVE  \/ Shown(c, i)
                      \/ Cardinality(NewerMessages(i)) >= DefaultLimit
    BY DEF NothingMissed, MeantFor, Shown
  <2>1. \A s \in Conns : \A step : ~JobAt(s, step)
    BY DEF Settled, Quiet, JobAt, At
  <2>2. DOMAIN queue[c] = {}
    BY DEF Settled
  <2> QED
    BY <2>1, <2>2 DEF MessagesInv, Reaches, Pending, Queued, Destined, Sought
<1> QED
  BY <1>1, MessagesAlways, PTL

(* No page shows a message as its own and again as the server's.           *)
THEOREM NothingEverTwice == MessagesSpec => []NothingTwice
<1>1. MessagesInv => NothingTwice
  BY DEF MessagesInv
<1> QED
  BY <1>1, MessagesAlways, PTL
=============================================================================
