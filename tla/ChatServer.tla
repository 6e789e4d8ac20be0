----------------------------- MODULE ChatServer ----------------------------
(***************************************************************************)
(* server/ChatServer and server/ChatSession: the request handlers of many  *)
(* connections over the three managers.                                    *)
(*                                                                         *)
(* A connection belongs to one event-loop thread, which runs its handlers  *)
(* one after the other to completion; handlers of connections on different *)
(* threads interleave.  The managers lock their own mutex in each call and *)
(* release it in between, so a handler is a sequence of steps: one manager *)
(* call, or one send to another connection, each.  A reply to the          *)
(* handler's own connection goes with the step before it: nobody else      *)
(* reads it.  What a handler holds in local variables between two steps is *)
(* kept in handler[c].                                                     *)
(***************************************************************************)
EXTENDS StdMap

CONSTANTS Users, Conns, Rooms, CallIds,
          NoUser, NoCall     \* the empty username and call id

ASSUME NoUserAssumption == NoUser \notin Users
ASSUME NoCallAssumption == NoCall \notin CallIds

VARIABLES
  online,               \* UserManager
  rooms, userRooms,     \* RoomManager
  callUsers, calls,     \* CallManager
  link,                 \* the TCP connection: "new", "up" or "down"
  session,              \* ChatSession::username_
  handler,              \* where the connection's handler is, and its locals
  view                  \* what the client knows of each call

UM == INSTANCE UserManager
RM == INSTANCE RoomManager
CM == INSTANCE CallManager

roomVars == <<rooms, userRooms>>
callVars == <<callUsers, calls>>
vars == <<online, roomVars, callVars, link, session, handler, view>>

Labels == {"idle", "set_username",
           "drop_call", "find_peer", "tell_peer", "leave_rooms",
           "leave_server", "clear_username",
           "start_call", "refind", "cancel_call", "send_invite",
           "find_partner", "hang_up", "find_ended", "send_end",
           "message"}    \* a message is being sent: see ChatMessages

(* The client has not heard of a call, has invited to it, was invited, has *)
(* accepted the invitation, or knows that the call is over.                *)
Views == {"none", "calling", "ringing", "in_call", "over"}

Idle == [at |-> "idle", user |-> NoUser, id |-> NoCall, dest |-> {}]

Init ==
  /\ UM!Init /\ RM!Init /\ CM!Init
  /\ link = [c \in Conns |-> "new"]
  /\ session = [c \in Conns |-> NoUser]
  /\ handler = [c \in Conns |-> Idle]
  /\ view = [c \in Conns |-> [id \in CallIds |-> "none"]]

-----------------------------------------------------------------------------
(* Control of one handler.                                                 *)

At(c, label) == handler[c].at = label

Goto(c, label) == handler' = [handler EXCEPT ![c].at = label]

Start(c, label, user, id) ==
  handler' = [handler EXCEPT ![c] = [at |-> label, user |-> user, id |-> id,
                                     dest |-> {}]]

Return(c) == handler' = [handler EXCEPT ![c] = Idle]

(* userManager_.find(user): go on with the connection found, or without.   *)
FindThen(c, user, label, otherwise) ==
  IF UM!Find(user) = {} THEN otherwise
  ELSE handler' = [handler EXCEPT ![c].dest = UM!Find(user), ![c].at = label]

(* TcpConnection::send drops what is sent to a connection that is down; a  *)
(* client that knows a call is over ignores late news of it.               *)
Tell(dest, id, news) ==
  view' = [d \in Conns |->
             IF d \in dest /\ link[d] = "up" /\ view[d][id] # "over"
             THEN [view[d] EXCEPT ![id] = news] ELSE view[d]]

(* The request line the handler starts on; the username is set.            *)
Request(c) == At(c, "idle") /\ link[c] = "up" /\ session[c] # NoUser

-----------------------------------------------------------------------------
(* Connections and sessions.                                               *)

Connect(c) ==
  /\ link[c] = "new"
  /\ link' = [link EXCEPT ![c] = "up"]
  /\ UNCHANGED <<online, roomVars, callVars, session, handler, view>>

(* An already logged-in session or a taken name gets an error.             *)
Login(c, u) ==
  /\ At(c, "idle") /\ link[c] = "up" /\ session[c] = NoUser
  /\ \E ok \in BOOLEAN :
       /\ UM!Login(u, c, ok)
       /\ IF ok THEN Start(c, "set_username", u, NoCall)
                ELSE UNCHANGED handler
  /\ UNCHANGED <<roomVars, callVars, link, session, view>>

SetUsername(c) ==
  /\ At(c, "set_username")
  /\ session' = [session EXCEPT ![c] = handler[c].user]
  /\ Return(c)
  /\ UNCHANGED <<online, roomVars, callVars, link, view>>

Logout(c) ==
  /\ Request(c)
  /\ Goto(c, "drop_call")
  /\ UNCHANGED <<online, roomVars, callVars, link, session, view>>

(* Mutant: logout forgets the call of a closed connection.                 *)
DisconnectKeepsCall(c) ==
  /\ At(c, "idle") /\ link[c] = "up"
  /\ link' = [link EXCEPT ![c] = "down"]
  /\ IF session[c] = NoUser THEN UNCHANGED handler ELSE Goto(c, "leave_rooms")
  /\ UNCHANGED <<online, roomVars, callVars, session, view>>

(* The socket closed; onConnection logs the session out if it has a user.  *)
Disconnect(c) ==
  /\ At(c, "idle") /\ link[c] = "up"
  /\ link' = [link EXCEPT ![c] = "down"]
  /\ IF session[c] = NoUser THEN UNCHANGED handler ELSE Goto(c, "drop_call")
  /\ UNCHANGED <<online, roomVars, callVars, session, view>>

(* Mutant: only a user with a call leaves the rooms.                       *)
DropCallOrRooms(c) ==
  /\ At(c, "drop_call")
  /\ \E removed \in BOOLEAN :
       /\ CM!RemoveUser(session[c], removed)
       /\ Goto(c, IF removed THEN "leave_rooms" ELSE "leave_server")
  /\ UNCHANGED <<online, roomVars, link, session, view>>

DropCall(c) ==
  /\ At(c, "drop_call")
  /\ \E removed \in BOOLEAN :
       /\ CM!RemoveUser(session[c], removed)
       /\ IF removed
          THEN LET event == CM!DisconnectEvent(session[c]) IN
                 Start(c, "find_peer", event.peer, event.callId)
          ELSE Goto(c, "leave_rooms")
  /\ UNCHANGED <<online, roomVars, link, session, view>>

FindPeer(c) ==
  /\ At(c, "find_peer")
  /\ FindThen(c, handler[c].user, "tell_peer", Goto(c, "leave_rooms"))
  /\ UNCHANGED <<online, roomVars, callVars, link, session, view>>

(* Mutant: the user who leaves is told, not the peer.                      *)
TellLeaver(c) ==
  /\ At(c, "tell_peer")
  /\ Tell({c}, handler[c].id, "over")
  /\ Goto(c, "leave_rooms")
  /\ UNCHANGED <<online, roomVars, callVars, link, session>>

TellPeer(c) ==
  /\ At(c, "tell_peer")
  /\ Tell(handler[c].dest, handler[c].id, "over")
  /\ Goto(c, "leave_rooms")
  /\ UNCHANGED <<online, roomVars, callVars, link, session>>

LeaveRooms(c) ==
  /\ At(c, "leave_rooms")
  /\ RM!LeaveAll(session[c])
  /\ Goto(c, "leave_server")
  /\ UNCHANGED <<online, callVars, link, session, view>>

LeaveServer(c) ==
  /\ At(c, "leave_server")
  /\ UM!Logout(session[c], c)
  /\ Goto(c, "clear_username")
  /\ UNCHANGED <<roomVars, callVars, link, session, view>>

(* A client that has logged out forgets its calls.                         *)
ClearUsername(c) ==
  /\ At(c, "clear_username")
  /\ session' = [session EXCEPT ![c] = NoUser]
  /\ view' = [view EXCEPT ![c] = [id \in CallIds |-> "none"]]
  /\ Return(c)
  /\ UNCHANGED <<online, roomVars, callVars, link>>

-----------------------------------------------------------------------------
(* Rooms: one manager call each.                                           *)

CreateRoom(c, r) ==
  /\ Request(c)
  /\ \E ok \in BOOLEAN : RM!CreateRoom(r, ok)
  /\ UNCHANGED <<online, callVars, link, session, handler, view>>

JoinRoom(c, r) ==
  /\ Request(c)
  /\ \E ok \in BOOLEAN : RM!JoinRoom(r, session[c], ok)
  /\ UNCHANGED <<online, callVars, link, session, handler, view>>

LeaveRoom(c, r) ==
  /\ Request(c)
  /\ RM!LeaveRoom(r, session[c], RM!MemberResult(r, session[c]))
  /\ UNCHANGED <<online, callVars, link, session, handler, view>>

-----------------------------------------------------------------------------
(* call_invite                                                             *)

(* generateCallId: a new id for every call.                                *)
Unheard(id) ==
  /\ id \notin DOMAIN calls
  /\ \A c \in Conns : view[c][id] = "none" /\ handler[c].id # id

(* The client considers itself calling from its request on, until it is    *)
(* told that the target is offline or that it or the target is busy.       *)
Invite(c, target, id) ==
  /\ Request(c)
  /\ target # session[c]
  /\ Unheard(id)
  /\ IF UM!Find(target) = {}
     THEN /\ view' = [view EXCEPT ![c][id] = "over"]
          /\ UNCHANGED handler
     ELSE /\ view' = [view EXCEPT ![c][id] = "calling"]
          /\ Start(c, "start_call", target, id)
  /\ UNCHANGED <<online, roomVars, callVars, link, session>>

StartCall(c) ==
  /\ At(c, "start_call")
  /\ \E result \in {"ok", "caller_busy", "target_busy", "duplicate_call_id"} :
       /\ CM!StartCall(session[c], handler[c].user, handler[c].id, result)
       /\ IF result = "ok" THEN Goto(c, "refind") /\ UNCHANGED view
          ELSE Return(c) /\ Tell({c}, handler[c].id, "over")
  /\ UNCHANGED <<online, roomVars, link, session>>

Refind(c) ==
  /\ At(c, "refind")
  /\ FindThen(c, handler[c].user, "send_invite", Goto(c, "cancel_call"))
  /\ UNCHANGED <<online, roomVars, callVars, link, session, view>>

CancelCall(c) ==
  /\ At(c, "cancel_call")
  /\ \E ok \in BOOLEAN :
       CM!CancelCall(session[c], handler[c].user, handler[c].id, ok)
  /\ Tell({c}, handler[c].id, "over")
  /\ Return(c)
  /\ UNCHANGED <<online, roomVars, link, session>>

SendInvite(c) ==
  /\ At(c, "send_invite")
  /\ Tell(handler[c].dest, handler[c].id, "ringing")
  /\ Return(c)
  /\ UNCHANGED <<online, roomVars, callVars, link, session>>

-----------------------------------------------------------------------------
(* Requests about an existing call.  One the manager refuses is answered   *)
(* with call_error, which ends the call for the client.                    *)

Accept(c, target, id) ==
  /\ Request(c)
  /\ target # session[c]
  /\ \E ok \in BOOLEAN :
       /\ CM!AcceptCall(session[c], target, id, ok)
       /\ IF ok THEN Tell({c}, id, "in_call") /\ Start(c, "find_partner", target, id)
                ELSE Tell({c}, id, "over") /\ UNCHANGED handler
  /\ UNCHANGED <<online, roomVars, link, session>>

(* call_reject, call_cancel, call_timeout and call_hangup: each ends the   *)
(* call for its sender, whatever the server answers.                       *)
End(c, target, id) ==
  /\ Request(c)
  /\ target # session[c]
  /\ \E ok \in BOOLEAN :
       /\ \/ CM!RejectCall(session[c], target, id, ok)
          \/ CM!CancelCall(session[c], target, id, ok)
          \/ CM!HangupCall(session[c], target, id, ok)
       /\ IF ok THEN Start(c, "find_ended", target, id)
                ELSE UNCHANGED handler
  /\ Tell({c}, id, "over")
  /\ UNCHANGED <<online, roomVars, link, session>>

FindEnded(c) ==
  /\ At(c, "find_ended")
  /\ FindThen(c, handler[c].user, "send_end", Return(c))
  /\ UNCHANGED <<online, roomVars, callVars, link, session, view>>

SendEnd(c) ==
  /\ At(c, "send_end")
  /\ Tell(handler[c].dest, handler[c].id, "over")
  /\ Return(c)
  /\ UNCHANGED <<online, roomVars, callVars, link, session>>

(* webrtc_offer, webrtc_answer and ice_candidate.                          *)
Signal(c, target, id, type) ==
  /\ Request(c)
  /\ target # session[c]
  /\ IF CM!SignalingResult(session[c], target, id, type) = "ok"
     THEN Start(c, "find_partner", target, id) /\ UNCHANGED view
     ELSE Tell({c}, id, "over") /\ UNCHANGED handler
  /\ UNCHANGED <<online, roomVars, callVars, link, session>>

(* The acceptance or the signaling is sent on if the partner is still      *)
(* there: neither changes what view tells of a call.                       *)
FindPartner(c) ==
  /\ At(c, "find_partner")
  /\ IF UM!Find(handler[c].user) = {} THEN Goto(c, "hang_up") ELSE Return(c)
  /\ UNCHANGED <<online, roomVars, callVars, link, session, view>>

HangUp(c) ==
  /\ At(c, "hang_up")
  /\ \E ok \in BOOLEAN :
       CM!HangupCall(session[c], handler[c].user, handler[c].id, ok)
  /\ Tell({c}, handler[c].id, "over")
  /\ Return(c)
  /\ UNCHANGED <<online, roomVars, link, session>>

-----------------------------------------------------------------------------

Connection(c) ==
  \/ Connect(c) \/ Disconnect(c) \/ Logout(c) \/ \E u \in Users : Login(c, u)

RoomRequest(c) ==
  \E r \in Rooms : CreateRoom(c, r) \/ JoinRoom(c, r) \/ LeaveRoom(c, r)

CallRequest(c) ==
  \E target \in Users, id \in CallIds :
    \/ Invite(c, target, id)
    \/ Accept(c, target, id)
    \/ End(c, target, id)
    \/ \E type \in CM!SignalTypes : Signal(c, target, id, type)

(* The steps a handler takes once its request has been read.               *)
Continue(c) ==
  \/ SetUsername(c)
  \/ DropCall(c) \/ FindPeer(c) \/ TellPeer(c)
  \/ LeaveRooms(c) \/ LeaveServer(c) \/ ClearUsername(c)
  \/ StartCall(c) \/ Refind(c) \/ CancelCall(c) \/ SendInvite(c)
  \/ FindEnded(c) \/ SendEnd(c) \/ FindPartner(c) \/ HangUp(c)

Next == \E c \in Conns :
          Connection(c) \/ RoomRequest(c) \/ CallRequest(c) \/ Continue(c)

Spec == Init /\ [][Next]_vars

-----------------------------------------------------------------------------
TypeOK ==
  /\ Range(online) \subseteq Conns
  /\ DOMAIN online \subseteq Users
  /\ RM!TypeOK /\ CM!TypeOK
  /\ link \in [Conns -> {"new", "up", "down"}]
  /\ session \in [Conns -> Users \cup {NoUser}]
  /\ handler \in [Conns -> [at : Labels, user : Users \cup {NoUser},
                            id : CallIds \cup {NoCall}, dest : SUBSET Conns]]
  /\ view \in [Conns -> [CallIds -> Views]]

(* UserManager and the sessions tell the same story: a user is found on    *)
(* the one connection whose session carries the name, except for the       *)
(* moment between the two writes of login (ChatServer.cc:324-330) and of   *)
(* logout (ChatServer.cc:373-374), in whatever order connections close,    *)
(* log out and log in again under the same name.                           *)
SessionsAgree ==
  /\ TypeOK
  /\ \A c \in Conns, u \in Users :
       (u \in DOMAIN online /\ online[u] = c) <=>
         \/ session[c] = u /\ ~At(c, "clear_username")
         \/ At(c, "set_username") /\ handler[c].user = u

(* README.md:492: "Disconnecting also logs the user out and removes that   *)
(* user from all rooms", and README.md:235: logout and disconnect "clear   *)
(* the server state".  At every step, whoever is in a room, calling or in  *)
(* a call is online: nobody who logs in anew finds a membership of an      *)
(* earlier session, and a call can be ended by the clients of its users.   *)
(* (A ringing user may not be online: see CallUsersOnline.)                *)
OnlyOnlineBusy ==
  /\ \A r \in DOMAIN rooms : rooms[r] \subseteq DOMAIN online
  /\ \A u \in DOMAIN callUsers :
       callUsers[u].state \in {"calling", "in_call"} => u \in DOMAIN online

Quiet == \A c \in Conns : At(c, "idle")

(* README.md:235: "... and notify the remaining peer."  When no handler is *)
(* running, a logged-in client that believes it is in a call it started or *)
(* accepted is in it for the server too: nobody is left in a call that the *)
(* server has forgotten, however the other side left it.                   *)
NobodyStranded ==
  Quiet =>
    \A c \in Conns, id \in CallIds :
      link[c] = "up" /\ view[c][id] \in {"calling", "in_call"} =>
        /\ id \in DOMAIN calls
        /\ session[c] \in {calls[id].caller, calls[id].callee}

(* A call ends only by a handler of a connection of one of its two users.  *)
OnlyPartiesEnd ==
  [][\A id \in DOMAIN calls \ DOMAIN calls' :
       \E c \in Conns : /\ handler'[c] # handler[c]
                        /\ session[c] \in {calls[id].caller, calls[id].callee}
    ]_vars

(* README.md:235-236: "Logout, TCP/WebSocket disconnect, and browser       *)
(* refresh clear the server state".  When no handler is running, a user    *)
(* who is not online is in no call.                                        *)
CallUsersOnline == Quiet => DOMAIN callUsers \subseteq DOMAIN online
=============================================================================
