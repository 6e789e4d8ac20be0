--------------------------- MODULE WebClientCall ---------------------------
(***************************************************************************)
(* Video calls from page to page: the call state of web-client/app.js with *)
(* its timer and the WebRTC steps it awaits (web-client/webrtc.js), over   *)
(* the server's CallManager.                                               *)
(*                                                                         *)
(* A handler of the page runs to its next await, a handler of the server   *)
(* runs as a whole (ChatServer has its interleavings).  What a handler     *)
(* sends to another user is queued for that user's loop, so a page gets    *)
(* the events of each user in order, and those of several in any order.    *)
(*                                                                         *)
(* All events that end a call on a page (call_reject, call_busy,           *)
(* call_cancel, call_timeout, call_hangup, call_error) are one, "end", and *)
(* call_timeout is the call_cancel that the server takes it for.  ICE      *)
(* candidates are left out.                                                *)
(***************************************************************************)
EXTENDS CallManager, Sequences

CONSTANTS NoCall,
          Droppers    \* bound: the users whose page or connection may end

ASSUME NoCallAssumption == NoCall \notin CallIds

VARIABLES
  page,       \* state.call of every user's page
  tasks,      \* the page's async calls that wait for a WebRTC step
  link,       \* the page's WebSocket
  online,     \* the users the server has not seen disconnect
  toServer,   \* what a page has sent and the server not yet read
  toPage,     \* toPage[u][v]: events for u that v's handler has queued
  given       \* the call ids generateCallId has given out

pageVars == <<page, tasks>>
netVars == <<link, online, toServer, toPage>>
vars == <<callVars, pageVars, netVars, given>>

(* timer: the phase and call a running timer looks for.  rtc: the WebRTC   *)
(* object, named after the call it was made for.  remote: it has a remote  *)
(* description.  cameras: the objects whose media stream runs.             *)
IdlePage == [phase |-> "idle", id |-> NoCall, peer |-> NoCall,
             timer |-> NoCall, rtc |-> NoCall, remote |-> FALSE,
             cameras |-> {}]

WebInit ==
  /\ Init
  /\ page = [u \in Users |-> IdlePage]
  /\ tasks = [u \in Users |-> {}]
  /\ link = [u \in Users |-> "open"]
  /\ online = Users
  /\ toServer = [u \in Users |-> <<>>]
  /\ toPage = [u \in Users |-> [v \in Users |-> <<>>]]
  /\ given = {}

(* hasCurrentCall                                                          *)
HasCurrentCall(u) == page[u].phase \notin {"idle", "finished"}

-----------------------------------------------------------------------------
(* Page state.                                                             *)

(* close: the stream is stopped and the peer connection given up.          *)
Closed(p) == [p EXCEPT !.cameras = @ \ {p.rtc}, !.rtc = NoCall,
                       !.remote = FALSE]

(* finishCall                                                              *)
Finished(p) == [Closed(p) EXCEPT !.phase = "finished", !.timer = NoCall]

(* Mutant: only the ringing phase has a timer.                             *)
WithRingingTimer(p, phase) ==
  [p EXCEPT !.phase = phase,
            !.timer = IF phase = "outgoing" THEN [phase |-> phase, id |-> p.id]
                      ELSE NoCall]

(* startVideoCall's timer, and startMediaConnectionTimeout's.              *)
WithTimer(p, phase) ==
  [p EXCEPT !.phase = phase, !.timer = [phase |-> phase, id |-> p.id]]

NewCall(p, id, peer) ==
  [IdlePage EXCEPT !.id = id, !.peer = peer, !.cameras = p.cameras]

SetPage(u, p) == page' = [page EXCEPT ![u] = p]

(* sendCurrentCallMessage: nothing is sent on a socket that is not open.   *)
SendTo(u, type, peer, id) ==
  toServer' = IF link[u] = "open"
              THEN [toServer EXCEPT
                     ![u] = Append(@, [type |-> type, to |-> peer, id |-> id,
                                       rtc |-> page[u].rtc])]
              ELSE toServer

Send(u, type) == SendTo(u, type, page[u].peer, page[u].id)

(* The message that ends the current call, by its phase.                   *)
EndType(phase) ==
  IF phase = "incoming" THEN "call_reject"
  ELSE IF phase = "outgoing" THEN "call_cancel" ELSE "call_hangup"

(* handleLocalCallFailure, and the buttons that end a call.                *)
EndCurrentCall(u) ==
  IF HasCurrentCall(u)
  THEN Send(u, EndType(page[u].phase)) /\ SetPage(u, Finished(page[u]))
  ELSE UNCHANGED <<toServer, page>>

RemoveTask(u, t) == tasks' = [tasks EXCEPT ![u] = @ \ {t}]

Await(u, kind, step, obj) ==
  tasks' = [tasks EXCEPT ![u] = @ \cup {[kind |-> kind, step |-> step,
                                         id |-> page[u].id, rtc |-> obj]}]

-----------------------------------------------------------------------------
(* The user.                                                               *)

(* generateCallId: which id it is does not matter.                         *)
FreshId == CHOOSE id \in CallIds \ given : TRUE

StartVideoCall(u, peer) ==
  /\ link[u] = "open" /\ peer # u /\ ~HasCurrentCall(u)
  /\ given # CallIds
  /\ given' = given \cup {FreshId}
  /\ SetPage(u, WithTimer(NewCall(page[u], FreshId, peer), "outgoing"))
  /\ SendTo(u, "call_invite", peer, FreshId)
  /\ UNCHANGED <<callVars, tasks, link, online, toPage>>

(* The button is disabled until the phase changes.                         *)
AcceptIncomingCall(u) ==
  /\ page[u].phase = "incoming"
  /\ ~\E t \in tasks[u] : t.kind = "accept" /\ t.id = page[u].id
  /\ SetPage(u, [page[u] EXCEPT !.rtc = page[u].id])
  /\ Await(u, "accept", "media", page[u].id)
  /\ UNCHANGED <<callVars, netVars, given>>

EndByButton(u) ==
  /\ HasCurrentCall(u)
  /\ EndCurrentCall(u)
  /\ UNCHANGED <<callVars, tasks, link, online, toPage, given>>

Dismiss(u) ==
  /\ page[u].phase = "finished"
  /\ SetPage(u, NewCall(page[u], NoCall, NoCall))
  /\ UNCHANGED <<callVars, tasks, netVars, given>>

(* The callbacks of both timers look at the phase and the call again.      *)
FireTimer(u) ==
  /\ page[u].timer # NoCall
  /\ IF page[u].timer = [phase |-> page[u].phase, id |-> page[u].id]
     THEN EndCurrentCall(u)
     ELSE SetPage(u, [page[u] EXCEPT !.timer = NoCall]) /\ UNCHANGED toServer
  /\ UNCHANGED <<callVars, tasks, link, online, toPage, given>>

-----------------------------------------------------------------------------
(* Awaited steps.  The object of a task is gone when the page has closed   *)
(* it: its peer connection is null, and the step that follows throws.      *)

(* Mutant: close leaves the peer connection in the object.                 *)
NeverGone(u, t) == FALSE

Gone(u, t) == t.rtc # page[u].rtc

(* The catch blocks.  Only acceptIncomingCall's looks for its own call;    *)
(* the others end whatever call is current.                                *)
Throw(u, t) ==
  /\ RemoveTask(u, t)
  /\ IF t.kind = "accept" /\ ~(page[u].phase = "incoming"
                               /\ page[u].id = t.id)
     THEN UNCHANGED <<toServer, page>>
     ELSE EndCurrentCall(u)

(* Mutant: prepareMedia does not ask whether it was closed meanwhile.      *)
GetUserMediaUnasked(u, t) ==
  /\ t \in tasks[u] /\ t.step = "media"
  /\ SetPage(u, [page[u] EXCEPT !.cameras = @ \cup {t.rtc}])
  /\ RemoveTask(u, t)
  /\ UNCHANGED <<callVars, netVars, given>>

(* getUserMedia comes back: the stream, or the user denied it.             *)
GetUserMedia(u, t) ==
  /\ t \in tasks[u] /\ t.step = "media"
  /\ \/ Throw(u, t)
     \/ /\ ~Gone(u, t)
        /\ LET p == [page[u] EXCEPT !.cameras = @ \cup {t.rtc}] IN
           IF t.kind = "accept"
           THEN /\ SetPage(u, IF link[u] = "open"
                              THEN WithTimer(p, "connecting")
                              ELSE Finished(p))
                /\ Send(u, "call_accept")
                /\ RemoveTask(u, t)
           ELSE /\ SetPage(u, p)
                /\ tasks' = [tasks EXCEPT ![u] =
                              (@ \ {t}) \cup {[t EXCEPT !.step = "local"]}]
                /\ UNCHANGED toServer
  /\ UNCHANGED <<callVars, link, online, toPage, given>>

(* setRemoteDescription, of the offer or of the answer.                    *)
SetRemoteDescription(u, t) ==
  /\ t \in tasks[u] /\ t.step = "remote"
  /\ \/ Throw(u, t)
     \/ /\ ~Gone(u, t)
        /\ SetPage(u, [page[u] EXCEPT !.remote = TRUE])
        /\ IF t.kind = "answer"
           THEN tasks' = [tasks EXCEPT ![u] =
                           (@ \ {t}) \cup {[t EXCEPT !.step = "local"]}]
           ELSE RemoveTask(u, t)
        /\ UNCHANGED toServer
  /\ UNCHANGED <<callVars, link, online, toPage, given>>

SignalOf(kind) == IF kind = "offer" THEN "webrtc_offer" ELSE "webrtc_answer"

(* createOffer or createAnswer, setLocalDescription, and the signal.       *)
SetLocalDescription(u, t) ==
  /\ t \in tasks[u] /\ t.step = "local"
  /\ \/ Throw(u, t)
     \/ /\ ~Gone(u, t)
        /\ RemoveTask(u, t)
        /\ toServer' = IF link[u] = "open" /\ page[u].id # NoCall
                       THEN [toServer EXCEPT ![u] =
                              Append(@, [type |-> SignalOf(t.kind),
                                         to |-> page[u].peer,
                                         id |-> page[u].id, rtc |-> t.rtc])]
                       ELSE toServer
        /\ UNCHANGED page
  /\ UNCHANGED <<callVars, link, online, toPage, given>>

(* The remote track starts: onStatus("Connected") ends the timer.          *)
RemoteTrack(u) ==
  /\ page[u].remote /\ page[u].phase = "connecting"
  /\ SetPage(u, [page[u] EXCEPT !.phase = "in_call", !.timer = NoCall])
  /\ UNCHANGED <<callVars, tasks, netVars, given>>

(* The peer connection's state becomes "failed".                           *)
MediaFails(u) == page[u].remote /\ EndByButton(u)

-----------------------------------------------------------------------------
(* Events from the server.                                                 *)

Matches(u, m) == m.id = page[u].id

Connecting(u) == page[u].phase \in {"connecting", "in_call"}

(* handleCallProtocolMessage                                               *)
Handle(u, m) ==
  CASE m.type = "call_invite" /\ HasCurrentCall(u) ->
         SendTo(u, "call_reject", m.from, m.id) /\ UNCHANGED pageVars
    [] m.type = "call_invite" /\ ~HasCurrentCall(u) ->
         /\ SetPage(u, [NewCall(page[u], m.id, m.from)
                          EXCEPT !.phase = "incoming"])
         /\ UNCHANGED <<tasks, toServer>>
    [] m.type = "call_accept" /\ Matches(u, m)
         /\ page[u].phase = "outgoing" ->
         /\ SetPage(u, [WithTimer(page[u], "connecting") EXCEPT !.rtc = m.id])
         /\ Await(u, "offer", "media", m.id)
         /\ UNCHANGED toServer
    [] m.type \in {"webrtc_offer", "webrtc_answer"} /\ Matches(u, m)
         /\ Connecting(u) ->
         /\ Await(u, IF m.type = "webrtc_offer" THEN "answer" ELSE "apply",
                  "remote", page[u].rtc)
         /\ UNCHANGED <<page, toServer>>
    [] m.type = "end" /\ Matches(u, m) ->
         SetPage(u, Finished(page[u])) /\ UNCHANGED <<tasks, toServer>>
    [] OTHER -> UNCHANGED <<pageVars, toServer>>

Receive(u, v) ==
  /\ link[u] = "open" /\ toPage[u][v] # <<>>
  /\ toPage' = [toPage EXCEPT ![u][v] = Tail(@)]
  /\ Handle(u, Head(toPage[u][v]))
  /\ UNCHANGED <<callVars, link, online, given>>

(* The connection is lost, with the requests the server has not read.      *)
LoseConnection(u) ==
  /\ link[u] = "open"
  /\ u \in Droppers
  /\ link' = [link EXCEPT ![u] = "closing"]
  /\ \E n \in 0..Len(toServer[u]) :
       toServer' = [toServer EXCEPT
                     ![u] = Append(SubSeq(@, 1, n), [type |-> "close"])]
  /\ toPage' = [toPage EXCEPT ![u] = [v \in Users |-> <<>>]]
  /\ UNCHANGED <<callVars, pageVars, online, given>>

(* The WebSocket's close event.                                            *)
CloseEvent(u) ==
  /\ link[u] = "closing"
  /\ link' = [link EXCEPT ![u] = "closed"]
  /\ SetPage(u, IF HasCurrentCall(u) THEN Finished(page[u])
                ELSE Closed(page[u]))
  /\ UNCHANGED <<callVars, tasks, online, toServer, toPage, given>>

(* The page is closed or refreshed: beforeunload.                          *)
Unload(u) ==
  /\ link[u] = "open"
  /\ u \in Droppers
  /\ link' = [link EXCEPT ![u] = "closed"]
  /\ toServer' = [toServer EXCEPT ![u] = @ \o
       (IF HasCurrentCall(u)
        THEN <<[type |-> EndType(page[u].phase), to |-> page[u].peer,
                id |-> page[u].id, rtc |-> page[u].rtc]>>
        ELSE <<>>) \o <<[type |-> "close"]>>]
  /\ toPage' = [toPage EXCEPT ![u] = [v \in Users |-> <<>>]]
  /\ SetPage(u, IdlePage)
  /\ tasks' = [tasks EXCEPT ![u] = {}]
  /\ UNCHANGED <<callVars, online, given>>

-----------------------------------------------------------------------------
(* The server: ChatServer::handleCallRequest and logout.                   *)

(* Mutant: a refused request is not answered.                              *)
TellOthers(u, dest, type, id) ==
  toPage' = IF dest # u /\ link[dest] = "open"
            THEN [toPage EXCEPT ![dest][u] =
                   Append(@, [type |-> type, from |-> u, id |-> id])]
            ELSE toPage

(* What u's handler sends to a page that is gone is lost.                  *)
Tell(u, dest, type, id) ==
  toPage' = IF dest \in online /\ link[dest] = "open"
            THEN [toPage EXCEPT ![dest][u] =
                   Append(@, [type |-> type, from |-> u, id |-> id])]
            ELSE toPage

ServeInvite(u, m) ==
  IF m.to \notin online
  THEN Tell(u, u, "end", m.id) /\ UNCHANGED callVars
  ELSE \E result \in {"ok", "caller_busy", "target_busy",
                      "duplicate_call_id"} :
         /\ StartCall(u, m.to, m.id, result)
         /\ IF result = "ok" THEN Tell(u, m.to, "call_invite", m.id)
            ELSE Tell(u, u, "end", m.id)

(* An acceptance whose caller has gone ends the call again.                *)
ServeAccept(u, m) ==
  IF CanAccept(u, m.to, m.id) /\ m.to \notin online
  THEN EraseCall(m.id) /\ Tell(u, u, "end", m.id)
  ELSE \E ok \in BOOLEAN :
         /\ AcceptCall(u, m.to, m.id, ok)
         /\ IF ok THEN Tell(u, m.to, "call_accept", m.id)
            ELSE Tell(u, u, "end", m.id)

ServeEnd(u, m) ==
  \E ok \in BOOLEAN :
    /\ CASE m.type = "call_reject" -> RejectCall(u, m.to, m.id, ok)
         [] m.type = "call_cancel" -> CancelCall(u, m.to, m.id, ok)
         [] m.type = "call_hangup" -> HangupCall(u, m.to, m.id, ok)
    /\ Tell(u, IF ok THEN m.to ELSE u, "end", m.id)

ServeSignal(u, m) ==
  IF SignalingResult(u, m.to, m.id, m.type) # "ok"
  THEN Tell(u, u, "end", m.id) /\ UNCHANGED callVars
  ELSE IF m.to \notin online
  THEN EraseCall(m.id) /\ Tell(u, u, "end", m.id)
  ELSE Tell(u, m.to, m.type, m.id) /\ UNCHANGED callVars

(* logout: the peer is told that the call is over.                         *)
ServeClose(u) ==
  /\ online' = online \ {u}
  /\ \E removed \in BOOLEAN :
       /\ RemoveUser(u, removed)
       /\ IF removed
          THEN Tell(u, DisconnectEvent(u).peer, "end", DisconnectEvent(u).callId)
          ELSE UNCHANGED toPage

Serve(u) ==
  /\ toServer[u] # <<>>
  /\ toServer' = [toServer EXCEPT ![u] = Tail(@)]
  /\ LET m == Head(toServer[u]) IN
       \/ m.type = "close" /\ ServeClose(u)
       \/ /\ UNCHANGED online
          /\ \/ m.type = "call_invite" /\ ServeInvite(u, m)
             \/ m.type = "call_accept" /\ ServeAccept(u, m)
             \/ /\ m.type \in {"call_reject", "call_cancel", "call_hangup"}
                /\ ServeEnd(u, m)
             \/ m.type \in SignalTypes /\ ServeSignal(u, m)
  /\ UNCHANGED <<pageVars, link, given>>

-----------------------------------------------------------------------------
UserStep(u) ==
  \/ \E peer \in Users : StartVideoCall(u, peer)
  \/ AcceptIncomingCall(u) \/ EndByButton(u) \/ Dismiss(u)
  \/ LoseConnection(u) \/ Unload(u)

RtcStep(u) ==
  \/ \E t \in tasks[u] : \/ GetUserMedia(u, t)
                         \/ SetRemoteDescription(u, t)
                         \/ SetLocalDescription(u, t)
  \/ RemoteTrack(u) \/ MediaFails(u)

WebNext ==
  \E u \in Users :
    \/ UserStep(u) \/ RtcStep(u) \/ FireTimer(u)
    \/ (\E v \in Users : Receive(u, v)) \/ CloseEvent(u) \/ Serve(u)

(* Timers expire, messages arrive, handlers run and lost connections are   *)
(* noticed.  Nobody need answer a call or the question for the camera, and *)
(* no WebRTC step need come to an end.                                     *)
Fairness ==
  \A u \in Users :
    /\ WF_vars(FireTimer(u))
    /\ WF_vars(Serve(u))
    /\ WF_vars(CloseEvent(u))
    /\ \A v \in Users : WF_vars(Receive(u, v))

WebSpec == WebInit /\ [][WebNext]_vars /\ Fairness

-----------------------------------------------------------------------------
InCall(u, id) == page[u].id = id /\ HasCurrentCall(u)

(* A page that shows a call, ringing or connected, is never left with it:  *)
(* the server knows the call with this user in it, or the page's           *)
(* invitation is on its way, or the event that ends the call on the page   *)
(* is, or the connection is lost.  (handleCallRequest, its error replies,  *)
(* and handleCallProtocolMessage.)                                         *)
PagesBacked ==
  \A u \in Users : HasCurrentCall(u) =>
    LET id == page[u].id IN
      \/ id \in DOMAIN calls /\ u \in {calls[id].caller, calls[id].callee}
      \/ \E i \in DOMAIN toServer[u] :
           toServer[u][i].type = "call_invite" /\ toServer[u][i].id = id
      \/ \E v \in Users : \E i \in DOMAIN toPage[u][v] :
           toPage[u][v][i].type = "end" /\ toPage[u][v][i].id = id
      \/ link[u] # "open"

(* README.md:234: signaling belongs to one call.  An offer or an answer    *)
(* made by the WebRTC object of one call never leaves the page under the   *)
(* id of the next one, however late its steps come back                    *)
(* (sendCurrentCallMessage fills in the call that is current then).        *)
SignalsOfTheirCall ==
  \A u \in Users : \A i \in DOMAIN toServer[u] :
    toServer[u][i].type \in SignalTypes =>
      toServer[u][i].rtc = toServer[u][i].id

(* Camera and microphone run only for the call the page is in: the answer  *)
(* of the user to the question for the camera may come after the call has  *)
(* ended, or in the middle of another (prepareMedia, close).               *)
CameraOnlyInCall ==
  \A u \in Users : page[u].cameras \subseteq
    (IF HasCurrentCall(u) THEN {page[u].id} ELSE {})

(* README.md:238: a call neither rings nor connects for ever.  Whatever    *)
(* crosses (the caller's 30 seconds with the acceptance, hang-ups, lost    *)
(* connections, answers that never come), a call the server knows comes to *)
(* its end or is shown as connected by both of its pages.                  *)
CallsSettle ==
  \A id \in CallIds :
    id \in DOMAIN calls ~>
      \/ id \notin DOMAIN calls
      \/ \A u \in {calls[id].caller, calls[id].callee} :
           InCall(u, id) /\ page[u].phase = "in_call"
=============================================================================
