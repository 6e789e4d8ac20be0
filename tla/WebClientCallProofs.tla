------------------------ MODULE WebClientCallProofs ------------------------
(***************************************************************************)
(* Calls from page to page, for any users and call ids: the camera and the *)
(* signals of a page belong to the call it shows, and no page is left with *)
(* a call that the server has forgotten.                                   *)
(***************************************************************************)
EXTENDS WebClientCall, CallManagerProofs, SequenceTheorems

-----------------------------------------------------------------------------
(* Types.                                                                  *)

Phases == {"idle", "finished", "outgoing", "incoming", "connecting",
           "in_call"}

PageState ==
  [phase : Phases, id : CallIds \cup {NoCall}, peer : Users \cup {NoCall},
   timer : {NoCall} \cup [phase : Phases, id : CallIds \cup {NoCall}],
   rtc : CallIds \cup {NoCall}, remote : BOOLEAN, cameras : SUBSET CallIds]

Task == [kind : {"accept", "offer", "answer", "apply"},
         step : {"media", "remote", "local"}, id : CallIds, rtc : CallIds]

EndTypes == {"call_reject", "call_cancel", "call_hangup"}

AnswerTypes == EndTypes \cup {"call_accept", "webrtc_offer", "webrtc_answer"}

Request == [type : {"call_invite"} \cup AnswerTypes, to : Users, id : CallIds,
            rtc : CallIds \cup {NoCall}]

Message == Request \cup [type : {"close"}]

Event == [type : {"call_invite", "call_accept", "webrtc_offer",
                  "webrtc_answer", "end"},
          from : Users, id : CallIds]

WebTypes ==
  /\ page \in [Users -> PageState]
  /\ tasks \in [Users -> SUBSET Task]
  /\ link \in [Users -> {"open", "closing", "closed"}]
  /\ online \subseteq Users
  /\ toServer \in [Users -> Seq(Message)]
  /\ toPage \in [Users -> [Users -> Seq(Event)]]
  /\ given \subseteq CallIds

-----------------------------------------------------------------------------
(* A page's WebRTC object is made for the call it shows, and only its      *)
(* stream runs.                                                            *)
ObjectOfCall(p) ==
  LET current == p.phase \notin {"idle", "finished"} IN
    /\ p.id # NoCall => p.peer \in Users
    /\ current => p.id # NoCall
    /\ p.rtc # NoCall => current /\ p.rtc = p.id
    /\ p.phase \in {"connecting", "in_call"} => p.rtc = p.id
    /\ p.cameras \subseteq {p.rtc} \ {NoCall}

OwnObjects == \A u \in Users : ObjectOfCall(page[u])

PageInv == WebTypes /\ CallManagerInv /\ OwnObjects /\ SignalsOfTheirCall

-----------------------------------------------------------------------------
(* Whoever the server has seen leave, or is to see leave, has no page.     *)
GoneStayGone ==
  \A u \in Users :
    /\ link[u] = "open" => u \in online
    /\ link[u] # "open" => \A v \in Users : toPage[u][v] = <<>>
    /\ \A i \in DOMAIN toServer[u] :
         toServer[u][i].type = "close" => link[u] # "open"

Sent(u, i, id) ==
  i \in DOMAIN toServer[u] /\ toServer[u][i].type # "close"
    /\ toServer[u][i].id = id

(* An id that was not given out is nowhere.                                *)
IdsGiven ==
  /\ \A u \in Users : page[u].id # NoCall => page[u].id \in given
  /\ DOMAIN calls \subseteq given
  /\ \A u \in Users, id \in CallIds, i \in Nat : Sent(u, i, id) => id \in given
  /\ \A u, v \in Users : \A i \in DOMAIN toPage[u][v] :
       toPage[u][v][i].id \in given

(* A page that has sent the end of a call has left it.                     *)
EndsFinal ==
  \A u \in Users : \A i \in DOMAIN toServer[u] :
    toServer[u][i].type \in EndTypes => ~InCall(u, toServer[u][i].id)

Inviting(v, i, id) ==
  i \in DOMAIN toServer[v] /\ toServer[v][i].type = "call_invite"
    /\ toServer[v][i].id = id

Invited(u, v, i, id) ==
  i \in DOMAIN toPage[u][v] /\ toPage[u][v][i].type = "call_invite"
    /\ toPage[u][v][i].id = id

(* An invitation is in one place.                                          *)
InvitedOnce ==
  \A id \in CallIds :
    /\ \A v, w \in Users, i, j \in Nat :
         Inviting(v, i, id) /\ Inviting(w, j, id) => v = w /\ i = j
    /\ \A u, v, w \in Users, i, j \in Nat :
         ~(Inviting(w, j, id) /\ Invited(u, v, i, id))
    /\ \A u, v, w \in Users, i, j \in Nat :
         Invited(u, v, i, id) /\ Invited(u, w, j, id) => v = w /\ i = j

Untouched(u, id) == page[u].id # id /\ \A i \in Nat : ~Sent(u, i, id)

(* Nobody deals with a call before its invitation has come.                *)
InvitedFirst ==
  \A id \in CallIds, v \in Users, i \in Nat :
    /\ Inviting(v, i, id) =>
         /\ toServer[v][i].to # v
         /\ \A u \in Users \ {v} : Untouched(u, id)
    /\ \A u \in Users : Invited(u, v, i, id) => Untouched(u, id)

(* An invitation that reaches a page is to a call the server knows, or is  *)
(* followed by the call's end.                                             *)
InvitesBacked ==
  \A u, v \in Users, i \in Nat, id \in CallIds :
    Invited(u, v, i, id) =>
      \/ id \in DOMAIN calls /\ calls[id].callee = u /\ calls[id].caller = v
      \/ \E j \in DOMAIN toPage[u][v] :
           /\ i < j
           /\ toPage[u][v][j].type = "end" /\ toPage[u][v][j].id = id

InvitesInv ==
  /\ GoneStayGone /\ IdsGiven /\ EndsFinal
  /\ InvitedOnce /\ InvitedFirst /\ InvitesBacked

PagesInv == PageInv /\ InvitesInv /\ PagesBacked

-----------------------------------------------------------------------------
(* The page's helpers, field by field.                                     *)

(* Closing the peer connection turns its camera off.                       *)
LEMMA ClosedIs ==
  ASSUME NEW p \in PageState
  PROVE  LET q == Closed(p) IN
           /\ q \in PageState
           /\ q.phase = p.phase /\ q.id = p.id /\ q.peer = p.peer
           /\ q.timer = p.timer /\ q.rtc = NoCall
           /\ q.cameras = p.cameras \ {p.rtc}
  BY DEF Closed, PageState

(* A finished call has neither timer nor peer connection.                  *)
LEMMA FinishedIs ==
  ASSUME NEW p \in PageState
  PROVE  LET q == Finished(p) IN
           /\ q \in PageState
           /\ q.phase = "finished" /\ q.id = p.id /\ q.peer = p.peer
           /\ q.timer = NoCall /\ q.rtc = NoCall
           /\ q.cameras = p.cameras \ {p.rtc}
<1> DEFINE c == Closed(p)
           q == [c EXCEPT !.phase = "finished", !.timer = NoCall]
<1>1. /\ c \in PageState
      /\ c.id = p.id /\ c.peer = p.peer /\ c.rtc = NoCall
      /\ c.cameras = p.cameras \ {p.rtc}
  BY ClosedIs
<1> HIDE DEF c
<1>2. /\ q \in PageState
      /\ q.phase = "finished" /\ q.id = c.id /\ q.peer = c.peer
      /\ q.timer = NoCall /\ q.rtc = c.rtc /\ q.cameras = c.cameras
  BY <1>1 DEF PageState, Phases
<1> QED
  BY <1>1, <1>2 DEF Finished, c

(* Entering a phase with its timer changes nothing else.                   *)
LEMMA WithTimerIs ==
  ASSUME NEW p \in PageState, NEW phase \in Phases
  PROVE  LET q == WithTimer(p, phase) IN
           /\ q \in PageState
           /\ q.phase = phase /\ q.id = p.id /\ q.peer = p.peer
           /\ q.rtc = p.rtc /\ q.cameras = p.cameras
  BY DEF WithTimer, PageState

(* A new call keeps the cameras that older objects still hold.             *)
LEMMA NewCallIs ==
  ASSUME NEW p \in PageState, NEW id \in CallIds \cup {NoCall},
         NEW peer \in Users \cup {NoCall}
  PROVE  LET q == NewCall(p, id, peer) IN
           /\ q \in PageState
           /\ q.phase = "idle" /\ q.id = id /\ q.peer = peer
           /\ q.rtc = NoCall /\ q.cameras = p.cameras
<1>1. /\ IdlePage \in PageState
      /\ IdlePage.phase = "idle" /\ IdlePage.rtc = NoCall
  BY DEF IdlePage, PageState, Phases
<1>2. p.cameras \in SUBSET CallIds
  BY DEF PageState
<1> DEFINE a == [IdlePage EXCEPT !.id = id]
           b == [a EXCEPT !.peer = peer]
<1>3. NewCall(p, id, peer) \in PageState
  <2>1. a \in PageState
    BY <1>1 DEF PageState
  <2>2. b \in PageState
    BY <2>1 DEF PageState
  <2>3. [b EXCEPT !.cameras = p.cameras] \in PageState
    <3> HIDE DEF b
    <3> QED
      BY <1>2, <2>2 DEF PageState
  <2>4. NewCall(p, id, peer) = [b EXCEPT !.cameras = p.cameras]
    BY <1>1 DEF NewCall, PageState
  <2> QED
    BY <2>3, <2>4
<1>4. NewCall(p, id, peer).cameras = p.cameras
  BY <1>1, <1>2 DEF NewCall, PageState
<1>5. /\ NewCall(p, id, peer).phase = "idle" /\ NewCall(p, id, peer).id = id
      /\ NewCall(p, id, peer).peer = peer /\ NewCall(p, id, peer).rtc = NoCall
  BY <1>1 DEF NewCall, PageState
<1> QED
  BY <1>3, <1>4, <1>5

-----------------------------------------------------------------------------
(* The steps of a page that begin no call.                                 *)

(* At most one message is sent: it is about the page's call, and if it     *)
(* ends it the page has left it.                                           *)
Sends(u) ==
  \/ toServer' = toServer
  \/ \E m \in Request :
       /\ link[u] = "open"
       /\ toServer' = [toServer EXCEPT ![u] = Append(@, m)]
       /\ m.type \in AnswerTypes
       /\ m.id = page[u].id
       /\ m.type \in SignalTypes => m.rtc = m.id
       /\ m.type \in EndTypes => ~HasCurrentCall(u)'

PageEffect(u) ==
  /\ page' = [page EXCEPT ![u] = page'[u]]
  /\ page'[u] \in PageState /\ ObjectOfCall(page'[u])
  /\ page'[u].id \in {page[u].id, NoCall}
  /\ HasCurrentCall(u)' => HasCurrentCall(u) /\ page'[u].id = page[u].id
  /\ tasks' \in [Users -> SUBSET Task]
  /\ Sends(u)

(* What the invariant says of one page.                                    *)
LEMMA PageFacts ==
  ASSUME PageInv, NEW u \in Users
  PROVE  page[u] \in PageState /\ ObjectOfCall(page[u])
  BY DEF PageInv, WebTypes, OwnObjects

(* A changed page leaves the others alone.                                 *)
LEMMA SetPageIs ==
  ASSUME PageInv, NEW u \in Users, NEW p, SetPage(u, p)
  PROVE  page'[u] = p /\ page' = [page EXCEPT ![u] = page'[u]]
  BY DEF PageInv, WebTypes, SetPage

(* A request of the current call is a send that Sends allows.              *)
LEMMA SendIs ==
  ASSUME PageInv, NEW u \in Users, HasCurrentCall(u),
         NEW type \in EndTypes \cup {"call_accept"}, Send(u, type),
         type \in EndTypes => ~HasCurrentCall(u)'
  PROVE  Sends(u)
<1> DEFINE m == [type |-> type, to |-> page[u].peer, id |-> page[u].id,
                 rtc |-> page[u].rtc]
<1>1. m \in Request
  BY PageFacts DEF PageState, ObjectOfCall, HasCurrentCall, Request,
                   AnswerTypes
<1>2. toServer' = toServer
      \/ /\ link[u] = "open"
         /\ toServer' = [toServer EXCEPT ![u] = Append(@, m)]
  BY DEF Send, SendTo
<1>3. m.type \in AnswerTypes /\ m.type \notin SignalTypes
      /\ m.id = page[u].id /\ m.type = type
  BY DEF AnswerTypes, EndTypes, SignalTypes
<1> QED
  BY <1>1, <1>2, <1>3 DEF Sends

(* A step that touches neither page nor queue.                             *)
LEMMA StillEffect ==
  ASSUME PageInv, NEW u \in Users, UNCHANGED <<page, toServer>>,
         tasks' \in [Users -> SUBSET Task]
  PROVE  PageEffect(u)
<1>1. page' = [page EXCEPT ![u] = page'[u]]
  BY DEF PageInv, WebTypes
<1> QED
  BY <1>1, PageFacts DEF PageEffect, Sends, HasCurrentCall

(* The call is over on the page.                                           *)
LEMMA FinishedEffect ==
  ASSUME PageInv, NEW u \in Users,
         page' = [page EXCEPT ![u] = page'[u]],
         page'[u] = Finished(page[u])
  PROVE  /\ page'[u] \in PageState /\ ObjectOfCall(page'[u])
         /\ page'[u].id = page[u].id
         /\ ~HasCurrentCall(u)'
  BY PageFacts, FinishedIs DEF ObjectOfCall, HasCurrentCall

(* endCurrentCall sends the end and finishes the call.                     *)
LEMMA EndCurrentCallEffect ==
  ASSUME PageInv, NEW u \in Users, EndCurrentCall(u),
         tasks' \in [Users -> SUBSET Task]
  PROVE  PageEffect(u)
<1>1. CASE ~HasCurrentCall(u)
  BY <1>1, StillEffect DEF EndCurrentCall
<1>2. CASE HasCurrentCall(u)
  <2>1. page'[u] = Finished(page[u]) /\ page' = [page EXCEPT ![u] = page'[u]]
    BY <1>2, SetPageIs DEF EndCurrentCall
  <2>2. /\ page'[u] \in PageState /\ ObjectOfCall(page'[u])
        /\ page'[u].id = page[u].id /\ ~HasCurrentCall(u)'
    BY <2>1, FinishedEffect
  <2>3. EndType(page[u].phase) \in EndTypes
    BY DEF EndType, EndTypes
  <2>4. Sends(u)
    BY <1>2, <2>2, <2>3, SendIs DEF EndCurrentCall
  <2> QED
    BY <2>1, <2>2, <2>4 DEF PageEffect
<1> QED
  BY <1>1, <1>2

(* An awaited promise is one more task.                                    *)
LEMMA AwaitIs ==
  ASSUME PageInv, NEW u \in Users,
         NEW kind \in {"accept", "offer", "answer", "apply"},
         NEW step \in {"media", "remote", "local"},
         NEW obj \in CallIds, page[u].id \in CallIds,
         Await(u, kind, step, obj)
  PROVE  tasks' \in [Users -> SUBSET Task]
  BY DEF Await, PageInv, WebTypes, Task

(* A settled promise is one task less.                                     *)
LEMMA RemoveTaskIs ==
  ASSUME PageInv, NEW u \in Users, NEW t, RemoveTask(u, t)
  PROVE  tasks' \in [Users -> SUBSET Task]
  BY DEF RemoveTask, PageInv, WebTypes

(* The user accepts the ringing call.                                      *)
LEMMA AcceptIncomingCallEffect ==
  ASSUME PageInv, NEW u \in Users, AcceptIncomingCall(u)
  PROVE  PageEffect(u)
<1> DEFINE p == [page[u] EXCEPT !.rtc = page[u].id]
<1>1. page'[u] = p /\ page' = [page EXCEPT ![u] = page'[u]]
  BY SetPageIs DEF AcceptIncomingCall
<1>2. page[u].phase = "incoming" /\ page[u].id \in CallIds
  BY PageFacts DEF AcceptIncomingCall, ObjectOfCall, PageState
<1>3. /\ p \in PageState /\ p.phase = "incoming" /\ p.id = page[u].id
      /\ p.peer = page[u].peer /\ p.rtc = page[u].id
      /\ p.cameras = page[u].cameras
  BY <1>2, PageFacts DEF PageState
<1>4. ObjectOfCall(p)
  <2> HIDE DEF p
  <2> QED
    BY <1>2, <1>3, PageFacts DEF ObjectOfCall
<1>5. tasks' \in [Users -> SUBSET Task]
  BY <1>2, AwaitIs DEF AcceptIncomingCall
<1> HIDE DEF p
<1> QED
  BY <1>1, <1>2, <1>3, <1>4, <1>5
     DEF PageEffect, AcceptIncomingCall, HasCurrentCall, Sends, netVars

(* The user ends the call.                                                 *)
LEMMA EndByButtonEffect ==
  ASSUME PageInv, NEW u \in Users, EndByButton(u)
  PROVE  PageEffect(u)
<1>1. tasks' \in [Users -> SUBSET Task]
  BY DEF EndByButton, PageInv, WebTypes
<1> QED
  BY <1>1, EndCurrentCallEffect DEF EndByButton

(* The user dismisses the finished call.                                   *)
LEMMA DismissEffect ==
  ASSUME PageInv, NEW u \in Users, Dismiss(u)
  PROVE  PageEffect(u)
<1>1. /\ page'[u] = NewCall(page[u], NoCall, NoCall)
      /\ page' = [page EXCEPT ![u] = page'[u]]
  BY SetPageIs DEF Dismiss
<1>2. /\ page'[u] \in PageState /\ page'[u].phase = "idle"
      /\ page'[u].id = NoCall /\ page'[u].rtc = NoCall
      /\ page'[u].cameras = page[u].cameras
  BY <1>1, PageFacts, NewCallIs
<1>3. ObjectOfCall(page'[u]) /\ ~HasCurrentCall(u)'
  BY <1>2, PageFacts DEF ObjectOfCall, Dismiss, HasCurrentCall
<1>4. tasks' \in [Users -> SUBSET Task] /\ toServer' = toServer
  BY DEF Dismiss, PageInv, WebTypes, netVars
<1> QED
  BY <1>1, <1>2, <1>3, <1>4 DEF PageEffect, Sends

(* The timer of an unanswered call fires.                                  *)
LEMMA FireTimerEffect ==
  ASSUME PageInv, NEW u \in Users, FireTimer(u)
  PROVE  PageEffect(u)
<1>1. tasks' \in [Users -> SUBSET Task]
  BY DEF FireTimer, PageInv, WebTypes
<1>2. CASE EndCurrentCall(u)
  BY <1>1, <1>2, EndCurrentCallEffect
<1>3. CASE /\ SetPage(u, [page[u] EXCEPT !.timer = NoCall])
           /\ UNCHANGED toServer
  <2> DEFINE p == [page[u] EXCEPT !.timer = NoCall]
  <2>1. page'[u] = p /\ page' = [page EXCEPT ![u] = page'[u]]
    BY <1>3, SetPageIs
  <2>2. /\ p \in PageState /\ p.phase = page[u].phase /\ p.id = page[u].id
        /\ p.peer = page[u].peer /\ p.rtc = page[u].rtc
        /\ p.cameras = page[u].cameras
    BY PageFacts DEF PageState
  <2> HIDE DEF p
  <2>3. ObjectOfCall(p)
    BY <2>2, PageFacts DEF ObjectOfCall
  <2> QED
    BY <1>1, <1>3, <2>1, <2>2, <2>3 DEF PageEffect, HasCurrentCall, Sends
<1> QED
  BY <1>2, <1>3 DEF FireTimer

(* A promise is rejected, and its call ended.                              *)
LEMMA ThrowEffect ==
  ASSUME PageInv, NEW u \in Users, NEW t, Throw(u, t)
  PROVE  PageEffect(u)
<1>1. tasks' \in [Users -> SUBSET Task]
  BY RemoveTaskIs DEF Throw
<1>2. CASE EndCurrentCall(u)
  BY <1>1, <1>2, EndCurrentCallEffect
<1>3. CASE UNCHANGED <<toServer, page>>
  BY <1>1, <1>3, StillEffect
<1> QED
  BY <1>2, <1>3 DEF Throw

(* The object of a step that comes back in time is the current call's.     *)
LEMMA NotGone ==
  ASSUME PageInv, NEW u \in Users, NEW t \in tasks[u], ~Gone(u, t)
  PROVE  /\ t \in Task /\ t.rtc = page[u].rtc /\ t.rtc = page[u].id
         /\ page[u].id \in CallIds /\ HasCurrentCall(u)
         /\ page[u].peer \in Users
<1>1. t \in Task
  BY DEF PageInv, WebTypes
<1>2. t.rtc \in CallIds /\ t.rtc = page[u].rtc
  BY <1>1 DEF Task, Gone
<1> QED
  BY <1>1, <1>2, PageFacts, NoCallAssumption DEF ObjectOfCall, HasCurrentCall

(* A promise goes on to its next step.                                     *)
LEMMA NextStepIs ==
  ASSUME PageInv, NEW u \in Users, NEW t \in Task,
         tasks' = [tasks EXCEPT ![u] =
                    (@ \ {t}) \cup {[t EXCEPT !.step = "local"]}]
  PROVE  tasks' \in [Users -> SUBSET Task]
<1>1. [t EXCEPT !.step = "local"] \in Task
  BY DEF Task
<1> QED
  BY <1>1 DEF PageInv, WebTypes

(* getUserMedia resolves, for this call or an older one.                   *)
LEMMA GetUserMediaEffect ==
  ASSUME PageInv, NEW u \in Users, NEW t, GetUserMedia(u, t)
  PROVE  PageEffect(u)
<1>1. CASE Throw(u, t)
  BY <1>1, ThrowEffect
<1>2. CASE ~Throw(u, t)
  <2> DEFINE p == [page[u] EXCEPT !.cameras = @ \cup {t.rtc}]
  <2>1. /\ t \in tasks[u] /\ ~Gone(u, t)
        /\ \/ /\ SetPage(u, IF link[u] = "open"
                            THEN WithTimer(p, "connecting")
                            ELSE Finished(p))
              /\ Send(u, "call_accept")
              /\ RemoveTask(u, t)
           \/ /\ SetPage(u, p)
              /\ tasks' = [tasks EXCEPT ![u] =
                            (@ \ {t}) \cup {[t EXCEPT !.step = "local"]}]
              /\ UNCHANGED toServer
    BY <1>2 DEF GetUserMedia
  <2>2. /\ t \in Task /\ t.rtc = page[u].rtc /\ t.rtc = page[u].id
        /\ page[u].id \in CallIds /\ HasCurrentCall(u)
    BY <2>1, NotGone
  <2>3. /\ p \in PageState /\ p.phase = page[u].phase /\ p.id = page[u].id
        /\ p.peer = page[u].peer /\ p.rtc = page[u].rtc
        /\ p.cameras = page[u].cameras \cup {t.rtc}
    <3>1. page[u] \in PageState /\ t.rtc \in CallIds
      BY <2>2, PageFacts
    <3>2. page[u].cameras \cup {t.rtc} \in SUBSET CallIds
      BY <3>1 DEF PageState
    <3>3. p \in PageState
      BY <3>1, <3>2 DEF PageState
    <3>4. p.phase = page[u].phase /\ p.id = page[u].id
          /\ p.peer = page[u].peer /\ p.rtc = page[u].rtc
      BY <3>1 DEF PageState
    <3>5. p.cameras = page[u].cameras \cup {t.rtc}
      BY <3>1 DEF PageState
    <3> QED
      BY <3>3, <3>4, <3>5
  <2> HIDE DEF p
  <2>4. ObjectOfCall(p)
    BY <2>2, <2>3, PageFacts, NoCallAssumption DEF ObjectOfCall
  <2>5. CASE SetPage(u, p) /\ UNCHANGED toServer
             /\ tasks' = [tasks EXCEPT ![u] =
                           (@ \ {t}) \cup {[t EXCEPT !.step = "local"]}]
    <3>1. page'[u] = p /\ page' = [page EXCEPT ![u] = page'[u]]
      BY <2>5, SetPageIs
    <3>2. tasks' \in [Users -> SUBSET Task]
      BY <2>2, <2>5, NextStepIs
    <3> QED
      BY <2>2, <2>3, <2>4, <2>5, <3>1, <3>2
         DEF PageEffect, HasCurrentCall, Sends
  <2>6. CASE /\ SetPage(u, IF link[u] = "open" THEN WithTimer(p, "connecting")
                           ELSE Finished(p))
             /\ Send(u, "call_accept") /\ RemoveTask(u, t)
    <3> DEFINE q == IF link[u] = "open" THEN WithTimer(p, "connecting")
                    ELSE Finished(p)
    <3>1. page'[u] = q /\ page' = [page EXCEPT ![u] = page'[u]]
      BY <2>6, SetPageIs
    <3>2. q \in PageState /\ q.id = page[u].id /\ ObjectOfCall(q)
      <4>1. CASE link[u] = "open"
        <5>1. /\ q \in PageState /\ q.phase = "connecting" /\ q.id = p.id
              /\ q.peer = p.peer /\ q.rtc = p.rtc /\ q.cameras = p.cameras
          BY <2>3, <4>1, WithTimerIs DEF Phases
        <5> HIDE DEF q
        <5> QED
          BY <2>2, <2>3, <2>4, <5>1, NoCallAssumption DEF ObjectOfCall
      <4>2. CASE link[u] # "open"
        <5>1. /\ q \in PageState /\ q.phase = "finished" /\ q.id = p.id
              /\ q.peer = p.peer /\ q.rtc = NoCall
              /\ q.cameras = p.cameras \ {p.rtc}
          BY <2>3, <4>2, FinishedIs
        <5> HIDE DEF q
        <5> QED
          BY <2>3, <2>4, <5>1 DEF ObjectOfCall
      <4> QED
        BY <4>1, <4>2
    <3>3. Sends(u)
      BY <2>2, <2>6, SendIs DEF EndTypes
    <3>4. tasks' \in [Users -> SUBSET Task]
      BY <2>6, RemoveTaskIs
    <3> HIDE DEF q
    <3> QED
      BY <2>2, <3>1, <3>2, <3>3, <3>4 DEF PageEffect
  <2> QED
    BY <2>1, <2>5, <2>6
<1> QED
  BY <1>1, <1>2

(* setRemoteDescription resolves.                                          *)
LEMMA SetRemoteDescriptionEffect ==
  ASSUME PageInv, NEW u \in Users, NEW t, SetRemoteDescription(u, t)
  PROVE  PageEffect(u)
<1>1. CASE Throw(u, t)
  BY <1>1, ThrowEffect
<1>2. CASE ~Throw(u, t)
  <2> DEFINE p == [page[u] EXCEPT !.remote = TRUE]
  <2>1. /\ t \in tasks[u] /\ ~Gone(u, t) /\ SetPage(u, p)
        /\ UNCHANGED toServer
        /\ \/ tasks' = [tasks EXCEPT ![u] =
                         (@ \ {t}) \cup {[t EXCEPT !.step = "local"]}]
           \/ RemoveTask(u, t)
    BY <1>2 DEF SetRemoteDescription
  <2>2. t \in Task
    BY <2>1, NotGone
  <2>3. /\ p \in PageState /\ p.phase = page[u].phase /\ p.id = page[u].id
        /\ p.peer = page[u].peer /\ p.rtc = page[u].rtc
        /\ p.cameras = page[u].cameras
    BY PageFacts DEF PageState
  <2>4. page'[u] = p /\ page' = [page EXCEPT ![u] = page'[u]]
    BY <2>1, SetPageIs
  <2>5. tasks' \in [Users -> SUBSET Task]
    BY <2>1, <2>2, NextStepIs, RemoveTaskIs
  <2> HIDE DEF p
  <2>6. ObjectOfCall(p)
    BY <2>3, PageFacts DEF ObjectOfCall
  <2> QED
    BY <2>1, <2>3, <2>4, <2>5, <2>6 DEF PageEffect, HasCurrentCall, Sends
<1> QED
  BY <1>1, <1>2

(* setLocalDescription resolves, and the description is sent.              *)
LEMMA SetLocalDescriptionEffect ==
  ASSUME PageInv, NEW u \in Users, NEW t, SetLocalDescription(u, t)
  PROVE  PageEffect(u)
<1>1. CASE Throw(u, t)
  BY <1>1, ThrowEffect
<1>2. CASE ~Throw(u, t)
  <2> DEFINE m == [type |-> SignalOf(t.kind), to |-> page[u].peer,
                   id |-> page[u].id, rtc |-> t.rtc]
  <2>1. /\ t \in tasks[u] /\ ~Gone(u, t) /\ UNCHANGED page
        /\ RemoveTask(u, t)
        /\ \/ link[u] = "open"
              /\ toServer' = [toServer EXCEPT ![u] = Append(@, m)]
           \/ toServer' = toServer
    BY <1>2 DEF SetLocalDescription
  <2>2. /\ t.rtc = page[u].id /\ page[u].id \in CallIds
        /\ page[u].peer \in Users
    BY <2>1, NotGone
  <2>3. /\ m \in Request /\ m.type \in AnswerTypes /\ m.type \notin EndTypes
        /\ m.id = page[u].id /\ m.rtc = m.id
    BY <2>2 DEF Request, AnswerTypes, EndTypes, SignalOf
  <2>4. tasks' \in [Users -> SUBSET Task]
    BY <2>1, RemoveTaskIs
  <2> HIDE DEF m
  <2>5. Sends(u)
    BY <2>1, <2>3 DEF Sends
  <2>6. page' = [page EXCEPT ![u] = page'[u]]
    BY <2>1 DEF PageInv, WebTypes
  <2> QED
    BY <2>1, <2>4, <2>5, <2>6, PageFacts DEF PageEffect, HasCurrentCall
<1> QED
  BY <1>1, <1>2

(* The first track of the peer puts the page in the call.                  *)
LEMMA RemoteTrackEffect ==
  ASSUME PageInv, NEW u \in Users, RemoteTrack(u)
  PROVE  PageEffect(u)
<1> DEFINE p == [page[u] EXCEPT !.phase = "in_call", !.timer = NoCall]
<1>1. page'[u] = p /\ page' = [page EXCEPT ![u] = page'[u]]
  BY SetPageIs DEF RemoteTrack
<1>2. /\ p \in PageState /\ p.phase = "in_call" /\ p.id = page[u].id
      /\ p.peer = page[u].peer /\ p.rtc = page[u].rtc
      /\ p.cameras = page[u].cameras
  BY PageFacts DEF PageState, Phases
<1>3. page[u].phase = "connecting" /\ tasks' \in [Users -> SUBSET Task]
      /\ toServer' = toServer
  BY DEF RemoteTrack, PageInv, WebTypes, netVars
<1> HIDE DEF p
<1>4. ObjectOfCall(p)
  BY <1>2, <1>3, PageFacts DEF ObjectOfCall
<1> QED
  BY <1>1, <1>2, <1>3, <1>4 DEF PageEffect, HasCurrentCall, Sends

(* The page hears that its socket is closed.                               *)
LEMMA CloseEventEffect ==
  ASSUME PageInv, NEW u \in Users, CloseEvent(u)
  PROVE  PageEffect(u)
<1>1. tasks' \in [Users -> SUBSET Task] /\ toServer' = toServer
  BY DEF CloseEvent, PageInv, WebTypes
<1>2. CASE HasCurrentCall(u)
  <2>1. page'[u] = Finished(page[u]) /\ page' = [page EXCEPT ![u] = page'[u]]
    BY <1>2, SetPageIs DEF CloseEvent
  <2> QED
    BY <1>1, <1>2, <2>1, FinishedEffect DEF PageEffect, Sends
<1>3. CASE ~HasCurrentCall(u)
  <2>1. page'[u] = Closed(page[u]) /\ page' = [page EXCEPT ![u] = page'[u]]
    BY <1>3, SetPageIs DEF CloseEvent
  <2>2. /\ page'[u] \in PageState /\ page'[u].phase = page[u].phase
        /\ page'[u].id = page[u].id /\ page'[u].peer = page[u].peer
        /\ page'[u].rtc = NoCall
        /\ page'[u].cameras = page[u].cameras \ {page[u].rtc}
    BY <2>1, PageFacts, ClosedIs
  <2>3. ObjectOfCall(page'[u])
    BY <1>3, <2>2, PageFacts DEF ObjectOfCall, HasCurrentCall
  <2> QED
    BY <1>1, <1>3, <2>1, <2>2, <2>3 DEF PageEffect, HasCurrentCall, Sends
<1> QED
  BY <1>2, <1>3

(* Every event but an invitation only goes on with the page's call.        *)
LEMMA HandleEffect ==
  ASSUME PageInv, NEW u \in Users, NEW m \in Event, m.type # "call_invite",
         Handle(u, m)
  PROVE  /\ PageEffect(u)
         /\ m.type = "end" => ~(HasCurrentCall(u)' /\ page'[u].id = m.id)
<1>0. m.id \in CallIds
  BY DEF Event
<1>1. CASE m.type = "call_accept" /\ Matches(u, m)
           /\ page[u].phase = "outgoing"
  <2> DEFINE w == WithTimer(page[u], "connecting")
             p == [w EXCEPT !.rtc = m.id]
  <2>1. SetPage(u, p) /\ Await(u, "offer", "media", m.id)
        /\ UNCHANGED toServer
    BY <1>1 DEF Handle
  <2>2. page'[u] = p /\ page' = [page EXCEPT ![u] = page'[u]]
    BY <2>1, SetPageIs
  <2>3. /\ w \in PageState /\ w.phase = "connecting" /\ w.id = page[u].id
        /\ w.peer = page[u].peer /\ w.cameras = page[u].cameras
    BY PageFacts, WithTimerIs DEF Phases
  <2> HIDE DEF w
  <2>4. /\ p \in PageState /\ p.phase = "connecting" /\ p.id = w.id
        /\ p.peer = w.peer /\ p.cameras = w.cameras /\ p.rtc = m.id
    BY <1>0, <2>3 DEF PageState
  <2>5. tasks' \in [Users -> SUBSET Task]
    BY <1>0, <1>1, <2>1, AwaitIs DEF Matches
  <2> HIDE DEF p
  <2>6. ObjectOfCall(p)
    BY <1>0, <1>1, <2>3, <2>4, PageFacts, NoCallAssumption
       DEF ObjectOfCall, Matches
  <2> QED
    BY <1>1, <2>1, <2>2, <2>3, <2>4, <2>5, <2>6
       DEF PageEffect, HasCurrentCall, Sends
<1>2. CASE m.type \in {"webrtc_offer", "webrtc_answer"} /\ Matches(u, m)
           /\ Connecting(u)
  <2>1. Await(u, IF m.type = "webrtc_offer" THEN "answer" ELSE "apply",
              "remote", page[u].rtc)
        /\ UNCHANGED <<page, toServer>>
    BY <1>2 DEF Handle
  <2>2. page[u].rtc \in CallIds /\ page[u].id \in CallIds
    BY <1>0, <1>2, PageFacts DEF ObjectOfCall, Connecting, Matches
  <2>3. tasks' \in [Users -> SUBSET Task]
    BY <2>1, <2>2, AwaitIs
  <2> QED
    BY <1>2, <2>1, <2>3, StillEffect
<1>3. CASE m.type = "end" /\ Matches(u, m)
  <2>1. SetPage(u, Finished(page[u])) /\ UNCHANGED <<tasks, toServer>>
    BY <1>3 DEF Handle
  <2>2. page'[u] = Finished(page[u]) /\ page' = [page EXCEPT ![u] = page'[u]]
    BY <2>1, SetPageIs
  <2>3. tasks' \in [Users -> SUBSET Task]
    BY <2>1 DEF PageInv, WebTypes
  <2> QED
    BY <2>1, <2>2, <2>3, FinishedEffect DEF PageEffect, Sends
<1>4. CASE ~ \/ m.type = "call_accept" /\ Matches(u, m)
                  /\ page[u].phase = "outgoing"
             \/ m.type \in {"webrtc_offer", "webrtc_answer"} /\ Matches(u, m)
                  /\ Connecting(u)
             \/ m.type = "end" /\ Matches(u, m)
  <2>1. UNCHANGED <<page, tasks, toServer>>
    BY <1>4 DEF Handle, pageVars
  <2>2. tasks' \in [Users -> SUBSET Task]
    BY <2>1 DEF PageInv, WebTypes
  <2> QED
    BY <1>4, <2>1, <2>2, StillEffect DEF Matches
<1> QED
  BY <1>1, <1>2, <1>3, <1>4

-----------------------------------------------------------------------------
(* The steps of the server.                                                *)

EndOf(u, id) == [type |-> "end", from |-> u, id |-> id]

Told(w, u, e) ==
  link[w] = "open" => toPage'[w][u] = Append(toPage[w][u], e)

(* A call ends with a request of one of its users, and both hear of it     *)
(* unless they are gone or have asked for it.                              *)
Kept(id) ==
  /\ id \in DOMAIN calls'
  /\ calls'[id].caller = calls[id].caller
  /\ calls'[id].callee = calls[id].callee

Ended(u, m, id) ==
  /\ u \in {calls[id].caller, calls[id].callee}
  /\ m.type = "close" \/ m.id = id
  /\ \A w \in {calls[id].caller, calls[id].callee} :
       Told(w, u, EndOf(u, id)) \/ (w = u /\ m.type \in EndTypes)

Begun(u, m) ==
  /\ m.id \in DOMAIN calls'
  /\ calls'[m.id].caller = u
  /\ calls'[m.id].callee = m.to

Tells(u, m) ==
  \/ toPage' = toPage
  \/ \E dest \in Users, e \in Event :
       /\ link[dest] = "open"
       /\ toPage' = [toPage EXCEPT ![dest][u] = Append(@, e)]
       /\ e.id \in given
       /\ e.type = "call_invite" =>
            m.type = "call_invite" /\ dest = m.to /\ e.id = m.id
              /\ Begun(u, m)

ServeEffect(u, m) ==
  /\ CallManagerInv'
  /\ DOMAIN calls' \subseteq given
  /\ \A id \in DOMAIN calls : Kept(id) \/ Ended(u, m, id)
  /\ m.type = "call_invite" => Begun(u, m) \/ Told(u, u, EndOf(u, m.id))
  /\ Tells(u, m)

(* The server tells a user who is connected, and nobody else.              *)
LEMMA TellIs ==
  ASSUME PageInv, GoneStayGone, NEW u \in Users, NEW dest \in Users,
         NEW type, NEW id, Tell(u, dest, type, id)
  PROVE  LET e == [type |-> type, from |-> u, id |-> id] IN
           /\ Told(dest, u, e)
           /\ \/ link[dest] # "open" /\ toPage' = toPage
              \/ /\ link[dest] = "open"
                 /\ toPage' = [toPage EXCEPT ![dest][u] = Append(@, e)]
<1>1. toPage \in [Users -> [Users -> Seq(Event)]]
  BY DEF PageInv, WebTypes
<1> QED
  BY <1>1 DEF Tell, Told, GoneStayGone

(* Something else than an invitation is told to one page.                  *)
LEMMA TellOnly ==
  ASSUME PageInv, GoneStayGone, NEW u \in Users, NEW dest \in Users,
         NEW m, NEW id \in CallIds, id \in given,
         NEW type \in {"call_accept", "webrtc_offer", "webrtc_answer", "end"},
         Tell(u, dest, type, id)
  PROVE  Tells(u, m)
<1> DEFINE e == [type |-> type, from |-> u, id |-> id]
<1>1. e \in Event /\ e.id \in given /\ e.type # "call_invite"
  BY DEF Event
<1>2. \/ link[dest] # "open" /\ toPage' = toPage
      \/ /\ link[dest] = "open"
         /\ toPage' = [toPage EXCEPT ![dest][u] = Append(@, e)]
  BY TellIs
<1> HIDE DEF e
<1> QED
  BY <1>1, <1>2 DEF Tells

(* A request without effect on the calls.                                  *)
LEMMA SameCalls ==
  ASSUME CallManagerInv, DOMAIN calls \subseteq given, UNCHANGED callVars
  PROVE  /\ CallManagerInv' /\ DOMAIN calls' \subseteq given
         /\ \A id \in DOMAIN calls : Kept(id)
  BY UnchangedInv DEF callVars, Kept

(* Ending one call keeps every other.                                      *)
LEMMA OthersKept ==
  ASSUME CallManagerInv, DOMAIN calls \subseteq given,
         NEW id \in DOMAIN calls, EraseCall(id)
  PROVE  /\ CallManagerInv' /\ DOMAIN calls' \subseteq given
         /\ \A i \in DOMAIN calls \ {id} : Kept(i)
<1>1. Erased(id)
  BY EraseEffect
<1> QED
  BY <1>1, EraseInv DEF Erased, Kept

(* handleCallInvite begins the call or tells its caller of the end.        *)
LEMMA ServeInviteEffect ==
  ASSUME PageInv, GoneStayGone, IdsGiven, NEW u \in Users, NEW m \in Request,
         m.type = "call_invite", m.to # u, m.id \in given, ServeInvite(u, m)
  PROVE  ServeEffect(u, m)
<1>1. m.to \in Users /\ m.id \in CallIds /\ CallManagerInv
      /\ DOMAIN calls \subseteq given
  BY DEF Request, PageInv, IdsGiven
<1>2. ASSUME Tell(u, u, "end", m.id), UNCHANGED callVars
      PROVE  ServeEffect(u, m)
  <2>1. Told(u, u, EndOf(u, m.id))
    BY <1>2, TellIs DEF EndOf
  <2>2. Tells(u, m)
    BY <1>1, <1>2, TellOnly
  <2> QED
    BY <1>1, <1>2, <2>1, <2>2, SameCalls DEF ServeEffect
<1>3. ASSUME StartCall(u, m.to, m.id, "ok"), Tell(u, m.to, "call_invite", m.id)
      PROVE  ServeEffect(u, m)
  <2>1. Started(u, m.to, m.id)
    BY <1>1, <1>3, StartEffect
  <2>2. CallManagerInv'
    BY <1>1, <1>3, StartInv
  <2>3. Begun(u, m) /\ DOMAIN calls' \subseteq given
    BY <1>1, <2>1 DEF Started, Begun
  <2>4. \A id \in DOMAIN calls : Kept(id)
    BY <2>1 DEF Started, Kept
  <2>5. Tells(u, m)
    <3> DEFINE e == [type |-> "call_invite", from |-> u, id |-> m.id]
    <3>1. e \in Event /\ e.id = m.id
      BY <1>1 DEF Event
    <3>2. \/ link[m.to] # "open" /\ toPage' = toPage
          \/ /\ link[m.to] = "open"
             /\ toPage' = [toPage EXCEPT ![m.to][u] = Append(@, e)]
      BY <1>1, <1>3, TellIs
    <3> HIDE DEF e
    <3> QED
      BY <1>1, <2>3, <3>1, <3>2 DEF Tells
  <2> QED
    BY <2>2, <2>3, <2>4, <2>5 DEF ServeEffect
<1>4. CASE m.to \notin online
  BY <1>2, <1>4 DEF ServeInvite
<1>5. CASE m.to \in online
  <2>1. PICK result \in {"ok", "caller_busy", "target_busy",
                         "duplicate_call_id"} :
          /\ StartCall(u, m.to, m.id, result)
          /\ IF result = "ok" THEN Tell(u, m.to, "call_invite", m.id)
             ELSE Tell(u, u, "end", m.id)
    BY <1>5 DEF ServeInvite
  <2>2. CASE result = "ok"
    BY <1>3, <2>1, <2>2
  <2>3. CASE result # "ok"
    BY <1>2, <2>1, <2>3 DEF StartCall
  <2> QED
    BY <2>2, <2>3
<1> QED
  BY <1>4, <1>5

(* A call erased by a request about it.                                    *)
LEMMA EndedByRequest ==
  ASSUME PageInv, GoneStayGone, IdsGiven, NEW u \in Users, NEW m \in Request,
         m.id \in DOMAIN calls, EraseCall(m.id), m.type # "call_invite",
         {calls[m.id].caller, calls[m.id].callee} = {u, m.to},
         \/ m.to \notin online /\ Tell(u, u, "end", m.id)
         \/ m.type \in EndTypes /\ Tell(u, m.to, "end", m.id)
  PROVE  ServeEffect(u, m)
<1>1. /\ CallManagerInv' /\ DOMAIN calls' \subseteq given
      /\ \A i \in DOMAIN calls \ {m.id} : Kept(i)
  BY OthersKept DEF PageInv, IdsGiven
<1>2. m.to \in Users /\ m.id \in CallIds /\ m.id \in given
  BY DEF Request, IdsGiven
<1>3. Ended(u, m, m.id)
  <2>1. CASE m.to \notin online /\ Tell(u, u, "end", m.id)
    <3>1. Told(u, u, EndOf(u, m.id))
      BY <2>1, TellIs DEF EndOf
    <3>2. Told(m.to, u, EndOf(u, m.id))
      BY <1>2, <2>1 DEF Told, GoneStayGone
    <3> QED
      BY <3>1, <3>2 DEF Ended
  <2>2. CASE m.type \in EndTypes /\ Tell(u, m.to, "end", m.id)
    <3>1. Told(m.to, u, EndOf(u, m.id))
      BY <1>2, <2>2, TellIs DEF EndOf
    <3> QED
      BY <2>2, <3>1 DEF Ended
  <2> QED
    BY <2>1, <2>2
<1>4. Tells(u, m)
  BY <1>2, TellOnly
<1> QED
  BY <1>1, <1>3, <1>4 DEF ServeEffect

(* A request that leaves the calls as they are.                            *)
LEMMA CallsKeptByRequest ==
  ASSUME PageInv, GoneStayGone, IdsGiven, NEW u \in Users, NEW m \in Request,
         m.id \in given, m.type # "call_invite",
         UNCHANGED callVars, NEW dest \in Users,
         NEW type \in {"call_accept", "webrtc_offer", "webrtc_answer", "end"},
         Tell(u, dest, type, m.id)
  PROVE  ServeEffect(u, m)
<1>1. m.id \in CallIds
  BY DEF Request
<1>2. Tells(u, m)
  BY <1>1, TellOnly
<1> QED
  BY <1>2, SameCalls DEF ServeEffect, PageInv, IdsGiven

(* What the guards of the call manager say of the call.                    *)
LEMMA GuardsNameParties ==
  ASSUME CallManagerInv, NEW u \in Users, NEW p \in Users, NEW id \in CallIds,
         \/ CanAccept(u, p, id) \/ CanReject(u, p, id) \/ CanCancel(u, p, id)
         \/ InActiveCall(u, p, id)
  PROVE  id \in DOMAIN calls /\ {calls[id].caller, calls[id].callee} = {u, p}
<1>1. GuardsExact!(u, p, id)
  BY GuardsDecide DEF GuardsExact
<1> QED
  BY <1>1 DEF Pending, Active

(* handleCallAccept accepts the call or tells of the failure.              *)
LEMMA ServeAcceptEffect ==
  ASSUME PageInv, GoneStayGone, IdsGiven, NEW u \in Users, NEW m \in Request,
         m.type = "call_accept", m.id \in given, ServeAccept(u, m)
  PROVE  ServeEffect(u, m)
<1>1. m.to \in Users /\ m.id \in CallIds /\ CallManagerInv
      /\ DOMAIN calls \subseteq given
  BY DEF Request, PageInv, IdsGiven
<1>2. CASE CanAccept(u, m.to, m.id) /\ m.to \notin online
  BY <1>1, <1>2, GuardsNameParties, EndedByRequest DEF ServeAccept
<1>3. CASE ~(CanAccept(u, m.to, m.id) /\ m.to \notin online)
  <2>1. PICK ok \in BOOLEAN :
          /\ AcceptCall(u, m.to, m.id, ok)
          /\ IF ok THEN Tell(u, m.to, "call_accept", m.id)
             ELSE Tell(u, u, "end", m.id)
    BY <1>3 DEF ServeAccept
  <2>2. CASE ok = TRUE
    <3>1. AcceptCall(u, m.to, m.id, TRUE) /\ Tell(u, m.to, "call_accept", m.id)
      BY <2>1, <2>2
    <3>2. Accepted(u, m.to, m.id)
      BY <1>1, <3>1, AcceptEffect
    <3>3. CallManagerInv'
      BY <1>1, <3>1, AcceptInv
    <3>4. \A id \in DOMAIN calls : Kept(id)
      BY <3>2 DEF Accepted, Kept
    <3>5. DOMAIN calls' \subseteq given
      BY <1>1, <3>2 DEF Accepted
    <3>6. Tells(u, m)
      BY <1>1, <3>1, TellOnly
    <3> QED
      BY <3>3, <3>4, <3>5, <3>6 DEF ServeEffect
  <2>3. CASE ok = FALSE
    <3>1. UNCHANGED callVars /\ Tell(u, u, "end", m.id)
      BY <2>1, <2>3 DEF AcceptCall
    <3> QED
      BY <3>1, CallsKeptByRequest
  <2> QED
    BY <2>2, <2>3
<1> QED
  BY <1>2, <1>3

(* A reject, cancel or end takes the call away and tells both users.       *)
LEMMA ServeEndEffect ==
  ASSUME PageInv, GoneStayGone, IdsGiven, NEW u \in Users, NEW m \in Request,
         m.type \in EndTypes, m.id \in given, ServeEnd(u, m)
  PROVE  ServeEffect(u, m)
<1>1. m.to \in Users /\ m.id \in CallIds /\ CallManagerInv
      /\ m.type # "call_invite"
  BY DEF Request, PageInv, EndTypes
<1>2. PICK ok \in BOOLEAN :
        /\ CASE m.type = "call_reject" -> RejectCall(u, m.to, m.id, ok)
             [] m.type = "call_cancel" -> CancelCall(u, m.to, m.id, ok)
             [] m.type = "call_hangup" -> HangupCall(u, m.to, m.id, ok)
        /\ Tell(u, IF ok THEN m.to ELSE u, "end", m.id)
  BY DEF ServeEnd
<1>3. CASE ok = TRUE
  <2>1. /\ EraseCall(m.id)
        /\ \/ CanReject(u, m.to, m.id) \/ CanCancel(u, m.to, m.id)
           \/ InActiveCall(u, m.to, m.id)
    BY <1>2, <1>3 DEF RejectCall, CancelCall, HangupCall, EndTypes
  <2>2. Tell(u, m.to, "end", m.id)
    BY <1>2, <1>3
  <2> QED
    BY <1>1, <2>1, <2>2, GuardsNameParties, EndedByRequest
<1>4. CASE ok = FALSE
  <2>1. UNCHANGED callVars /\ Tell(u, u, "end", m.id)
    BY <1>2, <1>4 DEF RejectCall, CancelCall, HangupCall, EndTypes
  <2> QED
    BY <1>1, <2>1, CallsKeptByRequest
<1> QED
  BY <1>3, <1>4

(* A relayed signal changes no call.                                       *)
LEMMA ServeSignalEffect ==
  ASSUME PageInv, GoneStayGone, IdsGiven, NEW u \in Users, NEW m \in Request,
         m.type \in SignalTypes, m.id \in given, ServeSignal(u, m)
  PROVE  ServeEffect(u, m)
<1>1. /\ m.to \in Users /\ m.id \in CallIds /\ CallManagerInv
      /\ m.type \in {"webrtc_offer", "webrtc_answer"}
  BY DEF Request, PageInv, SignalTypes, AnswerTypes, EndTypes
<1>2. CASE SignalingResult(u, m.to, m.id, m.type) # "ok"
  BY <1>1, <1>2, CallsKeptByRequest DEF ServeSignal
<1>3. CASE SignalingResult(u, m.to, m.id, m.type) = "ok" /\ m.to \notin online
  <2>1. InActiveCall(u, m.to, m.id)
    BY <1>3 DEF SignalingResult
  <2> QED
    BY <1>1, <1>3, <2>1, GuardsNameParties, EndedByRequest DEF ServeSignal
<1>4. CASE SignalingResult(u, m.to, m.id, m.type) = "ok" /\ m.to \in online
  BY <1>1, <1>4, CallsKeptByRequest DEF ServeSignal
<1> QED
  BY <1>2, <1>3, <1>4

(* A closed connection takes its user's call away.                         *)
LEMMA ServeCloseEffect ==
  ASSUME PageInv, GoneStayGone, IdsGiven, NEW u \in Users, NEW m,
         m.type = "close", link[u] # "open", ServeClose(u)
  PROVE  ServeEffect(u, m)
<1>1. CallManagerInv /\ DOMAIN calls \subseteq given
  BY DEF PageInv, IdsGiven
<1>2. CASE u \in DOMAIN callUsers
  <2> DEFINE id == callUsers[u].callId
             p == callUsers[u].peer
  <2>1. EraseCall(id) /\ Tell(u, p, "end", id)
    BY <1>2 DEF ServeClose, RemoveUser, DisconnectEvent
  <2>2. /\ id \in DOMAIN calls
        /\ {calls[id].caller, calls[id].callee} = {u, p}
    BY <1>1, <1>2, EntryNamesParty
  <2>3. p \in Users /\ id \in CallIds
    BY <1>1, <1>2 DEF CallManagerInv, TypeOK, UserCall
  <2> HIDE DEF id, p
  <2>4. /\ CallManagerInv' /\ DOMAIN calls' \subseteq given
        /\ \A i \in DOMAIN calls \ {id} : Kept(i)
    BY <1>1, <2>1, <2>2, OthersKept
  <2>5. Told(p, u, EndOf(u, id)) /\ Told(u, u, EndOf(u, id))
    BY <2>1, <2>3, TellIs DEF EndOf, Told
  <2>6. Ended(u, m, id)
    BY <2>2, <2>5 DEF Ended
  <2>7. Tells(u, m)
    BY <1>1, <2>1, <2>2, <2>3, TellOnly
  <2> QED
    BY <2>4, <2>6, <2>7 DEF ServeEffect
<1>3. CASE u \notin DOMAIN callUsers
  <2>1. UNCHANGED callVars /\ UNCHANGED toPage
    BY <1>3 DEF ServeClose, RemoveUser
  <2> QED
    BY <1>1, <2>1, SameCalls DEF ServeEffect, Tells
<1> QED
  BY <1>2, <1>3

(* A request on its way is of a call that was given its id.                *)
LEMMA RequestFacts ==
  ASSUME PageInv, IdsGiven, NEW u \in Users, NEW i \in DOMAIN toServer[u],
         toServer[u][i].type # "close"
  PROVE  toServer[u][i] \in Request /\ toServer[u][i].id \in given
<1>1. toServer[u] \in Seq(Message)
  BY DEF PageInv, WebTypes
<1>2. i \in Nat /\ toServer[u][i] \in Message
  BY <1>1
<1>3. toServer[u][i] \in Request
  BY <1>2 DEF Message
<1>4. Sent(u, i, toServer[u][i].id)
  BY DEF Sent
<1> QED
  BY <1>2, <1>3, <1>4 DEF IdsGiven, Request

(* Serving the oldest request of a user has one of the effects above.      *)
LEMMA ServeIs ==
  ASSUME PageInv, InvitesInv, NEW u \in Users, Serve(u)
  PROVE  LET m == Head(toServer[u]) IN
           /\ toServer[u] # <<>> /\ m = toServer[u][1]
           /\ toServer' = [toServer EXCEPT ![u] = Tail(@)]
           /\ ServeEffect(u, m)
           /\ UNCHANGED <<page, tasks, link, given>>
           /\ online' = IF m.type = "close" THEN online \ {u} ELSE online
<1> DEFINE m == Head(toServer[u])
<1>1. /\ toServer[u] # <<>>
      /\ toServer' = [toServer EXCEPT ![u] = Tail(@)]
      /\ UNCHANGED <<page, tasks, link, given>>
      /\ \/ m.type = "close" /\ ServeClose(u)
         \/ /\ UNCHANGED online
            /\ \/ m.type = "call_invite" /\ ServeInvite(u, m)
               \/ m.type = "call_accept" /\ ServeAccept(u, m)
               \/ m.type \in EndTypes /\ ServeEnd(u, m)
               \/ m.type \in SignalTypes /\ ServeSignal(u, m)
  BY DEF Serve, pageVars, EndTypes
<1>2. 1 \in DOMAIN toServer[u] /\ m = toServer[u][1]
  <2>1. toServer[u] \in Seq(Message)
    BY DEF PageInv, WebTypes
  <2> QED
    BY <1>1, <2>1
<1>3. GoneStayGone /\ IdsGiven
  BY DEF InvitesInv
<1> HIDE DEF m
<1>4. CASE m.type = "close"
  <2>1. link[u] # "open" /\ ServeClose(u)
    BY <1>1, <1>2, <1>3, <1>4 DEF GoneStayGone, EndTypes, SignalTypes
  <2>2. online' = online \ {u}
    BY <2>1 DEF ServeClose
  <2>3. ServeEffect(u, m)
    BY <1>3, <1>4, <2>1, ServeCloseEffect
  <2> QED
    BY <1>1, <1>2, <1>4, <2>2, <2>3 DEF m
<1>5. CASE m.type # "close"
  <2>1. m \in Request /\ m.id \in given
    BY <1>2, <1>3, <1>5, RequestFacts
  <2>2. ASSUME m.type = "call_invite" PROVE m.to # u
    <3>1. Inviting(u, 1, m.id) /\ m.id \in CallIds
      BY <1>2, <2>1, <2>2 DEF Inviting, Request
    <3> QED
      BY <1>2, <3>1 DEF InvitesInv, InvitedFirst
  <2>3. ServeEffect(u, m)
    BY <1>1, <1>3, <1>5, <2>1, <2>2, ServeInviteEffect, ServeAcceptEffect,
       ServeEndEffect, ServeSignalEffect
  <2> QED
    BY <1>1, <1>2, <1>5, <2>3 DEF m
<1> QED
  BY <1>4, <1>5

-----------------------------------------------------------------------------
(* Sequences: what an element's place becomes.                             *)

(* The indices of a sequence with one more element.                        *)
LEMMA AppendAt ==
  ASSUME NEW S, NEW s \in Seq(S), NEW e \in S
  PROVE  /\ Append(s, e) \in Seq(S)
         /\ \A i \in DOMAIN s :
              i \in DOMAIN Append(s, e) /\ Append(s, e)[i] = s[i]
         /\ \A i \in DOMAIN Append(s, e) :
              \/ i \in DOMAIN s /\ Append(s, e)[i] = s[i]
              \/ i = Len(s) + 1 /\ Append(s, e)[i] = e
         /\ Len(s) + 1 \in DOMAIN Append(s, e)
         /\ Append(s, e)[Len(s) + 1] = e
         /\ \A i \in DOMAIN s : i \in Nat /\ i < Len(s) + 1
  OBVIOUS

(* The indices of a sequence without its head.                             *)
LEMMA TailAt ==
  ASSUME NEW S, NEW s \in Seq(S), s # <<>>
  PROVE  /\ Tail(s) \in Seq(S)
         /\ \A i \in DOMAIN Tail(s) :
              i \in Nat /\ i + 1 \in DOMAIN s /\ Tail(s)[i] = s[i + 1]
         /\ \A i \in DOMAIN s :
              \/ i = 1
              \/ i - 1 \in DOMAIN Tail(s) /\ Tail(s)[i - 1] = s[i]
         /\ 1 \in DOMAIN s /\ Head(s) = s[1] /\ Head(s) \in S
         /\ \A i \in DOMAIN s : i \in Nat /\ i >= 1
  OBVIOUS

(* The indices of a prefix.                                                *)
LEMMA CutAt ==
  ASSUME NEW S, NEW s \in Seq(S), NEW n \in 0..Len(s)
  PROVE  /\ SubSeq(s, 1, n) \in Seq(S)
         /\ \A i \in DOMAIN SubSeq(s, 1, n) :
              i \in DOMAIN s /\ SubSeq(s, 1, n)[i] = s[i]
  OBVIOUS

-----------------------------------------------------------------------------
(* The step of a page: it may take an event that begins no call.           *)

Takes(u) ==
  \/ toPage' = toPage
  \/ \E v \in Users :
       LET m == Head(toPage[u][v]) IN
         /\ toPage[u][v] # <<>>
         /\ toPage' = [toPage EXCEPT ![u][v] = Tail(@)]
         /\ m.type # "call_invite"
         /\ m.type = "end" => ~(HasCurrentCall(u)' /\ page'[u].id = m.id)

PageStep(u) ==
  /\ PageEffect(u) /\ Takes(u)
  /\ link' \in [Users -> {"open", "closing", "closed"}]
  /\ \A w \in Users : link'[w] = "open" <=> link[w] = "open"
  /\ UNCHANGED <<callVars, online, given>>

(* The queues and pages as the functions they are.                         *)
LEMMA QueueTypes ==
  ASSUME PageInv
  PROVE  /\ \A u \in Users : toServer[u] \in Seq(Message)
         /\ \A u, v \in Users : toPage[u][v] \in Seq(Event)
         /\ toServer = [u \in Users |-> toServer[u]]
         /\ toPage = [u \in Users |-> toPage[u]]
         /\ page = [u \in Users |-> page[u]]
  BY DEF PageInv, WebTypes

(* After a step, the events for a page are those before it but the first   *)
(* k, or none.                                                             *)
Shifted(u, v, k) ==
  /\ \A i \in DOMAIN toPage'[u][v] :
       /\ i \in Nat /\ i + k \in DOMAIN toPage[u][v]
       /\ toPage'[u][v][i] = toPage[u][v][i + k]
  /\ \A i \in DOMAIN toPage[u][v] :
       \/ i = k
       \/ i - k \in DOMAIN toPage'[u][v]
          /\ toPage'[u][v][i - k] = toPage[u][v][i]

Dropped == \A u, v \in Users :
  toPage'[u][v] = <<>> \/ \E k \in {0, 1} : Shifted(u, v, k)

(* An untouched queue.                                                     *)
LEMMA NoShift ==
  ASSUME PageInv, NEW u \in Users, NEW v \in Users,
         toPage'[u][v] = toPage[u][v]
  PROVE  Shifted(u, v, 0)
<1>1. toPage[u][v] \in Seq(Event)
  BY QueueTypes
<1>2. \A i \in DOMAIN toPage[u][v] : i \in Nat /\ i + 0 = i /\ i - 0 = i
  BY <1>1
<1> QED
  BY <1>2 DEF Shifted

(* A queue whose head was taken.                                           *)
LEMMA PopShift ==
  ASSUME PageInv, NEW u \in Users, NEW v \in Users, toPage[u][v] # <<>>,
         toPage' = [toPage EXCEPT ![u][v] = Tail(@)]
  PROVE  /\ Shifted(u, v, 1)
         /\ \A w, x \in Users :
              w # u \/ x # v =>
                toPage'[w][x] = toPage[w][x] /\ Shifted(w, x, 0)
         /\ toPage' \in [Users -> [Users -> Seq(Event)]]
         /\ Dropped
<1>1. toPage[u][v] \in Seq(Event)
  BY QueueTypes
<1>2. toPage \in [Users -> [Users -> Seq(Event)]]
  BY DEF PageInv, WebTypes
<1>3. toPage'[u][v] = Tail(toPage[u][v])
  BY <1>2
<1>4. Shifted(u, v, 1)
  <2> DEFINE s == toPage[u][v]
  <2>1. /\ \A i \in DOMAIN Tail(s) :
             i \in Nat /\ i + 1 \in DOMAIN s /\ Tail(s)[i] = s[i + 1]
        /\ \A i \in DOMAIN s :
             \/ i = 1
             \/ i - 1 \in DOMAIN Tail(s) /\ Tail(s)[i - 1] = s[i]
    BY <1>1, TailAt
  <2>2. toPage'[u][v] = Tail(s)
    BY <1>3
  <2> HIDE DEF s
  <2>3. \A i \in DOMAIN toPage'[u][v] :
          i \in Nat /\ i + 1 \in DOMAIN s /\ toPage'[u][v][i] = s[i + 1]
    BY <2>1, <2>2
  <2>4. \A i \in DOMAIN s :
          \/ i = 1
          \/ i - 1 \in DOMAIN toPage'[u][v] /\ toPage'[u][v][i - 1] = s[i]
    BY <2>1, <2>2
  <2> QED
    BY <2>3, <2>4 DEF Shifted, s
<1>5. \A w, x \in Users : w # u \/ x # v => toPage'[w][x] = toPage[w][x]
  BY <1>2
<1>6. toPage' \in [Users -> [Users -> Seq(Event)]]
  <2>1. Tail(toPage[u][v]) \in Seq(Event)
    BY <1>1, TailAt
  <2> QED
    BY <1>2, <2>1
<1> QED
  BY <1>4, <1>5, <1>6, NoShift DEF Dropped

(* Taking an event drops it from its queue alone.                          *)
LEMMA TakesIs ==
  ASSUME PageInv, NEW u \in Users, Takes(u)
  PROVE  Dropped /\ toPage' \in [Users -> [Users -> Seq(Event)]]
<1>1. CASE toPage' = toPage
  BY <1>1, NoShift DEF Dropped, PageInv, WebTypes
<1>2. CASE toPage' # toPage
  BY <1>2, PopShift DEF Takes
<1> QED
  BY <1>1, <1>2

(* What a page has sent after its step.                                    *)
LEMMA SendsIs ==
  ASSUME PageInv, NEW u \in Users, Sends(u)
  PROVE  /\ toServer' \in [Users -> Seq(Message)]
         /\ \A w \in Users : \A i \in DOMAIN toServer[w] :
              i \in DOMAIN toServer'[w] /\ toServer'[w][i] = toServer[w][i]
         /\ \A w \in Users : \A i \in DOMAIN toServer'[w] :
              \/ i \in DOMAIN toServer[w] /\ toServer'[w][i] = toServer[w][i]
              \/ LET m == toServer'[w][i] IN
                   /\ w = u /\ link[u] = "open" /\ m \in Request
                   /\ m.type \in AnswerTypes /\ m.id = page[u].id
                   /\ m.type \in SignalTypes => m.rtc = m.id
                   /\ m.type \in EndTypes => ~HasCurrentCall(u)'
<1>1. toServer \in [Users -> Seq(Message)]
  BY DEF PageInv, WebTypes
<1>2. CASE toServer' = toServer
  BY <1>1, <1>2
<1>3. CASE toServer' # toServer
  <2>1. PICK m \in Request :
          /\ link[u] = "open"
          /\ toServer' = [toServer EXCEPT ![u] = Append(@, m)]
          /\ m.type \in AnswerTypes
          /\ m.id = page[u].id
          /\ m.type \in SignalTypes => m.rtc = m.id
          /\ m.type \in EndTypes => ~HasCurrentCall(u)'
    BY <1>3 DEF Sends
  <2> DEFINE s == toServer[u]
  <2>2. m \in Message /\ s \in Seq(Message)
    BY <1>1 DEF Message
  <2>3. /\ Append(s, m) \in Seq(Message)
        /\ \A i \in DOMAIN s :
             i \in DOMAIN Append(s, m) /\ Append(s, m)[i] = s[i]
        /\ \A i \in DOMAIN Append(s, m) :
             \/ i \in DOMAIN s /\ Append(s, m)[i] = s[i]
             \/ Append(s, m)[i] = m
    BY <2>2, AppendAt
  <2>4. toServer'[u] = Append(s, m)
        /\ \A w \in Users \ {u} : toServer'[w] = toServer[w]
    BY <1>1, <2>1
  <2>5. toServer' \in [Users -> Seq(Message)]
    BY <1>1, <2>1, <2>3
  <2> HIDE DEF s
  <2>6. ASSUME NEW w \in Users
        PROVE  \A i \in DOMAIN toServer[w] :
                 i \in DOMAIN toServer'[w] /\ toServer'[w][i] = toServer[w][i]
    BY <2>3, <2>4 DEF s
  <2>7. ASSUME NEW w \in Users, NEW i \in DOMAIN toServer'[w]
        PROVE  \/ i \in DOMAIN toServer[w] /\ toServer'[w][i] = toServer[w][i]
               \/ w = u /\ toServer'[w][i] = m
    BY <2>3, <2>4 DEF s
  <2> QED
    BY <2>1, <2>5, <2>6, <2>7
<1> QED
  BY <1>2, <1>3

(* A step of a page keeps the types and the pages' own invariant.          *)
LEMMA PageStepTypes ==
  ASSUME PageInv, NEW u \in Users, PageStep(u)
  PROVE  PageInv'
<1>1. /\ page'[u] \in PageState /\ ObjectOfCall(page'[u])
      /\ \A w \in Users \ {u} : page'[w] = page[w]
      /\ page' \in [Users -> PageState]
  BY DEF PageStep, PageEffect, PageInv, WebTypes
<1>2. toPage' \in [Users -> [Users -> Seq(Event)]]
  BY TakesIs DEF PageStep
<1>3. Sends(u) /\ tasks' \in [Users -> SUBSET Task]
  BY DEF PageStep, PageEffect
<1>4. toServer' \in [Users -> Seq(Message)] /\ SignalsOfTheirCall'
  BY <1>3, SendsIs DEF PageInv, SignalsOfTheirCall
<1>5. OwnObjects'
  <2> SUFFICES ASSUME NEW w \in Users PROVE ObjectOfCall(page'[w])
    BY DEF OwnObjects
  <2> QED
    BY <1>1, PageFacts
<1>6. WebTypes'
  BY <1>1, <1>2, <1>3, <1>4 DEF PageStep, WebTypes, PageInv
<1>7. CallManagerInv'
  BY UnchangedInv DEF PageStep, PageInv
<1> QED
  BY <1>4, <1>5, <1>6, <1>7 DEF PageInv

(* Invitations on their way are not disturbed while events are only taken. *)
LEMMA InvitedAfter ==
  ASSUME PageInv, Dropped, NEW u \in Users, NEW v \in Users
  PROVE  \E k \in {0, 1} : \A i \in Nat, id \in CallIds :
           Invited(u, v, i, id)' => Invited(u, v, i + k, id) /\ Shifted(u, v, k)
<1>1. CASE toPage'[u][v] = <<>>
  BY <1>1 DEF Invited
<1>2. CASE \E k \in {0, 1} : Shifted(u, v, k)
  BY <1>2 DEF Shifted, Invited
<1> QED
  BY <1>1, <1>2 DEF Dropped

(* Events that are only taken keep the ids they had.                       *)
LEMMA EventIdsKept ==
  ASSUME IdsGiven, Dropped, UNCHANGED given
  PROVE  \A u, v \in Users : \A i \in DOMAIN toPage'[u][v] :
           toPage'[u][v][i].id \in given
  BY DEF IdsGiven, Dropped, Shifted

(* No call is invited twice while no invitation is added.                  *)
LEMMA InvitedOnceKept ==
  ASSUME PageInv, InvitedOnce, Dropped,
         \A v \in Users, i \in Nat, id \in CallIds :
           Inviting(v, i, id)' => Inviting(v, i, id)
  PROVE  InvitedOnce'
<1> SUFFICES ASSUME NEW id \in CallIds, NEW u \in Users, NEW v \in Users,
                    NEW w \in Users, NEW i \in Nat, NEW j \in Nat
             PROVE  /\ Inviting(v, i, id)' /\ Inviting(w, j, id)' =>
                         v = w /\ i = j
                    /\ ~(Inviting(w, j, id)' /\ Invited(u, v, i, id)')
                    /\ Invited(u, v, i, id)' /\ Invited(u, w, j, id)' =>
                         v = w /\ i = j
  BY DEF InvitedOnce
<1>1. PICK k \in {0, 1} : Invited(u, v, i, id)' => Invited(u, v, i + k, id)
  BY InvitedAfter
<1>2. PICK l \in {0, 1} : Invited(u, w, j, id)' => Invited(u, w, j + l, id)
  BY InvitedAfter
<1>3. PICK n \in {0, 1} : \A x \in Nat :
        Invited(u, v, x, id)' => Invited(u, v, x + n, id)
  BY InvitedAfter
<1>4. Inviting(v, i, id)' /\ Inviting(w, j, id)' => v = w /\ i = j
  BY DEF InvitedOnce
<1>5. ~(Inviting(w, j, id)' /\ Invited(u, v, i, id)')
  <2>1. i + k \in Nat
    BY <1>1
  <2> QED
    BY <1>1, <2>1 DEF InvitedOnce
<1>6. Invited(u, v, i, id)' /\ Invited(u, w, j, id)' => v = w /\ i = j
  <2> SUFFICES ASSUME Invited(u, v, i, id)', Invited(u, w, j, id)'
               PROVE  v = w /\ i = j
    OBVIOUS
  <2>1. i + k \in Nat /\ j + l \in Nat /\ i + n \in Nat /\ j + n \in Nat
    BY <1>1, <1>2, <1>3
  <2>2. v = w
    BY <1>1, <1>2, <2>1 DEF InvitedOnce
  <2>3. Invited(u, v, i + n, id) /\ Invited(u, v, j + n, id)
    BY <1>3, <2>2
  <2>4. i + n = j + n
    BY <2>1, <2>3 DEF InvitedOnce
  <2> QED
    BY <1>3, <2>2, <2>4
<1> QED
  BY <1>4, <1>5, <1>6

(* An invitation stays backed while events are only taken.                 *)
LEMMA InvitesBackedKept ==
  ASSUME PageInv, InvitesBacked, Dropped, UNCHANGED callVars
  PROVE  InvitesBacked'
<1> SUFFICES ASSUME NEW u \in Users, NEW v \in Users, NEW i \in Nat,
                    NEW id \in CallIds, Invited(u, v, i, id)'
             PROVE  InvitesBacked!(u, v, i, id)!2'
  BY DEF InvitesBacked
<1>1. PICK k \in {0, 1} : Invited(u, v, i + k, id) /\ Shifted(u, v, k)
  BY InvitedAfter
<1>2. i + k \in Nat
  BY <1>1
<1>3. CASE id \in DOMAIN calls /\ calls[id].callee = u /\ calls[id].caller = v
  BY <1>3 DEF callVars
<1>4. ASSUME NEW j \in DOMAIN toPage[u][v], i + k < j,
             toPage[u][v][j].type = "end", toPage[u][v][j].id = id
      PROVE  InvitesBacked!(u, v, i, id)!2'
  <2>1. j \in Nat
    BY QueueTypes
  <2>2. j # k /\ i < j - k
    BY <1>1, <1>4, <2>1
  <2>3. /\ j - k \in DOMAIN toPage'[u][v]
        /\ toPage'[u][v][j - k] = toPage[u][v][j]
    BY <1>1, <2>2 DEF Shifted
  <2> QED
    BY <1>4, <2>2, <2>3
<1> QED
  BY <1>1, <1>2, <1>3, <1>4 DEF InvitesBacked

(* A step of a page keeps what is known of invitations.                    *)
LEMMA PageStepInvites ==
  ASSUME PageInv, InvitesInv, NEW u \in Users, PageStep(u)
  PROVE  InvitesInv'
<1>1. /\ PageEffect(u) /\ Sends(u) /\ Dropped
      /\ \A w \in Users \ {u} : page'[w] = page[w]
  BY TakesIs DEF PageStep, PageEffect, PageInv, WebTypes
<1>2. ASSUME NEW w \in Users, NEW i \in DOMAIN toServer'[w]
      PROVE  \/ i \in DOMAIN toServer[w] /\ toServer'[w][i] = toServer[w][i]
             \/ LET m == toServer'[w][i] IN
                  /\ w = u /\ link[u] = "open" /\ m \in Request
                  /\ m.type \in AnswerTypes /\ m.id = page[u].id
                  /\ m.type \in EndTypes => ~HasCurrentCall(u)'
  BY <1>1, SendsIs
<1>3. \A m \in Request : m.type \in AnswerTypes =>
        m.type # "close" /\ m.type # "call_invite" /\ m.id \in CallIds
  BY DEF AnswerTypes, EndTypes, Request
<1>4. \A v \in Users, i \in Nat, id \in CallIds :
        Inviting(v, i, id)' => /\ Inviting(v, i, id)
                               /\ toServer'[v][i] = toServer[v][i]
  BY <1>2, <1>3 DEF Inviting
<1>5. \A w \in Users, id \in CallIds : Untouched(w, id) => Untouched(w, id)'
  BY <1>1, <1>2, NoCallAssumption DEF PageEffect, Untouched, Sent
<1>6. GoneStayGone'
  <2> SUFFICES ASSUME NEW w \in Users PROVE GoneStayGone!(w)'
    BY DEF GoneStayGone
  <2>1. link'[w] = "open" => w \in online'
    BY DEF PageStep, InvitesInv, GoneStayGone
  <2>2. link'[w] # "open" => \A v \in Users : toPage'[w][v] = <<>>
    <3> SUFFICES ASSUME link'[w] # "open", NEW v \in Users
                 PROVE  toPage'[w][v] = <<>>
      OBVIOUS
    <3>1. \A x \in Users : toPage[w][x] = <<>>
      BY DEF PageStep, InvitesInv, GoneStayGone
    <3> QED
      BY <3>1, PopShift DEF PageStep, Takes
  <2>3. \A i \in DOMAIN toServer'[w] :
          toServer'[w][i].type = "close" => link'[w] # "open"
    BY <1>2, <1>3 DEF PageStep, InvitesInv, GoneStayGone
  <2> QED
    BY <2>1, <2>2, <2>3
<1>7. IdsGiven'
  <2>1. \A w \in Users : page'[w].id # NoCall => page'[w].id \in given
    BY <1>1 DEF PageEffect, InvitesInv, IdsGiven
  <2>2. \A w \in Users, id \in CallIds, i \in Nat :
          Sent(w, i, id)' => id \in given
    BY <1>2, NoCallAssumption DEF Sent, InvitesInv, IdsGiven
  <2>3. \A w, v \in Users : \A i \in DOMAIN toPage'[w][v] :
          toPage'[w][v][i].id \in given
    BY <1>1, EventIdsKept DEF PageStep, InvitesInv
  <2> QED
    BY <2>1, <2>2, <2>3 DEF PageStep, IdsGiven, InvitesInv, callVars
<1>8. EndsFinal'
  <2> SUFFICES ASSUME NEW w \in Users, NEW i \in DOMAIN toServer'[w],
                      toServer'[w][i].type \in EndTypes
               PROVE  ~(page'[w].id = toServer'[w][i].id
                          /\ HasCurrentCall(w)')
    BY DEF EndsFinal, InCall
  <2>1. CASE w # u
    <3>1. ~InCall(w, toServer'[w][i].id)
      BY <1>2, <2>1 DEF InvitesInv, EndsFinal
    <3> QED
      BY <1>1, <1>2, <2>1, <3>1 DEF InCall, HasCurrentCall
  <2>2. CASE w = u
    <3>1. ~InCall(u, toServer'[u][i].id) \/ ~HasCurrentCall(u)'
      BY <1>2, <2>2 DEF InvitesInv, EndsFinal
    <3> QED
      BY <1>1, <2>2, <3>1 DEF InCall, PageEffect
  <2> QED
    BY <2>1, <2>2
<1>9. InvitedOnce'
  BY <1>1, <1>4, InvitedOnceKept DEF InvitesInv
<1>10. InvitedFirst'
  <2> SUFFICES ASSUME NEW id \in CallIds, NEW v \in Users, NEW i \in Nat
               PROVE  InvitedFirst!(id, v, i)'
    BY DEF InvitedFirst
  <2>1. Inviting(v, i, id)' =>
          /\ toServer'[v][i].to # v
          /\ \A w \in Users \ {v} : Untouched(w, id)'
    BY <1>4, <1>5 DEF InvitesInv, InvitedFirst
  <2>2. ASSUME NEW w \in Users, Invited(w, v, i, id)'
        PROVE  Untouched(w, id)'
    <3>1. PICK k \in {0, 1} : Invited(w, v, i + k, id)
      BY <1>1, <2>2, InvitedAfter
    <3>2. i + k \in Nat
      BY <3>1
    <3> QED
      BY <1>5, <3>1, <3>2 DEF InvitesInv, InvitedFirst
  <2> QED
    BY <2>1, <2>2
<1>11. InvitesBacked'
  BY <1>1, InvitesBackedKept DEF PageStep, InvitesInv
<1> QED
  BY <1>6, <1>7, <1>8, <1>9, <1>10, <1>11 DEF InvitesInv

(* What PagesBacked asks for a page with this call.                        *)
Backed(u, id) ==
  \/ id \in DOMAIN calls /\ u \in {calls[id].caller, calls[id].callee}
  \/ \E i \in DOMAIN toServer[u] :
       toServer[u][i].type = "call_invite" /\ toServer[u][i].id = id
  \/ \E v \in Users : \E i \in DOMAIN toPage[u][v] :
       toPage[u][v][i].type = "end" /\ toPage[u][v][i].id = id
  \/ link[u] # "open"

(* PagesBacked, page by page.                                              *)
LEMMA BackedIs ==
  PagesBacked <=> \A u \in Users : HasCurrentCall(u) => Backed(u, page[u].id)
  BY DEF PagesBacked, Backed

(* A page's call stays backed while its events are only taken, none of     *)
(* which is the call's end.                                                *)
LEMMA BackedKept ==
  ASSUME PageInv, NEW u \in Users, NEW id \in CallIds, Backed(u, id),
         UNCHANGED callVars, link[u] # "open" => link'[u] # "open",
         \A i \in DOMAIN toServer[u] :
           i \in DOMAIN toServer'[u] /\ toServer'[u][i] = toServer[u][i],
         \A v \in Users : \/ Shifted(u, v, 0)
                          \/ /\ Shifted(u, v, 1)
                             /\ toPage[u][v][1].type # "end"
                                  \/ toPage[u][v][1].id # id
  PROVE  Backed(u, id)'
<1>1. CASE id \in DOMAIN calls /\ u \in {calls[id].caller, calls[id].callee}
  BY <1>1 DEF Backed, callVars
<1>2. CASE \E i \in DOMAIN toServer[u] :
             toServer[u][i].type = "call_invite" /\ toServer[u][i].id = id
  BY <1>2 DEF Backed
<1>3. ASSUME NEW v \in Users, NEW i \in DOMAIN toPage[u][v],
             toPage[u][v][i].type = "end", toPage[u][v][i].id = id
      PROVE  Backed(u, id)'
  <2>1. i \in Nat \ {0}
    BY QueueTypes
  <2>2. PICK k \in {0, 1} :
          Shifted(u, v, k) /\ i # k
    BY <1>3, <2>1
  <2>3. /\ i - k \in DOMAIN toPage'[u][v]
        /\ toPage'[u][v][i - k] = toPage[u][v][i]
    BY <2>2 DEF Shifted
  <2> QED
    BY <1>3, <2>3 DEF Backed
<1>4. CASE link[u] # "open"
  BY <1>4 DEF Backed
<1> QED
  BY <1>1, <1>2, <1>3, <1>4 DEF Backed

(* A step of a page keeps every current call backed.                       *)
LEMMA PageStepBacked ==
  ASSUME PageInv, PagesBacked, NEW u \in Users, PageStep(u)
  PROVE  PagesBacked'
<1> SUFFICES ASSUME NEW w \in Users, HasCurrentCall(w)'
             PROVE  Backed(w, page[w].id)'
  BY DEF PagesBacked, Backed
<1>1. PageEffect(u) /\ Sends(u)
  BY DEF PageStep, PageEffect
<1>2. HasCurrentCall(w) /\ page'[w].id = page[w].id
  BY <1>1 DEF PageEffect, HasCurrentCall, PageInv, WebTypes
<1>3. PICK id \in CallIds : id = page[w].id /\ Backed(w, id)
  BY <1>2, PageFacts, BackedIs DEF ObjectOfCall, PageState, HasCurrentCall
<1>4. \A i \in DOMAIN toServer[w] :
        i \in DOMAIN toServer'[w] /\ toServer'[w][i] = toServer[w][i]
  BY <1>1, SendsIs
<1>5. ASSUME NEW v \in Users
      PROVE  \/ Shifted(w, v, 0)
             \/ /\ Shifted(w, v, 1)
                /\ toPage[w][v][1].type # "end" \/ toPage[w][v][1].id # id
  <2>1. CASE toPage' = toPage
    BY <2>1, NoShift
  <2>2. CASE toPage' # toPage
    <3>1. PICK x \in Users :
            LET m == Head(toPage[u][x]) IN
              /\ toPage[u][x] # <<>>
              /\ toPage' = [toPage EXCEPT ![u][x] = Tail(@)]
              /\ m.type # "call_invite"
              /\ m.type = "end" => ~(HasCurrentCall(u)' /\ page'[u].id = m.id)
      BY <2>2 DEF PageStep, Takes
    <3>2. CASE w = u /\ v = x
      <4>1. Shifted(w, v, 1) /\ Head(toPage[u][x]) = toPage[u][x][1]
        BY <3>1, <3>2, PopShift, QueueTypes, TailAt
      <4> QED
        BY <1>2, <1>3, <3>1, <3>2, <4>1
    <3>3. CASE w # u \/ v # x
      BY <3>1, <3>3, PopShift
    <3> QED
      BY <3>2, <3>3
  <2> QED
    BY <2>1, <2>2
<1>6. Backed(w, id)'
  <2>1. UNCHANGED callVars /\ (link[w] # "open" => link'[w] # "open")
    BY DEF PageStep
  <2> QED
    BY <1>3, <1>4, <1>5, <2>1, BackedKept
<1> QED
  BY <1>2, <1>3, <1>6 DEF Backed

-----------------------------------------------------------------------------
(* A page takes an invitation: it rings, or rejects it in a call.          *)

InviteStep(u, v) ==
  /\ Receive(u, v)
  /\ Head(toPage[u][v]).type = "call_invite"

(* What a page does with an invitation it receives.                        *)
LEMMA InviteStepIs ==
  ASSUME PageInv, NEW u \in Users, NEW v \in Users, InviteStep(u, v)
  PROVE  \E id \in CallIds :
           /\ Invited(u, v, 1, id)
           /\ toPage[u][v] # <<>>
           /\ toPage' = [toPage EXCEPT ![u][v] = Tail(@)]
           /\ UNCHANGED <<callVars, tasks, link, online, given>>
           /\ page' \in [Users -> PageState]
           /\ \A w \in Users \ {u} : page'[w] = page[w]
           /\ ObjectOfCall(page'[u])
           /\ toServer' \in [Users -> Seq(Message)]
           /\ \A w \in Users : \A i \in DOMAIN toServer[w] :
                i \in DOMAIN toServer'[w] /\ toServer'[w][i] = toServer[w][i]
           /\ \A w \in Users : \A i \in DOMAIN toServer'[w] :
                \/ i \in DOMAIN toServer[w] /\ toServer'[w][i] = toServer[w][i]
                \/ /\ w = u /\ toServer'[w][i].type = "call_reject"
                   /\ toServer'[w][i].id = id
                   /\ page'[u] = page[u]
           /\ \/ page'[u] = page[u]
              \/ toServer' = toServer /\ page'[u].id = id
<1> DEFINE m == Head(toPage[u][v])
<1>1. /\ toPage[u][v] # <<>>
      /\ toPage' = [toPage EXCEPT ![u][v] = Tail(@)]
      /\ link[u] = "open" /\ m.type = "call_invite" /\ Handle(u, m)
      /\ UNCHANGED <<callVars, link, online, given>>
  BY DEF InviteStep, Receive
<1>2. /\ m \in Event /\ m = toPage[u][v][1] /\ 1 \in DOMAIN toPage[u][v]
  BY <1>1, QueueTypes, TailAt
<1> HIDE DEF m
<1>3. PICK id \in CallIds : id = m.id
  BY <1>2 DEF Event
<1>4. m.from \in Users /\ Invited(u, v, 1, id)
  BY <1>1, <1>2, <1>3 DEF Event, Invited
<1>5. CASE HasCurrentCall(u)
  <2> DEFINE r == [type |-> "call_reject", to |-> m.from, id |-> m.id,
                   rtc |-> page[u].rtc]
             s == toServer[u]
  <2>1. /\ toServer' = [toServer EXCEPT ![u] = Append(@, r)]
        /\ UNCHANGED <<page, tasks>>
    BY <1>1, <1>5 DEF Handle, SendTo, pageVars
  <2>2. r \in Message /\ r.type = "call_reject" /\ r.id = id
    BY <1>3, <1>4, PageFacts
       DEF Message, Request, AnswerTypes, EndTypes, PageState
  <2> HIDE DEF r
  <2>3. s \in Seq(Message)
    BY QueueTypes
  <2>4. /\ Append(s, r) \in Seq(Message)
        /\ \A i \in DOMAIN s :
             i \in DOMAIN Append(s, r) /\ Append(s, r)[i] = s[i]
        /\ \A i \in DOMAIN Append(s, r) :
             \/ i \in DOMAIN s /\ Append(s, r)[i] = s[i]
             \/ Append(s, r)[i] = r
    BY <2>2, <2>3, AppendAt
  <2>5. toServer'[u] = Append(s, r)
        /\ \A w \in Users \ {u} : toServer'[w] = toServer[w]
    BY <2>1 DEF PageInv, WebTypes
  <2>6. toServer' \in [Users -> Seq(Message)]
    BY <2>1, <2>4 DEF PageInv, WebTypes
  <2> HIDE DEF s
  <2>7. ASSUME NEW w \in Users
        PROVE  \A i \in DOMAIN toServer[w] :
                 i \in DOMAIN toServer'[w] /\ toServer'[w][i] = toServer[w][i]
    BY <2>4, <2>5 DEF s
  <2>8. ASSUME NEW w \in Users, NEW i \in DOMAIN toServer'[w]
        PROVE  \/ i \in DOMAIN toServer[w] /\ toServer'[w][i] = toServer[w][i]
               \/ w = u /\ toServer'[w][i] = r
    BY <2>4, <2>5 DEF s
  <2>9. page' \in [Users -> PageState] /\ ObjectOfCall(page'[u])
    BY <2>1, PageFacts DEF PageInv, WebTypes
  <2> QED
    BY <1>1, <1>4, <2>1, <2>2, <2>6, <2>7, <2>8, <2>9
<1>6. CASE ~HasCurrentCall(u)
  <2> DEFINE q == NewCall(page[u], m.id, m.from)
             p == [q EXCEPT !.phase = "incoming"]
  <2>1. SetPage(u, p) /\ UNCHANGED <<tasks, toServer>>
    BY <1>1, <1>6 DEF Handle
  <2>2. /\ q \in PageState /\ q.id = id /\ q.peer = m.from
        /\ q.rtc = NoCall /\ q.cameras = page[u].cameras
    BY <1>3, <1>4, PageFacts, NewCallIs
  <2> HIDE DEF q
  <2>3. /\ p \in PageState /\ p.id = id /\ p.peer = m.from
        /\ p.phase = "incoming" /\ p.rtc = NoCall
        /\ p.cameras = page[u].cameras
    BY <2>2 DEF PageState, Phases
  <2> HIDE DEF p
  <2>4. ObjectOfCall(p)
    BY <1>4, <1>6, <2>3, PageFacts, NoCallAssumption
       DEF ObjectOfCall, HasCurrentCall
  <2>5. page'[u] = p /\ page' = [page EXCEPT ![u] = page'[u]]
    BY <2>1, SetPageIs
  <2>6. page' \in [Users -> PageState] /\ \A w \in Users \ {u} : page'[w] = page[w]
    BY <2>3, <2>5 DEF PageInv, WebTypes
  <2>7. toServer' \in [Users -> Seq(Message)]
    BY <2>1 DEF PageInv, WebTypes
  <2> QED
    BY <1>1, <1>4, <2>1, <2>3, <2>4, <2>5, <2>6, <2>7
<1> QED
  BY <1>5, <1>6

(* Receiving an invitation keeps the invariant.                            *)
LEMMA InviteStepInv ==
  ASSUME PagesInv, NEW u \in Users, NEW v \in Users, InviteStep(u, v)
  PROVE  PagesInv'
<1>0. PageInv /\ InvitesInv /\ PagesBacked
  BY DEF PagesInv
<1>1. PICK id \in CallIds :
        /\ Invited(u, v, 1, id)
        /\ toPage[u][v] # <<>>
        /\ toPage' = [toPage EXCEPT ![u][v] = Tail(@)]
        /\ UNCHANGED <<callVars, tasks, link, online, given>>
        /\ page' \in [Users -> PageState]
        /\ \A w \in Users \ {u} : page'[w] = page[w]
        /\ ObjectOfCall(page'[u])
        /\ toServer' \in [Users -> Seq(Message)]
        /\ \A w \in Users : \A i \in DOMAIN toServer[w] :
             i \in DOMAIN toServer'[w] /\ toServer'[w][i] = toServer[w][i]
        /\ \A w \in Users : \A i \in DOMAIN toServer'[w] :
             \/ i \in DOMAIN toServer[w] /\ toServer'[w][i] = toServer[w][i]
             \/ /\ w = u /\ toServer'[w][i].type = "call_reject"
                /\ toServer'[w][i].id = id
                /\ page'[u] = page[u]
        /\ \/ page'[u] = page[u]
           \/ toServer' = toServer /\ page'[u].id = id
  BY <1>0, InviteStepIs
<1>2. /\ Untouched(u, id)
      /\ \A w \in Users, i \in Nat : ~Inviting(w, i, id)
      /\ \A w \in Users, i \in Nat : Invited(u, w, i, id) => w = v /\ i = 1
  BY <1>0, <1>1 DEF InvitesInv, InvitedOnce, InvitedFirst
<1>3. /\ Shifted(u, v, 1)
      /\ \A w, x \in Users :
           w # u \/ x # v => toPage'[w][x] = toPage[w][x] /\ Shifted(w, x, 0)
      /\ toPage' \in [Users -> [Users -> Seq(Event)]]
      /\ Dropped
  BY <1>0, <1>1, PopShift
<1>4. PageInv'
  <2>1. SignalsOfTheirCall'
    BY <1>0, <1>1 DEF PageInv, SignalsOfTheirCall, SignalTypes
  <2>2. OwnObjects'
    BY <1>0, <1>1 DEF PageInv, OwnObjects
  <2>3. CallManagerInv'
    BY <1>0, <1>1, UnchangedInv DEF PageInv
  <2>4. WebTypes'
    BY <1>0, <1>1, <1>3 DEF PageInv, WebTypes
  <2> QED
    BY <2>1, <2>2, <2>3, <2>4 DEF PageInv
<1>5. \A w \in Users, i \in Nat, x \in CallIds :
        Inviting(w, i, x)' => /\ Inviting(w, i, x)
                              /\ toServer'[w][i] = toServer[w][i]
  BY <1>1 DEF Inviting
<1>6. \A w \in Users, x \in CallIds :
        Untouched(w, x) /\ (w # u \/ x # id) => Untouched(w, x)'
  BY <1>1, SMTT(20) DEF Untouched, Sent
<1>7. GoneStayGone'
  <2> SUFFICES ASSUME NEW w \in Users PROVE GoneStayGone!(w)'
    BY DEF GoneStayGone
  <2>1. link'[w] # "open" => \A x \in Users : toPage'[w][x] = <<>>
    BY <1>0, <1>1, <1>3 DEF InvitesInv, GoneStayGone
  <2>2. \A i \in DOMAIN toServer'[w] :
          toServer'[w][i].type = "close" => link'[w] # "open"
    BY <1>0, <1>1 DEF InvitesInv, GoneStayGone
  <2>3. link'[w] = "open" => w \in online'
    BY <1>0, <1>1 DEF InvitesInv, GoneStayGone
  <2> QED
    BY <2>1, <2>2, <2>3
<1>8. IdsGiven'
  <2>0. id \in given
    BY <1>0, <1>1 DEF Invited, InvitesInv, IdsGiven
  <2>1. \A w \in Users : page'[w].id # NoCall => page'[w].id \in given
    BY <1>0, <1>1, <2>0 DEF InvitesInv, IdsGiven
  <2>2. \A w \in Users, x \in CallIds, i \in Nat : Sent(w, i, x)' => x \in given
    BY <1>0, <1>1, <2>0 DEF Sent, InvitesInv, IdsGiven
  <2>3. \A w, x \in Users : \A i \in DOMAIN toPage'[w][x] :
          toPage'[w][x][i].id \in given
    <3>1. IdsGiven /\ Dropped /\ UNCHANGED given
      BY <1>0, <1>1, <1>3 DEF InvitesInv
    <3> QED
      BY <3>1, EventIdsKept
  <2> QED
    BY <1>0, <1>1, <2>1, <2>2, <2>3 DEF IdsGiven, InvitesInv, callVars
<1>9. EndsFinal'
  <2> SUFFICES ASSUME NEW w \in Users, NEW i \in DOMAIN toServer'[w],
                      toServer'[w][i].type \in EndTypes
               PROVE  ~(page'[w].id = toServer'[w][i].id
                          /\ HasCurrentCall(w)')
    BY DEF EndsFinal, InCall
  <2>1. CASE i \in DOMAIN toServer[w] /\ toServer'[w][i] = toServer[w][i]
    <3>1. ~InCall(w, toServer[w][i].id)
      BY <1>0, <2>1 DEF InvitesInv, EndsFinal
    <3>2. CASE page'[w] = page[w]
      BY <2>1, <3>1, <3>2 DEF InCall, HasCurrentCall
    <3>3. CASE w = u /\ page'[u].id = id
      <4>1. i \in Nat
        BY <1>0, <2>1, QueueTypes
      <4>2. ~Sent(u, i, id)
        BY <1>2, <4>1 DEF Untouched
      <4> QED
        BY <2>1, <3>3, <4>2 DEF Sent, EndTypes
    <3> QED
      BY <1>1, <3>2, <3>3
  <2>2. CASE w = u /\ toServer'[w][i].id = id /\ page'[u] = page[u]
    BY <1>2, <2>2 DEF Untouched
  <2> QED
    BY <1>1, <2>1, <2>2
<1>10. InvitedOnce'
  BY <1>0, <1>3, <1>5, InvitedOnceKept DEF InvitesInv
<1>11. InvitedFirst'
  <2> SUFFICES ASSUME NEW x \in CallIds, NEW w \in Users, NEW i \in Nat
               PROVE  InvitedFirst!(x, w, i)'
    BY DEF InvitedFirst
  <2>1. Inviting(w, i, x)' =>
          /\ toServer'[w][i].to # w
          /\ \A y \in Users \ {w} : Untouched(y, x)'
    <3> SUFFICES ASSUME Inviting(w, i, x)'
                 PROVE  /\ toServer'[w][i].to # w
                        /\ \A y \in Users \ {w} : Untouched(y, x)'
      OBVIOUS
    <3>1. Inviting(w, i, x) /\ toServer'[w][i] = toServer[w][i] /\ x # id
      BY <1>2, <1>5
    <3> QED
      BY <1>0, <1>6, <3>1 DEF InvitesInv, InvitedFirst
  <2>2. ASSUME NEW y \in Users, Invited(y, w, i, x)'
        PROVE  Untouched(y, x)'
    <3>1. PICK k \in {0, 1} : Invited(y, w, i + k, x) /\ Shifted(y, w, k)
      BY <1>0, <1>3, <2>2, InvitedAfter
    <3>2. i + k \in Nat
      BY <3>1
    <3>3. Untouched(y, x)
      BY <1>0, <3>1, <3>2 DEF InvitesInv, InvitedFirst
    <3>4. y # u \/ x # id
      <4> SUFFICES ASSUME y = u, x = id PROVE FALSE
        OBVIOUS
      <4>1. w = v /\ i + k = 1
        BY <1>2, <3>1, <3>2
      <4>2. Invited(u, v, i + 1, id)
        BY <1>3, <2>2, <4>1 DEF Invited, Shifted
      <4>3. i + 1 \in Nat /\ i # 0
        BY <1>3, <2>2 DEF Invited
      <4> QED
        BY <1>2, <4>2, <4>3
    <3> QED
      BY <1>6, <3>3, <3>4
  <2> QED
    BY <2>1, <2>2
<1>12. InvitesBacked'
  BY <1>0, <1>1, <1>3, InvitesBackedKept DEF InvitesInv
<1>13. PagesBacked'
  <2> SUFFICES ASSUME NEW w \in Users, HasCurrentCall(w)'
               PROVE  Backed(w, page[w].id)'
    BY DEF PagesBacked, Backed
  <2>1. CASE page'[w] = page[w]
    <3>1. HasCurrentCall(w)
      BY <2>1 DEF HasCurrentCall
    <3>2. PICK x \in CallIds : x = page[w].id /\ Backed(w, x)
      BY <1>0, <3>1, PageFacts, BackedIs
         DEF ObjectOfCall, PageState, HasCurrentCall
    <3>3. toPage[u][v][1].type # "end"
      BY <1>1 DEF Invited
    <3>4. \A y \in Users : \/ Shifted(w, y, 0)
                            \/ /\ Shifted(w, y, 1)
                               /\ toPage[w][y][1].type # "end"
                                    \/ toPage[w][y][1].id # x
      BY <1>3, <3>3
    <3>5. \A i \in DOMAIN toServer[w] :
            i \in DOMAIN toServer'[w] /\ toServer'[w][i] = toServer[w][i]
      BY <1>1
    <3>6. UNCHANGED callVars /\ (link[w] # "open" => link'[w] # "open")
      BY <1>1
    <3>7. Backed(w, x)'
      BY <1>0, <3>2, <3>4, <3>5, <3>6, BackedKept
    <3> QED
      BY <2>1, <3>2, <3>7 DEF Backed
  <2>2. CASE w = u /\ page'[u].id = id
    <3>1. \/ id \in DOMAIN calls /\ calls[id].callee = u
                /\ calls[id].caller = v
          \/ \E j \in DOMAIN toPage[u][v] :
               /\ 1 < j
               /\ toPage[u][v][j].type = "end" /\ toPage[u][v][j].id = id
      <4>1. Invited(u, v, 1, id) /\ InvitesBacked
        BY <1>0, <1>1 DEF InvitesInv
      <4> QED
        BY <4>1 DEF InvitesBacked
    <3>2. CASE id \in DOMAIN calls /\ calls[id].callee = u
      BY <1>1, <2>2, <3>2 DEF Backed, callVars
    <3>3. ASSUME NEW j \in DOMAIN toPage[u][v], 1 < j,
                 toPage[u][v][j].type = "end", toPage[u][v][j].id = id
          PROVE  Backed(u, page[u].id)'
      <4>1. /\ j - 1 \in DOMAIN toPage'[u][v]
            /\ toPage'[u][v][j - 1] = toPage[u][v][j]
        BY <1>3, <3>3 DEF Shifted
      <4> QED
        BY <2>2, <3>3, <4>1 DEF Backed
    <3> QED
      BY <2>2, <3>1, <3>2, <3>3
  <2> QED
    BY <1>1, <2>1, <2>2
<1> QED
  BY <1>4, <1>7, <1>8, <1>9, <1>10, <1>11, <1>12, <1>13
     DEF PagesInv, InvitesInv

-----------------------------------------------------------------------------
(* A page calls.                                                           *)

(* The id of a new call was given to no other.                             *)
LEMMA FreshIs ==
  ASSUME PageInv, given # CallIds
  PROVE  FreshId \in CallIds /\ FreshId \notin given
<1>1. \E id \in CallIds \ given : TRUE
  BY DEF PageInv, WebTypes
<1> QED
  BY <1>1 DEF FreshId

(* What a page does as its user calls another.                             *)
LEMMA StartVideoCallIs ==
  ASSUME PageInv, NEW u \in Users, NEW peer \in Users,
         StartVideoCall(u, peer)
  PROVE  \E id \in CallIds :
           /\ id \notin given /\ given' = given \cup {id}
           /\ UNCHANGED <<callVars, tasks, link, online, toPage>>
           /\ link[u] = "open"
           /\ page' \in [Users -> PageState]
           /\ \A w \in Users \ {u} : page'[w] = page[w]
           /\ page'[u].id = id /\ ObjectOfCall(page'[u])
           /\ toServer' \in [Users -> Seq(Message)]
           /\ \A w \in Users : \A i \in DOMAIN toServer[w] :
                i \in DOMAIN toServer'[w] /\ toServer'[w][i] = toServer[w][i]
           /\ \A w \in Users : \A i \in DOMAIN toServer'[w] :
                \/ i \in DOMAIN toServer[w] /\ toServer'[w][i] = toServer[w][i]
                \/ /\ w = u /\ i = Len(toServer[u]) + 1
                   /\ toServer'[w][i].type = "call_invite"
                   /\ toServer'[w][i].id = id
                   /\ toServer'[w][i].to # u
           /\ Len(toServer[u]) + 1 \in DOMAIN toServer'[u]
           /\ toServer'[u][Len(toServer[u]) + 1].type = "call_invite"
           /\ toServer'[u][Len(toServer[u]) + 1].id = id
<1>1. PICK id \in CallIds : id = FreshId /\ id \notin given
  BY FreshIs DEF StartVideoCall
<1> DEFINE q == NewCall(page[u], id, peer)
           p == WithTimer(q, "outgoing")
           m == [type |-> "call_invite", to |-> peer, id |-> id,
                 rtc |-> page[u].rtc]
           s == toServer[u]
<1>2. /\ link[u] = "open" /\ peer # u /\ ~HasCurrentCall(u)
      /\ given' = given \cup {id} /\ SetPage(u, p)
      /\ toServer' = [toServer EXCEPT ![u] = Append(@, m)]
      /\ UNCHANGED <<callVars, tasks, link, online, toPage>>
  BY <1>1 DEF StartVideoCall, SendTo
<1>3. /\ q \in PageState /\ q.id = id /\ q.peer = peer /\ q.rtc = NoCall
      /\ q.cameras = page[u].cameras
  BY PageFacts, NewCallIs
<1>4. /\ m \in Message /\ m.type = "call_invite" /\ m.id = id
      /\ m.to # u
  BY <1>2, PageFacts DEF Message, Request, PageState
<1>5. page'[u] = p /\ page' = [page EXCEPT ![u] = page'[u]]
  BY <1>2, SetPageIs
<1> HIDE DEF q, m
<1>6. /\ p \in PageState /\ p.phase = "outgoing" /\ p.id = id
      /\ p.peer = peer /\ p.rtc = NoCall /\ p.cameras = page[u].cameras
  BY <1>3, WithTimerIs DEF Phases
<1> HIDE DEF p
<1>7. ObjectOfCall(p)
  BY <1>2, <1>6, PageFacts, NoCallAssumption DEF ObjectOfCall, HasCurrentCall
<1>8. page' \in [Users -> PageState] /\ \A w \in Users \ {u} : page'[w] = page[w]
  BY <1>5, <1>6 DEF PageInv, WebTypes
<1>9. s \in Seq(Message)
  BY QueueTypes
<1>10. /\ Append(s, m) \in Seq(Message)
       /\ \A i \in DOMAIN s :
            i \in DOMAIN Append(s, m) /\ Append(s, m)[i] = s[i]
       /\ \A i \in DOMAIN Append(s, m) :
            \/ i \in DOMAIN s /\ Append(s, m)[i] = s[i]
            \/ i = Len(s) + 1 /\ Append(s, m)[i] = m
       /\ Len(s) + 1 \in DOMAIN Append(s, m)
       /\ Append(s, m)[Len(s) + 1] = m
  BY <1>4, <1>9, AppendAt
<1>11. toServer'[u] = Append(s, m)
       /\ \A w \in Users \ {u} : toServer'[w] = toServer[w]
  BY <1>2 DEF PageInv, WebTypes
<1>12. toServer' \in [Users -> Seq(Message)]
  BY <1>2, <1>10 DEF PageInv, WebTypes
<1> HIDE DEF s
<1>13. ASSUME NEW w \in Users
       PROVE  \A i \in DOMAIN toServer[w] :
                i \in DOMAIN toServer'[w] /\ toServer'[w][i] = toServer[w][i]
  BY <1>10, <1>11 DEF s
<1>14. ASSUME NEW w \in Users, NEW i \in DOMAIN toServer'[w]
       PROVE  \/ i \in DOMAIN toServer[w] /\ toServer'[w][i] = toServer[w][i]
              \/ w = u /\ i = Len(toServer[u]) + 1 /\ toServer'[w][i] = m
  BY <1>10, <1>11 DEF s
<1>15. /\ Len(toServer[u]) + 1 \in DOMAIN toServer'[u]
       /\ toServer'[u][Len(toServer[u]) + 1] = m
  BY <1>10, <1>11 DEF s
<1> QED
  BY <1>1, <1>2, <1>4, <1>5, <1>6, <1>7, <1>8, <1>12, <1>13, <1>14, <1>15

(* Calling a user keeps the invariant.                                     *)
LEMMA StartVideoCallInv ==
  ASSUME PagesInv, NEW u \in Users, NEW peer \in Users,
         StartVideoCall(u, peer)
  PROVE  PagesInv'
<1>0. PageInv /\ InvitesInv /\ PagesBacked
  BY DEF PagesInv
<1>1. PICK id \in CallIds :
        /\ id \notin given /\ given' = given \cup {id}
        /\ UNCHANGED <<callVars, tasks, link, online, toPage>>
        /\ link[u] = "open"
        /\ page' \in [Users -> PageState]
        /\ \A w \in Users \ {u} : page'[w] = page[w]
        /\ page'[u].id = id /\ ObjectOfCall(page'[u])
        /\ toServer' \in [Users -> Seq(Message)]
        /\ \A w \in Users : \A i \in DOMAIN toServer[w] :
             i \in DOMAIN toServer'[w] /\ toServer'[w][i] = toServer[w][i]
        /\ \A w \in Users : \A i \in DOMAIN toServer'[w] :
             \/ i \in DOMAIN toServer[w] /\ toServer'[w][i] = toServer[w][i]
             \/ /\ w = u /\ i = Len(toServer[u]) + 1
                /\ toServer'[w][i].type = "call_invite"
                /\ toServer'[w][i].id = id
                /\ toServer'[w][i].to # u
        /\ Len(toServer[u]) + 1 \in DOMAIN toServer'[u]
        /\ toServer'[u][Len(toServer[u]) + 1].type = "call_invite"
        /\ toServer'[u][Len(toServer[u]) + 1].id = id
  BY <1>0, StartVideoCallIs
<1>2. /\ \A w \in Users : Untouched(w, id)
      /\ \A w \in Users, i \in Nat : ~Inviting(w, i, id)
      /\ \A w, x \in Users, i \in Nat : ~Invited(w, x, i, id)
  <2>1. IdsGiven /\ id \notin given /\ id # NoCall
    BY <1>0, <1>1, NoCallAssumption DEF InvitesInv
  <2>2. \A w \in Users : Untouched(w, id)
    BY <2>1 DEF IdsGiven, Untouched
  <2>3. \A w \in Users, i \in Nat : ~Inviting(w, i, id)
    BY <2>2 DEF Untouched, Inviting, Sent
  <2>4. \A w, x \in Users, i \in Nat : ~Invited(w, x, i, id)
    BY <2>1 DEF IdsGiven, Invited
  <2> QED
    BY <2>2, <2>3, <2>4
<1>3. \A w, x \in Users : toPage'[w][x] = toPage[w][x] /\ Shifted(w, x, 0)
  BY <1>0, <1>1, NoShift
<1>4. PageInv'
  <2>1. SignalsOfTheirCall'
    BY <1>0, <1>1 DEF PageInv, SignalsOfTheirCall, SignalTypes
  <2>2. OwnObjects'
    BY <1>0, <1>1 DEF PageInv, OwnObjects
  <2>3. CallManagerInv'
    BY <1>0, <1>1, UnchangedInv DEF PageInv
  <2>4. WebTypes'
    BY <1>0, <1>1 DEF PageInv, WebTypes
  <2> QED
    BY <2>1, <2>2, <2>3, <2>4 DEF PageInv
<1>5. \A w \in Users, i \in Nat, x \in CallIds :
        Inviting(w, i, x)' =>
          \/ /\ Inviting(w, i, x) /\ x # id
             /\ toServer'[w][i] = toServer[w][i]
          \/ /\ w = u /\ i = Len(toServer[u]) + 1 /\ x = id
             /\ toServer'[w][i].to # u
  BY <1>1, <1>2 DEF Inviting
<1>6. \A w \in Users, x \in CallIds :
        Untouched(w, x) /\ (w # u \/ x # id) => Untouched(w, x)'
  BY <1>1 DEF Untouched, Sent
<1>7. \A w, x \in Users, i \in Nat, y \in CallIds :
        Invited(w, x, i, y)' => Invited(w, x, i, y) /\ y # id
  BY <1>1, <1>2 DEF Invited
<1>8. GoneStayGone'
  <2>1. GoneStayGone
    BY <1>0 DEF InvitesInv
  <2>2. \A w \in Users : \A i \in DOMAIN toServer'[w] :
          toServer'[w][i].type = "close" => link'[w] # "open"
    BY <1>1, <2>1 DEF GoneStayGone
  <2> QED
    BY <1>1, <2>1, <2>2 DEF GoneStayGone
<1>9. IdsGiven'
  <2>0. IdsGiven
    BY <1>0 DEF InvitesInv
  <2>1. \A w \in Users : page'[w].id # NoCall => page'[w].id \in given'
    BY <1>1, <2>0 DEF IdsGiven
  <2>2. \A w \in Users, x \in CallIds, i \in Nat :
          Sent(w, i, x)' => x \in given'
    BY <1>1, <2>0 DEF Sent, IdsGiven
  <2>3. \A w, x \in Users : \A i \in DOMAIN toPage'[w][x] :
          toPage'[w][x][i].id \in given'
    BY <1>1, <2>0 DEF IdsGiven
  <2>4. DOMAIN calls' \subseteq given'
    BY <1>1, <2>0 DEF IdsGiven, callVars
  <2> QED
    BY <2>1, <2>2, <2>3, <2>4 DEF IdsGiven
<1>10. EndsFinal'
  <2> SUFFICES ASSUME NEW w \in Users, NEW i \in DOMAIN toServer'[w],
                      toServer'[w][i].type \in EndTypes
               PROVE  ~(page'[w].id = toServer'[w][i].id
                          /\ HasCurrentCall(w)')
    BY DEF EndsFinal, InCall
  <2>1. i \in DOMAIN toServer[w] /\ toServer'[w][i] = toServer[w][i]
    BY <1>1 DEF EndTypes
  <2>2. CASE w # u
    <3>1. ~InCall(w, toServer[w][i].id)
      BY <1>0, <2>1 DEF InvitesInv, EndsFinal
    <3> QED
      BY <1>1, <2>1, <2>2, <3>1 DEF InCall, HasCurrentCall
  <2>3. CASE w = u
    <3>1. i \in Nat
      BY <1>0, <2>1, QueueTypes
    <3>2. ~Sent(u, i, id)
      BY <1>2, <3>1 DEF Untouched
    <3> QED
      BY <1>1, <2>1, <2>3, <3>2 DEF Sent, EndTypes
  <2> QED
    BY <2>2, <2>3
<1>11. InvitedOnce'
  <2> SUFFICES ASSUME NEW x \in CallIds, NEW y \in Users, NEW v \in Users,
                      NEW w \in Users, NEW i \in Nat, NEW j \in Nat
               PROVE  /\ Inviting(v, i, x)' /\ Inviting(w, j, x)' =>
                           v = w /\ i = j
                      /\ ~(Inviting(w, j, x)' /\ Invited(y, v, i, x)')
                      /\ Invited(y, v, i, x)' /\ Invited(y, w, j, x)' =>
                           v = w /\ i = j
    BY DEF InvitedOnce
  <2>1. InvitedOnce
    BY <1>0 DEF InvitesInv
  <2>2. Inviting(v, i, x)' /\ Inviting(w, j, x)' => v = w /\ i = j
    BY <1>5, <2>1 DEF InvitedOnce
  <2>3. ASSUME Inviting(w, j, x)', Invited(y, v, i, x)' PROVE FALSE
    <3>1. Invited(y, v, i, x) /\ x # id
      BY <1>7, <2>3
    <3>2. Inviting(w, j, x)
      BY <1>5, <2>3, <3>1
    <3> QED
      BY <2>1, <3>1, <3>2 DEF InvitedOnce
  <2>4. Invited(y, v, i, x)' /\ Invited(y, w, j, x)' => v = w /\ i = j
    BY <1>7, <2>1 DEF InvitedOnce
  <2> QED
    BY <2>2, <2>3, <2>4
<1>12. InvitedFirst'
  <2> SUFFICES ASSUME NEW x \in CallIds, NEW w \in Users, NEW i \in Nat
               PROVE  InvitedFirst!(x, w, i)'
    BY DEF InvitedFirst
  <2>1. InvitedFirst
    BY <1>0 DEF InvitesInv
  <2>2. Inviting(w, i, x)' =>
          /\ toServer'[w][i].to # w
          /\ \A y \in Users \ {w} : Untouched(y, x)'
    BY <1>2, <1>5, <1>6, <2>1 DEF InvitedFirst
  <2>3. \A y \in Users : Invited(y, w, i, x)' => Untouched(y, x)'
    BY <1>6, <1>7, <2>1 DEF InvitedFirst
  <2> QED
    BY <2>2, <2>3
<1>13. InvitesBacked'
  BY <1>0, <1>1, <1>3, InvitesBackedKept DEF InvitesInv, Dropped
<1>14. PagesBacked'
  <2> SUFFICES ASSUME NEW w \in Users, HasCurrentCall(w)'
               PROVE  Backed(w, page[w].id)'
    BY DEF PagesBacked, Backed
  <2>1. CASE w # u
    <3>1. HasCurrentCall(w) /\ page'[w] = page[w]
      BY <1>1, <2>1 DEF HasCurrentCall
    <3>2. PICK x \in CallIds : x = page[w].id /\ Backed(w, x)
      BY <1>0, <3>1, PageFacts, BackedIs
         DEF ObjectOfCall, PageState, HasCurrentCall
    <3>3. \A i \in DOMAIN toServer[w] :
            i \in DOMAIN toServer'[w] /\ toServer'[w][i] = toServer[w][i]
      BY <1>1
    <3>4. UNCHANGED callVars /\ (link[w] # "open" => link'[w] # "open")
      BY <1>1
    <3>5. Backed(w, x)'
      BY <1>0, <1>3, <3>2, <3>3, <3>4, BackedKept
    <3> QED
      BY <3>1, <3>2, <3>5 DEF Backed
  <2>2. CASE w = u
    BY <1>1, <2>2 DEF Backed
  <2> QED
    BY <2>1, <2>2
<1> QED
  BY <1>4, <1>8, <1>9, <1>10, <1>11, <1>12, <1>13, <1>14
     DEF PagesInv, InvitesInv

-----------------------------------------------------------------------------
(* A connection is lost or a page is left.                                 *)

(* A queue that ends with the end of a call and a close.                   *)
LEMMA ConcatAppends ==
  ASSUME NEW S, NEW s \in Seq(S), NEW m \in S, NEW c \in S
  PROVE  /\ s \o <<>> \o <<c>> = Append(s, c)
         /\ s \o <<m>> \o <<c>> = Append(Append(s, m), c)
<1>1. /\ \A x \in S : <<x>> \in Seq(S) /\ s \o <<x>> = Append(s, x)
      /\ s \o <<>> = s
  OBVIOUS
<1>2. Append(s, m) \in Seq(S) /\ Append(s, m) \o <<c>> = Append(Append(s, m), c)
  OBVIOUS
<1> QED
  BY <1>1, <1>2

(* What is left of what a page has sent, and what it sends in the end.     *)
LeaveStep(u) ==
  /\ UNCHANGED <<callVars, online, given>>
  /\ link' \in [Users -> {"open", "closing", "closed"}]
  /\ link'[u] # "open"
  /\ \A w \in Users \ {u} : link'[w] = link[w]
  /\ toPage' = [toPage EXCEPT ![u] = [v \in Users |-> <<>>]]
  /\ tasks' \in [Users -> SUBSET Task]
  /\ page' \in [Users -> PageState]
  /\ \A w \in Users \ {u} : page'[w] = page[w]
  /\ page'[u] = page[u] \/ page'[u] = IdlePage
  /\ toServer' \in [Users -> Seq(Message)]
  /\ \A w \in Users \ {u} : toServer'[w] = toServer[w]
  /\ \A i \in DOMAIN toServer'[u] :
       LET m == toServer'[u][i] IN
         \/ i \in DOMAIN toServer[u] /\ m = toServer[u][i]
         \/ m.type = "close"
         \/ /\ m.type \in EndTypes /\ m.id = page[u].id
            /\ page'[u] = IdlePage

(* What an idle page holds.                                                *)
LEMMA IdlePageIs ==
  /\ IdlePage \in PageState /\ IdlePage.phase = "idle"
  /\ IdlePage.id = NoCall /\ ObjectOfCall(IdlePage)
<1>1. /\ IdlePage \in PageState /\ IdlePage.phase = "idle"
      /\ IdlePage.id = NoCall /\ IdlePage.rtc = NoCall
      /\ IdlePage.cameras = {}
  BY DEF IdlePage, PageState, Phases
<1> QED
  BY <1>1 DEF ObjectOfCall

(* A lost connection is one way to leave.                                  *)
LEMMA LoseConnectionLeaves ==
  ASSUME PageInv, NEW u \in Users, LoseConnection(u)
  PROVE  LeaveStep(u)
<1> DEFINE s == toServer[u]
           c == [type |-> "close"]
<1>1. PICK n \in 0..Len(s) :
        toServer' = [toServer EXCEPT ![u] = Append(SubSeq(@, 1, n), c)]
  BY DEF LoseConnection
<1>2. /\ link' = [link EXCEPT ![u] = "closing"]
      /\ toPage' = [toPage EXCEPT ![u] = [v \in Users |-> <<>>]]
      /\ UNCHANGED <<callVars, page, tasks, online, given>>
  BY DEF LoseConnection, pageVars
<1> DEFINE t == SubSeq(s, 1, n)
<1>3. s \in Seq(Message) /\ c \in Message /\ c.type = "close"
  BY QueueTypes DEF Message
<1>4. /\ t \in Seq(Message)
      /\ \A i \in DOMAIN t : i \in DOMAIN s /\ t[i] = s[i]
  BY <1>3, CutAt
<1>5. toServer'[u] = Append(t, c)
      /\ \A w \in Users \ {u} : toServer'[w] = toServer[w]
  BY <1>1 DEF PageInv, WebTypes
<1>6. toServer' = [toServer EXCEPT ![u] = Append(t, c)]
  BY <1>1
<1> HIDE DEF t, c, s
<1>7. /\ Append(t, c) \in Seq(Message)
      /\ \A i \in DOMAIN Append(t, c) :
           (i \in DOMAIN t /\ Append(t, c)[i] = t[i]) \/ Append(t, c)[i] = c
  BY <1>3, <1>4, AppendAt
<1>8. toServer' \in [Users -> Seq(Message)]
  BY <1>6, <1>7 DEF PageInv, WebTypes
<1>9. \A i \in DOMAIN toServer'[u] :
        \/ i \in DOMAIN toServer[u] /\ toServer'[u][i] = toServer[u][i]
        \/ toServer'[u][i].type = "close"
  BY <1>3, <1>4, <1>5, <1>7 DEF s
<1>10. /\ link' \in [Users -> {"open", "closing", "closed"}]
       /\ link'[u] # "open"
       /\ \A w \in Users \ {u} : link'[w] = link[w]
       /\ tasks' \in [Users -> SUBSET Task] /\ page' \in [Users -> PageState]
  BY <1>2 DEF PageInv, WebTypes
<1> QED
  BY <1>2, <1>5, <1>8, <1>9, <1>10 DEF LeaveStep

(* An unloaded page is the other.                                          *)
LEMMA UnloadLeaves ==
  ASSUME PageInv, NEW u \in Users, Unload(u)
  PROVE  LeaveStep(u)
<1> DEFINE s == toServer[u]
           c == [type |-> "close"]
           m == [type |-> EndType(page[u].phase), to |-> page[u].peer,
                 id |-> page[u].id, rtc |-> page[u].rtc]
<1>1. /\ link' = [link EXCEPT ![u] = "closed"]
      /\ toPage' = [toPage EXCEPT ![u] = [v \in Users |-> <<>>]]
      /\ tasks' = [tasks EXCEPT ![u] = {}]
      /\ SetPage(u, IdlePage)
      /\ UNCHANGED <<callVars, online, given>>
      /\ toServer' = [toServer EXCEPT ![u] =
           @ \o (IF HasCurrentCall(u) THEN <<m>> ELSE <<>>) \o <<c>>]
  BY DEF Unload
<1>2. s \in Seq(Message) /\ c \in Message /\ c.type = "close"
  BY QueueTypes DEF Message
<1>3. ASSUME HasCurrentCall(u)
      PROVE  m \in Message /\ m.type \in EndTypes /\ m.id = page[u].id
  <2>1. EndType(page[u].phase) \in EndTypes
    BY DEF EndType, EndTypes
  <2> QED
    BY <1>3, <2>1, PageFacts
       DEF ObjectOfCall, HasCurrentCall, PageState, Message, Request,
           AnswerTypes
<1>4. page'[u] = IdlePage /\ page' = [page EXCEPT ![u] = page'[u]]
  BY <1>1, SetPageIs
<1>5. /\ link' \in [Users -> {"open", "closing", "closed"}]
      /\ link'[u] # "open"
      /\ \A w \in Users \ {u} : link'[w] = link[w]
      /\ tasks' \in [Users -> SUBSET Task] /\ page' \in [Users -> PageState]
      /\ \A w \in Users \ {u} : page'[w] = page[w]
      /\ \A w \in Users \ {u} : toServer'[w] = toServer[w]
  BY <1>1, <1>4, IdlePageIs DEF PageInv, WebTypes
<1>6. toServer'[u] = s \o (IF HasCurrentCall(u) THEN <<m>> ELSE <<>>) \o <<c>>
      /\ toServer' = [toServer EXCEPT ![u] = toServer'[u]]
  BY <1>1 DEF PageInv, WebTypes
<1> HIDE DEF s, c, m
<1>7. /\ toServer'[u] \in Seq(Message)
      /\ \A i \in DOMAIN toServer'[u] :
           \/ i \in DOMAIN s /\ toServer'[u][i] = s[i]
           \/ toServer'[u][i] = c
           \/ HasCurrentCall(u) /\ toServer'[u][i] = m
  <2>1. CASE HasCurrentCall(u)
    <3>1. toServer'[u] = Append(Append(s, m), c)
      BY <1>2, <1>3, <1>6, <2>1, ConcatAppends
    <3>2. /\ Append(s, m) \in Seq(Message)
          /\ \A i \in DOMAIN Append(s, m) :
               \/ i \in DOMAIN s /\ Append(s, m)[i] = s[i]
               \/ Append(s, m)[i] = m
      BY <1>2, <1>3, <2>1, AppendAt
    <3> DEFINE a == Append(s, m)
    <3> HIDE DEF a
    <3>3. /\ Append(a, c) \in Seq(Message)
          /\ \A i \in DOMAIN Append(a, c) :
               \/ i \in DOMAIN a /\ Append(a, c)[i] = a[i]
               \/ Append(a, c)[i] = c
      BY <1>2, <3>2, AppendAt DEF a
    <3> QED
      BY <2>1, <3>1, <3>2, <3>3 DEF a
  <2>2. CASE ~HasCurrentCall(u)
    <3>1. toServer'[u] = Append(s, c)
      BY <1>2, <1>6, <2>2, ConcatAppends
    <3> QED
      BY <1>2, <3>1, AppendAt
  <2> QED
    BY <2>1, <2>2
<1>8. toServer' \in [Users -> Seq(Message)]
  BY <1>6, <1>7 DEF PageInv, WebTypes
<1>9. \A i \in DOMAIN toServer'[u] :
        LET x == toServer'[u][i] IN
          \/ i \in DOMAIN toServer[u] /\ x = toServer[u][i]
          \/ x.type = "close"
          \/ x.type \in EndTypes /\ x.id = page[u].id
  BY <1>2, <1>3, <1>7 DEF s
<1> QED
  BY <1>1, <1>4, <1>5, <1>8, <1>9 DEF LeaveStep

(* Leaving keeps the invariant.                                            *)
LEMMA LeaveStepInv ==
  ASSUME PagesInv, NEW u \in Users, LeaveStep(u)
  PROVE  PagesInv'
<1>0. PageInv /\ InvitesInv /\ PagesBacked
  BY DEF PagesInv
<1>1. /\ UNCHANGED <<callVars, online, given>>
      /\ link'[u] # "open"
      /\ \A w \in Users \ {u} : link'[w] = link[w] /\ page'[w] = page[w]
                                  /\ toServer'[w] = toServer[w]
      /\ page'[u] = page[u] \/ page'[u] = IdlePage
  BY DEF LeaveStep
<1>2. \A w \in Users : \A i \in DOMAIN toServer'[w] :
        LET m == toServer'[w][i] IN
          \/ i \in DOMAIN toServer[w] /\ m = toServer[w][i]
          \/ w = u /\ m.type = "close"
          \/ /\ w = u /\ m.type \in EndTypes /\ m.id = page[u].id
             /\ page'[u] = IdlePage
  BY DEF LeaveStep
<1>3. /\ \A v \in Users : toPage'[u][v] = <<>>
      /\ \A w \in Users \ {u}, v \in Users : toPage'[w][v] = toPage[w][v]
      /\ toPage' \in [Users -> [Users -> Seq(Event)]]
      /\ Dropped
  <2>1. toPage' = [toPage EXCEPT ![u] = [v \in Users |-> <<>>]]
    BY DEF LeaveStep
  <2>2. /\ \A v \in Users : toPage'[u][v] = <<>>
        /\ \A w \in Users \ {u}, v \in Users : toPage'[w][v] = toPage[w][v]
    BY <1>0, <2>1 DEF PageInv, WebTypes
  <2>3. <<>> \in Seq(Event)
    OBVIOUS
  <2>4. toPage' \in [Users -> [Users -> Seq(Event)]]
    BY <1>0, <2>1, <2>3 DEF PageInv, WebTypes
  <2> QED
    BY <1>0, <2>2, <2>4, NoShift DEF Dropped
<1>4. PageInv'
  <2>1. SignalsOfTheirCall'
    BY <1>0, <1>2 DEF PageInv, SignalsOfTheirCall, SignalTypes, EndTypes
  <2>2. OwnObjects'
    <3> SUFFICES ASSUME NEW w \in Users PROVE ObjectOfCall(page'[w])
      BY DEF OwnObjects
    <3> QED
      BY <1>0, <1>1, PageFacts, IdlePageIs
  <2>3. CallManagerInv'
    BY <1>0, <1>1, UnchangedInv DEF PageInv
  <2>4. WebTypes'
    BY <1>0, <1>3 DEF LeaveStep, PageInv, WebTypes
  <2> QED
    BY <2>1, <2>2, <2>3, <2>4 DEF PageInv
<1>5. \A w \in Users, i \in Nat, x \in CallIds :
        Inviting(w, i, x)' => /\ Inviting(w, i, x)
                              /\ toServer'[w][i] = toServer[w][i]
  BY <1>2 DEF Inviting, EndTypes
<1>6. \A w \in Users, x \in CallIds : Untouched(w, x) => Untouched(w, x)'
  BY <1>1, <1>2, IdlePageIs, NoCallAssumption DEF Untouched, Sent
<1>7. \A w \in Users : HasCurrentCall(w)' =>
        HasCurrentCall(w) /\ page'[w] = page[w]
  BY <1>1, IdlePageIs DEF HasCurrentCall
<1>8. GoneStayGone'
  <2>1. GoneStayGone
    BY <1>0 DEF InvitesInv
  <2>2. \A w \in Users : \A i \in DOMAIN toServer'[w] :
          toServer'[w][i].type = "close" => link'[w] # "open"
    BY <1>1, <1>2, <2>1 DEF GoneStayGone
  <2>3. \A w \in Users : link'[w] # "open" =>
          \A v \in Users : toPage'[w][v] = <<>>
    <3> SUFFICES ASSUME NEW w \in Users, NEW v \in Users, link'[w] # "open"
                 PROVE  toPage'[w][v] = <<>>
      OBVIOUS
    <3>1. CASE w = u
      BY <1>3, <3>1
    <3>2. CASE w # u
      <4>1. toPage[w][v] = <<>>
        BY <1>1, <2>1, <3>2 DEF GoneStayGone
      <4> QED
        BY <1>3, <3>2, <4>1
    <3> QED
      BY <3>1, <3>2
  <2>4. \A w \in Users : link'[w] = "open" => w \in online'
    BY <1>1, <2>1 DEF GoneStayGone
  <2> QED
    BY <2>2, <2>3, <2>4 DEF GoneStayGone
<1>9. IdsGiven'
  <2>0. IdsGiven
    BY <1>0 DEF InvitesInv
  <2>1. \A w \in Users : page'[w].id # NoCall => page'[w].id \in given
    BY <1>1, <2>0, IdlePageIs DEF IdsGiven
  <2>2. \A w \in Users, x \in CallIds, i \in Nat : Sent(w, i, x)' => x \in given
    BY <1>2, <2>0, NoCallAssumption DEF Sent, IdsGiven
  <2>3. \A w, v \in Users : \A i \in DOMAIN toPage'[w][v] :
          toPage'[w][v][i].id \in given
    BY <1>1, <1>3, <2>0, EventIdsKept
  <2> QED
    BY <1>1, <2>0, <2>1, <2>2, <2>3 DEF IdsGiven, callVars
<1>10. EndsFinal'
  <2> SUFFICES ASSUME NEW w \in Users, NEW i \in DOMAIN toServer'[w],
                      toServer'[w][i].type \in EndTypes,
                      page'[w].id = toServer'[w][i].id, HasCurrentCall(w)'
               PROVE  FALSE
    BY DEF EndsFinal, InCall
  <2>1. HasCurrentCall(w) /\ page'[w] = page[w]
    BY <1>7
  <2>2. i \in DOMAIN toServer[w] /\ toServer'[w][i] = toServer[w][i]
    BY <1>2, <2>1, IdlePageIs DEF EndTypes, HasCurrentCall
  <2> QED
    BY <1>0, <2>1, <2>2 DEF InvitesInv, EndsFinal, InCall
<1>11. InvitedOnce'
  BY <1>0, <1>3, <1>5, InvitedOnceKept DEF InvitesInv
<1>12. InvitedFirst'
  <2> SUFFICES ASSUME NEW x \in CallIds, NEW w \in Users, NEW i \in Nat
               PROVE  InvitedFirst!(x, w, i)'
    BY DEF InvitedFirst
  <2>1. InvitedFirst
    BY <1>0 DEF InvitesInv
  <2>2. Inviting(w, i, x)' =>
          /\ toServer'[w][i].to # w
          /\ \A y \in Users \ {w} : Untouched(y, x)'
    BY <1>5, <1>6, <2>1 DEF InvitedFirst
  <2>3. ASSUME NEW y \in Users, Invited(y, w, i, x)'
        PROVE  Untouched(y, x)'
    <3>0. y # u
      <4>1. toPage'[u][w] = <<>>
        BY <1>3
      <4> QED
        BY <2>3, <4>1 DEF Invited
    <3>1. Invited(y, w, i, x)
      <4>1. toPage'[y][w] = toPage[y][w]
        BY <1>3, <3>0
      <4> QED
        BY <2>3, <4>1 DEF Invited
    <3> QED
      BY <1>6, <2>1, <3>1 DEF InvitedFirst
  <2> QED
    BY <2>2, <2>3
<1>13. InvitesBacked'
  BY <1>0, <1>1, <1>3, InvitesBackedKept DEF InvitesInv
<1>14. PagesBacked'
  <2> SUFFICES ASSUME NEW w \in Users, HasCurrentCall(w)'
               PROVE  Backed(w, page[w].id)'
    BY DEF PagesBacked, Backed
  <2>1. CASE w = u
    BY <1>1, <2>1 DEF Backed
  <2>2. CASE w # u
    <3>1. HasCurrentCall(w) /\ page'[w] = page[w]
      BY <1>7
    <3>2. Backed(w, page[w].id)
      BY <1>0, <3>1, BackedIs
    <3>3. /\ calls' = calls /\ link'[w] = link[w]
          /\ toServer'[w] = toServer[w]
          /\ \A v \in Users : toPage'[w][v] = toPage[w][v]
      BY <1>1, <1>3, <2>2 DEF callVars
    <3> QED
      BY <3>1, <3>2, <3>3 DEF Backed
  <2> QED
    BY <2>1, <2>2
<1> QED
  BY <1>4, <1>8, <1>9, <1>10, <1>11, <1>12, <1>13, <1>14
     DEF PagesInv, InvitesInv

-----------------------------------------------------------------------------
(* The server takes a request.                                             *)

(* What the server adds to the queues of the pages.                        *)
LEMMA TellsIs ==
  ASSUME PageInv, NEW u \in Users, NEW m, Tells(u, m)
  PROVE  /\ toPage' \in [Users -> [Users -> Seq(Event)]]
         /\ \A w, v \in Users : \A i \in DOMAIN toPage[w][v] :
              i \in DOMAIN toPage'[w][v] /\ toPage'[w][v][i] = toPage[w][v][i]
         /\ \A w, v \in Users : \A i \in DOMAIN toPage'[w][v] :
              \/ i \in DOMAIN toPage[w][v]
                 /\ toPage'[w][v][i] = toPage[w][v][i]
              \/ LET e == toPage'[w][v][i] IN
                   /\ v = u /\ link[w] = "open" /\ e.id \in given
                   /\ i = Len(toPage[w][v]) + 1
                   /\ e.type = "call_invite" =>
                        m.type = "call_invite" /\ w = m.to /\ e.id = m.id
                          /\ Begun(u, m)
<1>1. toPage \in [Users -> [Users -> Seq(Event)]]
  BY DEF PageInv, WebTypes
<1>2. CASE toPage' = toPage
  BY <1>1, <1>2
<1>3. CASE toPage' # toPage
  <2>1. PICK dest \in Users, e \in Event :
          /\ link[dest] = "open"
          /\ toPage' = [toPage EXCEPT ![dest][u] = Append(@, e)]
          /\ e.id \in given
          /\ e.type = "call_invite" =>
               m.type = "call_invite" /\ dest = m.to /\ e.id = m.id
                 /\ Begun(u, m)
    BY <1>3 DEF Tells
  <2> DEFINE s == toPage[dest][u]
  <2>2. s \in Seq(Event)
    BY <1>1
  <2>3. /\ Append(s, e) \in Seq(Event)
        /\ \A i \in DOMAIN s :
             i \in DOMAIN Append(s, e) /\ Append(s, e)[i] = s[i]
        /\ \A i \in DOMAIN Append(s, e) :
             \/ i \in DOMAIN s /\ Append(s, e)[i] = s[i]
             \/ i = Len(s) + 1 /\ Append(s, e)[i] = e
    BY <2>2, AppendAt
  <2>4. /\ toPage'[dest][u] = Append(s, e)
        /\ \A w, v \in Users :
             w # dest \/ v # u => toPage'[w][v] = toPage[w][v]
    BY <1>1, <2>1
  <2>5. toPage' \in [Users -> [Users -> Seq(Event)]]
    BY <1>1, <2>1, <2>3
  <2> HIDE DEF s
  <2>6. ASSUME NEW w \in Users, NEW v \in Users
        PROVE  \A i \in DOMAIN toPage[w][v] :
                 i \in DOMAIN toPage'[w][v]
                   /\ toPage'[w][v][i] = toPage[w][v][i]
    BY <2>3, <2>4 DEF s
  <2>7. ASSUME NEW w \in Users, NEW v \in Users, NEW i \in DOMAIN toPage'[w][v]
        PROVE  \/ i \in DOMAIN toPage[w][v]
                  /\ toPage'[w][v][i] = toPage[w][v][i]
               \/ /\ w = dest /\ v = u /\ i = Len(toPage[w][v]) + 1
                  /\ toPage'[w][v][i] = e
    BY <2>3, <2>4 DEF s
  <2> QED
    BY <2>1, <2>5, <2>6, <2>7
<1> QED
  BY <1>2, <1>3

(* What the server takes from the queue of a page.                         *)
LEMMA ReadIs ==
  ASSUME PageInv, NEW u \in Users, toServer[u] # <<>>,
         toServer' = [toServer EXCEPT ![u] = Tail(@)]
  PROVE  /\ toServer' \in [Users -> Seq(Message)]
         /\ \A w \in Users \ {u} : toServer'[w] = toServer[w]
         /\ \A i \in DOMAIN toServer'[u] :
              /\ i \in Nat /\ i + 1 \in DOMAIN toServer[u]
              /\ toServer'[u][i] = toServer[u][i + 1]
         /\ \A i \in DOMAIN toServer[u] :
              \/ i = 1
              \/ /\ i - 1 \in DOMAIN toServer'[u]
                 /\ toServer'[u][i - 1] = toServer[u][i]
<1>1. toServer[u] \in Seq(Message)
  BY QueueTypes
<1>2. toServer'[u] = Tail(toServer[u])
      /\ \A w \in Users \ {u} : toServer'[w] = toServer[w]
  BY DEF PageInv, WebTypes
<1> DEFINE s == toServer[u]
<1>3. /\ Tail(s) \in Seq(Message)
      /\ \A i \in DOMAIN Tail(s) :
           i \in Nat /\ i + 1 \in DOMAIN s /\ Tail(s)[i] = s[i + 1]
      /\ \A i \in DOMAIN s :
           \/ i = 1
           \/ i - 1 \in DOMAIN Tail(s) /\ Tail(s)[i - 1] = s[i]
  BY <1>1, TailAt
<1>4. toServer' \in [Users -> Seq(Message)]
  BY <1>3 DEF PageInv, WebTypes
<1>5. toServer'[u] = Tail(s)
  BY <1>2
<1> HIDE DEF s
<1>6. \A i \in DOMAIN toServer'[u] :
        i \in Nat /\ i + 1 \in DOMAIN s /\ toServer'[u][i] = s[i + 1]
  BY <1>3, <1>5
<1>7. \A i \in DOMAIN s :
        \/ i = 1
        \/ i - 1 \in DOMAIN toServer'[u] /\ toServer'[u][i - 1] = s[i]
  BY <1>3, <1>5
<1> QED
  BY <1>2, <1>4, <1>6, <1>7 DEF s

(* Serving a request keeps the invariant.                                  *)
LEMMA ServeInv ==
  ASSUME PagesInv, NEW u \in Users, Serve(u)
  PROVE  PagesInv'
<1>0. PageInv /\ InvitesInv /\ PagesBacked
  BY DEF PagesInv
<1>1. PICK m :
        /\ toServer[u] # <<>> /\ m = toServer[u][1]
        /\ toServer' = [toServer EXCEPT ![u] = Tail(@)]
        /\ ServeEffect(u, m)
        /\ UNCHANGED <<page, tasks, link, given>>
        /\ online' = IF m.type = "close" THEN online \ {u} ELSE online
  BY <1>0, ServeIs
<1>2. /\ toPage' \in [Users -> [Users -> Seq(Event)]]
      /\ \A w, v \in Users : \A i \in DOMAIN toPage[w][v] :
           i \in DOMAIN toPage'[w][v] /\ toPage'[w][v][i] = toPage[w][v][i]
      /\ \A w, v \in Users : \A i \in DOMAIN toPage'[w][v] :
           \/ i \in DOMAIN toPage[w][v]
              /\ toPage'[w][v][i] = toPage[w][v][i]
           \/ LET e == toPage'[w][v][i] IN
                /\ v = u /\ link[w] = "open" /\ e.id \in given
                /\ i = Len(toPage[w][v]) + 1
                /\ e.type = "call_invite" =>
                     m.type = "call_invite" /\ w = m.to /\ e.id = m.id
                       /\ Begun(u, m)
  BY <1>0, <1>1, TellsIs DEF ServeEffect
<1>3. /\ toServer' \in [Users -> Seq(Message)]
      /\ \A w \in Users \ {u} : toServer'[w] = toServer[w]
      /\ \A i \in DOMAIN toServer'[u] :
           /\ i \in Nat /\ i + 1 \in DOMAIN toServer[u]
           /\ toServer'[u][i] = toServer[u][i + 1]
      /\ \A i \in DOMAIN toServer[u] :
           \/ i = 1
           \/ /\ i - 1 \in DOMAIN toServer'[u]
              /\ toServer'[u][i - 1] = toServer[u][i]
  BY <1>0, <1>1, ReadIs
<1>4. ASSUME NEW w \in Users, NEW i \in DOMAIN toServer'[w]
      PROVE  \E j \in DOMAIN toServer[w] :
               /\ j \in Nat /\ toServer'[w][i] = toServer[w][j]
               /\ w = u => j = i + 1
               /\ w # u => j = i
  <2>1. toServer[w] \in Seq(Message) /\ toServer'[w] \in Seq(Message)
    BY <1>0, <1>3, QueueTypes
  <2>2. CASE w = u
    <3>1. i \in Nat /\ i + 1 \in DOMAIN toServer[u]
          /\ toServer'[u][i] = toServer[u][i + 1]
      BY <1>3, <2>2
    <3>2. i + 1 \in DOMAIN toServer[w]
          /\ toServer'[w][i] = toServer[w][i + 1]
      BY <2>2, <3>1
    <3> QED
      BY <2>2, <3>1, <3>2
  <2>3. CASE w # u
    <3>1. toServer'[w] = toServer[w]
      BY <1>3, <2>3
    <3>2. i \in DOMAIN toServer[w] /\ i \in Nat
      BY <2>1, <3>1
    <3> QED
      BY <2>3, <3>1, <3>2
  <2> QED
    BY <2>2, <2>3
<1>5. 1 \in DOMAIN toServer[u] /\ m \in Message
      /\ (m.type # "close" => m \in Request /\ m.id \in given)
  <2>1. 1 \in DOMAIN toServer[u]
    BY <1>0, <1>1, QueueTypes, TailAt
  <2>2. IdsGiven /\ toServer[u] \in Seq(Message)
    BY <1>0, QueueTypes DEF InvitesInv
  <2> QED
    BY <1>0, <1>1, <2>1, <2>2, RequestFacts
<1>6. PageInv'
  <2>1. SignalsOfTheirCall'
    BY <1>0, <1>4 DEF PageInv, SignalsOfTheirCall
  <2>2. OwnObjects'
    BY <1>0, <1>1 DEF PageInv, OwnObjects
  <2>3. CallManagerInv'
    BY <1>1 DEF ServeEffect
  <2>4. WebTypes'
    BY <1>0, <1>1, <1>2, <1>3 DEF PageInv, WebTypes
  <2> QED
    BY <2>1, <2>2, <2>3, <2>4 DEF PageInv
<1>7. \A w \in Users, x \in CallIds : Untouched(w, x) => Untouched(w, x)'
  BY <1>1, <1>4 DEF Untouched, Sent
<1>8. GoneStayGone'
  <2>1. GoneStayGone
    BY <1>0 DEF InvitesInv
  <2>2. \A w \in Users : \A i \in DOMAIN toServer'[w] :
          toServer'[w][i].type = "close" => link'[w] # "open"
    BY <1>1, <1>4, <2>1 DEF GoneStayGone
  <2>3. ASSUME NEW w \in Users, NEW v \in Users, link'[w] # "open"
        PROVE  toPage'[w][v] = <<>>
    <3>1. toPage[w][v] = <<>> /\ link[w] # "open"
      BY <1>1, <2>1, <2>3 DEF GoneStayGone
    <3>2. \A i \in DOMAIN toPage'[w][v] : FALSE
      BY <1>2, <3>1
    <3>3. toPage'[w][v] \in Seq(Event)
      BY <1>2
    <3>4. toPage'[w][v] # <<>> => 1 \in DOMAIN toPage'[w][v]
      BY <3>3, TailAt
    <3> QED
      BY <3>2, <3>4
  <2>4. \A w \in Users : link'[w] = "open" => w \in online'
    BY <1>1, <1>5, <2>1 DEF GoneStayGone
  <2> QED
    BY <2>2, <2>3, <2>4 DEF GoneStayGone
<1>9. IdsGiven'
  <2>0. IdsGiven
    BY <1>0 DEF InvitesInv
  <2>1. \A w \in Users : page'[w].id # NoCall => page'[w].id \in given
    BY <1>1, <2>0 DEF IdsGiven
  <2>2. \A w \in Users, x \in CallIds, i \in Nat : Sent(w, i, x)' => x \in given
    BY <1>4, <2>0 DEF Sent, IdsGiven
  <2>3. \A w, v \in Users : \A i \in DOMAIN toPage'[w][v] :
          toPage'[w][v][i].id \in given
    BY <1>2, <2>0 DEF IdsGiven
  <2> QED
    BY <1>1, <2>1, <2>2, <2>3 DEF IdsGiven, ServeEffect
<1>10. EndsFinal'
  <2> SUFFICES ASSUME NEW w \in Users, NEW i \in DOMAIN toServer'[w],
                      toServer'[w][i].type \in EndTypes,
                      page'[w].id = toServer'[w][i].id, HasCurrentCall(w)'
               PROVE  FALSE
    BY DEF EndsFinal, InCall
  <2>1. PICK j \in DOMAIN toServer[w] : toServer'[w][i] = toServer[w][j]
    BY <1>4
  <2> QED
    BY <1>0, <1>1, <2>1 DEF InvitesInv, EndsFinal, InCall, HasCurrentCall
<1>11. ASSUME NEW w \in Users, NEW i \in Nat, NEW x \in CallIds,
              Inviting(w, i, x)'
       PROVE  \E j \in Nat :
                /\ Inviting(w, j, x) /\ toServer'[w][i] = toServer[w][j]
                /\ w = u => j = i + 1 /\ j # 1
                /\ w # u => j = i
  <2>1. i \in DOMAIN toServer'[w] /\ i # 0
    BY <1>3, <1>11 DEF Inviting
  <2>2. PICK j \in DOMAIN toServer[w] :
          /\ j \in Nat /\ toServer'[w][i] = toServer[w][j]
          /\ w = u => j = i + 1
          /\ w # u => j = i
    BY <1>4, <2>1
  <2> QED
    BY <1>11, <2>1, <2>2 DEF Inviting
<1>12. m.type = "call_invite" =>
         /\ m.id \in CallIds /\ Inviting(u, 1, m.id) /\ m.to # u
         /\ \A w \in Users \ {u} : Untouched(w, m.id)
         /\ \A w \in Users, i \in Nat : ~Inviting(w, i, m.id)'
         /\ \A w, v \in Users, i \in Nat : ~Invited(w, v, i, m.id)
  <2> SUFFICES ASSUME m.type = "call_invite"
               PROVE  /\ m.id \in CallIds /\ Inviting(u, 1, m.id) /\ m.to # u
                      /\ \A w \in Users \ {u} : Untouched(w, m.id)
                      /\ \A w \in Users, i \in Nat : ~Inviting(w, i, m.id)'
                      /\ \A w, v \in Users, i \in Nat : ~Invited(w, v, i, m.id)
    OBVIOUS
  <2>1. m.id \in CallIds /\ Inviting(u, 1, m.id)
    BY <1>1, <1>5 DEF Inviting, Request
  <2>2. InvitedOnce /\ InvitedFirst
    BY <1>0 DEF InvitesInv
  <2>3. m.to # u /\ \A w \in Users \ {u} : Untouched(w, m.id)
    BY <1>1, <2>1, <2>2 DEF InvitedFirst
  <2>4. \A w, v \in Users, i \in Nat : ~Invited(w, v, i, m.id)
    BY <2>1, <2>2 DEF InvitedOnce
  <2>5. ASSUME NEW w \in Users, NEW i \in Nat, Inviting(w, i, m.id)'
        PROVE  FALSE
    <3>1. PICK j \in Nat : Inviting(w, j, m.id) /\ (w = u => j # 1)
      BY <1>11, <2>1, <2>5
    <3>2. w = u /\ j = 1
      BY <2>1, <2>2, <3>1 DEF InvitedOnce
    <3> QED
      BY <3>1, <3>2
  <2> QED
    BY <2>1, <2>3, <2>4, <2>5
<1>13. ASSUME NEW w \in Users, NEW v \in Users, NEW i \in Nat,
              NEW x \in CallIds, Invited(w, v, i, x)'
       PROVE  \/ Invited(w, v, i, x)
              \/ /\ m.type = "call_invite" /\ v = u /\ w = m.to /\ x = m.id
                 /\ i = Len(toPage[w][u]) + 1 /\ Begun(u, m)
  BY <1>2, <1>13 DEF Invited
<1>14. InvitedOnce'
  <2> SUFFICES ASSUME NEW x \in CallIds, NEW y \in Users, NEW v \in Users,
                      NEW w \in Users, NEW i \in Nat, NEW j \in Nat
               PROVE  /\ Inviting(v, i, x)' /\ Inviting(w, j, x)' =>
                           v = w /\ i = j
                      /\ ~(Inviting(w, j, x)' /\ Invited(y, v, i, x)')
                      /\ Invited(y, v, i, x)' /\ Invited(y, w, j, x)' =>
                           v = w /\ i = j
    BY DEF InvitedOnce
  <2>1. InvitedOnce
    BY <1>0 DEF InvitesInv
  <2>2. ASSUME Inviting(v, i, x)', Inviting(w, j, x)' PROVE v = w /\ i = j
    <3>1. PICK k \in Nat : /\ Inviting(v, k, x)
                           /\ v = u => k = i + 1
                           /\ v # u => k = i
      BY <1>11, <2>2
    <3>2. PICK l \in Nat : /\ Inviting(w, l, x)
                           /\ w = u => l = j + 1
                           /\ w # u => l = j
      BY <1>11, <2>2
    <3>3. v = w /\ k = l
      BY <2>1, <3>1, <3>2 DEF InvitedOnce
    <3> QED
      BY <3>1, <3>2, <3>3
  <2>3. ASSUME Inviting(w, j, x)', Invited(y, v, i, x)' PROVE FALSE
    <3>1. Invited(y, v, i, x)
      BY <1>12, <1>13, <2>3
    <3>2. PICK l \in Nat : Inviting(w, l, x)
      BY <1>11, <2>3
    <3> QED
      BY <2>1, <3>1, <3>2 DEF InvitedOnce
  <2>4. ASSUME Invited(y, v, i, x)', Invited(y, w, j, x)' PROVE v = w /\ i = j
    <3>1. CASE Invited(y, v, i, x) /\ Invited(y, w, j, x)
      BY <2>1, <3>1 DEF InvitedOnce
    <3>2. CASE ~(Invited(y, v, i, x) /\ Invited(y, w, j, x))
      <4>1. m.type = "call_invite" /\ x = m.id
        BY <1>13, <2>4, <3>2
      <4>2. ~Invited(y, v, i, x) /\ ~Invited(y, w, j, x)
        BY <1>12, <4>1
      <4> QED
        BY <1>13, <2>4, <4>2
    <3> QED
      BY <3>1, <3>2
  <2> QED
    BY <2>2, <2>3, <2>4
<1>15. InvitedFirst'
  <2> SUFFICES ASSUME NEW x \in CallIds, NEW w \in Users, NEW i \in Nat
               PROVE  InvitedFirst!(x, w, i)'
    BY DEF InvitedFirst
  <2>1. InvitedFirst
    BY <1>0 DEF InvitesInv
  <2>2. ASSUME Inviting(w, i, x)'
        PROVE  /\ toServer'[w][i].to # w
               /\ \A y \in Users \ {w} : Untouched(y, x)'
    <3>1. PICK j \in Nat :
            Inviting(w, j, x) /\ toServer'[w][i] = toServer[w][j]
      BY <1>11, <2>2
    <3> QED
      BY <1>7, <2>1, <3>1 DEF InvitedFirst
  <2>3. ASSUME NEW y \in Users, Invited(y, w, i, x)'
        PROVE  Untouched(y, x)'
    <3>1. Untouched(y, x)
      BY <1>12, <1>13, <2>1, <2>3 DEF InvitedFirst
    <3> QED
      BY <1>7, <3>1
  <2> QED
    BY <2>2, <2>3
<1>16. InvitesBacked'
  <2> SUFFICES ASSUME NEW w \in Users, NEW v \in Users, NEW i \in Nat,
                      NEW x \in CallIds, Invited(w, v, i, x)'
               PROVE  InvitesBacked!(w, v, i, x)!2'
    BY DEF InvitesBacked
  <2>1. CASE ~Invited(w, v, i, x)
    BY <1>13, <2>1 DEF Begun
  <2>2. CASE Invited(w, v, i, x)
    <3>1. InvitesBacked /\ InvitedFirst /\ GoneStayGone
      BY <1>0 DEF InvitesInv
    <3>2. Untouched(w, x)
      BY <2>2, <3>1 DEF InvitedFirst
    <3>3. CASE /\ x \in DOMAIN calls
               /\ calls[x].callee = w /\ calls[x].caller = v
      <4>1. Kept(x) \/ Ended(u, m, x)
        BY <1>1, <3>3 DEF ServeEffect
      <4>2. CASE Kept(x)
        BY <3>3, <4>2 DEF Kept
      <4>3. CASE Ended(u, m, x)
        <5>1. link[w] = "open" /\ toPage[w][v] \in Seq(Event)
          BY <1>0, <2>2, <3>1, QueueTypes DEF GoneStayGone, Invited
        <5>2. u # w
          <6> SUFFICES ASSUME u = w PROVE FALSE
            OBVIOUS
          <6>1. m.type # "close"
            BY <1>1, <1>5, <3>1, <5>1 DEF GoneStayGone
          <6>2. Sent(u, 1, x)
            BY <1>1, <1>5, <4>3, <6>1 DEF Sent, Ended
          <6> QED
            BY <3>2, <6>2 DEF Untouched
        <5>3. u = v /\ Told(w, u, EndOf(u, x))
          BY <3>3, <4>3, <5>2 DEF Ended
        <5>4. toPage'[w][v] = Append(toPage[w][v], EndOf(u, x))
          BY <5>1, <5>3 DEF Told
        <5>5. PICK j : /\ j \in DOMAIN toPage'[w][v] /\ i < j
                       /\ toPage'[w][v][j] = EndOf(u, x)
          BY <2>2, <5>1, <5>4 DEF Invited
        <5> QED
          BY <5>5 DEF EndOf
      <4> QED
        BY <4>1, <4>2, <4>3
    <3>4. ASSUME NEW j \in DOMAIN toPage[w][v], i < j,
                 toPage[w][v][j].type = "end", toPage[w][v][j].id = x
          PROVE  InvitesBacked!(w, v, i, x)!2'
      BY <1>2, <3>4
    <3> QED
      BY <2>2, <3>1, <3>3, <3>4 DEF InvitesBacked
  <2> QED
    BY <2>1, <2>2
<1>17. PagesBacked'
  <2> SUFFICES ASSUME NEW w \in Users, HasCurrentCall(w)'
               PROVE  Backed(w, page[w].id)'
    BY DEF PagesBacked, Backed
  <2>1. HasCurrentCall(w) /\ page'[w].id = page[w].id
    BY <1>1 DEF HasCurrentCall
  <2>2. PICK x \in CallIds : x = page[w].id /\ Backed(w, x)
    BY <1>0, <2>1, PageFacts, BackedIs DEF ObjectOfCall, PageState, HasCurrentCall
  <2> SUFFICES Backed(w, x)'
    BY <2>1, <2>2 DEF Backed
  <2>3. ASSUME Told(w, u, EndOf(u, x)) PROVE Backed(w, x)'
    <3>1. CASE link[w] # "open"
      BY <1>1, <3>1 DEF Backed
    <3>2. CASE link[w] = "open"
      <4>1. toPage[w][u] \in Seq(Event)
        BY <1>0, QueueTypes
      <4>2. toPage'[w][u] = Append(toPage[w][u], EndOf(u, x))
        BY <2>3, <3>2 DEF Told
      <4>3. PICK j : /\ j \in DOMAIN toPage'[w][u]
                     /\ toPage'[w][u][j] = EndOf(u, x)
        BY <4>1, <4>2
      <4> QED
        BY <4>3 DEF Backed, EndOf
    <3> QED
      BY <3>1, <3>2
  <2>4. CASE x \in DOMAIN calls /\ w \in {calls[x].caller, calls[x].callee}
    <3>1. Kept(x) \/ Ended(u, m, x)
      BY <1>1, <2>4 DEF ServeEffect
    <3>2. CASE Kept(x)
      BY <2>4, <3>2 DEF Kept, Backed
    <3>3. CASE Ended(u, m, x)
      <4>1. ~(w = u /\ m.type \in EndTypes)
        <5> SUFFICES ASSUME w = u, m.type \in EndTypes PROVE FALSE
          OBVIOUS
        <5>1. m.id = x
          BY <3>3 DEF Ended, EndTypes
        <5> QED
          BY <1>0, <1>1, <1>5, <2>1, <2>2, <5>1
             DEF InvitesInv, EndsFinal, InCall
      <4>2. Told(w, u, EndOf(u, x))
        BY <2>4, <3>3, <4>1 DEF Ended
      <4> QED
        BY <2>3, <4>2
    <3> QED
      BY <3>1, <3>2, <3>3
  <2>5. ASSUME NEW i \in DOMAIN toServer[w],
               toServer[w][i].type = "call_invite", toServer[w][i].id = x
        PROVE  Backed(w, x)'
    <3>1. CASE w = u /\ i = 1
      <4>1. Begun(u, m) \/ Told(u, u, EndOf(u, x))
        BY <1>1, <2>5, <3>1 DEF ServeEffect
      <4>2. CASE Begun(u, m)
        BY <1>1, <2>5, <3>1, <4>2 DEF Begun, Backed
      <4> QED
        BY <2>3, <3>1, <4>1, <4>2
    <3>2. CASE ~(w = u /\ i = 1)
      <4>1. \E j \in DOMAIN toServer'[w] : toServer'[w][j] = toServer[w][i]
        BY <1>3, <2>5, <3>2
      <4> QED
        BY <2>5, <4>1 DEF Backed
    <3> QED
      BY <3>1, <3>2
  <2>6. ASSUME NEW v \in Users, NEW i \in DOMAIN toPage[w][v],
               toPage[w][v][i].type = "end", toPage[w][v][i].id = x
        PROVE  Backed(w, x)'
    <3>1. i \in DOMAIN toPage'[w][v] /\ toPage'[w][v][i] = toPage[w][v][i]
      BY <1>2
    <3> QED
      BY <2>6, <3>1 DEF Backed
  <2>7. CASE link[w] # "open"
    BY <1>1, <2>7 DEF Backed
  <2> QED
    BY <2>2, <2>4, <2>5, <2>6, <2>7 DEF Backed
<1> QED
  BY <1>6, <1>8, <1>9, <1>10, <1>14, <1>15, <1>16, <1>17
     DEF PagesInv, InvitesInv

-----------------------------------------------------------------------------
(* Every page starts idle, with nothing on its way.                        *)
LEMMA WebInitInv == WebInit => PagesInv
<1> SUFFICES ASSUME WebInit PROVE PagesInv
  OBVIOUS
<1>1. /\ \A u \in Users : page[u] = IdlePage /\ link[u] = "open"
                          /\ toServer[u] = <<>> /\ tasks[u] = {}
      /\ \A u, v \in Users : toPage[u][v] = <<>>
      /\ online = Users /\ given = {} /\ DOMAIN calls = {}
  BY DEF WebInit, Init, EmptyMap
<1>2. PageInv
  <2>1. CallManagerInv
    BY InitInv DEF WebInit
  <2>2. <<>> \in Seq(Message) /\ <<>> \in Seq(Event)
    OBVIOUS
  <2>3. WebTypes
    BY <2>2, IdlePageIs DEF WebInit, WebTypes
  <2>4. OwnObjects /\ SignalsOfTheirCall
    BY <1>1, IdlePageIs DEF OwnObjects, SignalsOfTheirCall
  <2> QED
    BY <2>1, <2>3, <2>4 DEF PageInv
<1>3. InvitesInv
  <2>1. /\ \A u \in Users, i \in Nat, id \in CallIds :
             ~Sent(u, i, id) /\ ~Inviting(u, i, id)
        /\ \A u, v \in Users, i \in Nat, id \in CallIds :
             ~Invited(u, v, i, id)
    BY <1>1 DEF Sent, Inviting, Invited
  <2>2. GoneStayGone /\ IdsGiven /\ EndsFinal
    BY <1>1, <2>1, IdlePageIs DEF GoneStayGone, IdsGiven, EndsFinal
  <2>3. InvitedOnce /\ InvitedFirst /\ InvitesBacked
    BY <2>1 DEF InvitedOnce, InvitedFirst, InvitesBacked
  <2> QED
    BY <2>2, <2>3 DEF InvitesInv
<1>4. PagesBacked
  BY <1>1, IdlePageIs DEF PagesBacked, HasCurrentCall
<1> QED
  BY <1>2, <1>3, <1>4 DEF PagesInv

(* A step of a page keeps the invariant.                                   *)
LEMMA PageStepInv ==
  ASSUME PagesInv, NEW u \in Users, PageStep(u)
  PROVE  PagesInv'
  BY PageStepTypes, PageStepInvites, PageStepBacked DEF PagesInv

(* The steps of a page and of its timer that begin no call.                *)
LEMMA OwnStepIs ==
  ASSUME PageInv, NEW u \in Users,
         \/ AcceptIncomingCall(u) \/ EndByButton(u) \/ Dismiss(u)
         \/ FireTimer(u) \/ RtcStep(u) \/ CloseEvent(u)
  PROVE  PageStep(u)
<1>1. PageEffect(u)
  BY AcceptIncomingCallEffect, EndByButtonEffect, DismissEffect,
     FireTimerEffect, GetUserMediaEffect, SetRemoteDescriptionEffect,
     SetLocalDescriptionEffect, RemoteTrackEffect, CloseEventEffect
     DEF RtcStep, MediaFails
<1>2. UNCHANGED <<callVars, online, toPage, given>>
  BY DEF AcceptIncomingCall, EndByButton, Dismiss, FireTimer, RtcStep,
         GetUserMedia, SetRemoteDescription, SetLocalDescription,
         RemoteTrack, MediaFails, CloseEvent, netVars
<1>3. /\ link' \in [Users -> {"open", "closing", "closed"}]
      /\ \A w \in Users : link'[w] = "open" <=> link[w] = "open"
  <2>1. CASE CloseEvent(u)
    BY <2>1 DEF CloseEvent, PageInv, WebTypes
  <2>2. CASE ~CloseEvent(u)
    <3>1. link' = link
      BY <2>2
         DEF AcceptIncomingCall, EndByButton, Dismiss, FireTimer, RtcStep,
             GetUserMedia, SetRemoteDescription, SetLocalDescription,
             RemoteTrack, MediaFails, netVars
    <3> QED
      BY <3>1 DEF PageInv, WebTypes
  <2> QED
    BY <2>1, <2>2
<1> QED
  BY <1>1, <1>2, <1>3 DEF PageStep, Takes

(* Receiving an event keeps the invariant.                                 *)
LEMMA ReceiveInv ==
  ASSUME PagesInv, NEW u \in Users, NEW v \in Users, Receive(u, v)
  PROVE  PagesInv'
<1> DEFINE m == Head(toPage[u][v])
<1>1. CASE m.type = "call_invite"
  BY <1>1, InviteStepInv DEF InviteStep
<1>2. CASE m.type # "call_invite"
  <2>1. PageInv
    BY DEF PagesInv
  <2>2. /\ toPage[u][v] # <<>> /\ Handle(u, m)
        /\ toPage' = [toPage EXCEPT ![u][v] = Tail(@)]
        /\ UNCHANGED <<callVars, link, online, given>>
    BY DEF Receive
  <2>3. m \in Event
    BY <2>1, <2>2, QueueTypes, TailAt
  <2> HIDE DEF m
  <2>4. /\ PageEffect(u)
        /\ m.type = "end" => ~(HasCurrentCall(u)' /\ page'[u].id = m.id)
    BY <1>2, <2>1, <2>2, <2>3, HandleEffect
  <2>5. Takes(u)
    BY <1>2, <2>2, <2>4 DEF Takes, m
  <2>6. PageStep(u)
    BY <2>1, <2>2, <2>4, <2>5 DEF PageStep, PageInv, WebTypes
  <2> QED
    BY <2>6, PageStepInv
<1> QED
  BY <1>1, <1>2

(* Every step keeps the invariant.                                         *)
LEMMA WebStepInv ==
  ASSUME PagesInv, [WebNext]_vars
  PROVE  PagesInv'
<1>1. CASE UNCHANGED vars
  <2>1. UNCHANGED <<callVars, page, tasks, link, online, toServer, toPage,
                    given>>
    BY <1>1 DEF vars, pageVars, netVars
  <2>2. CallManagerInv'
    BY <2>1, UnchangedInv DEF PagesInv, PageInv
  <2>3. PageInv'
    BY <2>1, <2>2
       DEF PagesInv, PageInv, WebTypes, OwnObjects, SignalsOfTheirCall
  <2>4. GoneStayGone' /\ IdsGiven' /\ EndsFinal' /\ InvitedOnce'
    BY <2>1 DEF PagesInv, InvitesInv, GoneStayGone, IdsGiven, EndsFinal,
                InvitedOnce, InCall, HasCurrentCall, Sent, Inviting, Invited,
                callVars
  <2>5. InvitedFirst' /\ InvitesBacked' /\ PagesBacked'
    BY <2>1 DEF PagesInv, InvitesInv, InvitedFirst, InvitesBacked,
                PagesBacked, Untouched, HasCurrentCall, Sent, Inviting,
                Invited, callVars
  <2> QED
    BY <2>3, <2>4, <2>5 DEF PagesInv, InvitesInv
<1>2. ASSUME NEW u \in Users, UserStep(u)
      PROVE  PagesInv'
  <2>1. PageInv
    BY DEF PagesInv
  <2> QED
    BY <1>2, <2>1, StartVideoCallInv, OwnStepIs, PageStepInv, LeaveStepInv,
       LoseConnectionLeaves, UnloadLeaves DEF UserStep
<1>3. ASSUME NEW u \in Users, RtcStep(u) \/ FireTimer(u) \/ CloseEvent(u)
      PROVE  PagesInv'
  <2>1. PageInv
    BY DEF PagesInv
  <2> QED
    BY <1>3, <2>1, OwnStepIs, PageStepInv
<1> QED
  BY <1>1, <1>2, <1>3, ReceiveInv, ServeInv DEF WebNext

(* The invariant holds in every state of the specification.                *)
LEMMA AlwaysPagesInv == WebSpec => []PagesInv
  BY WebInitInv, WebStepInv, PTL DEF WebSpec

(* A page that shows a call is never left with it: the server knows the    *)
(* call, or the invitation or the end of the call is on its way.           *)
THEOREM PagesAlwaysBacked == WebSpec => []PagesBacked
  BY AlwaysPagesInv, PTL DEF PagesInv

(* No offer or answer leaves a page under the id of another call.          *)
THEOREM SignalsAlwaysOfTheirCall == WebSpec => []SignalsOfTheirCall
  BY AlwaysPagesInv, PTL DEF PagesInv, PageInv

(* Camera and microphone only ever run for the call the page is in.        *)
THEOREM CameraOnlyEverInCall == WebSpec => []CameraOnlyInCall
<1>1. PagesInv => CameraOnlyInCall
  <2> SUFFICES ASSUME PagesInv, NEW u \in Users
               PROVE  CameraOnlyInCall!(u)
    BY DEF CameraOnlyInCall
  <2> QED
    BY PageFacts DEF PagesInv, ObjectOfCall, HasCurrentCall
<1> QED
  BY <1>1, AlwaysPagesInv, PTL
=============================================================================
