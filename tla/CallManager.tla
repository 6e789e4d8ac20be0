---------------------------- MODULE CallManager ----------------------------
(***************************************************************************)
(* server/CallManager: who is in which audio/video call.                   *)
(*                                                                         *)
(* Two std::maps under one mutex, kept as functions whose domains are the  *)
(* keys present: users_ (here callUsers) tells what a user is doing, and   *)
(* calls_ (here calls) what is known of a call.  Every public method holds *)
(* the mutex from its first look-up to its last write, so each is one      *)
(* action; the bool or reason it returns is the action's last argument.    *)
(***************************************************************************)
EXTENDS StdMap

CONSTANTS Users, CallIds

VARIABLES callUsers, calls

callVars == <<callUsers, calls>>

(* A user with no entry is idle: stateForUser.                             *)
CallUserState == {"calling", "ringing", "in_call"}

UserCall == [state : CallUserState, callId : CallIds, peer : Users]

CallRecord == [caller : Users, callee : Users, accepted : BOOLEAN]

SignalTypes == {"webrtc_offer", "webrtc_answer", "ice_candidate"}

(* The look-ups every method on an existing call begins with: both users   *)
(* and the call are known and both users name this call and each other.    *)
Facing(user, peer, id) ==
  /\ {user, peer} \subseteq DOMAIN callUsers
  /\ id \in DOMAIN calls
  /\ callUsers[user].callId = id
  /\ callUsers[peer].callId = id
  /\ callUsers[user].peer = peer
  /\ callUsers[peer].peer = user

(* Mutant: only the caller is looked up.                                   *)
StartResultCallerOnly(caller, callee, id) ==
  IF caller \in DOMAIN callUsers THEN "caller_busy"
  ELSE IF id \in DOMAIN calls THEN "duplicate_call_id"
  ELSE "ok"

StartResult(caller, callee, id) ==
  IF caller \in DOMAIN callUsers THEN "caller_busy"
  ELSE IF callee \in DOMAIN callUsers THEN "target_busy"
  ELSE IF id \in DOMAIN calls THEN "duplicate_call_id"
  ELSE "ok"

CanAccept(callee, caller, id) ==
  /\ Facing(callee, caller, id)
  /\ callUsers[callee].state = "ringing"
  /\ callUsers[caller].state = "calling"
  /\ calls[id].caller = caller
  /\ calls[id].callee = callee
  /\ ~calls[id].accepted

(* Mutant: any user may finish a pending call whose id it knows.           *)
FinishAnyPending(user, peer, id, state, asCaller) ==
  id \in DOMAIN calls /\ ~calls[id].accepted

(* finishPendingCall looks at the state of the user only, not the peer's.  *)
CanFinishPending(user, peer, id, state, asCaller) ==
  /\ Facing(user, peer, id)
  /\ callUsers[user].state = state
  /\ ~calls[id].accepted
  /\ user = IF asCaller THEN calls[id].caller ELSE calls[id].callee

CanReject(callee, caller, id) ==
  CanFinishPending(callee, caller, id, "ringing", FALSE)

CanCancel(caller, callee, id) ==
  CanFinishPending(caller, callee, id, "calling", TRUE)

(* Mutant: whether the call was accepted is not looked at.                 *)
InAnyCall(user, peer, id) == Facing(user, peer, id)

(* hangupCall and validateSignaling test the same conditions first.        *)
InActiveCall(user, peer, id) ==
  /\ Facing(user, peer, id)
  /\ callUsers[user].state = "in_call"
  /\ callUsers[peer].state = "in_call"
  /\ calls[id].accepted

SignalingResult(user, peer, id, type) ==
  IF ~InActiveCall(user, peer, id) THEN "not_in_same_active_call"
  ELSE IF type = "webrtc_offer" /\ calls[id].caller # user
       THEN "only_caller_can_offer"
  ELSE IF type = "webrtc_answer" /\ calls[id].callee # user
       THEN "only_callee_can_answer"
  ELSE "ok"

(* What removeUser hands back about the call it ended.                     *)
DisconnectEvent(user) == callUsers[user]

-----------------------------------------------------------------------------

Init ==
  /\ callUsers = EmptyMap
  /\ calls = EmptyMap

(* Mutant: the callee's entry stays.                                       *)
EraseCallOfCaller(id) ==
  /\ callUsers' = EraseKeys(callUsers, {calls[id].caller})
  /\ calls' = EraseKeys(calls, {id})

EraseCall(id) ==
  IF id \in DOMAIN calls
  THEN /\ callUsers' = EraseKeys(callUsers, {calls[id].caller,
                                             calls[id].callee})
       /\ calls' = EraseKeys(calls, {id})
  ELSE UNCHANGED callVars

(* The callee's entry is written last, over the caller's if they were the  *)
(* same user; ChatServer.cc:635 never asks for that.                       *)
StartCall(caller, callee, id, result) ==
  /\ result = StartResult(caller, callee, id)
  /\ IF result = "ok"
     THEN /\ calls' = Put(calls, id, [caller |-> caller, callee |-> callee,
                                      accepted |-> FALSE])
          /\ callUsers' =
               Put(Put(callUsers,
                       caller, [state |-> "calling", callId |-> id,
                                peer |-> callee]),
                   callee, [state |-> "ringing", callId |-> id,
                            peer |-> caller])
     ELSE UNCHANGED callVars

AcceptCall(callee, caller, id, ok) ==
  /\ ok = CanAccept(callee, caller, id)
  /\ IF ok
     THEN /\ callUsers' = [callUsers EXCEPT ![callee].state = "in_call",
                                            ![caller].state = "in_call"]
          /\ calls' = [calls EXCEPT ![id].accepted = TRUE]
     ELSE UNCHANGED callVars

RejectCall(callee, caller, id, ok) ==
  /\ ok = CanReject(callee, caller, id)
  /\ IF ok THEN EraseCall(id) ELSE UNCHANGED callVars

(* cancelCall, and timeoutCall, which has the same body.                   *)
CancelCall(caller, callee, id, ok) ==
  /\ ok = CanCancel(caller, callee, id)
  /\ IF ok THEN EraseCall(id) ELSE UNCHANGED callVars

HangupCall(user, peer, id, ok) ==
  /\ ok = InActiveCall(user, peer, id)
  /\ IF ok THEN EraseCall(id) ELSE UNCHANGED callVars

RemoveUser(user, removed) ==
  /\ removed = (user \in DOMAIN callUsers)
  /\ IF removed THEN EraseCall(callUsers[user].callId) ELSE UNCHANGED callVars

Next ==
  \/ \E user, peer \in Users, id \in CallIds :
       /\ user # peer
       /\ \/ \E result \in {"ok", "caller_busy", "target_busy",
                            "duplicate_call_id"} :
               StartCall(user, peer, id, result)
          \/ \E ok \in BOOLEAN :
               \/ AcceptCall(user, peer, id, ok)
               \/ RejectCall(user, peer, id, ok)
               \/ CancelCall(user, peer, id, ok)
               \/ HangupCall(user, peer, id, ok)
  \/ \E user \in Users, removed \in BOOLEAN : RemoveUser(user, removed)

Spec == Init /\ [][Next]_callVars

-----------------------------------------------------------------------------
(* Both maps hold entries of their types, for known users and ids.         *)
TypeOK ==
  /\ DOMAIN callUsers \subseteq Users
  /\ callUsers = [u \in DOMAIN callUsers |-> callUsers[u]]
  /\ \A u \in DOMAIN callUsers : callUsers[u] \in UserCall
  /\ DOMAIN calls \subseteq CallIds
  /\ calls = [id \in DOMAIN calls |-> calls[id]]
  /\ \A id \in DOMAIN calls : calls[id] \in CallRecord

(* What users_ must say of a user of call c.                               *)
StateIn(u, c) ==
  IF c.accepted THEN "in_call"
  ELSE IF u = c.caller THEN "calling" ELSE "ringing"

(* Every user entry is one half of a call that calls_ knows ...            *)
UsersHaveCalls ==
  \A u \in DOMAIN callUsers :
    LET e == callUsers[u] IN
      /\ e.callId \in DOMAIN calls
      /\ <<u, e.peer>> \in {<<calls[e.callId].caller, calls[e.callId].callee>>,
                            <<calls[e.callId].callee, calls[e.callId].caller>>}
      /\ e.state = StateIn(u, calls[e.callId])

(* ... and every call holds both of its users and nobody else's entry.     *)
CallsHaveUsers ==
  \A id \in DOMAIN calls :
    LET c == calls[id] IN
      /\ c.caller # c.callee
      /\ {c.caller, c.callee} \subseteq DOMAIN callUsers
      /\ callUsers[c.caller].callId = id
      /\ callUsers[c.callee].callId = id

(* The two maps of CallManager.h:86-87 describe the same calls: no user is *)
(* left busy by a call that is gone, and no call lacks one of its users.   *)
MapsAgree == UsersHaveCalls /\ CallsHaveUsers

Pending(caller, callee, id) ==
  /\ id \in DOMAIN calls
  /\ calls[id].caller = caller
  /\ calls[id].callee = callee
  /\ ~calls[id].accepted

Active(user, peer, id) ==
  /\ id \in DOMAIN calls
  /\ calls[id].accepted
  /\ <<user, peer>> \in {<<calls[id].caller, calls[id].callee>>,
                        <<calls[id].callee, calls[id].caller>>}

(* README.md:233: "Accept/reject/cancel/hangup operations must match the   *)
(* current peer and call_id.  SDP and ICE forwarding is allowed only for   *)
(* two users in the same accepted call."  Each guard, spread over both     *)
(* maps in the code, decides exactly that: it neither lets a stranger in   *)
(* nor turns a party of the call away.                                     *)
GuardsExact ==
  \A u, p \in Users, id \in CallIds :
    /\ CanAccept(u, p, id) <=> Pending(p, u, id)
    /\ CanReject(u, p, id) <=> Pending(p, u, id)
    /\ CanCancel(u, p, id) <=> Pending(u, p, id)
    /\ InActiveCall(u, p, id) <=> Active(u, p, id)
    /\ \A type \in SignalTypes :
         SignalingResult(u, p, id, type) = "ok" <=>
           /\ Active(u, p, id)
           /\ type = "webrtc_offer" => calls[id].caller = u
           /\ type = "webrtc_answer" => calls[id].callee = u

(* Every step of the manager is a step of the abstract pairing, which      *)
(* knows neither users_ nor the order of the look-ups.                     *)
CallOf(id) == [id |-> id, caller |-> calls[id].caller,
               callee |-> calls[id].callee, accepted |-> calls[id].accepted]

Pairing == INSTANCE CallPairing
             WITH active <- {CallOf(id) : id \in DOMAIN calls}

ImplementsPairing == Pairing!Spec
=============================================================================
