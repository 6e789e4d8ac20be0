------------------------- MODULE CallManagerProofs -------------------------
(***************************************************************************)
(* The two maps of the call manager agree, its guards are exact and it     *)
(* implements the pairing of users into calls: for any users and call ids. *)
(***************************************************************************)
EXTENDS CallManager, TLAPS

(* Inductive: removeUser and the guards look a call up by the id they find *)
(* in users_, so the type of one map hangs on its agreement with the other. *)
CallManagerInv == TypeOK /\ MapsAgree

(* No user and no call at the start.                                       *)
LEMMA InitInv == Init => CallManagerInv
  BY DEF Init, EmptyMap, CallManagerInv, TypeOK, MapsAgree, UsersHaveCalls,
         CallsHaveUsers

(* What eraseCallLocked leaves of both maps.                               *)
Erased(id) ==
  /\ DOMAIN callUsers' =
       DOMAIN callUsers \ {calls[id].caller, calls[id].callee}
  /\ callUsers' = [u \in DOMAIN callUsers' |-> callUsers'[u]]
  /\ \A u \in DOMAIN callUsers' : callUsers'[u] = callUsers[u]
  /\ DOMAIN calls' = DOMAIN calls \ {id}
  /\ calls' = [i \in DOMAIN calls' |-> calls'[i]]
  /\ \A i \in DOMAIN calls' : calls'[i] = calls[i]

(* What eraseCall leaves of the two maps.                                  *)
LEMMA EraseEffect ==
  ASSUME NEW id \in DOMAIN calls, EraseCall(id)
  PROVE  Erased(id)
  BY DEF EraseCall, EraseKeys, Restrict, Erased

(* Erasing a call frees both of its users, so the maps still agree.        *)
LEMMA EraseInv ==
  ASSUME CallManagerInv, NEW id \in DOMAIN calls, EraseCall(id)
  PROVE  CallManagerInv'
<1>1. Erased(id)
  BY EraseEffect
<1>2. TypeOK'
  BY <1>1 DEF Erased, CallManagerInv, TypeOK
<1>3. ASSUME NEW u \in DOMAIN callUsers'
      PROVE  UsersHaveCalls!(u)'
  <2>1. UsersHaveCalls!(u)
    BY <1>1 DEF Erased, CallManagerInv, MapsAgree, UsersHaveCalls
  <2>2. callUsers[u].callId # id
    BY <1>1, <2>1 DEF Erased
  <2> QED
    BY <1>1, <2>1, <2>2 DEF Erased, StateIn
<1>4. ASSUME NEW i \in DOMAIN calls'
      PROVE  CallsHaveUsers!(i)'
  <2>1. CallsHaveUsers!(i) /\ CallsHaveUsers!(id) /\ i # id
    BY <1>1 DEF Erased, CallManagerInv, MapsAgree, CallsHaveUsers
  <2> QED
    BY <1>1, <2>1 DEF Erased
<1> QED
  BY <1>2, <1>3, <1>4
     DEF CallManagerInv, MapsAgree, UsersHaveCalls, CallsHaveUsers

(* What startCall adds to both maps when it succeeds.                      *)
Started(caller, callee, id) ==
  /\ caller \notin DOMAIN callUsers
  /\ callee \notin DOMAIN callUsers
  /\ id \notin DOMAIN calls
  /\ DOMAIN callUsers' = DOMAIN callUsers \cup {caller, callee}
  /\ callUsers' = [u \in DOMAIN callUsers' |-> callUsers'[u]]
  /\ \A u \in DOMAIN callUsers : callUsers'[u] = callUsers[u]
  /\ callUsers'[caller] =
       [state |-> "calling", callId |-> id, peer |-> callee]
  /\ callUsers'[callee] =
       [state |-> "ringing", callId |-> id, peer |-> caller]
  /\ DOMAIN calls' = DOMAIN calls \cup {id}
  /\ calls' = [i \in DOMAIN calls' |-> calls'[i]]
  /\ \A i \in DOMAIN calls : calls'[i] = calls[i]
  /\ calls'[id] = [caller |-> caller, callee |-> callee, accepted |-> FALSE]

(* What a started call adds to the two maps.                               *)
LEMMA StartEffect ==
  ASSUME NEW caller \in Users, NEW callee \in Users, NEW id \in CallIds,
         caller # callee, StartCall(caller, callee, id, "ok")
  PROVE  Started(caller, callee, id)
<1>1. /\ caller \notin DOMAIN callUsers
      /\ callee \notin DOMAIN callUsers
      /\ id \notin DOMAIN calls
  BY DEF StartCall, StartResult
<1> QED
  BY <1>1 DEF StartCall, Put, Started

(* A call starts between two free users, so the maps still agree.          *)
LEMMA StartInv ==
  ASSUME CallManagerInv, NEW caller \in Users, NEW callee \in Users,
         NEW id \in CallIds, caller # callee,
         StartCall(caller, callee, id, "ok")
  PROVE  CallManagerInv'
<1>1. Started(caller, callee, id)
  BY StartEffect
<1>2. TypeOK'
  <2>1. callUsers'[caller] \in UserCall /\ callUsers'[callee] \in UserCall
    BY <1>1 DEF Started, UserCall, CallUserState
  <2>2. calls'[id] \in CallRecord
    BY <1>1 DEF Started, CallRecord
  <2>3. \A u \in DOMAIN callUsers' : callUsers'[u] \in UserCall
    BY <1>1, <2>1 DEF Started, CallManagerInv, TypeOK
  <2>4. \A i \in DOMAIN calls' : calls'[i] \in CallRecord
    BY <1>1, <2>2 DEF Started, CallManagerInv, TypeOK
  <2> QED
    BY <1>1, <2>3, <2>4 DEF Started, CallManagerInv, TypeOK
<1>3. ASSUME NEW u \in DOMAIN callUsers'
      PROVE  UsersHaveCalls!(u)'
  <2>1. CASE u \in {caller, callee}
    BY <1>1, <2>1 DEF Started, StateIn
  <2>2. CASE u \in DOMAIN callUsers
    <3>1. UsersHaveCalls!(u)
      BY <2>2 DEF CallManagerInv, MapsAgree, UsersHaveCalls
    <3> QED
      BY <1>1, <2>2, <3>1 DEF Started, StateIn
  <2> QED
    BY <1>1, <2>1, <2>2 DEF Started
<1>4. ASSUME NEW i \in DOMAIN calls'
      PROVE  CallsHaveUsers!(i)'
  <2>1. CASE i = id
    BY <1>1, <2>1 DEF Started
  <2>2. CASE i \in DOMAIN calls
    <3>1. CallsHaveUsers!(i)
      BY <2>2 DEF CallManagerInv, MapsAgree, CallsHaveUsers
    <3> QED
      BY <1>1, <2>2, <3>1 DEF Started
  <2> QED
    BY <1>1, <2>1, <2>2 DEF Started
<1> QED
  BY <1>2, <1>3, <1>4
     DEF CallManagerInv, MapsAgree, UsersHaveCalls, CallsHaveUsers

(* What acceptCall changes when it succeeds.                               *)
Accepted(callee, caller, id) ==
  /\ id \in DOMAIN calls
  /\ calls[id] = [caller |-> caller, callee |-> callee, accepted |-> FALSE]
  /\ {caller, callee} \subseteq DOMAIN callUsers
  /\ callUsers[caller].callId = id
  /\ callUsers[callee].callId = id
  /\ DOMAIN callUsers' = DOMAIN callUsers
  /\ callUsers' = [u \in DOMAIN callUsers' |-> callUsers'[u]]
  /\ \A u \in DOMAIN callUsers :
       /\ callUsers'[u] \in UserCall
       /\ callUsers'[u].callId = callUsers[u].callId
       /\ callUsers'[u].peer = callUsers[u].peer
       /\ callUsers'[u].state = IF u \in {caller, callee} THEN "in_call"
                                ELSE callUsers[u].state
  /\ DOMAIN calls' = DOMAIN calls
  /\ calls' = [i \in DOMAIN calls' |-> calls'[i]]
  /\ \A i \in DOMAIN calls \ {id} : calls'[i] = calls[i]
  /\ calls'[id] = [caller |-> caller, callee |-> callee, accepted |-> TRUE]

(* What an accepted call changes: the states of its two users.             *)
LEMMA AcceptEffect ==
  ASSUME CallManagerInv, NEW callee \in Users, NEW caller \in Users,
         NEW id \in CallIds, AcceptCall(callee, caller, id, TRUE)
  PROVE  Accepted(callee, caller, id)
<1>1. /\ DOMAIN callUsers' = DOMAIN callUsers
      /\ callUsers' = [u \in DOMAIN callUsers' |-> callUsers'[u]]
      /\ \A u \in DOMAIN callUsers :
           callUsers'[u] = IF u \in {caller, callee}
                           THEN [callUsers[u] EXCEPT !.state = "in_call"]
                           ELSE callUsers[u]
  BY DEF AcceptCall, CanAccept, Facing, CallManagerInv, TypeOK
<1>2. \A u \in DOMAIN callUsers :
        /\ callUsers'[u] \in UserCall
        /\ callUsers'[u].callId = callUsers[u].callId
        /\ callUsers'[u].peer = callUsers[u].peer
        /\ callUsers'[u].state = IF u \in {caller, callee} THEN "in_call"
                                 ELSE callUsers[u].state
  BY <1>1 DEF CallManagerInv, TypeOK, UserCall, CallUserState
<1> QED
  BY <1>1, <1>2
     DEF AcceptCall, CanAccept, Facing, CallManagerInv, TypeOK, CallRecord,
         Accepted

(* Accepting moves both users of the call together.                        *)
LEMMA AcceptInv ==
  ASSUME CallManagerInv, NEW callee \in Users, NEW caller \in Users,
         NEW id \in CallIds, AcceptCall(callee, caller, id, TRUE)
  PROVE  CallManagerInv'
<1>1. Accepted(callee, caller, id)
  BY AcceptEffect
<1>2. TypeOK'
  <2>1. calls'[id] \in CallRecord
    BY <1>1 DEF Accepted, CallRecord
  <2>2. \A i \in DOMAIN calls' : calls'[i] \in CallRecord
    BY <1>1, <2>1 DEF Accepted, CallManagerInv, TypeOK
  <2> QED
    BY <1>1, <2>2 DEF Accepted, CallManagerInv, TypeOK
<1>3. ASSUME NEW u \in DOMAIN callUsers'
      PROVE  UsersHaveCalls!(u)'
  <2>1. UsersHaveCalls!(u)
    BY <1>1 DEF Accepted, CallManagerInv, MapsAgree, UsersHaveCalls
  <2>2. CASE callUsers[u].callId = id
    BY <1>1, <2>1, <2>2 DEF Accepted, StateIn
  <2>3. CASE callUsers[u].callId # id
    BY <1>1, <2>1, <2>3 DEF Accepted, StateIn
  <2> QED
    BY <2>2, <2>3
<1>4. ASSUME NEW i \in DOMAIN calls'
      PROVE  CallsHaveUsers!(i)'
  <2>1. CallsHaveUsers!(i)
    BY <1>1 DEF Accepted, CallManagerInv, MapsAgree, CallsHaveUsers
  <2>2. CASE i = id
    BY <1>1, <2>1, <2>2 DEF Accepted
  <2>3. CASE i # id
    BY <1>1, <2>1, <2>3 DEF Accepted
  <2> QED
    BY <2>2, <2>3
<1> QED
  BY <1>2, <1>3, <1>4
     DEF CallManagerInv, MapsAgree, UsersHaveCalls, CallsHaveUsers

(* A refused request leaves the maps as they were.                         *)
LEMMA UnchangedInv ==
  ASSUME CallManagerInv, UNCHANGED callVars
  PROVE  CallManagerInv'
  BY DEF CallManagerInv, TypeOK, MapsAgree, UsersHaveCalls, CallsHaveUsers,
         StateIn, callVars

(* Every operation of the call manager keeps the invariant.                *)
LEMMA StepInv ==
  ASSUME CallManagerInv, [Next]_callVars
  PROVE  CallManagerInv'
<1>1. CASE UNCHANGED callVars
  BY <1>1, UnchangedInv
<1>2. ASSUME NEW user \in Users, NEW peer \in Users, NEW id \in CallIds,
             user # peer,
             NEW result, StartCall(user, peer, id, result)
      PROVE  CallManagerInv'
  <2>1. CASE result = "ok"
    BY <1>2, <2>1, StartInv
  <2>2. CASE result # "ok"
    BY <1>2, <2>2, UnchangedInv DEF StartCall
  <2> QED
    BY <2>1, <2>2
<1>3. ASSUME NEW user \in Users, NEW peer \in Users, NEW id \in CallIds,
             user # peer,
             NEW ok \in BOOLEAN, AcceptCall(user, peer, id, ok)
      PROVE  CallManagerInv'
  <2>1. CASE ok = TRUE
    BY <1>3, <2>1, AcceptInv
  <2>2. CASE ok = FALSE
    BY <1>3, <2>2, UnchangedInv DEF AcceptCall
  <2> QED
    BY <2>1, <2>2
<1>4. ASSUME NEW user \in Users, NEW peer \in Users, NEW id \in CallIds,
             NEW ok \in BOOLEAN,
             \/ RejectCall(user, peer, id, ok)
             \/ CancelCall(user, peer, id, ok)
             \/ HangupCall(user, peer, id, ok)
      PROVE  CallManagerInv'
  <2>1. CASE ok = TRUE
    <3>1. EraseCall(id) /\ id \in DOMAIN calls
      BY <1>4, <2>1 DEF RejectCall, CancelCall, HangupCall, CanReject,
                        CanCancel, CanFinishPending, InActiveCall, Facing
    <3> QED
      BY <3>1, EraseInv
  <2>2. CASE ok = FALSE
    BY <1>4, <2>2, UnchangedInv DEF RejectCall, CancelCall, HangupCall
  <2> QED
    BY <2>1, <2>2
<1>5. ASSUME NEW user \in Users, NEW removed, RemoveUser(user, removed)
      PROVE  CallManagerInv'
  <2>1. CASE user \in DOMAIN callUsers
    <3>1. EraseCall(callUsers[user].callId)
      BY <1>5, <2>1 DEF RemoveUser
    <3>2. callUsers[user].callId \in DOMAIN calls
      BY <2>1 DEF CallManagerInv, MapsAgree, UsersHaveCalls
    <3> QED
      BY <3>1, <3>2, EraseInv
  <2>2. CASE user \notin DOMAIN callUsers
    BY <1>5, <2>2, UnchangedInv DEF RemoveUser
  <2> QED
    BY <2>1, <2>2
<1> QED
  BY <1>1, <1>2, <1>3, <1>4, <1>5 DEF Next

(* Both maps keep their types, and agree on who is in which call, in every *)
(* reachable state, for any number of users and call ids.                  *)
THEOREM AlwaysConsistent == Spec => [](TypeOK /\ MapsAgree)
<1>1. Init => CallManagerInv
  BY InitInv
<1>2. CallManagerInv /\ [Next]_callVars => CallManagerInv'
  BY StepInv
<1> QED
  BY <1>1, <1>2, PTL DEF Spec, CallManagerInv

-----------------------------------------------------------------------------

(* The two entries a call keeps in users_.                                 *)
LEMMA EntriesOfCall ==
  ASSUME CallManagerInv, NEW id \in DOMAIN calls
  PROVE  LET r == calls[id] IN
           /\ r.caller # r.callee
           /\ {r.caller, r.callee} \subseteq DOMAIN callUsers
           /\ callUsers[r.caller].callId = id
           /\ callUsers[r.callee].callId = id
           /\ callUsers[r.caller].peer = r.callee
           /\ callUsers[r.callee].peer = r.caller
           /\ callUsers[r.caller].state =
                IF r.accepted THEN "in_call" ELSE "calling"
           /\ callUsers[r.callee].state =
                IF r.accepted THEN "in_call" ELSE "ringing"
           /\ r.accepted \in BOOLEAN
<1>1. CallsHaveUsers!(id)
  BY DEF CallManagerInv, MapsAgree, CallsHaveUsers
<1>2. UsersHaveCalls!(calls[id].caller) /\ UsersHaveCalls!(calls[id].callee)
  BY <1>1 DEF CallManagerInv, MapsAgree, UsersHaveCalls
<1>3. calls[id].accepted \in BOOLEAN
  BY DEF CallManagerInv, TypeOK, CallRecord
<1> QED
  BY <1>1, <1>2, <1>3 DEF StateIn

(* An entry that names a call belongs to one of its two users.             *)
LEMMA EntryNamesParty ==
  ASSUME CallManagerInv, NEW u \in DOMAIN callUsers
  PROVE  LET r == calls[callUsers[u].callId] IN
           /\ callUsers[u].callId \in DOMAIN calls
           /\ \/ u = r.caller /\ callUsers[u].peer = r.callee
              \/ u = r.callee /\ callUsers[u].peer = r.caller
<1>1. UsersHaveCalls!(u)
  BY DEF CallManagerInv, MapsAgree, UsersHaveCalls
<1> QED
  BY <1>1

(* In a consistent state the guard of every operation is the plain test on *)
(* calls_ that README.md:233 describes.                                    *)
LEMMA GuardsDecide == CallManagerInv => GuardsExact
<1>1. SUFFICES ASSUME CallManagerInv, NEW u \in Users, NEW p \in Users,
                      NEW id \in CallIds
               PROVE  GuardsExact!(u, p, id)
  BY DEF GuardsExact
<1> DEFINE r == calls[id]
<1>2. ASSUME id \in DOMAIN calls
      PROVE  /\ r.caller # r.callee
             /\ {r.caller, r.callee} \subseteq DOMAIN callUsers
             /\ callUsers[r.caller].callId = id
             /\ callUsers[r.callee].callId = id
             /\ callUsers[r.caller].peer = r.callee
             /\ callUsers[r.callee].peer = r.caller
             /\ callUsers[r.caller].state =
                  IF r.accepted THEN "in_call" ELSE "calling"
             /\ callUsers[r.callee].state =
                  IF r.accepted THEN "in_call" ELSE "ringing"
             /\ r.accepted \in BOOLEAN
  BY <1>1, <1>2, EntriesOfCall
<1>3. Facing(u, p, id) <=>
        /\ id \in DOMAIN calls
        /\ \/ u = r.caller /\ p = r.callee
           \/ u = r.callee /\ p = r.caller
  <2>1. ASSUME Facing(u, p, id)
        PROVE  \/ u = r.caller /\ p = r.callee
               \/ u = r.callee /\ p = r.caller
    BY <1>1, <2>1, EntryNamesParty DEF Facing
  <2> QED
    BY <1>2, <2>1 DEF Facing
<1> HIDE DEF r
<1>4. CanAccept(u, p, id) <=> Pending(p, u, id)
  BY <1>2, <1>3 DEF CanAccept, Pending, r
<1>5. CanReject(u, p, id) <=> Pending(p, u, id)
  BY <1>2, <1>3 DEF CanReject, CanFinishPending, Pending, r
<1>6. CanCancel(u, p, id) <=> Pending(u, p, id)
  BY <1>2, <1>3 DEF CanCancel, CanFinishPending, Pending, r
<1>7. InActiveCall(u, p, id) <=> Active(u, p, id)
  BY <1>2, <1>3 DEF InActiveCall, Active, r
<1>8. ASSUME NEW type \in SignalTypes
      PROVE  SignalingResult(u, p, id, type) = "ok" <=>
               /\ Active(u, p, id)
               /\ type = "webrtc_offer" => calls[id].caller = u
               /\ type = "webrtc_answer" => calls[id].callee = u
  BY <1>7 DEF SignalingResult
<1> QED
  BY <1>4, <1>5, <1>6, <1>7, <1>8

(* Accept, reject, cancel, timeout, hangup and signaling succeed exactly   *)
(* for the users whom the call's record gives that right.                  *)
THEOREM GuardsAlwaysExact == Spec => []GuardsExact
  BY AlwaysConsistent, GuardsDecide, PTL DEF CallManagerInv

-----------------------------------------------------------------------------

ActiveCalls == {CallOf(id) : id \in DOMAIN calls}

(* Erasing a call finishes a call of the abstract pairing.                 *)
LEMMA EraseFinishes ==
  ASSUME CallManagerInv, NEW id \in DOMAIN calls, EraseCall(id)
  PROVE  CallOf(id) \in Pairing!Call /\ Pairing!Finish(CallOf(id))
<1>1. Erased(id)
  BY EraseEffect
<1>2. CallOf(id) \in Pairing!Call
  BY DEF CallManagerInv, TypeOK, CallRecord, CallOf, Pairing!Call
<1>3. ActiveCalls' = ActiveCalls \ {CallOf(id)}
  BY <1>1 DEF Erased, ActiveCalls, CallOf
<1> QED
  BY <1>2, <1>3 DEF Pairing!Finish, ActiveCalls

(* Starting a call begins one between two unpaired users.                  *)
LEMMA StartBegins ==
  ASSUME CallManagerInv, NEW caller \in Users, NEW callee \in Users,
         NEW id \in CallIds, caller # callee,
         StartCall(caller, callee, id, "ok")
  PROVE  \E c \in Pairing!Call : Pairing!Begin(c)
<1> DEFINE c == [id |-> id, caller |-> caller, callee |-> callee,
                 accepted |-> FALSE]
<1>1. Started(caller, callee, id)
  BY StartEffect
<1>2. c \in Pairing!Call
  BY DEF Pairing!Call
<1>3. ActiveCalls' = ActiveCalls \cup {c}
  <2>1. CallOf(id)' = c
    BY <1>1 DEF Started, CallOf
  <2>2. \A i \in DOMAIN calls : CallOf(i)' = CallOf(i)
    BY <1>1 DEF Started, CallOf
  <2>3. DOMAIN calls' = DOMAIN calls \cup {id}
    BY <1>1 DEF Started
  <2> HIDE DEF c
  <2> QED
    BY <2>1, <2>2, <2>3 DEF ActiveCalls
<1>4. ASSUME NEW d \in ActiveCalls
      PROVE  d.id # c.id /\ Pairing!Parties(c) \cap Pairing!Parties(d) = {}
  <2>1. PICK i \in DOMAIN calls : d = CallOf(i)
    BY DEF ActiveCalls
  <2>2. {calls[i].caller, calls[i].callee} \subseteq DOMAIN callUsers
    BY DEF CallManagerInv, MapsAgree, CallsHaveUsers
  <2> QED
    BY <1>1, <2>1, <2>2 DEF Started, CallOf, Pairing!Parties
<1> QED
  BY <1>2, <1>3, <1>4 DEF Pairing!Begin, ActiveCalls

(* Accepting a call accepts the ringing call of the pairing.               *)
LEMMA AcceptAccepts ==
  ASSUME CallManagerInv, NEW callee \in Users, NEW caller \in Users,
         NEW id \in CallIds, AcceptCall(callee, caller, id, TRUE)
  PROVE  \E c \in Pairing!Call : Pairing!Accept(c)
<1> DEFINE c == CallOf(id)
<1>1. Accepted(callee, caller, id)
  BY AcceptEffect
<1>2. /\ c \in Pairing!Call
      /\ c \in ActiveCalls
      /\ c.accepted = FALSE
  <2>1. c = [id |-> id, caller |-> caller, callee |-> callee,
             accepted |-> FALSE]
    BY <1>1 DEF Accepted, CallOf
  <2>2. c \in ActiveCalls
    BY <1>1 DEF Accepted, ActiveCalls
  <2> QED
    BY <2>1, <2>2 DEF Pairing!Call
<1>3. CallOf(id)' = Pairing!Answered(c)
  BY <1>1 DEF Accepted, CallOf, Pairing!Answered
<1>4. \A i \in DOMAIN calls \ {id} : CallOf(i)' = CallOf(i)
  BY <1>1 DEF Accepted, CallOf
<1>5. ActiveCalls' = (ActiveCalls \ {c}) \cup {CallOf(id)'}
  <2>1. \A i \in DOMAIN calls \ {id} : CallOf(i) # c
    BY DEF CallOf
  <2>2. DOMAIN calls' = DOMAIN calls /\ id \in DOMAIN calls
    BY <1>1 DEF Accepted
  <2> HIDE DEF c
  <2> QED
    BY <1>4, <2>1, <2>2 DEF ActiveCalls, c
<1> QED
  BY <1>2, <1>3, <1>5 DEF Pairing!Accept, ActiveCalls

(* Every operation is a step of the pairing, or changes no call.           *)
LEMMA StepPairs ==
  ASSUME CallManagerInv, [Next]_callVars
  PROVE  [Pairing!Next]_ActiveCalls
<1>0. UNCHANGED callVars => UNCHANGED ActiveCalls
  BY DEF callVars, ActiveCalls, CallOf
<1>1. CASE UNCHANGED callVars
  BY <1>0, <1>1
<1>2. ASSUME NEW user \in Users, NEW peer \in Users, NEW id \in CallIds,
             user # peer,
             NEW result, StartCall(user, peer, id, result)
      PROVE  [Pairing!Next]_ActiveCalls
  <2>1. CASE result = "ok"
    BY <1>2, <2>1, StartBegins DEF Pairing!Next
  <2>2. CASE result # "ok"
    BY <1>0, <1>2, <2>2 DEF StartCall
  <2> QED
    BY <2>1, <2>2
<1>3. ASSUME NEW user \in Users, NEW peer \in Users, NEW id \in CallIds,
             NEW ok \in BOOLEAN, AcceptCall(user, peer, id, ok)
      PROVE  [Pairing!Next]_ActiveCalls
  <2>1. CASE ok = TRUE
    BY <1>3, <2>1, AcceptAccepts DEF Pairing!Next
  <2>2. CASE ok = FALSE
    BY <1>0, <1>3, <2>2 DEF AcceptCall
  <2> QED
    BY <2>1, <2>2
<1>4. ASSUME NEW user \in Users, NEW peer \in Users, NEW id \in CallIds,
             NEW ok \in BOOLEAN,
             \/ RejectCall(user, peer, id, ok)
             \/ CancelCall(user, peer, id, ok)
             \/ HangupCall(user, peer, id, ok)
      PROVE  [Pairing!Next]_ActiveCalls
  <2>1. CASE ok = TRUE
    <3>1. EraseCall(id) /\ id \in DOMAIN calls
      BY <1>4, <2>1 DEF RejectCall, CancelCall, HangupCall, CanReject,
                        CanCancel, CanFinishPending, InActiveCall, Facing
    <3> QED
      BY <3>1, EraseFinishes DEF Pairing!Next
  <2>2. CASE ok = FALSE
    BY <1>0, <1>4, <2>2 DEF RejectCall, CancelCall, HangupCall
  <2> QED
    BY <2>1, <2>2
<1>5. ASSUME NEW user \in Users, NEW removed, RemoveUser(user, removed)
      PROVE  [Pairing!Next]_ActiveCalls
  <2>1. CASE user \in DOMAIN callUsers
    <3>1. EraseCall(callUsers[user].callId)
      BY <1>5, <2>1 DEF RemoveUser
    <3>2. callUsers[user].callId \in DOMAIN calls
      BY <2>1 DEF CallManagerInv, MapsAgree, UsersHaveCalls
    <3> QED
      BY <3>1, <3>2, EraseFinishes DEF Pairing!Next
  <2>2. CASE user \notin DOMAIN callUsers
    BY <1>0, <1>5, <2>2 DEF RemoveUser
  <2> QED
    BY <2>1, <2>2
<1> QED
  BY <1>1, <1>2, <1>3, <1>4, <1>5 DEF Next

(* The call manager implements the abstract pairing of users into calls:   *)
(* no behaviour of it lets a user into two calls, accepts a call twice or  *)
(* revives one that has ended.                                             *)
THEOREM PairingImplemented == Spec => ImplementsPairing
<1>1. Init => Pairing!Init
  BY DEF Init, EmptyMap, Pairing!Init
<1>2. CallManagerInv /\ [Next]_callVars => [Pairing!Next]_ActiveCalls
  BY StepPairs
<1>3. Spec => []CallManagerInv
  BY AlwaysConsistent, PTL DEF CallManagerInv
<1> QED
  BY <1>1, <1>2, <1>3, PTL DEF Spec, ImplementsPairing, Pairing!Spec, ActiveCalls
=============================================================================
