---------------------------- MODULE LibraryProofs ----------------------------
(***************************************************************************)
(* The parts of the library that run alone: for any bounds.                *)
(***************************************************************************)
EXTENDS MCLibrary, FiniteSetTheorems, SequenceTheorems, WellFoundedInduction,
        TLAPS

(* A set of natural numbers that is not empty has a least element.         *)
LEMMA LeastOfNat ==
  ASSUME NEW D, D \subseteq Nat, D # {}
  PROVE  \E x \in D : \A y \in D : x <= y
<1>1. \E R : /\ IsWellFoundedOn(R, Nat)
             /\ \A x, y \in Nat : x < y => <<x, y>> \in R
  <2>1. \A x, y \in Nat : x < y => <<x, y>> \in OpToRel(<, Nat)
    BY DEF OpToRel
  <2> QED
    BY <2>1, NatLessThanWellFounded
<1>2. PICK R : /\ IsWellFoundedOn(R, Nat)
              /\ \A x, y \in Nat : x < y => <<x, y>> \in R
  BY <1>1
<1>3. IsWellFoundedOn(R, Nat)
  BY <1>2
<1>4. PICK x \in D : \A y \in D : ~ (<<y, x>> \in R)
  <2> HIDE DEF IsWellFoundedOn
  <2> QED
    BY <1>3, WFMin
<1>5. ASSUME NEW y \in D
      PROVE  x <= y
  <2>1. x \in Nat /\ y \in Nat /\ ~ (<<y, x>> \in R)
    BY <1>4
  <2>2. ~ (y < x)
    BY <1>2, <2>1
  <2> QED
    BY <2>1, <2>2
<1> QED
  BY <1>4, <1>5

-----------------------------------------------------------------------------
(* The timers.                                                             *)

TimerStates == {"created", "waiting", "cancelled", "done"}
Entries == Nat \X Addresses
TimerIds == Addresses \X Nat
TimerCalls == ({"add"} \X Addresses) \cup ({"cancel"} \X TimerIds)
Timers == [sequence : Nat, expiration : Nat, interval : Nat]

TimerTypes ==
  /\ now \in Nat /\ armed \in Nat
  /\ heap \in [Addresses -> Timers]
  /\ status \in Seq(TimerStates)
  /\ created \in Seq(Addresses) /\ Len(created) = Len(status)
  /\ timers \subseteq Entries
  /\ activeTimers \subseteq TimerIds
  /\ handling \in [calling : BOOLEAN, at : Nat, expired : SUBSET Entries,
                   left : SUBSET Entries]
  /\ queued \in Seq(TimerCalls)

Alive(a) == heap[a] # T!None

IsId(id) == id[2] \in DOMAIN status /\ created[id[2]] = id[1]

IdAt(a) == <<a, heap[a].sequence>>

(* A sequence number tells where its timer lives, as long as it does.      *)
HeapSound == \A a \in Addresses : Alive(a) => IsId(IdAt(a))

ActiveSound ==
  /\ timers = {<<heap[t[1]].expiration, t[1]>> : t \in activeTimers}
  /\ \A t \in activeTimers : Alive(t[1]) /\ heap[t[1]].sequence = t[2]
  /\ \A t \in activeTimers : status[t[2]] = "waiting"

(* The timers that are being called back live, and are in neither set.     *)
ExpiredSound ==
  /\ handling.left \subseteq handling.expired
  /\ ~handling.calling => handling.expired = {}
  /\ \A e \in handling.expired :
       /\ Alive(e[2]) /\ e[1] = heap[e[2]].expiration
       /\ IdAt(e[2]) \notin activeTimers
       /\ status[heap[e[2]].sequence] # "created"

(* Which of them are inserted again: those that wait for it.               *)
AgainWaits ==
  \A e \in handling.expired :
    heap[e[2]].interval > 0 /\ IdAt(e[2]) \notin cancelingTimers =>
      status[heap[e[2]].sequence] = "waiting"

WaitsAgain(s) ==
  \E e \in handling.expired :
    /\ heap[e[2]].sequence = s /\ IdAt(e[2]) \notin cancelingTimers
    /\ heap[e[2]].interval > 0 \/ e \in handling.left

WaitingFound ==
  \A s \in DOMAIN status :
    status[s] = "waiting" =>
      (\E a \in Addresses : <<a, s>> \in activeTimers) \/ WaitsAgain(s)

(* A timer whose insertion is queued was made and is nowhere else.         *)
CallsSound(calls) ==
  /\ \A k \in DOMAIN calls :
       /\ calls[k][1] = "add" =>
            /\ Alive(calls[k][2])
            /\ status[heap[calls[k][2]].sequence] = "created"
       /\ calls[k][1] = "cancel" => IsId(calls[k][2])
  /\ \A j, k \in DOMAIN calls :
       j # k /\ calls[j][1] = "add" /\ calls[k][1] = "add" =>
         calls[j][2] # calls[k][2]

FiresInTime == ~handling.calling => \A e \in timers : armed <= e[1]

TimerInv ==
  /\ TimerTypes /\ HeapSound /\ ActiveSound /\ ExpiredSound /\ AgainWaits
  /\ WaitingFound /\ CallsSound(queued) /\ FiresInTime

(* The earliest expiration of some entries is that of one of them.         *)
LEMMA EarliestIsLeast ==
  ASSUME NEW F, F \subseteq Entries, F # {}
  PROVE  /\ T!EarliestOf(F) \in Nat
         /\ \E e \in F : e[1] = T!EarliestOf(F)
         /\ \A e \in F : T!EarliestOf(F) <= e[1]
<1> DEFINE D == {e[1] : e \in F}
<1>1. D \subseteq Nat /\ D # {}
  BY DEF Entries
<1>2. \E x \in D : \A y \in D : x <= y
  <2> HIDE DEF D
  <2> QED
    BY <1>1, LeastOfNat
<1>3. T!EarliestOf(F) \in D /\ \A y \in D : T!EarliestOf(F) <= y
  BY <1>2 DEF T!EarliestOf, T!Min
<1> QED
  BY <1>1, <1>3

(* A timer that is cancelled goes from both sets, or is remembered.        *)
LEMMA CancelStates ==
  ASSUME TimerInv, NEW id \in TimerIds, IsId(id), T!CancelInLoop(id)
  PROVE  /\ status' \in Seq(TimerStates) /\ Len(status') = Len(status)
         /\ \A n \in DOMAIN status : n # id[2] => status'[n] = status[n]
         /\ status'[id[2]] # "waiting"
         /\ status[id[2]] # "waiting" => status' = status
<1>1. status \in Seq(TimerStates) /\ id[2] \in DOMAIN status
  BY DEF TimerInv, TimerTypes, IsId
<1>2. status' = IF status[id[2]] = "waiting"
                THEN [status EXCEPT ![id[2]] = "cancelled"] ELSE status
  BY DEF T!CancelInLoop
<1> QED
  BY <1>1, <1>2 DEF TimerStates

(* What cancelInLoop does to the heap and to the two sets: the timer of    *)
(* the id goes, if it is in them, and no other.                            *)
LEMMA CancelSets ==
  ASSUME TimerInv, NEW id \in TimerIds, IsId(id), T!CancelInLoop(id)
  PROVE  /\ heap' \in [Addresses -> Timers]
         /\ \A a \in Addresses : IdAt(a) # id => heap'[a] = heap[a]
         /\ \A a \in Addresses :
              \/ heap'[a] = heap[a]
              \/ IdAt(a) = id /\ id \in activeTimers /\ heap'[a] = T!None
         /\ activeTimers' = activeTimers \ {id}
         /\ timers' = {<<heap'[t[1]].expiration, t[1]>> : t \in activeTimers'}
<1>1. /\ heap \in [Addresses -> Timers] /\ activeTimers \subseteq TimerIds
      /\ timers = {<<heap[t[1]].expiration, t[1]>> : t \in activeTimers}
      /\ \A t \in activeTimers : heap[t[1]].sequence = t[2]
  BY DEF TimerInv, TimerTypes, ActiveSound
<1>2. id = <<id[1], id[2]>> /\ id[1] \in Addresses
  BY DEF TimerIds
<1>3. T!None \in Timers
  BY DEF T!None, Timers
<1>4. CASE id \in activeTimers
  <2>1. /\ timers' = timers \ {<<heap[id[1]].expiration, id[1]>>}
        /\ activeTimers' = activeTimers \ {id}
        /\ heap' = [heap EXCEPT ![id[1]] = T!None]
    BY <1>4 DEF T!CancelInLoop
  <2>2. IdAt(id[1]) = id
    BY <1>1, <1>2, <1>4 DEF IdAt
  <2>3. \A a \in Addresses : IdAt(a) # id => a # id[1]
    BY <2>2
  <2>4. \A a \in Addresses : heap'[a] = IF a = id[1] THEN T!None ELSE heap[a]
    BY <1>1, <2>1
  <2>5. \A t \in activeTimers : t = <<t[1], t[2]>> /\ t[1] \in Addresses
    BY <1>1 DEF TimerIds
  <2>6. \A t \in activeTimers : t # id => t[1] # id[1]
    BY <1>1, <1>2, <1>4, <2>5
  <2>7. timers' = {<<heap'[t[1]].expiration, t[1]>> : t \in activeTimers'}
    <3>1. timers' = {<<heap[t[1]].expiration, t[1]>> : t \in activeTimers'}
      BY <1>1, <2>1, <2>6
    <3>2. \A t \in activeTimers' : heap'[t[1]] = heap[t[1]]
      BY <2>1, <2>4, <2>5, <2>6
    <3> QED
      BY <3>1, <3>2
  <2>8. heap' \in [Addresses -> Timers]
    BY <1>1, <1>3, <2>1
  <2>9. \A a \in Addresses :
          \/ heap'[a] = heap[a]
          \/ IdAt(a) = id /\ id \in activeTimers /\ heap'[a] = T!None
    BY <1>4, <2>2, <2>4
  <2>10. \A a \in Addresses : IdAt(a) # id => heap'[a] = heap[a]
    BY <2>3, <2>4
  <2> QED
    BY <2>1, <2>7, <2>8, <2>9, <2>10
<1>5. CASE id \notin activeTimers
  <2>1. heap' = heap /\ activeTimers' = activeTimers /\ timers' = timers
    BY <1>5 DEF T!CancelInLoop
  <2>2. activeTimers' = activeTimers \ {id}
    BY <1>5, <2>1
  <2>3. timers' = {<<heap'[t[1]].expiration, t[1]>> : t \in activeTimers'}
    BY <1>1, <2>1
  <2> QED
    BY <1>1, <2>1, <2>2, <2>3
<1> QED
  BY <1>4, <1>5

(* cancelInLoop keeps the invariant, and what is queued stays in order.    *)
LEMMA CancelKeeps ==
  ASSUME TimerInv, NEW id \in TimerIds, IsId(id), T!CancelInLoop(id),
         UNCHANGED <<created, handling>>,
         NEW calls \in Seq(TimerCalls), CallsSound(calls)
  PROVE  /\ HeapSound' /\ ActiveSound' /\ ExpiredSound' /\ AgainWaits'
         /\ WaitingFound' /\ CallsSound(calls)'
         /\ timers' \subseteq timers
<1>1. /\ heap \in [Addresses -> Timers] /\ activeTimers \subseteq TimerIds
      /\ status \in Seq(TimerStates) /\ Len(created) = Len(status)
      /\ created \in Seq(Addresses)
      /\ handling.expired \subseteq Entries
  BY DEF TimerInv, TimerTypes
<1>2. /\ status' \in Seq(TimerStates) /\ Len(status') = Len(status)
      /\ \A n \in DOMAIN status : n # id[2] => status'[n] = status[n]
      /\ status'[id[2]] # "waiting"
      /\ status[id[2]] # "waiting" => status' = status
  BY CancelStates
<1>3. /\ \A a \in Addresses : IdAt(a) # id => heap'[a] = heap[a]
      /\ \A a \in Addresses :
           \/ heap'[a] = heap[a]
           \/ IdAt(a) = id /\ id \in activeTimers /\ heap'[a] = T!None
      /\ activeTimers' = activeTimers \ {id}
      /\ timers' = {<<heap'[t[1]].expiration, t[1]>> : t \in activeTimers'}
  BY CancelSets
<1>4. DOMAIN status' = DOMAIN status /\ DOMAIN status = 1 .. Len(status)
  BY <1>1, <1>2
<1>5. id = <<id[1], id[2]>> /\ id[2] \in DOMAIN status /\ created[id[2]] = id[1]
  BY DEF TimerIds, IsId
<1>6. \A t \in activeTimers : t = <<t[1], t[2]>> /\ t[1] \in Addresses
                              /\ IdAt(t[1]) = t /\ Alive(t[1])
                              /\ status[t[2]] = "waiting"
  BY <1>1 DEF TimerInv, ActiveSound, TimerIds, IdAt
<1>7. \A a \in Addresses : Alive(a) /\ heap[a].sequence = id[2] => IdAt(a) = id
  BY <1>5 DEF TimerInv, HeapSound, IsId, IdAt
<1>8. \A a \in Addresses : Alive(a) => heap[a].sequence \in DOMAIN status
  BY DEF TimerInv, HeapSound, IsId, IdAt
<1>9. \A a \in Addresses : Alive(a)' => heap'[a] = heap[a] /\ Alive(a)
  BY <1>3 DEF Alive
<1>10. HeapSound'
  BY <1>4, <1>9 DEF TimerInv, HeapSound, IsId, IdAt
<1>11. ActiveSound'
  <2>1. \A t \in activeTimers' : heap'[t[1]] = heap[t[1]]
    BY <1>3, <1>6
  <2>2. \A t \in activeTimers' : t[2] # id[2]
    BY <1>3, <1>6, <1>7 DEF IdAt
  <2>3. \A t \in activeTimers' : t[2] \in DOMAIN status
    BY <1>3, <1>6, <1>8 DEF IdAt
  <2> QED
    BY <1>2, <1>3, <1>6, <2>1, <2>2, <2>3 DEF ActiveSound, Alive, IdAt
<1>12. \A e \in handling.expired :
         /\ e[2] \in Addresses /\ heap'[e[2]] = heap[e[2]] /\ Alive(e[2])
         /\ heap[e[2]].sequence \in DOMAIN status
         /\ IdAt(e[2]) \notin activeTimers
  <2>1. \A e \in handling.expired :
          e[2] \in Addresses /\ Alive(e[2]) /\ IdAt(e[2]) \notin activeTimers
    BY <1>1 DEF TimerInv, ExpiredSound, Entries
  <2> QED
    BY <1>3, <1>8, <2>1
<1>13. ExpiredSound'
  <2>1. status' [id[2]] = "created" => status[id[2]] = "created"
    BY <1>1, <1>2, <1>4, <1>5 DEF T!CancelInLoop
  <2>2. \A n \in DOMAIN status : status[n] # "created" => status'[n] # "created"
    BY <1>2, <2>1
  <2> QED
    BY <1>3, <1>12, <2>2 DEF TimerInv, ExpiredSound, IdAt, Alive
<1>14. AgainWaits'
  <2> SUFFICES ASSUME NEW e \in handling.expired,
                      heap[e[2]].interval > 0,
                      IdAt(e[2]) \notin cancelingTimers'
               PROVE  status'[heap[e[2]].sequence] = "waiting"
    BY <1>12 DEF AgainWaits, IdAt
  <2>1. handling.calling
    BY DEF TimerInv, ExpiredSound
  <2>2. IdAt(e[2]) \notin cancelingTimers
    BY DEF T!CancelInLoop
  <2>3. status[heap[e[2]].sequence] = "waiting"
    BY <2>2 DEF TimerInv, AgainWaits
  <2>4. heap[e[2]].sequence # id[2]
    <3> SUFFICES ASSUME heap[e[2]].sequence = id[2]
                 PROVE  FALSE
      OBVIOUS
    <3>1. IdAt(e[2]) = id
      BY <1>7, <1>12
    <3>2. id \notin activeTimers /\ id \notin cancelingTimers'
      BY <1>12, <3>1
    <3> QED
      BY <2>1, <3>2 DEF T!CancelInLoop
  <2> QED
    BY <1>2, <1>12, <2>3, <2>4
<1>15. WaitingFound'
  <2> SUFFICES ASSUME NEW s \in DOMAIN status, status'[s] = "waiting"
               PROVE  \/ \E a \in Addresses : <<a, s>> \in activeTimers'
                      \/ WaitsAgain(s)'
    BY <1>4 DEF WaitingFound
  <2>1. s # id[2] /\ status[s] = "waiting"
    BY <1>2
  <2>2. CASE \E a \in Addresses : <<a, s>> \in activeTimers
    BY <1>3, <1>5, <2>1, <2>2
  <2>3. CASE WaitsAgain(s)
    <3>1. PICK e \in handling.expired :
            /\ heap[e[2]].sequence = s /\ IdAt(e[2]) \notin cancelingTimers
            /\ heap[e[2]].interval > 0 \/ e \in handling.left
      BY <2>3 DEF WaitsAgain
    <3>2. IdAt(e[2]) # id
      BY <1>5, <2>1, <3>1 DEF IdAt
    <3>3. IdAt(e[2]) \notin cancelingTimers'
      BY <3>1, <3>2 DEF T!CancelInLoop
    <3> QED
      BY <1>12, <3>1, <3>3 DEF WaitsAgain, IdAt
  <2> QED
    BY <2>1, <2>2, <2>3 DEF TimerInv, WaitingFound
<1>16. CallsSound(calls)'
  <2>1. \A k \in DOMAIN calls : calls[k][1] = "cancel" => IsId(calls[k][2])'
    BY <1>4 DEF CallsSound, IsId
  <2>2. ASSUME NEW k \in DOMAIN calls, calls[k][1] = "add"
        PROVE  /\ Alive(calls[k][2])'
               /\ status'[heap'[calls[k][2]].sequence] = "created"
    <3>1. /\ Alive(calls[k][2])
          /\ status[heap[calls[k][2]].sequence] = "created"
      BY <2>2 DEF CallsSound
    <3>2. calls[k][2] \in Addresses
      <4>1. calls[k] \in TimerCalls
        OBVIOUS
      <4> QED
        BY <2>2, <4>1 DEF TimerCalls
    <3>3. IdAt(calls[k][2]) \notin activeTimers
      BY <1>6, <3>1 DEF IdAt
    <3>4. heap'[calls[k][2]] = heap[calls[k][2]]
      BY <1>3, <3>2, <3>3
    <3>5. heap[calls[k][2]].sequence = id[2] => status' = status
      BY <1>2, <3>1
    <3> QED
      BY <1>2, <1>8, <3>1, <3>2, <3>4, <3>5 DEF Alive
  <2> QED
    BY <2>1, <2>2 DEF CallsSound
<1>17. timers' \subseteq timers
  <2>1. \A t \in activeTimers' : heap'[t[1]] = heap[t[1]]
    BY <1>3, <1>6
  <2> QED
    BY <1>3, <2>1 DEF TimerInv, ActiveSound
<1> QED
  BY <1>10, <1>11, <1>13, <1>14, <1>15, <1>16, <1>17

(* A timer that is made at a free address disturbs no other.               *)
Makes(a, timer, st) ==
  /\ heap' = [heap EXCEPT ![a] = timer] /\ created' = Append(created, a)
  /\ status' = Append(status, st) /\ UNCHANGED <<handling, cancelingTimers>>

Made(a, timer, st, calls) ==
  /\ heap' \in [Addresses -> Timers]
  /\ status' \in Seq(TimerStates) /\ created' \in Seq(Addresses)
  /\ Len(created') = Len(status')
  /\ DOMAIN status' = DOMAIN status \cup {Len(status) + 1}
  /\ \A n \in DOMAIN status : status'[n] = status[n]
  /\ status'[Len(status) + 1] = st /\ heap'[a] = timer /\ Alive(a)'
  /\ HeapSound' /\ AgainWaits' /\ CallsSound(calls)'
  /\ \A t \in activeTimers :
       /\ t[1] # a /\ heap'[t[1]] = heap[t[1]]
       /\ status'[t[2]] = "waiting"
  /\ \A e \in handling.expired :
       /\ e \in Entries /\ e[2] # a /\ heap'[e[2]] = heap[e[2]]
       /\ heap[e[2]].sequence \in DOMAIN status
  /\ \A k \in DOMAIN calls : calls[k][1] = "add" => calls[k][2] # a

(* A timer that takes a free address and the next number.                  *)
LEMMA MakeTimer ==
  ASSUME TimerInv, NEW a \in Addresses, ~ Alive(a), NEW timer \in Timers,
         timer.sequence = Len(status) + 1, NEW st \in TimerStates,
         Makes(a, timer, st),
         NEW calls \in Seq(TimerCalls), CallsSound(calls)
  PROVE  Made(a, timer, st, calls)
<1> USE DEF Makes
<1>1. /\ heap \in [Addresses -> Timers] /\ activeTimers \subseteq TimerIds
      /\ status \in Seq(TimerStates) /\ Len(created) = Len(status)
      /\ created \in Seq(Addresses)
      /\ handling.expired \subseteq Entries
  BY DEF TimerInv, TimerTypes
<1>2. /\ status' \in Seq(TimerStates) /\ Len(status') = Len(status) + 1
      /\ \A n \in 1 .. Len(status) : status'[n] = status[n]
      /\ status'[Len(status) + 1] = st
  BY <1>1, AppendProperties
<1>3. /\ created' \in Seq(Addresses) /\ Len(created') = Len(status) + 1
      /\ \A n \in 1 .. Len(status) : created'[n] = created[n]
      /\ created'[Len(status) + 1] = a
  BY <1>1, AppendProperties
<1>4. /\ DOMAIN status = 1 .. Len(status) /\ Len(status) \in Nat
      /\ DOMAIN status' = DOMAIN status \cup {Len(status) + 1}
  BY <1>1, <1>2
<1>5. /\ heap' \in [Addresses -> Timers] /\ heap'[a] = timer
      /\ \A b \in Addresses : b # a => heap'[b] = heap[b]
  BY <1>1
<1>6. Alive(a)'
  BY <1>4, <1>5 DEF Alive, T!None
<1>7. \A b \in Addresses :
        Alive(b) => heap[b].sequence \in DOMAIN status /\ IsId(IdAt(b))
  BY DEF TimerInv, HeapSound, IsId, IdAt
<1>8. HeapSound'
  <2>1. \A b \in Addresses : b # a /\ Alive(b)' => IsId(IdAt(b))'
    BY <1>2, <1>3, <1>4, <1>5, <1>7 DEF IsId, IdAt, Alive
  <2>2. IsId(IdAt(a))'
    BY <1>3, <1>4, <1>5 DEF IsId, IdAt
  <2> QED
    BY <2>1, <2>2 DEF HeapSound
<1>9. \A t \in activeTimers :
        /\ t \in TimerIds /\ t[1] # a /\ t[1] \in Addresses
        /\ t[2] \in DOMAIN status
        /\ status[t[2]] = "waiting"
  <2>1. \A t \in activeTimers :
          /\ t[1] # a /\ t[1] \in Addresses
          /\ Alive(t[1]) /\ heap[t[1]].sequence = t[2]
          /\ status[t[2]] = "waiting"
    BY <1>1 DEF TimerInv, ActiveSound, TimerIds
  <2> QED
    BY <1>1, <1>7, <2>1
<1>10. \A t \in activeTimers :
         /\ heap'[t[1]] = heap[t[1]] /\ status'[t[2]] = "waiting"
         /\ t[2] # Len(status) + 1
  BY <1>2, <1>4, <1>5, <1>9
<1>11. \A e \in handling.expired :
         /\ e \in Entries /\ e[2] # a /\ heap'[e[2]] = heap[e[2]]
         /\ heap[e[2]].sequence \in DOMAIN status
  BY <1>1, <1>5, <1>7 DEF TimerInv, ExpiredSound, Entries
<1>12. AgainWaits'
  <2> SUFFICES ASSUME NEW e \in handling.expired,
                      heap[e[2]].interval > 0,
                      IdAt(e[2]) \notin cancelingTimers
               PROVE  status'[heap[e[2]].sequence] = "waiting"
    <3>1. handling' = handling /\ cancelingTimers' = cancelingTimers
      OBVIOUS
    <3>2. \A e \in handling.expired : IdAt(e[2])' = IdAt(e[2])
      BY <1>11 DEF IdAt
    <3> QED
      BY <1>11, <3>1, <3>2 DEF AgainWaits
  <2>1. status[heap[e[2]].sequence] = "waiting"
    BY DEF TimerInv, AgainWaits
  <2> QED
    BY <1>2, <1>4, <1>11, <2>1
<1>13. \A k \in DOMAIN calls :
         calls[k][1] = "add" => /\ calls[k][2] # a /\ calls[k][2] \in Addresses
                                /\ Alive(calls[k][2])
  <2>1. \A k \in DOMAIN calls : calls[k] \in TimerCalls
    OBVIOUS
  <2> QED
    BY <2>1 DEF CallsSound, TimerCalls
<1>14. CallsSound(calls)'
  <2>1. \A k \in DOMAIN calls :
          calls[k][1] = "add" =>
            /\ Alive(calls[k][2])'
            /\ status'[heap'[calls[k][2]].sequence] = "created"
    BY <1>2, <1>4, <1>5, <1>7, <1>13 DEF CallsSound, Alive
  <2>2. \A k \in DOMAIN calls : calls[k][1] = "cancel" => IsId(calls[k][2])'
    BY <1>3, <1>4 DEF CallsSound, IsId
  <2> QED
    BY <2>1, <2>2 DEF CallsSound
<1> QED
  BY <1>2, <1>3, <1>4, <1>5, <1>6, <1>8, <1>9, <1>10, <1>11, <1>12, <1>13, <1>14
     DEF Made

(* addTimerInLoop enters a timer in both sets and arms the timerfd for it. *)
LEMMA InsertTimer ==
  ASSUME TimerInv, NEW a \in Addresses, NEW timer \in Timers,
         timer.sequence # 0, T!AddTimerInLoop(a, timer), heap'[a] = timer,
         \A t \in activeTimers : /\ t[1] # a /\ heap'[t[1]] = heap[t[1]]
                                 /\ status'[t[2]] = "waiting",
         status'[timer.sequence] = "waiting", handling' = handling
  PROVE  /\ ActiveSound' /\ FiresInTime'
         /\ timers' \subseteq Entries /\ activeTimers' \subseteq TimerIds
         /\ activeTimers' = activeTimers \cup {<<a, timer.sequence>>}
         /\ armed' \in Nat
<1>1. /\ activeTimers \subseteq TimerIds /\ timers \subseteq Entries
      /\ armed \in Nat /\ timer.expiration \in Nat /\ timer.sequence \in Nat
      /\ timers = {<<heap[t[1]].expiration, t[1]>> : t \in activeTimers}
      /\ \A t \in activeTimers : Alive(t[1]) /\ heap[t[1]].sequence = t[2]
  BY DEF TimerInv, TimerTypes, ActiveSound, Timers
<1>2. /\ activeTimers' = activeTimers \cup {<<a, timer.sequence>>}
      /\ timers' = timers \cup {<<timer.expiration, a>>}
  BY DEF T!AddTimerInLoop
<1>3. timers' \subseteq Entries /\ activeTimers' \subseteq TimerIds
  BY <1>1, <1>2 DEF Entries, TimerIds
<1>4. ActiveSound'
  <2>1. timers' = {<<heap'[t[1]].expiration, t[1]>> : t \in activeTimers'}
    <3>1. <<a, timer.sequence>>[1] = a /\ heap'[a].expiration = timer.expiration
      OBVIOUS
    <3>2. timers = {<<heap'[t[1]].expiration, t[1]>> : t \in activeTimers}
      BY <1>1
    <3> QED
      BY <1>2, <3>1, <3>2
  <2>2. \A t \in activeTimers' : /\ Alive(t[1])' /\ heap'[t[1]].sequence = t[2]
                                 /\ status'[t[2]] = "waiting"
    BY <1>1, <1>2 DEF Alive, T!None
  <2> QED
    BY <2>1, <2>2 DEF ActiveSound
<1>5. armed' = timer.expiration \/ armed' = armed
  BY DEF T!AddTimerInLoop
<1>6. armed' \in Nat
  BY <1>1, <1>5
<1>7. ASSUME ~handling.calling, NEW e \in timers'
      PROVE  armed' <= e[1]
  <2>1. \A x \in timers : armed <= x[1] /\ x[1] \in Nat
    BY <1>1, <1>7 DEF TimerInv, FiresInTime, Entries
  <2>2. CASE timers = {}
    BY <1>1, <1>2, <1>7, <2>2 DEF T!AddTimerInLoop
  <2>3. CASE timers # {}
    <3>1. /\ T!EarliestOf(timers) \in Nat
          /\ \E x \in timers : x[1] = T!EarliestOf(timers)
          /\ \A x \in timers : T!EarliestOf(timers) <= x[1]
      BY <1>1, <2>3, EarliestIsLeast
    <3>2. CASE timer.expiration < T!EarliestOf(timers)
      <4>1. armed' = timer.expiration
        BY <3>2 DEF T!AddTimerInLoop
      <4> QED
        BY <1>1, <1>2, <1>7, <2>1, <3>1, <3>2, <4>1
    <3>3. CASE ~ (timer.expiration < T!EarliestOf(timers))
      <4>1. armed' = armed
        BY <2>3, <3>3 DEF T!AddTimerInLoop
      <4>2. armed <= T!EarliestOf(timers)
        BY <2>1, <3>1
      <4>3. armed <= timer.expiration
        BY <1>1, <3>1, <3>3, <4>2
      <4>4. e \in timers \/ e = <<timer.expiration, a>>
        BY <1>2, <1>7
      <4> QED
        BY <2>1, <4>1, <4>3, <4>4
    <3> QED
      BY <3>2, <3>3
  <2> QED
    BY <2>2, <2>3
<1>8. FiresInTime'
  BY <1>7 DEF FiresInTime
<1> QED
  BY <1>2, <1>3, <1>4, <1>6, <1>8

(* addTimer on the loop thread keeps the invariant of the timers.          *)
LEMMA AddTimerKeeps ==
  ASSUME TimerInv, T!AddTimer
  PROVE  TimerInv'
<1>1. PICK a \in Addresses, delay \in T!Delays, interval \in T!Intervals :
        /\ ~ Alive(a)
        /\ heap' = [heap EXCEPT ![a] = T!NewTimer(delay, interval)]
        /\ created' = Append(created, a)
        /\ status' = Append(status, "waiting")
        /\ T!AddTimerInLoop(a, T!NewTimer(delay, interval))
        /\ UNCHANGED <<now, cancelingTimers, handling, queued>>
  BY DEF T!AddTimer, Alive
<1>2. PICK timer : timer = T!NewTimer(delay, interval)
  OBVIOUS
<1>3. /\ now \in Nat /\ status \in Seq(TimerStates) /\ queued \in Seq(TimerCalls)
      /\ handling \in [calling : BOOLEAN, at : Nat, expired : SUBSET Entries,
                       left : SUBSET Entries]
      /\ activeTimers \subseteq TimerIds
  BY DEF TimerInv, TimerTypes
<1>4. timer \in Timers /\ timer.sequence = Len(status) + 1 /\ Len(status) \in Nat
  BY <1>2, <1>3, TimerAssumption
     DEF T!NewTimer, T!Delays, T!Intervals, Timers
<1>5. PICK calls \in Seq(TimerCalls) : calls = queued
  BY <1>3
<1>6. "waiting" \in TimerStates
  BY DEF TimerStates
<1>7. /\ heap' = [heap EXCEPT ![a] = timer]
      /\ T!AddTimerInLoop(a, timer)
      /\ handling' = handling /\ cancelingTimers' = cancelingTimers
      /\ now' = now /\ queued' = queued
  BY <1>1, <1>2
<1>8. Made(a, timer, "waiting", calls)
  <2>1. CallsSound(calls)
    BY <1>5 DEF TimerInv
  <2>2. Makes(a, timer, "waiting") /\ ~ Alive(a)
    BY <1>1, <1>7 DEF Makes
  <2> QED
    BY <1>4, <1>5, <1>6, <2>1, <2>2, MakeTimer
<1> USE <1>8 DEF Made
<1>9. /\ ActiveSound' /\ FiresInTime'
      /\ timers' \subseteq Entries /\ activeTimers' \subseteq TimerIds
      /\ activeTimers' = activeTimers \cup {<<a, Len(status) + 1>>}
      /\ armed' \in Nat
  BY <1>4, <1>7, <1>8, InsertTimer
<1>10. TimerTypes'
  BY <1>3, <1>7, <1>8, <1>9 DEF TimerTypes
<1>11. ExpiredSound'
  <2>1. \A e \in handling.expired : IdAt(e[2])' = IdAt(e[2])
                                    /\ IdAt(e[2]) # <<a, Len(status) + 1>>
    BY <1>8 DEF IdAt
  <2> QED
    BY <1>7, <1>8, <1>9, <2>1 DEF TimerInv, ExpiredSound, Alive
<1>12. WaitingFound'
  <2> SUFFICES ASSUME NEW s \in DOMAIN status', status'[s] = "waiting"
               PROVE  \/ \E b \in Addresses : <<b, s>> \in activeTimers'
                      \/ WaitsAgain(s)'
    BY DEF WaitingFound
  <2>1. CASE s = Len(status) + 1
    BY <1>9, <2>1
  <2>2. CASE s \in DOMAIN status
    <3>1. \/ \E b \in Addresses : <<b, s>> \in activeTimers
          \/ WaitsAgain(s)
      BY <1>8, <2>2 DEF TimerInv, WaitingFound
    <3>2. WaitsAgain(s) => WaitsAgain(s)'
      <4>1. \A e \in handling.expired : IdAt(e[2])' = IdAt(e[2])
        BY <1>8 DEF IdAt
      <4> QED
        BY <1>7, <1>8, <4>1 DEF WaitsAgain
    <3> QED
      BY <1>9, <3>1, <3>2
  <2> QED
    BY <1>8, <2>1, <2>2
<1> QED
  <2>1. CallsSound(queued)'
    BY <1>5, <1>7, <1>8
  <2> QED
    BY <1>8, <1>9, <1>10, <1>11, <1>12, <2>1 DEF TimerInv

(* What cancelInLoop leaves alone, and the clock of the timerfd.           *)
LEMMA CancelTypes ==
  ASSUME TimerInv, NEW id \in TimerIds, IsId(id), T!CancelInLoop(id),
         UNCHANGED <<now, created, handling, armed>>,
         queued' \in Seq(TimerCalls), timers' \subseteq timers
  PROVE  TimerTypes' /\ FiresInTime'
<1>1. /\ heap' \in [Addresses -> Timers]
      /\ activeTimers' = activeTimers \ {id}
  BY CancelSets
<1>2. status' \in Seq(TimerStates) /\ Len(status') = Len(status)
  BY CancelStates
<1>3. TimerTypes /\ FiresInTime
  BY DEF TimerInv
<1>4. TimerTypes'
  BY <1>1, <1>2, <1>3 DEF TimerTypes
<1>5. FiresInTime'
  BY <1>3 DEF FiresInTime
<1> QED
  BY <1>4, <1>5

(* A TimerId that was returned names a timer that was made.                *)
LEMMA IdsAreIds ==
  ASSUME TimerInv, NEW id \in T!Ids
  PROVE  id \in TimerIds /\ IsId(id)
<1>1. /\ created \in Seq(Addresses) /\ Len(created) = Len(status)
      /\ status \in Seq(TimerStates)
  BY DEF TimerInv, TimerTypes
<1>2. PICK s \in DOMAIN created : id = <<created[s], s>>
  BY DEF T!Ids
<1>3. s \in DOMAIN status /\ s \in Nat /\ created[s] \in Addresses
  BY <1>1
<1> QED
  BY <1>2, <1>3 DEF TimerIds, IsId

(* cancel on the loop thread keeps the invariant of the timers.            *)
LEMMA CancelActionKeeps ==
  ASSUME TimerInv, T!Cancel
  PROVE  TimerInv'
<1>1. PICK id \in T!Ids :
        T!CancelInLoop(id) /\ UNCHANGED <<now, created, handling, armed, queued>>
  BY DEF T!Cancel
<1>2. id \in TimerIds /\ IsId(id)
  BY <1>1, IdsAreIds
<1>3. queued \in Seq(TimerCalls)
  BY DEF TimerInv, TimerTypes
<1>4. PICK calls \in Seq(TimerCalls) : calls = queued
  BY <1>3
<1>5. CallsSound(calls)
  BY <1>4 DEF TimerInv
<1>6. /\ HeapSound' /\ ActiveSound' /\ ExpiredSound' /\ AgainWaits'
      /\ WaitingFound' /\ CallsSound(calls)'
      /\ timers' \subseteq timers
  BY <1>1, <1>2, <1>5, CancelKeeps
<1>7. TimerTypes' /\ FiresInTime'
  BY <1>1, <1>2, <1>3, <1>6, CancelTypes
<1>8. CallsSound(queued)'
  BY <1>1, <1>4, <1>6
<1> QED
  BY <1>6, <1>7, <1>8 DEF TimerInv

(* addTimer on another thread keeps the invariant of the timers.           *)
LEMMA QueueAddTimerKeeps ==
  ASSUME TimerInv, T!QueueAddTimer
  PROVE  TimerInv'
<1>1. PICK a \in Addresses, delay \in T!Delays, interval \in T!Intervals :
        /\ ~ Alive(a)
        /\ heap' = [heap EXCEPT ![a] = T!NewTimer(delay, interval)]
        /\ created' = Append(created, a)
        /\ status' = Append(status, "created")
        /\ queued' = Append(queued, <<"add", a>>)
        /\ UNCHANGED <<now, timers, activeTimers, cancelingTimers, handling,
                       armed>>
  BY DEF T!QueueAddTimer, Alive
<1>2. PICK timer : timer = T!NewTimer(delay, interval)
  OBVIOUS
<1>3. /\ now \in Nat /\ status \in Seq(TimerStates) /\ queued \in Seq(TimerCalls)
      /\ armed \in Nat /\ timers \subseteq Entries
      /\ handling \in [calling : BOOLEAN, at : Nat, expired : SUBSET Entries,
                       left : SUBSET Entries]
      /\ activeTimers \subseteq TimerIds
  BY DEF TimerInv, TimerTypes
<1>4. timer \in Timers /\ timer.sequence = Len(status) + 1 /\ Len(status) \in Nat
  BY <1>2, <1>3, TimerAssumption
     DEF T!NewTimer, T!Delays, T!Intervals, Timers
<1>5. PICK calls \in Seq(TimerCalls) : calls = queued
  BY <1>3
<1>6. "created" \in TimerStates
  BY DEF TimerStates
<1>7. /\ heap' = [heap EXCEPT ![a] = timer]
      /\ handling' = handling /\ cancelingTimers' = cancelingTimers
      /\ now' = now /\ queued' = Append(calls, <<"add", a>>)
      /\ timers' = timers /\ activeTimers' = activeTimers /\ armed' = armed
  BY <1>1, <1>2, <1>5
<1>8. Made(a, timer, "created", calls)
  <2>1. CallsSound(calls)
    BY <1>5 DEF TimerInv
  <2>2. Makes(a, timer, "created") /\ ~ Alive(a)
    BY <1>1, <1>7 DEF Makes
  <2> QED
    BY <1>4, <1>5, <1>6, <2>1, <2>2, MakeTimer
<1> USE <1>8 DEF Made
<1>9. /\ queued' \in Seq(TimerCalls) /\ Len(queued') = Len(calls) + 1
      /\ \A n \in 1 .. Len(calls) : queued'[n] = calls[n]
      /\ queued'[Len(calls) + 1] = <<"add", a>>
  <2>1. <<"add", a>> \in TimerCalls
    BY DEF TimerCalls
  <2> QED
    BY <1>7, <2>1, AppendProperties
<1>10. TimerTypes'
  BY <1>3, <1>7, <1>8, <1>9 DEF TimerTypes
<1>11. ActiveSound'
  <2>1. timers' = {<<heap'[t[1]].expiration, t[1]>> : t \in activeTimers'}
    BY <1>7, <1>8 DEF TimerInv, ActiveSound
  <2> QED
    BY <1>7, <1>8, <2>1 DEF TimerInv, ActiveSound, Alive
<1>12. \A e \in handling.expired : IdAt(e[2])' = IdAt(e[2])
  BY <1>8 DEF IdAt
<1>13. ExpiredSound'
  BY <1>7, <1>8, <1>12 DEF TimerInv, ExpiredSound, Alive
<1>14. WaitingFound'
  <2> SUFFICES ASSUME NEW s \in DOMAIN status', status'[s] = "waiting"
               PROVE  \/ \E b \in Addresses : <<b, s>> \in activeTimers'
                      \/ WaitsAgain(s)'
    BY DEF WaitingFound
  <2>1. s \in DOMAIN status /\ status[s] = "waiting"
    BY <1>8
  <2>2. \/ \E b \in Addresses : <<b, s>> \in activeTimers
        \/ WaitsAgain(s)
    BY <2>1 DEF TimerInv, WaitingFound
  <2>3. WaitsAgain(s) => WaitsAgain(s)'
    BY <1>7, <1>8, <1>12 DEF WaitsAgain
  <2> QED
    BY <1>7, <2>2, <2>3
<1>15. CallsSound(queued)'
  <2>1. DOMAIN queued' = DOMAIN calls \cup {Len(calls) + 1}
        /\ DOMAIN calls = 1 .. Len(calls)
    BY <1>5, <1>9
  <2>2. /\ Alive(a)' /\ status'[heap'[a].sequence] = "created"
    BY <1>4, <1>8
  <2> QED
    BY <1>8, <1>9, <2>1, <2>2 DEF CallsSound
<1>16. FiresInTime'
  BY <1>7 DEF TimerInv, FiresInTime
<1> QED
  BY <1>8, <1>10, <1>11, <1>13, <1>14, <1>15, <1>16 DEF TimerInv

(* cancel on another thread keeps the invariant of the timers.             *)
LEMMA QueueCancelKeeps ==
  ASSUME TimerInv, T!QueueCancel
  PROVE  TimerInv'
<1>1. PICK id \in T!Ids : queued' = Append(queued, <<"cancel", id>>)
  BY DEF T!QueueCancel
<1>2. UNCHANGED <<now, heap, created, status, timers, activeTimers,
                  cancelingTimers, handling, armed>>
  BY DEF T!QueueCancel
<1>3. id \in TimerIds /\ IsId(id)
  BY <1>1, IdsAreIds
<1>4. queued \in Seq(TimerCalls) /\ <<"cancel", id>> \in TimerCalls
  BY <1>3 DEF TimerInv, TimerTypes, TimerCalls
<1>5. /\ queued' \in Seq(TimerCalls) /\ Len(queued') = Len(queued) + 1
      /\ \A n \in 1 .. Len(queued) : queued'[n] = queued[n]
      /\ queued'[Len(queued) + 1] = <<"cancel", id>>
  BY <1>1, <1>4, AppendProperties
<1>6. TimerTypes'
  BY <1>2, <1>5 DEF TimerInv, TimerTypes
<1>7. HeapSound' /\ ActiveSound' /\ AgainWaits' /\ FiresInTime'
  BY <1>2 DEF TimerInv, HeapSound, ActiveSound, AgainWaits, FiresInTime, Alive,
              IsId, IdAt
<1>8. ExpiredSound' /\ WaitingFound'
  BY <1>2 DEF TimerInv, ExpiredSound, WaitingFound, WaitsAgain, Alive, IdAt
<1>9. CallsSound(queued)'
  <2>1. DOMAIN queued' = DOMAIN queued \cup {Len(queued) + 1}
        /\ DOMAIN queued = 1 .. Len(queued)
    BY <1>4, <1>5
  <2>2. CallsSound(queued)
    BY DEF TimerInv
  <2> QED
    BY <1>2, <1>3, <1>5, <2>1, <2>2 DEF CallsSound, Alive, IsId
<1> QED
  BY <1>6, <1>7, <1>8, <1>9 DEF TimerInv

(* What is known of the timers of the heap, of a set and of a call.        *)
LEMMA AliveKnown ==
  ASSUME TimerInv
  PROVE  /\ \A a \in Addresses :
              Alive(a) => heap[a].sequence \in DOMAIN status
                          /\ created[heap[a].sequence] = a
         /\ \A t \in activeTimers :
              /\ t = <<t[1], t[2]>> /\ t[1] \in Addresses /\ Alive(t[1])
              /\ IdAt(t[1]) = t /\ heap[t[1]].sequence = t[2]
              /\ t[2] \in DOMAIN status /\ status[t[2]] = "waiting"
         /\ \A e \in handling.expired :
              /\ e = <<e[1], e[2]>> /\ e[2] \in Addresses /\ Alive(e[2])
              /\ e[1] = heap[e[2]].expiration
              /\ heap[e[2]].sequence \in DOMAIN status
              /\ created[heap[e[2]].sequence] = e[2]
<1>1. \A a \in Addresses :
        Alive(a) => heap[a].sequence \in DOMAIN status
                    /\ created[heap[a].sequence] = a
  BY DEF TimerInv, HeapSound, IsId, IdAt
<1>2. \A t \in activeTimers :
        /\ t = <<t[1], t[2]>> /\ t[1] \in Addresses /\ Alive(t[1])
        /\ heap[t[1]].sequence = t[2] /\ status[t[2]] = "waiting"
  BY DEF TimerInv, TimerTypes, ActiveSound, TimerIds
<1>3. \A t \in activeTimers : IdAt(t[1]) = t /\ t[2] \in DOMAIN status
  BY <1>1, <1>2 DEF IdAt
<1>4. \A e \in handling.expired :
        /\ e = <<e[1], e[2]>> /\ e[2] \in Addresses /\ Alive(e[2])
        /\ e[1] = heap[e[2]].expiration
  BY DEF TimerInv, TimerTypes, ExpiredSound, Entries
<1> QED
  BY <1>1, <1>2, <1>3, <1>4

(* A call that was queued keeps the invariant of the timers.               *)
LEMMA RunQueuedKeeps ==
  ASSUME TimerInv, T!RunQueued
  PROVE  TimerInv'
<1>1. /\ ~handling.calling /\ queued # <<>> /\ queued' = Tail(queued)
      /\ UNCHANGED <<now, created, handling>>
  BY DEF T!RunQueued
<1>2. /\ queued \in Seq(TimerCalls) /\ CallsSound(queued)
      /\ heap \in [Addresses -> Timers] /\ status \in Seq(TimerStates)
  BY DEF TimerInv, TimerTypes
<1>3. PICK call \in TimerCalls, calls \in Seq(TimerCalls) :
        call = Head(queued) /\ calls = Tail(queued)
  BY <1>1, <1>2
<1>4. /\ DOMAIN queued = 1 .. Len(queued) /\ Len(queued) \in Nat
      /\ 1 \in DOMAIN queued /\ queued[1] = call
      /\ \A k \in DOMAIN calls : k \in Nat /\ k + 1 \in DOMAIN queued
                                 /\ calls[k] = queued[k + 1]
  BY <1>1, <1>2, <1>3
<1>5. CallsSound(calls)
  BY <1>2, <1>4 DEF CallsSound
<1>6. \A k \in DOMAIN calls : call[1] = "add" /\ calls[k][1] = "add" =>
                                calls[k][2] # call[2]
  BY <1>2, <1>4 DEF CallsSound
<1>7. queued' = calls
  BY <1>1, <1>3
<1>8. CASE call[1] = "cancel"
  <2>1. T!CancelInLoop(call[2]) /\ UNCHANGED armed
    BY <1>3, <1>8 DEF T!RunQueued
  <2>2. PICK id \in TimerIds : id = call[2]
    BY <1>8 DEF TimerCalls
  <2>3. IsId(id) /\ T!CancelInLoop(id)
    BY <1>2, <1>4, <1>8, <2>1, <2>2 DEF CallsSound
  <2>4. /\ HeapSound' /\ ActiveSound' /\ ExpiredSound' /\ AgainWaits'
        /\ WaitingFound' /\ CallsSound(calls)'
        /\ timers' \subseteq timers
    BY <1>1, <1>5, <2>3, CancelKeeps
  <2>5. TimerTypes' /\ FiresInTime'
    BY <1>1, <1>7, <2>1, <2>3, <2>4, CancelTypes
  <2>6. CallsSound(queued)'
    BY <1>7, <2>4
  <2> QED
    BY <2>4, <2>5, <2>6 DEF TimerInv
<1>9. CASE call[1] = "add"
  <2>1. /\ T!AddTimerInLoop(call[2], heap[call[2]])
        /\ status' = T!Becomes(heap[call[2]], "waiting")
        /\ UNCHANGED <<heap, cancelingTimers>>
    BY <1>3, <1>9 DEF T!RunQueued
  <2>2. PICK a \in Addresses : a = call[2]
    BY <1>9 DEF TimerCalls
  <2>3. PICK timer \in Timers : timer = heap[a]
    BY <1>2
  <2>4. Alive(a) /\ status[timer.sequence] = "created"
    BY <1>2, <1>4, <1>9, <2>2, <2>3 DEF CallsSound
  <2>5. /\ timer.sequence \in DOMAIN status /\ created[timer.sequence] = a
        /\ timer.sequence \in Nat /\ timer.sequence # 0
    <3>1. timer.sequence \in DOMAIN status /\ created[timer.sequence] = a
      BY <2>3, <2>4, AliveKnown
    <3> QED
      BY <1>2, <3>1
  <2>6. /\ status' = [status EXCEPT ![timer.sequence] = "waiting"]
        /\ heap' = heap /\ T!AddTimerInLoop(a, timer)
    BY <2>1, <2>2, <2>3 DEF T!Becomes
  <2>7. /\ status' \in Seq(TimerStates) /\ DOMAIN status' = DOMAIN status
        /\ Len(status') = Len(status)
        /\ \A n \in DOMAIN status :
             status'[n] = IF n = timer.sequence THEN "waiting" ELSE status[n]
    <3>1. "waiting" \in TimerStates
      BY DEF TimerStates
    <3> QED
      BY <1>2, <2>5, <2>6, <3>1
  <2>8. \A t \in activeTimers : /\ t[1] # a /\ heap'[t[1]] = heap[t[1]]
                                /\ status'[t[2]] = "waiting"
    BY <2>3, <2>4, <2>6, <2>7, AliveKnown
  <2>9. /\ heap'[a] = timer /\ status'[timer.sequence] = "waiting"
        /\ handling' = handling
    BY <1>1, <2>3, <2>5, <2>6, <2>7
  <2>10. /\ ActiveSound' /\ FiresInTime'
         /\ timers' \subseteq Entries /\ activeTimers' \subseteq TimerIds
         /\ activeTimers' = activeTimers \cup {<<a, timer.sequence>>}
         /\ armed' \in Nat
    BY <2>5, <2>6, <2>8, <2>9, InsertTimer
  <2>11. TimerTypes'
    BY <1>1, <1>7, <2>6, <2>7, <2>10 DEF TimerInv, TimerTypes
  <2>12. handling' = handling /\ handling.expired = {} /\ handling.left = {}
    BY <1>1 DEF TimerInv, ExpiredSound
  <2>13. HeapSound'
    BY <1>1, <2>6, <2>7 DEF TimerInv, HeapSound, IsId, IdAt, Alive
  <2>14. ExpiredSound' /\ AgainWaits'
    BY <2>12 DEF ExpiredSound, AgainWaits
  <2>15. WaitingFound'
    <3>1. \A s \in DOMAIN status : ~ WaitsAgain(s)
      BY <2>12 DEF WaitsAgain
    <3>2. \A s \in DOMAIN status :
            status[s] = "waiting" =>
              \E b \in Addresses : <<b, s>> \in activeTimers
      BY <3>1 DEF TimerInv, WaitingFound
    <3> QED
      BY <2>7, <2>10, <3>2 DEF WaitingFound
  <2>16. CallsSound(calls)'
    <3>1. \A k \in DOMAIN calls : calls[k] \in TimerCalls
      OBVIOUS
    <3>2. ASSUME NEW k \in DOMAIN calls, calls[k][1] = "add"
          PROVE  /\ Alive(calls[k][2])'
                 /\ status'[heap'[calls[k][2]].sequence] = "created"
      <4>1. /\ Alive(calls[k][2]) /\ calls[k][2] # a
            /\ status[heap[calls[k][2]].sequence] = "created"
        BY <1>5, <1>6, <1>9, <2>2, <3>2 DEF CallsSound
      <4>2. calls[k][2] \in Addresses
        BY <3>1, <3>2 DEF TimerCalls
      <4>3. /\ heap[calls[k][2]].sequence \in DOMAIN status
            /\ heap[calls[k][2]].sequence # timer.sequence
        BY <2>5, <4>1, <4>2, AliveKnown
      <4> QED
        BY <2>6, <2>7, <4>1, <4>3 DEF Alive
    <3>3. \A k \in DOMAIN calls : calls[k][1] = "cancel" => IsId(calls[k][2])'
      BY <1>1, <1>5, <2>7 DEF CallsSound, IsId
    <3> QED
      BY <1>5, <3>2, <3>3 DEF CallsSound
  <2>17. CallsSound(queued)'
    BY <1>7, <2>16
  <2> QED
    BY <2>10, <2>11, <2>13, <2>14, <2>15, <2>17 DEF TimerInv
<1> QED
  BY <1>3, <1>8, <1>9 DEF TimerCalls

(* handleRead takes the expired timers out of both sets.                   *)
LEMMA HandleReadKeeps ==
  ASSUME TimerInv, T!HandleRead
  PROVE  TimerInv'
<1> DEFINE gone == {e \in timers : e[1] <= now}
           ids == {<<e[2], heap[e[2]].sequence>> : e \in gone}
<1>1. /\ ~handling.calling /\ armed' = T!Never
      /\ handling' = [calling |-> TRUE, at |-> now, expired |-> gone,
                      left |-> gone]
      /\ timers' = timers \ gone /\ activeTimers' = activeTimers \ ids
      /\ cancelingTimers' = {}
      /\ UNCHANGED <<now, heap, created, status, queued>>
  BY DEF T!HandleRead
<1>2. /\ handling'.calling /\ handling'.at = now
      /\ handling'.expired = gone /\ handling'.left = gone
  BY <1>1
<1>3. /\ timers = {<<heap[t[1]].expiration, t[1]>> : t \in activeTimers}
      /\ timers \subseteq Entries /\ activeTimers \subseteq TimerIds
      /\ now \in Nat /\ gone \subseteq timers
  BY DEF TimerInv, TimerTypes, ActiveSound
<1>4. \A e \in timers :
        /\ e[2] \in Addresses /\ Alive(e[2]) /\ e[1] = heap[e[2]].expiration
        /\ e = <<e[1], e[2]>> /\ IdAt(e[2]) \in activeTimers
        /\ status[heap[e[2]].sequence] = "waiting"
  BY <1>3, AliveKnown
<1>5. \A t \in activeTimers : t \notin ids =>
        <<heap[t[1]].expiration, t[1]>> \notin gone
  BY AliveKnown DEF IdAt
<1>6. \A e \in timers : e \notin gone => IdAt(e[2]) \notin ids
  <2> SUFFICES ASSUME NEW e \in timers, NEW x \in gone,
                      IdAt(e[2]) = IdAt(x[2])
               PROVE  e \in gone
    BY DEF IdAt
  <2>1. e[2] = x[2]
    BY DEF IdAt
  <2>2. x \in timers
    BY <1>3
  <2> QED
    BY <1>4, <2>1, <2>2
<1>7. HeapSound' /\ CallsSound(queued)'
  BY <1>1 DEF TimerInv, HeapSound, CallsSound, Alive, IsId, IdAt
<1>8. ActiveSound'
  <2>1. \A e \in timers' : \E t \in activeTimers' :
          e = <<heap[t[1]].expiration, t[1]>>
    <3> SUFFICES ASSUME NEW e \in timers, e \notin gone
                 PROVE  \E t \in activeTimers' :
                          e = <<heap[t[1]].expiration, t[1]>>
      BY <1>1
    <3>1. IdAt(e[2]) \in activeTimers'
      BY <1>1, <1>4, <1>6
    <3>2. e = <<heap[IdAt(e[2])[1]].expiration, IdAt(e[2])[1]>>
      BY <1>4 DEF IdAt
    <3> QED
      BY <3>1, <3>2
  <2>2. \A t \in activeTimers' : <<heap[t[1]].expiration, t[1]>> \in timers'
    BY <1>1, <1>3, <1>5
  <2>3. timers' = {<<heap[t[1]].expiration, t[1]>> : t \in activeTimers'}
    <3> HIDE DEF gone, ids
    <3> QED
      BY <2>1, <2>2
  <2>4. heap' = heap /\ status' = status /\ activeTimers' \subseteq activeTimers
    BY <1>1
  <2> QED
    BY <2>3, <2>4 DEF TimerInv, ActiveSound, Alive
<1>9. ExpiredSound'
  <2>1. \A e \in gone : IdAt(e[2]) \in ids
    BY DEF IdAt
  <2>2. \A e \in gone : IdAt(e[2]) \notin activeTimers'
    BY <1>1, <2>1
  <2>3. heap' = heap /\ status' = status
    BY <1>1
  <2> HIDE DEF gone, ids
  <2> QED
    BY <1>2, <1>3, <1>4, <2>2, <2>3 DEF ExpiredSound, Alive, IdAt
<1>10. AgainWaits'
  <2> HIDE DEF gone, ids
  <2> QED
    BY <1>1, <1>2, <1>3, <1>4 DEF AgainWaits
<1>11. WaitingFound'
  <2> SUFFICES ASSUME NEW s \in DOMAIN status, status[s] = "waiting"
               PROVE  \/ \E b \in Addresses : <<b, s>> \in activeTimers'
                      \/ WaitsAgain(s)'
    BY <1>1 DEF WaitingFound
  <2>1. ~ WaitsAgain(s)
    BY <1>1 DEF TimerInv, ExpiredSound, WaitsAgain
  <2>2. PICK b \in Addresses : <<b, s>> \in activeTimers
    BY <2>1 DEF TimerInv, WaitingFound
  <2>3. CASE <<b, s>> \in ids
    <3>1. PICK e \in gone : <<b, s>> = <<e[2], heap[e[2]].sequence>>
      BY <2>3
    <3>2. WaitsAgain(s)'
      BY <1>1, <1>2, <3>1 DEF WaitsAgain
    <3> QED
      BY <3>2
  <2> QED
    BY <1>1, <2>2, <2>3
<1>12. FiresInTime'
  BY <1>2 DEF FiresInTime
<1>13. TimerTypes'
  <2>1. T!Never \in Nat
    BY TimerAssumption DEF T!Never
  <2>2. gone \in SUBSET Entries
    BY <1>3
  <2>3. handling' \in [calling : BOOLEAN, at : Nat, expired : SUBSET Entries,
                       left : SUBSET Entries]
    BY <1>1, <1>3, <2>2
  <2> QED
    BY <1>1, <1>3, <2>1, <2>3 DEF TimerInv, TimerTypes
<1> QED
  BY <1>7, <1>8, <1>9, <1>10, <1>11, <1>12, <1>13 DEF TimerInv

(* A timer that does not repeat is over when it is called back.            *)
LEMMA RunCallbackKeeps ==
  ASSUME TimerInv, T!RunCallback
  PROVE  TimerInv'
<1>1. PICK e \in handling.left :
        /\ handling' = [handling EXCEPT !.left = @ \ {e}]
        /\ status' = IF /\ heap[e[2]].interval = 0
                        /\ status[heap[e[2]].sequence] = "waiting"
                     THEN T!Becomes(heap[e[2]], "done") ELSE status
        /\ UNCHANGED <<now, heap, created, timers, activeTimers,
                       cancelingTimers, armed, queued>>
  BY DEF T!RunCallback
<1>2. /\ handling \in [calling : BOOLEAN, at : Nat, expired : SUBSET Entries,
                       left : SUBSET Entries]
      /\ status \in Seq(TimerStates) /\ e \in handling.expired
      /\ handling.calling
  BY <1>1 DEF TimerInv, TimerTypes, ExpiredSound
<1>3. /\ handling'.expired = handling.expired
      /\ handling'.left = handling.left \ {e}
      /\ handling'.calling = handling.calling
      /\ handling' \in [calling : BOOLEAN, at : Nat, expired : SUBSET Entries,
                        left : SUBSET Entries]
  BY <1>1, <1>2
<1>4. PICK n \in DOMAIN status : n = heap[e[2]].sequence
  BY <1>2, AliveKnown
<1>5. status' = IF heap[e[2]].interval = 0 /\ status[n] = "waiting"
                THEN [status EXCEPT ![n] = "done"] ELSE status
  BY <1>1, <1>4 DEF T!Becomes
<1>6. /\ status' \in Seq(TimerStates) /\ DOMAIN status' = DOMAIN status
      /\ Len(status') = Len(status)
      /\ \A k \in DOMAIN status : k # n => status'[k] = status[k]
      /\ status'[n] = IF heap[e[2]].interval = 0 /\ status[n] = "waiting"
                      THEN "done" ELSE status[n]
  <2>1. "done" \in TimerStates
    BY DEF TimerStates
  <2> QED
    BY <1>2, <1>5, <2>1
<1>7. \A a \in Addresses : Alive(a) /\ heap[a].sequence = n => a = e[2]
  BY <1>2, <1>4, AliveKnown
<1>8. /\ heap' = heap /\ created' = created /\ timers' = timers
      /\ activeTimers' = activeTimers /\ cancelingTimers' = cancelingTimers
      /\ queued' = queued /\ now' = now /\ armed' = armed
  BY <1>1
<1>9. TimerTypes'
  BY <1>3, <1>6, <1>8 DEF TimerInv, TimerTypes
<1>10. HeapSound'
  BY <1>6, <1>8 DEF TimerInv, HeapSound, Alive, IsId, IdAt
<1>11. ActiveSound'
  <2>1. IdAt(e[2]) \notin activeTimers
    BY <1>2 DEF TimerInv, ExpiredSound
  <2>2. \A t \in activeTimers : t[2] # n
    BY <1>7, <2>1, AliveKnown
  <2>3. \A t \in activeTimers : status'[t[2]] = "waiting"
    BY <1>6, <2>2, AliveKnown
  <2> QED
    BY <1>8, <2>3 DEF TimerInv, ActiveSound, Alive
<1>12. ExpiredSound'
  <2>1. \A k \in DOMAIN status : status[k] # "created" => status'[k] # "created"
    BY <1>6
  <2>2. \A x \in handling.expired :
          /\ Alive(x[2]) /\ x[1] = heap[x[2]].expiration
          /\ IdAt(x[2]) \notin activeTimers
          /\ status'[heap[x[2]].sequence] # "created"
    BY <2>1, AliveKnown DEF TimerInv, ExpiredSound
  <2>3. handling'.left \subseteq handling'.expired /\ handling'.calling
    BY <1>2, <1>3 DEF TimerInv, ExpiredSound
  <2> QED
    BY <1>3, <1>8, <2>2, <2>3 DEF ExpiredSound, Alive, IdAt
<1>13. AgainWaits'
  <2> SUFFICES ASSUME NEW x \in handling.expired, heap[x[2]].interval > 0,
                      IdAt(x[2]) \notin cancelingTimers
               PROVE  status'[heap[x[2]].sequence] = "waiting"
    BY <1>3, <1>8 DEF AgainWaits, IdAt
  <2>1. status[heap[x[2]].sequence] = "waiting"
    BY DEF TimerInv, AgainWaits
  <2>2. heap[x[2]].sequence = n => heap[e[2]].interval # 0
    BY <1>7, AliveKnown
  <2> QED
    BY <1>6, <2>1, <2>2, AliveKnown
<1>14. WaitingFound'
  <2> SUFFICES ASSUME NEW s \in DOMAIN status, status'[s] = "waiting"
               PROVE  \/ \E b \in Addresses : <<b, s>> \in activeTimers
                      \/ WaitsAgain(s)'
    BY <1>6, <1>8 DEF WaitingFound
  <2>1. status[s] = "waiting"
    BY <1>6
  <2>2. CASE WaitsAgain(s)
    <3>1. PICK x \in handling.expired :
            /\ heap[x[2]].sequence = s /\ IdAt(x[2]) \notin cancelingTimers
            /\ heap[x[2]].interval > 0 \/ x \in handling.left
      BY <2>2 DEF WaitsAgain
    <3>2. heap[x[2]].interval > 0 \/ x # e
      <4>1. x = e => heap[e[2]].interval # 0
        BY <1>4, <1>6, <2>1, <3>1
      <4>2. heap[x[2]].interval \in Nat
        BY AliveKnown DEF TimerInv, TimerTypes, Timers
      <4> QED
        BY <4>1, <4>2
    <3>3. WaitsAgain(s)'
      BY <1>3, <1>8, <3>1, <3>2 DEF WaitsAgain, IdAt
    <3> QED
      BY <3>3
  <2> QED
    BY <2>1, <2>2 DEF TimerInv, WaitingFound
<1>15. CallsSound(queued)'
  <2>1. \A k \in DOMAIN status : status[k] = "created" => status'[k] = "created"
    BY <1>6
  <2>2. \A k \in DOMAIN queued : queued[k] \in TimerCalls
    BY DEF TimerInv, TimerTypes
  <2>3. \A k \in DOMAIN queued : queued[k][1] = "add" => queued[k][2] \in Addresses
    BY <2>2 DEF TimerCalls
  <2>4. CallsSound(queued)
    BY DEF TimerInv
  <2>5. \A k \in DOMAIN queued : queued[k][1] = "add" =>
          status'[heap[queued[k][2]].sequence] = "created"
    BY <2>1, <2>3, <2>4, AliveKnown DEF CallsSound
  <2> QED
    BY <1>6, <1>8, <2>4, <2>5 DEF CallsSound, IsId, Alive
<1>16. FiresInTime'
  BY <1>2, <1>3 DEF FiresInTime
<1> QED
  BY <1>9, <1>10, <1>11, <1>12, <1>13, <1>14, <1>15, <1>16 DEF TimerInv

(* reset enters again the timers that repeat and deletes the others.       *)
LEMMA ResetKeeps ==
  ASSUME TimerInv, T!Reset
  PROVE  TimerInv'
<1> DEFINE R(a) == heap[a].interval > 0 /\ IdAt(a) \notin cancelingTimers
           called == {e[2] : e \in handling.expired}
           again == {a \in called : R(a)}
<1>1. /\ handling.calling /\ handling.left = {} /\ handling' = T!Idle
      /\ heap' = [a \in Addresses |->
                    IF a \in called \ again THEN T!None
                    ELSE IF a \in again
                    THEN [heap[a] EXCEPT !.expiration =
                                           handling.at + heap[a].interval]
                    ELSE heap[a]]
      /\ timers' = timers \cup {<<heap'[a].expiration, a>> : a \in again}
      /\ activeTimers' = activeTimers \cup {IdAt(a) : a \in again}
      /\ armed' = IF timers' = {} THEN armed ELSE T!EarliestOf(timers')
      /\ UNCHANGED <<now, created, status, cancelingTimers, queued>>
  <2> DEFINE Again(e) == /\ heap[e[2]].interval > 0
                         /\ <<e[2], heap[e[2]].sequence>> \notin cancelingTimers
             those == {e[2] : e \in {x \in handling.expired : Again(x)}}
  <2>1. those = again
    BY DEF IdAt
  <2> HIDE DEF again, called
  <2> QED
    BY <2>1 DEF T!Reset, IdAt, called
<1>2. /\ heap \in [Addresses -> Timers] /\ status \in Seq(TimerStates)
      /\ handling.at \in Nat /\ armed \in Nat /\ timers \subseteq Entries
      /\ activeTimers \subseteq TimerIds /\ now \in Nat
      /\ timers = {<<heap[t[1]].expiration, t[1]>> : t \in activeTimers}
  BY DEF TimerInv, TimerTypes, ActiveSound
<1>3. \A a \in called : /\ a \in Addresses /\ Alive(a)
                        /\ heap[a].sequence \in DOMAIN status
                        /\ status[heap[a].sequence] # "created"
                        /\ IdAt(a) \notin activeTimers
  BY AliveKnown DEF TimerInv, ExpiredSound
<1>4. \A a \in again : /\ a \in called /\ status[heap[a].sequence] = "waiting"
                       /\ R(a)
  BY DEF TimerInv, AgainWaits
<1>5. handling'.expired = {} /\ handling'.left = {} /\ ~ handling'.calling
      /\ handling'.at = 0
  BY <1>1 DEF T!Idle
<1> HIDE DEF again, called
<1>6. /\ \A a \in Addresses : a \notin called => heap'[a] = heap[a]
      /\ \A a \in called : a \notin again => heap'[a] = T!None
      /\ \A a \in again : /\ heap'[a] \in Timers
                          /\ heap'[a].sequence = heap[a].sequence
                          /\ heap'[a].expiration \in Nat
  <2>1. \A a \in again :
          heap'[a] = [heap[a] EXCEPT !.expiration =
                                       handling.at + heap[a].interval]
    BY <1>1, <1>3, <1>4
  <2>2. \A a \in again : heap[a] \in Timers
    BY <1>2, <1>3, <1>4
  <2>3. \A a \in again : handling.at + heap[a].interval \in Nat
    BY <1>2, <2>2 DEF Timers
  <2>4. \A a \in again : /\ heap'[a] \in Timers
                         /\ heap'[a].sequence = heap[a].sequence
                         /\ heap'[a].expiration \in Nat
    BY <2>1, <2>2, <2>3 DEF Timers
  <2> QED
    BY <1>1, <1>3, <1>4, <2>4
<1>7. heap' \in [Addresses -> Timers]
  <2>1. T!None \in Timers
    BY DEF T!None, Timers
  <2>2. \A a \in Addresses : heap'[a] \in Timers
    BY <1>2, <1>6, <2>1
  <2>3. heap' = [a \in Addresses |-> heap'[a]]
    BY <1>1
  <2> QED
    BY <2>2, <2>3
<1>8. \A a \in Addresses : Alive(a)' => /\ Alive(a)
                                        /\ heap'[a].sequence = heap[a].sequence
  BY <1>3, <1>4, <1>6 DEF Alive
<1>9. \A t \in activeTimers : t[1] \in Addresses /\ t[1] \notin called
                              /\ heap'[t[1]] = heap[t[1]]
  BY <1>3, <1>6, AliveKnown
<1>10. \A a \in again : /\ a \in Addresses /\ IdAt(a) \in TimerIds
                        /\ IdAt(a) = <<a, heap[a].sequence>>
  <2>1. \A a \in again : a \in Addresses /\ heap[a] \in Timers
    BY <1>2, <1>3, <1>4
  <2>2. \A a \in again : heap[a].sequence \in Nat
    BY <2>1 DEF Timers
  <2> QED
    BY <2>1, <2>2 DEF IdAt, TimerIds
<1>11. timers' \subseteq Entries /\ activeTimers' \subseteq TimerIds
  <2>1. \A a \in again : <<heap'[a].expiration, a>> \in Entries
    BY <1>6, <1>10 DEF Entries
  <2>2. /\ timers' = timers \cup {<<heap'[a].expiration, a>> : a \in again}
        /\ activeTimers' = activeTimers \cup {IdAt(a) : a \in again}
    BY <1>1
  <2> QED
    BY <1>2, <1>10, <2>1, <2>2
<1>12. armed' \in Nat /\ \A e \in timers' : armed' <= e[1]
  <2>1. PICK F : F = timers'
    OBVIOUS
  <2>2. CASE F = {}
    BY <1>1, <1>2, <2>1, <2>2
  <2>3. CASE F # {}
    <3>1. F \subseteq Entries
      BY <1>11, <2>1
    <3>2. T!EarliestOf(F) \in Nat /\ \A e \in F : T!EarliestOf(F) <= e[1]
      BY <2>3, <3>1, EarliestIsLeast
    <3>3. armed' = T!EarliestOf(F)
      BY <1>1, <2>1, <2>3 DEF T!EarliestOf
    <3> QED
      BY <2>1, <3>2, <3>3
  <2> QED
    BY <2>2, <2>3
<1>13. TimerTypes'
  <2>1. T!Idle \in [calling : BOOLEAN, at : Nat, expired : SUBSET Entries,
                    left : SUBSET Entries]
    BY DEF T!Idle
  <2> QED
    BY <1>1, <1>7, <1>11, <1>12, <2>1 DEF TimerInv, TimerTypes
<1>14. HeapSound'
  BY <1>1, <1>8, AliveKnown DEF HeapSound, IsId, IdAt
<1>15. ActiveSound'
  <2>1. timers = {<<heap'[t[1]].expiration, t[1]>> : t \in activeTimers}
    BY <1>2, <1>9
  <2>2. timers' = {<<heap'[t[1]].expiration, t[1]>> : t \in activeTimers'}
    <3>1. \A a \in again : IdAt(a)[1] = a
      BY DEF IdAt
    <3>2. {<<heap'[a].expiration, a>> : a \in again}
            = {<<heap'[t[1]].expiration, t[1]>> : t \in {IdAt(a) : a \in again}}
      BY <3>1
    <3> QED
      BY <1>1, <2>1, <3>2
  <2>3. \A t \in activeTimers :
          Alive(t[1])' /\ heap'[t[1]].sequence = t[2] /\ status[t[2]] = "waiting"
    BY <1>9, AliveKnown DEF Alive
  <2>4. \A a \in again : /\ Alive(a)' /\ IdAt(a)[1] = a
                         /\ heap'[a].sequence = IdAt(a)[2]
                         /\ status[IdAt(a)[2]] = "waiting"
    <3>1. \A a \in again : heap[a].sequence # 0
      BY <1>2, <1>3, <1>4
    <3>2. \A a \in again : Alive(a)'
      BY <1>6, <3>1 DEF Alive, T!None
    <3> QED
      BY <1>4, <1>6, <3>2 DEF IdAt
  <2>5. \A t \in activeTimers' :
          /\ Alive(t[1])' /\ heap'[t[1]].sequence = t[2]
          /\ status[t[2]] = "waiting"
    <3>1. activeTimers' = activeTimers \cup {IdAt(a) : a \in again}
      BY <1>1
    <3> QED
      BY <2>3, <2>4, <3>1
  <2> QED
    BY <1>1, <2>2, <2>5 DEF ActiveSound
<1>16. ExpiredSound' /\ AgainWaits'
  BY <1>5 DEF ExpiredSound, AgainWaits
<1>17. WaitingFound'
  <2> SUFFICES ASSUME NEW s \in DOMAIN status, status[s] = "waiting"
               PROVE  \E b \in Addresses : <<b, s>> \in activeTimers'
    BY <1>1 DEF WaitingFound
  <2>1. CASE \E b \in Addresses : <<b, s>> \in activeTimers
    BY <1>1, <2>1
  <2>2. CASE WaitsAgain(s)
    <3>1. PICK e \in handling.expired :
            /\ heap[e[2]].sequence = s /\ IdAt(e[2]) \notin cancelingTimers
            /\ heap[e[2]].interval > 0
      BY <1>1, <2>2 DEF WaitsAgain
    <3>2. e[2] \in again
      BY <3>1 DEF again, called
    <3>3. <<e[2], s>> \in activeTimers' /\ e[2] \in Addresses
      BY <1>1, <1>10, <3>1, <3>2
    <3> QED
      BY <3>3
  <2> QED
    BY <2>1, <2>2 DEF TimerInv, WaitingFound
<1>18. CallsSound(queued)'
  <2>1. \A k \in DOMAIN queued : queued[k] \in TimerCalls
    BY DEF TimerInv, TimerTypes
  <2>2. \A k \in DOMAIN queued : queued[k][1] = "add" => queued[k][2] \in Addresses
    BY <2>1 DEF TimerCalls
  <2>3. CallsSound(queued)
    BY DEF TimerInv
  <2>4. \A k \in DOMAIN queued : queued[k][1] = "add" =>
          heap'[queued[k][2]] = heap[queued[k][2]]
    BY <1>3, <1>6, <2>2, <2>3 DEF CallsSound
  <2>5. UNCHANGED <<created, status, queued>>
    BY <1>1
  <2> QED
    BY <2>3, <2>4, <2>5 DEF CallsSound, Alive, IsId
<1>19. FiresInTime'
  BY <1>12 DEF FiresInTime
<1> QED
  BY <1>13, <1>14, <1>15, <1>16, <1>17, <1>18, <1>19 DEF TimerInv

(* Time keeps the invariant of the timers.                                 *)
LEMMA TickKeeps ==
  ASSUME TimerInv, T!Tick
  PROVE  TimerInv'
<1>1. /\ now' = now + 1
      /\ UNCHANGED <<heap, created, status, timers, activeTimers,
                     cancelingTimers, handling, armed, queued>>
  BY DEF T!Tick
<1>2. TimerTypes' /\ HeapSound' /\ ActiveSound'
  BY <1>1 DEF TimerInv, TimerTypes, HeapSound, ActiveSound, Alive, IsId, IdAt
<1>3. ExpiredSound' /\ AgainWaits' /\ WaitingFound'
  BY <1>1 DEF TimerInv, ExpiredSound, AgainWaits, WaitingFound, WaitsAgain,
              Alive, IdAt
<1>4. CallsSound(queued)' /\ FiresInTime'
  BY <1>1 DEF TimerInv, CallsSound, FiresInTime, Alive, IsId
<1> QED
  BY <1>2, <1>3, <1>4 DEF TimerInv

(* A new TimerQueue satisfies the invariant of the timers.                 *)
LEMMA TimersStart ==
  ASSUME T!TimerInit
  PROVE  TimerInv
<1> USE DEF T!TimerInit, T!Idle
<1>1. T!None \in Timers /\ T!Never \in Nat
  BY TimerAssumption DEF T!None, T!Never, Timers
<1>2. status = <<>> /\ created = <<>> /\ queued = <<>> /\ DOMAIN status = {}
      /\ DOMAIN queued = {}
  OBVIOUS
<1>3. TimerTypes
  <2>1. handling \in [calling : BOOLEAN, at : Nat, expired : SUBSET Entries,
                      left : SUBSET Entries]
    OBVIOUS
  <2> QED
    BY <1>1, <1>2, <2>1 DEF TimerTypes
<1>4. HeapSound /\ ActiveSound /\ ExpiredSound /\ AgainWaits /\ FiresInTime
  BY DEF HeapSound, ActiveSound, ExpiredSound, AgainWaits, FiresInTime, Alive
<1>5. WaitingFound /\ CallsSound(queued)
  BY <1>2 DEF WaitingFound, CallsSound
<1> QED
  BY <1>3, <1>4, <1>5 DEF TimerInv

(* Each step of the timers keeps their invariant.                          *)
LEMMA TimersStep ==
  TimerInv /\ [T!TimerNext]_timerVars => TimerInv'
<1> SUFFICES ASSUME TimerInv, [T!TimerNext]_timerVars
             PROVE  TimerInv'
  OBVIOUS
<1>1. CASE UNCHANGED timerVars
  <2>1. UNCHANGED <<now, heap, created, status, timers, activeTimers,
                    cancelingTimers, handling, armed, queued>>
    BY <1>1 DEF timerVars
  <2>2. TimerTypes' /\ HeapSound' /\ ActiveSound'
    BY <2>1 DEF TimerInv, TimerTypes, HeapSound, ActiveSound, Alive, IsId, IdAt
  <2>3. ExpiredSound' /\ AgainWaits' /\ WaitingFound'
    BY <2>1 DEF TimerInv, ExpiredSound, AgainWaits, WaitingFound, WaitsAgain,
                Alive, IdAt
  <2>4. CallsSound(queued)' /\ FiresInTime'
    BY <2>1 DEF TimerInv, CallsSound, FiresInTime, Alive, IsId
  <2> QED
    BY <2>2, <2>3, <2>4 DEF TimerInv
<1> QED
  BY <1>1, AddTimerKeeps, CancelActionKeeps, QueueAddTimerKeeps,
     QueueCancelKeeps, RunQueuedKeeps, HandleReadKeeps, RunCallbackKeeps,
     ResetKeeps, TickKeeps DEF T!TimerNext

(* TimerQueue.cc:132-259: whatever the callbacks and the other thread add  *)
(* and cancel, for any number of addresses, timers and queued calls, the   *)
(* two sets hold the timers that wait and the timerfd fires for the first. *)
THEOREM TimersAlwaysExact == Spec => []TimersExact
<1>1. Init => TimerInv
  BY TimersStart DEF Init
<1>2. TimerInv /\ [Next]_vars => TimerInv'
  <2>1. [Next]_vars => [T!TimerNext]_timerVars
    <3>1. Next => [T!TimerNext]_timerVars
      <4> SUFFICES ASSUME Next
                   PROVE  [T!TimerNext]_timerVars
        OBVIOUS
      <4> QED
        BY DEF Next, libraryVars
    <3> QED
      BY <3>1 DEF vars
  <2> QED
    BY <2>1, TimersStep
<1>3. TimerInv => TimersExact
  <2> SUFFICES ASSUME TimerInv
               PROVE  TimersExact
    OBVIOUS
  <2>1. timers # {} /\ ~handling.calling => armed <= T!EarliestOf(timers)
    <3>1. timers \subseteq Entries
      BY DEF TimerInv, TimerTypes
    <3> QED
      BY <3>1, EarliestIsLeast DEF TimerInv, FiresInTime
  <2>2. ~handling.calling => \A s \in DOMAIN status :
          status[s] = "waiting" => \E a \in Addresses : <<a, s>> \in activeTimers
    BY DEF TimerInv, WaitingFound, WaitsAgain, ExpiredSound
  <2> QED
    BY <2>1, <2>2
       DEF TimersExact, T!TimersExact, TimerInv, ActiveSound, ExpiredSound, Alive
<1> QED
  BY <1>1, <1>2, <1>3, PTL DEF Spec

-----------------------------------------------------------------------------
(* The pollers.                                                            *)

PollEntry(fd) == [fd |-> IF events[fd] = {} THEN -fd - 1 ELSE fd,
                  events |-> events[fd]]

PollerTypes ==
  /\ events \in [Fds -> SUBSET P!Kinds]
  /\ index \in [Fds -> {"kNew", "kAdded", "kDeleted"}]
  /\ slot \in [Fds -> Int]
  /\ pollfds \in Seq([fd : Int, events : SUBSET P!Kinds])
  /\ channels \subseteq Fds /\ IsFiniteSet(channels)

(* A channel that is gone wants nothing and has no slot.                   *)
GoneSound == \A fd \in Fds \ channels : events[fd] = {} /\ slot[fd] = -1

(* epoll's list holds the channels that want any events, as kAdded tells.  *)
KernelSound ==
  /\ kernel = {[fd |-> fd, events |-> events[fd]] :
                 fd \in {c \in channels : events[c] # {}}}
  /\ \A fd \in Fds : index[fd] = "kAdded" <=> events[fd] # {}

(* Channels and slots find each other, so that there are equally many.     *)
SlotsSound ==
  /\ \A fd \in channels :
       /\ slot[fd] + 1 \in DOMAIN pollfds
       /\ pollfds[slot[fd] + 1] = PollEntry(fd)
  /\ \A i \in DOMAIN pollfds : \E fd \in channels : slot[fd] + 1 = i
  /\ Cardinality(channels) = Len(pollfds)

PollerInv ==
  PollerTypes /\ GoneSound /\ KernelSound /\ SlotsSound /\ active \subseteq channels

(* A descriptor that is made negative can be told again, and two channels  *)
(* have different slots.                                                   *)
LEMMA SlotsDiffer ==
  ASSUME PollerInv
  PROVE  /\ \A fd \in Fds : fd \in Nat /\ P!Descriptor(PollEntry(fd).fd) = fd
         /\ \A fd, g \in channels : slot[fd] = slot[g] => fd = g
<1>1. \A fd \in Fds : fd \in Nat /\ P!Descriptor(PollEntry(fd).fd) = fd
  BY FdsAssumption DEF P!Descriptor, PollEntry
<1>2. \A fd, g \in channels : slot[fd] = slot[g] => PollEntry(fd) = PollEntry(g)
  BY DEF PollerInv, SlotsSound
<1>3. channels \subseteq Fds
  BY DEF PollerInv, PollerTypes
<1>4. ASSUME NEW fd \in channels, NEW g \in channels, slot[fd] = slot[g]
      PROVE  fd = g
  <2>1. PollEntry(fd).fd = PollEntry(g).fd
    BY <1>2, <1>4
  <2> QED
    BY <1>1, <1>3, <1>4, <2>1
<1> QED
  BY <1>1, <1>4

(* epoll's list after a channel was updated or removed.                    *)
LEMMA KernelUpdated ==
  ASSUME PollerInv, NEW fd \in Fds, NEW es \in SUBSET P!Kinds,
         P!Update(fd, es)
  PROVE  KernelSound' /\ index' \in [Fds -> {"kNew", "kAdded", "kDeleted"}]
<1> DEFINE Entry(g) == [fd |-> g, events |-> events[g]]
           Entry2(g) == [fd |-> g, events |-> events'[g]]
<1>1. /\ es # {} \/ events[fd] # {}
      /\ events' = [events EXCEPT ![fd] = es]
      /\ channels' = channels \cup {fd}
      /\ P!EPollUpdate(fd, es)
  BY DEF P!Update
<1>2. /\ events \in [Fds -> SUBSET P!Kinds] /\ channels \subseteq Fds
      /\ index \in [Fds -> {"kNew", "kAdded", "kDeleted"}]
      /\ kernel = {Entry(g) : g \in {c \in channels : events[c] # {}}}
      /\ \A g \in Fds : index[g] = "kAdded" <=> events[g] # {}
      /\ events[fd] # {} => fd \in channels
  BY DEF PollerInv, PollerTypes, KernelSound, GoneSound
<1>3. /\ events'[fd] = es
      /\ \A g \in Fds : g # fd => events'[g] = events[g]
  BY <1>1, <1>2
<1>4. P!Without(fd) = {Entry(g) : g \in {c \in channels \ {fd} : events[c] # {}}}
  BY <1>2 DEF P!Without
<1>5. P!Without(fd) = {Entry2(g) : g \in {c \in channels \ {fd} : events'[c] # {}}}
  BY <1>2, <1>3, <1>4
<1>6. Entry2(fd) = [fd |-> fd, events |-> es]
  BY <1>3
<1>7. {c \in channels' : events'[c] # {}}
        = {c \in channels \ {fd} : events'[c] # {}}
            \cup (IF es = {} THEN {} ELSE {fd})
  BY <1>1, <1>3
<1>8. kernel' = P!Without(fd) \cup (IF es = {} THEN {} ELSE {Entry2(fd)})
  <2>1. CASE index[fd] # "kAdded"
    <3>1. es # {} /\ events[fd] = {}
      BY <1>1, <1>2, <2>1
    <3>2. kernel' = kernel \cup {Entry2(fd)}
      BY <1>1, <1>6, <2>1 DEF P!EPollUpdate, P!CtlAdd
    <3>3. kernel = P!Without(fd)
      BY <1>2, <1>4, <3>1
    <3> QED
      BY <3>1, <3>2, <3>3
  <2>2. CASE index[fd] = "kAdded" /\ es = {}
    BY <1>1, <2>2 DEF P!EPollUpdate, P!CtlDel
  <2>3. CASE index[fd] = "kAdded" /\ es # {}
    BY <1>1, <1>6, <2>3 DEF P!EPollUpdate, P!CtlMod
  <2> QED
    BY <2>1, <2>2, <2>3
<1>9. kernel' = {Entry2(g) : g \in {c \in channels' : events'[c] # {}}}
  BY <1>5, <1>7, <1>8
<1>10. /\ index' \in [Fds -> {"kNew", "kAdded", "kDeleted"}]
       /\ \A g \in Fds : index'[g] = "kAdded" <=> events'[g] # {}
  <2>1. CASE index[fd] # "kAdded"
    BY <1>1, <1>2, <1>3, <2>1 DEF P!EPollUpdate
  <2>2. CASE index[fd] = "kAdded" /\ es = {}
    BY <1>1, <1>2, <1>3, <2>2 DEF P!EPollUpdate
  <2>3. CASE index[fd] = "kAdded" /\ es # {}
    BY <1>1, <1>2, <1>3, <2>3 DEF P!EPollUpdate
  <2> QED
    BY <2>1, <2>2, <2>3
<1> QED
  BY <1>9, <1>10 DEF KernelSound

(* PollPoller's slots after a channel was updated.                         *)
LEMMA SlotsUpdated ==
  ASSUME PollerInv, NEW fd \in Fds, NEW es \in SUBSET P!Kinds,
         P!Update(fd, es)
  PROVE  /\ SlotsSound' /\ GoneSound' /\ slot' \in [Fds -> Int]
         /\ pollfds' \in Seq([fd : Int, events : SUBSET P!Kinds])
         /\ channels' \subseteq Fds /\ IsFiniteSet(channels')
<1>1. /\ es # {} \/ events[fd] # {}
      /\ events' = [events EXCEPT ![fd] = es]
      /\ channels' = channels \cup {fd}
      /\ P!PollUpdate(fd, es)
  BY DEF P!Update
<1>2. /\ events \in [Fds -> SUBSET P!Kinds] /\ channels \subseteq Fds
      /\ slot \in [Fds -> Int] /\ IsFiniteSet(channels)
      /\ pollfds \in Seq([fd : Int, events : SUBSET P!Kinds])
      /\ \A g \in channels : /\ slot[g] + 1 \in DOMAIN pollfds
                             /\ pollfds[slot[g] + 1] = PollEntry(g)
      /\ \A i \in DOMAIN pollfds : \E g \in channels : slot[g] + 1 = i
      /\ Cardinality(channels) = Len(pollfds)
  BY DEF PollerInv, PollerTypes, SlotsSound
<1>3. /\ events'[fd] = es
      /\ \A g \in Fds : g # fd => /\ events'[g] = events[g]
                                  /\ PollEntry(g)' = PollEntry(g)
  BY <1>1, <1>2 DEF PollEntry
<1>4. fd \in channels <=> ~ (slot[fd] < 0)
  <2>1. fd \in channels => slot[fd] + 1 \in 1 .. Len(pollfds) /\ slot[fd] \in Int
    BY <1>2
  <2>2. fd \notin channels => slot[fd] = -1
    BY DEF PollerInv, GoneSound
  <2> QED
    BY <2>1, <2>2
<1>5. PollEntry(fd)' = [fd |-> IF es = {} THEN -fd - 1 ELSE fd, events |-> es]
  BY <1>3 DEF PollEntry
<1>6. PollEntry(fd)' \in [fd : Int, events : SUBSET P!Kinds]
  BY <1>5, SlotsDiffer
<1>7. channels' \subseteq Fds /\ IsFiniteSet(channels')
  BY <1>1, <1>2, FS_AddElement
<1>8. CASE fd \notin channels
  <2>1. es # {}
    BY <1>1, <1>8 DEF PollerInv, GoneSound
  <2>2. /\ pollfds' = Append(pollfds, PollEntry(fd)')
        /\ slot' = [slot EXCEPT ![fd] = Len(pollfds)]
    BY <1>1, <1>4, <1>5, <1>8, <2>1 DEF P!PollUpdate
  <2>3. PICK entry \in [fd : Int, events : SUBSET P!Kinds] : entry = PollEntry(fd)'
    BY <1>6
  <2>4. /\ pollfds' \in Seq([fd : Int, events : SUBSET P!Kinds])
        /\ Len(pollfds') = Len(pollfds) + 1
        /\ \A i \in 1 .. Len(pollfds) : pollfds'[i] = pollfds[i]
        /\ pollfds'[Len(pollfds) + 1] = entry
    BY <1>2, <2>2, <2>3, AppendProperties
  <2>5. /\ DOMAIN pollfds = 1 .. Len(pollfds) /\ Len(pollfds) \in Nat
        /\ DOMAIN pollfds' = DOMAIN pollfds \cup {Len(pollfds) + 1}
    BY <1>2, <2>4
  <2>6. /\ slot' \in [Fds -> Int] /\ slot'[fd] = Len(pollfds)
        /\ \A g \in Fds : g # fd => slot'[g] = slot[g]
    BY <1>2, <2>2, <2>5
  <2>7. Cardinality(channels') = Len(pollfds')
    BY <1>1, <1>2, <1>8, <2>4, FS_AddElement
  <2>8. \A g \in channels' : /\ slot'[g] + 1 \in DOMAIN pollfds'
                             /\ pollfds'[slot'[g] + 1] = PollEntry(g)'
    <3>1. \A g \in channels : g # fd /\ slot'[g] = slot[g]
                              /\ PollEntry(g)' = PollEntry(g)
      BY <1>2, <1>3, <1>8, <2>6
    <3> QED
      BY <1>1, <1>2, <2>3, <2>4, <2>5, <2>6, <3>1
  <2>9. \A i \in DOMAIN pollfds' : \E g \in channels' : slot'[g] + 1 = i
    BY <1>1, <1>2, <1>8, <2>5, <2>6
  <2>10. SlotsSound'
    BY <2>7, <2>8, <2>9 DEF SlotsSound
  <2>11. GoneSound'
    BY <1>1, <1>3, <2>6 DEF PollerInv, GoneSound
  <2> QED
    BY <1>7, <2>4, <2>6, <2>10, <2>11
<1>9. CASE fd \in channels
  <2>1. pollfds' = [pollfds EXCEPT ![slot[fd] + 1] = PollEntry(fd)']
        /\ slot' = slot /\ channels' = channels
    BY <1>1, <1>4, <1>5, <1>9 DEF P!PollUpdate
  <2>2. slot[fd] + 1 \in DOMAIN pollfds
    BY <1>2, <1>9
  <2>3. /\ pollfds' \in Seq([fd : Int, events : SUBSET P!Kinds])
        /\ Len(pollfds') = Len(pollfds) /\ DOMAIN pollfds' = DOMAIN pollfds
        /\ pollfds'[slot[fd] + 1] = PollEntry(fd)'
        /\ \A i \in DOMAIN pollfds : i # slot[fd] + 1 => pollfds'[i] = pollfds[i]
    BY <1>2, <1>6, <2>1, <2>2
  <2>4. \A g \in channels : g # fd => slot[g] + 1 # slot[fd] + 1
    <3>1. \A g \in channels : slot[g] \in Int
      BY <1>2
    <3>2. \A g \in channels : g # fd => slot[g] # slot[fd]
      BY <1>9, SlotsDiffer
    <3> QED
      BY <1>9, <3>1, <3>2
  <2>5. \A g \in channels : /\ slot[g] + 1 \in DOMAIN pollfds'
                            /\ pollfds'[slot[g] + 1] = PollEntry(g)'
    BY <1>2, <1>3, <2>3, <2>4
  <2>6. SlotsSound'
    BY <1>2, <2>1, <2>3, <2>5 DEF SlotsSound
  <2>7. GoneSound'
    BY <1>3, <1>9, <2>1 DEF PollerInv, GoneSound
  <2> QED
    BY <1>2, <1>7, <2>1, <2>3, <2>6, <2>7
<1> QED
  BY <1>8, <1>9

(* Channel::update keeps the invariant of the pollers.                     *)
LEMMA UpdateKeeps ==
  ASSUME PollerInv, NEW fd \in Fds, NEW es \in SUBSET P!Kinds,
         P!Update(fd, es)
  PROVE  PollerInv'
<1>1. /\ events' = [events EXCEPT ![fd] = es]
      /\ channels' = channels \cup {fd} /\ active' = active
  BY DEF P!Update
<1>2. events' \in [Fds -> SUBSET P!Kinds]
  BY <1>1 DEF PollerInv, PollerTypes
<1>3. KernelSound' /\ index' \in [Fds -> {"kNew", "kAdded", "kDeleted"}]
  BY KernelUpdated
<1>4. /\ SlotsSound' /\ GoneSound' /\ slot' \in [Fds -> Int]
      /\ pollfds' \in Seq([fd : Int, events : SUBSET P!Kinds])
      /\ channels' \subseteq Fds /\ IsFiniteSet(channels')
  BY SlotsUpdated
<1>5. PollerTypes'
  BY <1>2, <1>3, <1>4 DEF PollerTypes
<1>6. active' \subseteq channels'
  BY <1>1 DEF PollerInv
<1> QED
  BY <1>3, <1>4, <1>5, <1>6 DEF PollerInv

(* PollPoller::removeChannel: the last entry takes the slot.               *)
LEMMA SlotsRemoved ==
  ASSUME PollerInv, NEW fd \in Fds, P!Remove(fd)
  PROVE  /\ SlotsSound' /\ GoneSound' /\ slot' \in [Fds -> Int]
         /\ pollfds' \in Seq([fd : Int, events : SUBSET P!Kinds])
         /\ channels' \subseteq Fds /\ IsFiniteSet(channels')
<1>1. /\ fd \in channels /\ events[fd] = {} /\ channels' = channels \ {fd}
      /\ P!PollRemove(fd) /\ events' = events
  BY DEF P!Remove
<1>2. /\ channels \subseteq Fds
      /\ slot \in [Fds -> Int] /\ IsFiniteSet(channels)
      /\ pollfds \in Seq([fd : Int, events : SUBSET P!Kinds])
      /\ \A g \in channels : /\ slot[g] + 1 \in DOMAIN pollfds
                             /\ pollfds[slot[g] + 1] = PollEntry(g)
      /\ \A i \in DOMAIN pollfds : \E g \in channels : slot[g] + 1 = i
      /\ Cardinality(channels) = Len(pollfds)
  BY DEF PollerInv, PollerTypes, SlotsSound
<1>3. \A g \in Fds : PollEntry(g)' = PollEntry(g)
  BY <1>1 DEF PollEntry
<1>4. PICK last \in Nat \ {0} : /\ last = Len(pollfds)
                                /\ DOMAIN pollfds = 1 .. last
  <2>1. slot[fd] + 1 \in 1 .. Len(pollfds) /\ DOMAIN pollfds = 1 .. Len(pollfds)
    BY <1>1, <1>2
  <2> QED
    BY <1>2, <2>1
<1>5. PICK g \in channels : slot[g] + 1 = last
  BY <1>2, <1>4
<1>6. P!Descriptor(pollfds[last].fd) = g
  BY <1>2, <1>5, SlotsDiffer
<1>7. PICK k \in 1 .. last : k = slot[fd] + 1
  BY <1>1, <1>2, <1>4
<1>8. PICK moved : moved = [pollfds EXCEPT ![k] = pollfds[last]]
  OBVIOUS
<1>9. /\ pollfds' = SubSeq(moved, 1, last - 1)
      /\ slot' = [slot EXCEPT ![g] = slot[fd], ![fd] = -1]
  BY <1>1, <1>4, <1>6, <1>7, <1>8 DEF P!PollRemove
<1>10. /\ moved \in Seq([fd : Int, events : SUBSET P!Kinds])
       /\ Len(moved) = last
       /\ \A i \in 1 .. last :
            moved[i] = IF i = k THEN pollfds[last] ELSE pollfds[i]
  <2>1. PICK entry \in [fd : Int, events : SUBSET P!Kinds] :
          entry = pollfds[last]
    <3>1. last \in 1 .. Len(pollfds)
      BY <1>4
    <3>2. pollfds[last] \in [fd : Int, events : SUBSET P!Kinds]
      BY <1>2, <3>1, ElementOfSeq
    <3> QED
      BY <3>2
  <2>2. /\ pollfds \in Seq([fd : Int, events : SUBSET P!Kinds])
        /\ Len(pollfds) = last /\ DOMAIN pollfds = 1 .. last
    BY <1>2, <1>4
  <2>3. moved = [pollfds EXCEPT ![k] = entry] /\ k \in DOMAIN pollfds
    BY <1>4, <1>7, <1>8, <2>1
  <2>4. moved \in Seq([fd : Int, events : SUBSET P!Kinds]) /\ Len(moved) = last
    BY <2>1, <2>2, <2>3, ExceptSeq
  <2> QED
    BY <2>1, <2>2, <2>3, <2>4
<1>11. /\ pollfds' \in Seq([fd : Int, events : SUBSET P!Kinds])
       /\ Len(pollfds') = last - 1 /\ DOMAIN pollfds' = 1 .. last - 1
       /\ \A i \in 1 .. last - 1 :
            pollfds'[i] = IF i = k THEN pollfds[last] ELSE pollfds[i]
  <2>1. /\ SubSeq(moved, 1, last - 1) \in Seq([fd : Int, events : SUBSET P!Kinds])
        /\ Len(SubSeq(moved, 1, last - 1)) = last - 1
        /\ \A i \in 1 .. last - 1 : SubSeq(moved, 1, last - 1)[i] = moved[i]
    <3>1. PICK m \in Nat : m = last - 1
      BY <1>4
    <3>2. \A i \in 1 .. m : moved[i] \in [fd : Int, events : SUBSET P!Kinds]
      <4>1. \A i \in 1 .. m : i \in 1 .. Len(moved)
        BY <1>4, <1>10, <3>1
      <4>2. moved \in Seq([fd : Int, events : SUBSET P!Kinds])
        BY <1>10
      <4> QED
        BY <4>1, <4>2, ElementOfSeq
    <3>3. /\ SubSeq(moved, 1, m) \in Seq([fd : Int, events : SUBSET P!Kinds])
          /\ Len(SubSeq(moved, 1, m)) = IF 1 <= m THEN m - 1 + 1 ELSE 0
          /\ \A i \in 1 .. m - 1 + 1 : SubSeq(moved, 1, m)[i] = moved[1 + i - 1]
      BY <3>1, <3>2, SubSeqProperties
    <3>4. m - 1 + 1 = m /\ \A i \in 1 .. m : 1 + i - 1 = i
      BY <3>1
    <3>5. Len(SubSeq(moved, 1, m)) = m
      BY <3>1, <3>3
    <3> QED
      BY <3>1, <3>3, <3>4, <3>5
  <2> QED
    BY <1>9, <1>10, <2>1
<1>12. /\ slot' \in [Fds -> Int] /\ slot'[fd] = -1
       /\ g # fd => slot'[g] = slot[fd]
       /\ \A h \in Fds : h # fd /\ h # g => slot'[h] = slot[h]
  BY <1>1, <1>2, <1>5, <1>9
<1>13. /\ channels' \subseteq Fds /\ IsFiniteSet(channels')
       /\ Cardinality(channels') = Len(pollfds')
  BY <1>1, <1>2, <1>4, <1>11, FS_RemoveElement
<1>14. \A h \in channels : /\ h \in Fds /\ slot[h] \in Int
                           /\ h # fd => slot[h] + 1 # k
                           /\ h # g => slot[h] + 1 # last
  <2>1. \A h \in channels : h \in Fds /\ slot[h] \in Int
    BY <1>2
  <2>2. \A h \in channels : /\ h # fd => slot[h] # slot[fd]
                            /\ h # g => slot[h] # slot[g]
    BY <1>1, <1>5, SlotsDiffer
  <2> QED
    BY <1>1, <1>5, <1>7, <2>1, <2>2
<1>15. ASSUME NEW h \in channels'
       PROVE  /\ slot'[h] + 1 \in DOMAIN pollfds'
              /\ pollfds'[slot'[h] + 1] = PollEntry(h)'
  <2>1. h \in channels /\ h # fd /\ h \in Fds
    BY <1>1, <1>2
  <2>2. CASE h = g
    <3>1. slot'[h] + 1 = k /\ k # last
      BY <1>5, <1>7, <1>12, <1>14, <2>1, <2>2
    <3>2. k \in 1 .. last - 1
      BY <1>4, <1>7, <3>1
    <3> QED
      BY <1>2, <1>3, <1>5, <1>11, <2>1, <2>2, <3>1, <3>2
  <2>3. CASE h # g
    <3>1. slot'[h] = slot[h] /\ slot[h] + 1 # k /\ slot[h] + 1 # last
      BY <1>12, <1>14, <2>1, <2>3
    <3>2. slot[h] + 1 \in 1 .. last /\ pollfds[slot[h] + 1] = PollEntry(h)
      BY <1>2, <1>4, <2>1
    <3>3. slot[h] + 1 \in 1 .. last - 1
      BY <1>4, <3>1, <3>2
    <3> QED
      BY <1>3, <1>11, <2>1, <3>1, <3>2, <3>3
  <2> QED
    BY <2>2, <2>3
<1>16. ASSUME NEW i \in DOMAIN pollfds'
       PROVE  \E h \in channels' : slot'[h] + 1 = i
  <2>1. i \in 1 .. last /\ i # last
    BY <1>4, <1>11
  <2>2. CASE i = k
    <3>1. g # fd
      BY <1>5, <1>7, <2>1, <2>2
    <3> QED
      BY <1>1, <1>5, <1>7, <1>12, <2>2, <3>1
  <2>3. CASE i # k
    <3>1. PICK h \in channels : slot[h] + 1 = i
      BY <1>2, <1>4, <2>1
    <3>2. h # fd /\ h # g
      BY <1>5, <1>7, <2>1, <2>3, <3>1
    <3> QED
      BY <1>1, <1>2, <1>12, <3>1, <3>2
  <2> QED
    BY <2>2, <2>3
<1>17. SlotsSound'
  BY <1>13, <1>15, <1>16 DEF SlotsSound
<1>18. GoneSound'
  <2>1. \A h \in Fds \ channels : events[h] = {} /\ slot[h] = -1 /\ h # g
    BY <1>5 DEF PollerInv, GoneSound
  <2> QED
    BY <1>1, <1>12, <2>1 DEF GoneSound
<1> QED
  BY <1>11, <1>12, <1>13, <1>17, <1>18

(* Channel::remove keeps the invariant of the pollers.                     *)
LEMMA RemoveKeeps ==
  ASSUME PollerInv, NEW fd \in Fds, P!Remove(fd)
  PROVE  PollerInv'
<1>1. /\ fd \in channels /\ events[fd] = {} /\ fd \notin active
      /\ channels' = channels \ {fd} /\ P!EPollRemove(fd)
      /\ events' = events /\ active' = active
  BY DEF P!Remove
<1>2. /\ SlotsSound' /\ GoneSound' /\ slot' \in [Fds -> Int]
      /\ pollfds' \in Seq([fd : Int, events : SUBSET P!Kinds])
      /\ channels' \subseteq Fds /\ IsFiniteSet(channels')
  BY SlotsRemoved
<1>3. index[fd] # "kAdded" /\ kernel' = kernel
      /\ index' = [index EXCEPT ![fd] = "kNew"]
  BY <1>1 DEF PollerInv, KernelSound, P!EPollRemove
<1>4. {c \in channels : events[c] # {}} = {c \in channels' : events'[c] # {}}
  BY <1>1
<1>5. kernel' = {[fd |-> g, events |-> events'[g]] :
                   g \in {c \in channels' : events'[c] # {}}}
  BY <1>1, <1>3, <1>4 DEF PollerInv, KernelSound
<1>6. /\ index' \in [Fds -> {"kNew", "kAdded", "kDeleted"}]
      /\ \A g \in Fds : index'[g] = "kAdded" <=> events'[g] # {}
  BY <1>1, <1>3 DEF PollerInv, PollerTypes, KernelSound
<1>7. KernelSound'
  BY <1>5, <1>6 DEF KernelSound
<1>8. PollerTypes'
  BY <1>1, <1>2, <1>6 DEF PollerInv, PollerTypes
<1>9. active' \subseteq channels'
  BY <1>1 DEF PollerInv
<1> QED
  BY <1>2, <1>7, <1>8, <1>9 DEF PollerInv

(* Each step of the loop keeps the invariant of its pollers.               *)
LEMMA PollersStep ==
  PollerInv /\ [P!PollerNext]_pollerVars => PollerInv'
<1> SUFFICES ASSUME PollerInv, [P!PollerNext]_pollerVars
             PROVE  PollerInv'
  OBVIOUS
<1>1. ASSUME UNCHANGED <<events, index, kernel, slot, pollfds, channels>>,
             active' \subseteq channels
      PROVE  PollerInv'
  BY <1>1 DEF PollerInv, PollerTypes, GoneSound, KernelSound, SlotsSound,
              PollEntry
<1>2. CASE UNCHANGED pollerVars
  BY <1>1, <1>2 DEF pollerVars, PollerInv
<1>3. ASSUME NEW fd \in Fds,
             \/ P!EnableReading(fd) \/ P!DisableReading(fd)
             \/ P!EnableWriting(fd) \/ P!DisableWriting(fd) \/ P!DisableAll(fd)
      PROVE  PollerInv'
  <2>1. events[fd] \in SUBSET P!Kinds
    BY DEF PollerInv, PollerTypes
  <2>2. PICK es \in SUBSET P!Kinds : P!Update(fd, es)
    BY <1>3, <2>1 DEF P!EnableReading, P!DisableReading, P!EnableWriting,
                      P!DisableWriting, P!DisableAll, P!Kinds
  <2> QED
    BY <2>2, UpdateKeeps
<1>4. ASSUME NEW fd \in Fds, P!HandleEvent(fd)
      PROVE  PollerInv'
  BY <1>1, <1>4 DEF P!HandleEvent, PollerInv
<1>5. CASE P!Poll
  <2>1. {entry.fd : entry \in kernel} \subseteq channels
    BY DEF PollerInv, KernelSound
  <2> QED
    BY <1>1, <1>5, <2>1 DEF P!Poll
<1>6. CASE P!CallbackReturns
  BY <1>1, <1>6 DEF P!CallbackReturns, PollerInv
<1> QED
  BY <1>2, <1>3, <1>4, <1>5, <1>6, RemoveKeeps DEF P!PollerNext

(* EPollPoller.cc:107-170, PollPoller.cc:75-140: for any number of         *)
(* descriptors, in whatever order their channels come, change and go, the  *)
(* two pollers watch the same ones for the same events.                    *)
THEOREM PollersAlwaysAgree == Spec => []PollersAgree
<1>1. Init => PollerInv
  <2> SUFFICES ASSUME P!PollerInit
               PROVE  PollerInv
    BY DEF Init
  <2> USE DEF P!PollerInit
  <2>1. PollerTypes
    BY FS_EmptySet DEF PollerTypes
  <2>2. GoneSound /\ KernelSound
    BY DEF GoneSound, KernelSound
  <2>3. SlotsSound
    BY FS_EmptySet DEF SlotsSound
  <2> QED
    BY <2>1, <2>2, <2>3 DEF PollerInv
<1>2. PollerInv /\ [Next]_vars => PollerInv'
  <2>1. Next => [P!PollerNext]_pollerVars
    <3> SUFFICES ASSUME Next
                 PROVE  [P!PollerNext]_pollerVars
      OBVIOUS
    <3> QED
      BY DEF Next, libraryVars
  <2>2. [Next]_vars => [P!PollerNext]_pollerVars
    BY <2>1 DEF vars
  <2> QED
    BY <2>2, PollersStep
<1>3. PollerInv => PollersAgree
  <2> SUFFICES ASSUME PollerInv
               PROVE  P!PollersAgree
    BY DEF PollersAgree
  <2>1. /\ channels \subseteq Fds
        /\ kernel = {[fd |-> fd, events |-> events[fd]] :
                       fd \in {c \in channels : events[c] # {}}}
        /\ \A fd \in channels : /\ slot[fd] + 1 \in DOMAIN pollfds
                                /\ pollfds[slot[fd] + 1] = PollEntry(fd)
        /\ \A i \in DOMAIN pollfds : \E fd \in channels : slot[fd] + 1 = i
        /\ Cardinality(channels) = Len(pollfds) /\ active \subseteq channels
    BY DEF PollerInv, PollerTypes, KernelSound, SlotsSound
  <2>2. \A fd \in channels :
          /\ P!Descriptor(PollEntry(fd).fd) = fd
          /\ PollEntry(fd).fd >= 0 <=> events[fd] # {}
          /\ events[fd] # {} =>
               PollEntry(fd) = [fd |-> fd, events |-> events[fd]]
    BY <2>1, SlotsDiffer DEF PollEntry
  <2>3. \A i \in DOMAIN pollfds : \E fd \in channels : pollfds[i] = PollEntry(fd)
    BY <2>1
  <2>4. \A i \in DOMAIN pollfds : pollfds[i].fd >= 0 => pollfds[i] \in kernel
    BY <2>1, <2>2, <2>3
  <2>5. \A entry \in kernel : \E i \in DOMAIN pollfds :
          pollfds[i].fd >= 0 /\ pollfds[i] = entry
    BY <2>1, <2>2
  <2>6. {pollfds[i] : i \in {j \in DOMAIN pollfds : pollfds[j].fd >= 0}} = kernel
    BY <2>4, <2>5
  <2>7. \A fd \in channels : /\ slot[fd] + 1 \in DOMAIN pollfds
                             /\ P!Descriptor(pollfds[slot[fd] + 1].fd) = fd
    BY <2>1, <2>2
  <2>8. /\ kernel = {[fd |-> fd, events |-> events[fd]] :
                       fd \in {c \in channels : events[c] # {}}}
        /\ Len(pollfds) = Cardinality(channels)
        /\ active \subseteq channels
    BY <2>1
  <2>9. /\ kernel = {[fd |-> fd, events |-> events[fd]] :
                       fd \in {c \in channels : events[c] # {}}}
        /\ {pollfds[i] : i \in {j \in DOMAIN pollfds : pollfds[j].fd >= 0}} = kernel
        /\ Len(pollfds) = Cardinality(channels)
        /\ \A fd \in channels :
             /\ slot[fd] + 1 \in DOMAIN pollfds
             /\ P!Descriptor(pollfds[slot[fd] + 1].fd) = fd
        /\ active \subseteq channels
    BY <2>6, <2>7, <2>8
  <2>10. P!Cardinality(channels) = Cardinality(channels)
    BY DEF P!Cardinality, Cardinality
  <2> QED
    BY <2>9, <2>10 DEF P!PollersAgree
<1> QED
  BY <1>1, <1>2, <1>3, PTL DEF Spec

-----------------------------------------------------------------------------
(* The connection of the command-line client.                              *)

ConnectorStates == {"kDisconnected", "kConnecting", "kConnected"}
Connectors == [state : ConnectorStates, connect : BOOLEAN,
               channel : Nat \cup {NoFd}, attached : BOOLEAN, delay : Nat]
Functors == {<<"start">>, <<"stop">>, <<"reset">>}
              \cup ({"shutdown", "destroyed"} \X Nat)

In(f, q) == \E i \in DOMAIN q : q[i] = f
Once(f, q) == \A i, j \in DOMAIN q : q[i] = f /\ q[j] = f => i = j

(* The functors in the order they will run.                                *)
Functions == batch \o pending

ClientTypes ==
  /\ connection \in Nat \cup {NoFd} /\ connector \in Connectors
  /\ fds \in Seq({"open", "shut", "closed"})
  /\ pending \in Seq(Functors) /\ batch \in Seq(Functors)
  /\ retryTimers \in {0, 1}
  /\ polled \in [fds : SUBSET (Nat \cup {NoFd}), timers : Nat]

(* The connector is started once, when nothing has happened yet.           *)
StartsOnce ==
  /\ main = "start" => Functions = <<>>
  /\ main = "start" \/ In(<<"start">>, Functions) =>
       /\ fds = <<>> /\ retryTimers = 0 /\ connection = NoFd
       /\ connector.state = "kDisconnected" /\ connector.channel = NoFd

(* One attempt is on its way at most, or its timer, or its connection.     *)
OneAttempt ==
  /\ connector.state = "kConnecting" <=> connector.attached
  /\ connector.attached => connector.channel # NoFd
  /\ retryTimers = 1 => connector.state = "kDisconnected"
  /\ connection # NoFd => connector.state = "kConnected"

(* A channel that is not watched any more is about to be reset, once.      *)
ResetsOnce ==
  /\ In(<<"reset">>, Functions)
       <=> connector.channel # NoFd /\ ~connector.attached
  /\ Once(<<"start">>, Functions) /\ Once(<<"reset">>, Functions)

(* It has been, before the timer of the next attempt can fire.             *)
ResetInTime ==
  /\ phase = "events" => batch = <<>>
  /\ polled.timers <= retryTimers
  /\ connector.connect =>
       /\ phase # "events" => ~ In(<<"reset">>, pending)
       /\ phase = "events" /\ polled.timers > 0 => connector.channel = NoFd
       /\ ~ In(<<"stop">>, Functions)

Accounted ==
  \A fd \in DOMAIN fds : fds[fd] # "closed" =>
    \/ connector.state = "kConnecting" /\ connector.channel = fd
    \/ connection = fd
    \/ In(<<"destroyed", fd>>, Functions)

ClientInv ==
  /\ ClientTypes /\ StartsOnce /\ OneAttempt /\ ResetsOnce /\ ResetInTime
  /\ Accounted /\ ~assertFailed

(* What is in a queue after something was appended.                        *)
LEMMA InAppend ==
  ASSUME NEW D, NEW q \in Seq(D), NEW x \in D
  PROVE  /\ \A f : In(f, Append(q, x)) <=> In(f, q) \/ f = x
         /\ \A f : Once(f, q) /\ ~ (f = x /\ In(f, q)) => Once(f, Append(q, x))
         /\ Append(q, x) \in Seq(D) /\ Append(q, x) # <<>>
<1>1. /\ Append(q, x) \in Seq(D) /\ Append(q, x) # <<>>
      /\ Len(Append(q, x)) = Len(q) + 1
      /\ \A i \in 1 .. Len(q) : Append(q, x)[i] = q[i]
      /\ Append(q, x)[Len(q) + 1] = x
  BY AppendProperties
<1>2. /\ DOMAIN Append(q, x) = DOMAIN q \cup {Len(q) + 1}
      /\ DOMAIN q = 1 .. Len(q)
  BY <1>1
<1> QED
  BY <1>1, <1>2 DEF In, Once

(* What is in a queue after its head was taken.                            *)
LEMMA InTail ==
  ASSUME NEW D, NEW q \in Seq(D), q # <<>>
  PROVE  /\ \A f : In(f, q) <=> f = Head(q) \/ In(f, Tail(q))
         /\ \A f : Once(f, q) => /\ Once(f, Tail(q))
                                 /\ f = Head(q) => ~ In(f, Tail(q))
         /\ Tail(q) \in Seq(D) /\ Head(q) \in D
<1>1. /\ Head(q) \in D /\ Tail(q) \in Seq(D) /\ Len(Tail(q)) = Len(q) - 1
      /\ \A i \in 1 .. Len(Tail(q)) : Tail(q)[i] = q[i + 1]
  BY HeadTailProperties
<1>2. /\ Len(q) \in Nat \ {0} /\ DOMAIN q = 1 .. Len(q) /\ Head(q) = q[1]
      /\ DOMAIN Tail(q) = 1 .. Len(q) - 1
  BY <1>1, EmptySeq
<1>3. \A i \in DOMAIN q : i # 1 => i - 1 \in DOMAIN Tail(q) /\ i - 1 + 1 = i
  BY <1>2
<1>4. \A i \in DOMAIN Tail(q) : /\ i + 1 \in DOMAIN q /\ Tail(q)[i] = q[i + 1]
                                /\ i + 1 # 1 /\ i \in Nat
  BY <1>1, <1>2
<1>5. 1 \in DOMAIN q
  BY <1>2
<1>6. ASSUME NEW f
      PROVE  In(f, q) <=> f = Head(q) \/ In(f, Tail(q))
  BY <1>2, <1>3, <1>4, <1>5 DEF In
<1>7. ASSUME NEW f, Once(f, q)
      PROVE  Once(f, Tail(q)) /\ (f = Head(q) => ~ In(f, Tail(q)))
  BY <1>2, <1>4, <1>5, <1>7 DEF In, Once
<1> QED
  BY <1>1, <1>6, <1>7

(* Two queues, of which one is appended to and the other one is run.       *)
LEMMA TwoQueues ==
  ASSUME NEW D, NEW p \in Seq(D), NEW b \in Seq(D)
  PROVE  /\ b \o p \in Seq(D)
         /\ \A f : In(f, b \o p) <=> In(f, b) \/ In(f, p)
         /\ \A x \in D : b \o Append(p, x) = Append(b \o p, x)
         /\ b # <<>> => /\ b \o p # <<>> /\ Tail(b) \o p = Tail(b \o p)
                        /\ Head(b \o p) = Head(b)
<1>1. /\ b \o p \in Seq(D) /\ Len(b \o p) = Len(b) + Len(p)
      /\ \A i \in 1 .. Len(b) + Len(p) :
           (b \o p)[i] = IF i <= Len(b) THEN b[i] ELSE p[i - Len(b)]
  BY ConcatProperties
<1>2. /\ DOMAIN b = 1 .. Len(b) /\ DOMAIN p = 1 .. Len(p)
      /\ DOMAIN (b \o p) = 1 .. Len(b) + Len(p) /\ Len(b) \in Nat /\ Len(p) \in Nat
  BY <1>1
<1>3. \A f : In(f, b \o p) <=> In(f, b) \/ In(f, p)
  <2>1. \A i \in DOMAIN b : i \in DOMAIN (b \o p) /\ (b \o p)[i] = b[i]
    BY <1>1, <1>2
  <2>2. \A i \in DOMAIN p : /\ i + Len(b) \in DOMAIN (b \o p)
                            /\ (b \o p)[i + Len(b)] = p[i]
    BY <1>1, <1>2
  <2>3. \A i \in DOMAIN (b \o p) :
          \/ i \in DOMAIN b /\ (b \o p)[i] = b[i]
          \/ i - Len(b) \in DOMAIN p /\ (b \o p)[i] = p[i - Len(b)]
    BY <1>1, <1>2
  <2> QED
    BY <2>1, <2>2, <2>3 DEF In
<1>4. ASSUME NEW x \in D
      PROVE  b \o Append(p, x) = Append(b \o p, x)
  <2>1. Append(p, x) = p \o <<x>> /\ Append(b \o p, x) = (b \o p) \o <<x>>
    BY <1>1, AppendIsConcat
  <2>2. <<x>> \in Seq(D)
    OBVIOUS
  <2> QED
    BY <2>1, <2>2, ConcatAssociative
<1>5. ASSUME b # <<>>
      PROVE  /\ b \o p # <<>> /\ Tail(b) \o p = Tail(b \o p)
             /\ Head(b \o p) = Head(b)
  <2>1. Len(b) \in Nat \ {0}
    BY <1>5, EmptySeq
  <2>2. b \o p # <<>>
    BY <1>5, ConcatEqualIffEmpty
  <2>3. /\ Tail(b) \in Seq(D) /\ Len(Tail(b)) = Len(b) - 1
        /\ \A i \in 1 .. Len(Tail(b)) : Tail(b)[i] = b[i + 1]
    BY <1>5, HeadTailProperties
  <2>4. /\ Tail(b \o p) \in Seq(D) /\ Len(Tail(b \o p)) = Len(b \o p) - 1
        /\ \A i \in 1 .. Len(Tail(b \o p)) : Tail(b \o p)[i] = (b \o p)[i + 1]
    BY <1>1, <2>2, HeadTailProperties
  <2>5. /\ Tail(b) \o p \in Seq(D) /\ Len(Tail(b) \o p) = Len(Tail(b)) + Len(p)
        /\ \A i \in 1 .. Len(Tail(b)) + Len(p) :
             (Tail(b) \o p)[i] = IF i <= Len(Tail(b)) THEN Tail(b)[i]
                                 ELSE p[i - Len(Tail(b))]
    BY <2>3, ConcatProperties
  <2>6. Len(Tail(b) \o p) = Len(Tail(b \o p))
    BY <1>1, <1>2, <2>1, <2>3, <2>4, <2>5
  <2>7. \A i \in 1 .. Len(Tail(b) \o p) : (Tail(b) \o p)[i] = Tail(b \o p)[i]
    BY <1>1, <1>2, <2>1, <2>3, <2>4, <2>5, <2>6
  <2>8. Tail(b) \o p = Tail(b \o p)
    BY <2>4, <2>5, <2>6, <2>7, SeqEqual
  <2>9. Head(b \o p) = Head(b)
    BY <1>1, <1>2, <2>1
  <2> QED
    BY <2>2, <2>8, <2>9
<1> QED
  BY <1>1, <1>3, <1>4, <1>5

(* A functor is queued.                                                    *)
LEMMA FunctorAdded ==
  ASSUME ClientTypes, NEW x \in Functors,
         pending' = Append(pending, x), batch' = batch
  PROVE  /\ pending' \in Seq(Functors) /\ batch' \in Seq(Functors)
         /\ \A f : In(f, Functions)' <=> In(f, Functions) \/ f = x
         /\ \A f : Once(f, Functions) /\ ~ (f = x /\ In(f, Functions)) =>
                     Once(f, Functions)'
         /\ \A f : In(f, pending)' <=> In(f, pending) \/ f = x
         /\ Functions' # <<>>
<1>1. PICK p \in Seq(Functors), b \in Seq(Functors) : p = pending /\ b = batch
  BY DEF ClientTypes
<1>2. b \o p \in Seq(Functors) /\ b \o Append(p, x) = Append(b \o p, x)
  BY TwoQueues
<1>3. Functions = b \o p /\ Functions' = Append(b \o p, x)
  BY <1>1, <1>2 DEF Functions
<1>4. /\ \A f : In(f, Append(b \o p, x)) <=> In(f, b \o p) \/ f = x
      /\ \A f : Once(f, b \o p) /\ ~ (f = x /\ In(f, b \o p)) =>
                  Once(f, Append(b \o p, x))
      /\ Append(b \o p, x) # <<>>
  BY <1>2, InAppend
<1>5. /\ \A f : In(f, Append(p, x)) <=> In(f, p) \/ f = x
      /\ Append(p, x) \in Seq(Functors)
  BY InAppend
<1>6. pending' = Append(p, x) /\ batch' = b
  BY <1>1
<1>7. \A f : /\ In(f, Functions)' <=> In(f, Append(b \o p, x))
             /\ Once(f, Functions)' <=> Once(f, Append(b \o p, x))
             /\ In(f, pending)' <=> In(f, Append(p, x))
  BY <1>3, <1>6 DEF In, Once
<1>8. \A f : /\ In(f, Functions) <=> In(f, b \o p)
             /\ Once(f, Functions) <=> Once(f, b \o p)
             /\ In(f, pending) <=> In(f, p)
  BY <1>1, <1>3
<1> QED
  BY <1>3, <1>4, <1>5, <1>6, <1>7, <1>8

(* The first functor is taken.                                             *)
LEMMA FunctorTaken ==
  ASSUME ClientTypes, batch # <<>>, batch' = Tail(batch), pending' = pending
  PROVE  /\ pending' \in Seq(Functors) /\ batch' \in Seq(Functors)
         /\ Head(batch) \in Functors
         /\ \A f : In(f, Functions) <=> In(f, Functions)' \/ f = Head(batch)
         /\ \A f : Once(f, Functions) =>
                     /\ Once(f, Functions)'
                     /\ f = Head(batch) => ~ In(f, Functions)'
<1>1. PICK p \in Seq(Functors), b \in Seq(Functors) : p = pending /\ b = batch
  BY DEF ClientTypes
<1>2. /\ b \o p \in Seq(Functors) /\ b \o p # <<>>
      /\ Tail(b) \o p = Tail(b \o p) /\ Head(b \o p) = Head(b)
  BY <1>1, TwoQueues
<1>3. Functions = b \o p /\ Functions' = Tail(b \o p)
  BY <1>1, <1>2 DEF Functions
<1>4. /\ \A f : In(f, b \o p) <=> f = Head(b \o p) \/ In(f, Tail(b \o p))
      /\ \A f : Once(f, b \o p) => /\ Once(f, Tail(b \o p))
                                   /\ f = Head(b \o p) =>
                                        ~ In(f, Tail(b \o p))
  BY <1>2, InTail
<1>5. Tail(b) \in Seq(Functors) /\ Head(b) \in Functors
  BY <1>1, InTail
<1>6. \A f : /\ In(f, Functions)' <=> In(f, Tail(b \o p))
             /\ Once(f, Functions)' <=> Once(f, Tail(b \o p))
  BY <1>3 DEF In, Once
<1>7. \A f : /\ In(f, Functions) <=> In(f, b \o p)
             /\ Once(f, Functions) <=> Once(f, b \o p)
  BY <1>3
<1> QED
  BY <1>1, <1>2, <1>4, <1>5, <1>6, <1>7

(* The first functor is taken and queues another one.                      *)
LEMMA FunctorTakenAndAdded ==
  ASSUME ClientTypes, NEW x \in Functors, batch # <<>>, batch' = Tail(batch),
         pending' = Append(pending, x)
  PROVE  /\ pending' \in Seq(Functors) /\ batch' \in Seq(Functors)
         /\ \A f : In(f, Functions)' =>
                     In(f, Functions) \/ f = x
         /\ \A f : In(f, Functions) =>
                     In(f, Functions)' \/ f = Head(batch)
         /\ In(x, Functions)' /\ Functions' # <<>>
         /\ \A f : Once(f, Functions) /\ ~ (f = x /\ In(f, Functions)) =>
                     Once(f, Functions)'
<1>1. PICK p \in Seq(Functors), b \in Seq(Functors) : p = pending /\ b = batch
  BY DEF ClientTypes
<1>2. /\ b \o p \in Seq(Functors) /\ b \o p # <<>>
      /\ Tail(b) \o p = Tail(b \o p) /\ Head(b \o p) = Head(b)
  BY <1>1, TwoQueues
<1>3. Tail(b) \in Seq(Functors)
  BY <1>1, InTail
<1>4. Tail(b) \o Append(p, x) = Append(Tail(b) \o p, x)
  BY <1>3, TwoQueues
<1>5. PICK r \in Seq(Functors) : r = Tail(b \o p)
  BY <1>2, InTail
<1>6. Functions = b \o p /\ Functions' = Append(r, x)
  BY <1>1, <1>2, <1>4, <1>5 DEF Functions
<1>7. /\ \A f : In(f, b \o p) <=> f = Head(b) \/ In(f, r)
      /\ \A f : Once(f, b \o p) => Once(f, r)
  BY <1>2, <1>5, InTail
<1>8. /\ \A f : In(f, Append(r, x)) <=> In(f, r) \/ f = x
      /\ \A f : Once(f, r) /\ ~ (f = x /\ In(f, r)) => Once(f, Append(r, x))
      /\ Append(r, x) # <<>>
  BY InAppend
<1>9. \A f : /\ In(f, Functions)' <=> In(f, Append(r, x))
             /\ Once(f, Functions)' <=> Once(f, Append(r, x))
  BY <1>6 DEF In, Once
<1>10. \A f : /\ In(f, Functions) <=> In(f, b \o p)
              /\ Once(f, Functions) <=> Once(f, b \o p)
  BY <1>6
<1>11. Append(p, x) \in Seq(Functors)
  BY InAppend
<1> QED
  BY <1>1, <1>3, <1>6, <1>7, <1>8, <1>9, <1>10, <1>11

(* What Connector::retry and startInLoop leave behind.                     *)
LEMMA RetryLeaves ==
  ASSUME NEW c \in Connectors, NEW timers0 \in Nat, C!Retry(c, timers0)
  PROVE  /\ connector' \in Connectors /\ connector'.state = "kDisconnected"
         /\ connector'.connect = c.connect /\ connector'.channel = c.channel
         /\ connector'.attached = c.attached
         /\ retryTimers' = IF c.connect THEN timers0 + 1 ELSE timers0
<1> DEFINE down == [c EXCEPT !.state = "kDisconnected"]
<1>1. /\ down \in Connectors /\ down.state = "kDisconnected"
      /\ down.connect = c.connect /\ down.channel = c.channel
      /\ down.attached = c.attached
  BY DEF Connectors, ConnectorStates
<1>2. CASE ~ c.connect
  BY <1>1, <1>2 DEF C!Retry
<1>3. CASE c.connect
  <2>1. PICK delay \in Nat : connector' = [down EXCEPT !.delay = delay]
    <3>1. down.delay \in Nat
      BY <1>1 DEF Connectors
    <3>2. connector' = [down EXCEPT !.delay = IF 2 * down.delay < MaxRetryDelay
                                              THEN 2 * down.delay
                                              ELSE MaxRetryDelay]
      BY <1>3 DEF C!Retry
    <3>3. (IF 2 * down.delay < MaxRetryDelay
           THEN 2 * down.delay ELSE MaxRetryDelay) \in Nat
      BY <3>1, ConnectorAssumption
    <3> HIDE DEF down
    <3> QED
      BY <3>2, <3>3
  <2>2. retryTimers' = timers0 + 1
    BY <1>3 DEF C!Retry
  <2> HIDE DEF down
  <2> QED
    BY <1>1, <1>3, <2>1, <2>2 DEF Connectors
<1> QED
  BY <1>2, <1>3

(* What startInLoop may leave of the connector "c".                        *)
StartLeaves(c) ==
  /\ connector' \in Connectors /\ retryTimers' \in {0, 1} /\ ~assertFailed'
  /\ fds' \in Seq({"open", "shut", "closed"})
  /\ connector'.connect = c.connect
  /\ connector'.state = "kConnecting" <=> connector'.attached
  /\ connector'.attached => connector'.channel # NoFd
  /\ connector'.state # "kConnected"
  /\ ~ connector'.attached => connector'.channel = c.channel
  /\ retryTimers' = 1 => connector'.state = "kDisconnected"
  /\ \A fd \in DOMAIN fds' :
       \/ fd \in DOMAIN fds /\ fds'[fd] = fds[fd]
       \/ fds'[fd] = "closed"
       \/ connector'.state = "kConnecting" /\ connector'.channel = fd

(* startInLoop leaves one attempt, or its timer, or nothing.               *)
LEMMA StartDoes ==
  ASSUME ClientInv, NEW c \in Connectors, c.state = "kDisconnected",
         ~c.attached, c.connect => c.channel = NoFd, C!StartInLoop(c, 0)
  PROVE  StartLeaves(c)
<1>1. fds \in Seq({"open", "shut", "closed"}) /\ ~assertFailed
  BY DEF ClientInv, ClientTypes
<1>2. CASE ~ c.connect
  BY <1>1, <1>2 DEF C!StartInLoop, StartLeaves
<1>3. CASE c.connect
  <2>1. ~assertFailed'
    BY <1>1, <1>3 DEF C!StartInLoop
  <2>2. \A st \in {"open", "closed"} :
          /\ Append(fds, st) \in Seq({"open", "shut", "closed"})
          /\ DOMAIN Append(fds, st) = DOMAIN fds \cup {Len(fds) + 1}
          /\ \A fd \in DOMAIN fds : Append(fds, st)[fd] = fds[fd]
          /\ Append(fds, st)[Len(fds) + 1] = st
    BY <1>1
  <2>3. Len(fds) + 1 \in Nat /\ Len(fds) + 1 # NoFd
    BY <1>1, ConnectorAssumption
  <2>4. CASE /\ fds' = Append(fds, "open") /\ retryTimers' = 0
             /\ connector' = [c EXCEPT !.state = "kConnecting",
                                       !.channel = Len(fds) + 1,
                                       !.attached = TRUE]
    <3>1. /\ connector'.state = "kConnecting" /\ connector'.attached
          /\ connector'.channel = Len(fds) + 1
          /\ connector'.connect = c.connect
      BY <2>4 DEF Connectors
    <3>2. connector' \in Connectors
      BY <2>3, <2>4 DEF Connectors, ConnectorStates
    <3> QED
      BY <2>1, <2>2, <2>3, <2>4, <3>1, <3>2 DEF StartLeaves
  <2>5. CASE fds' = Append(fds, "closed") /\ C!Retry(c, 0)
    <3>1. /\ connector' \in Connectors /\ connector'.state = "kDisconnected"
          /\ connector'.connect = c.connect /\ connector'.channel = c.channel
          /\ connector'.attached = c.attached /\ retryTimers' = 1
      <4>1. 0 + 1 = 1 /\ 0 \in Nat
        OBVIOUS
      <4> QED
        BY <1>3, <2>5, <4>1, RetryLeaves
    <3> QED
      BY <2>1, <2>2, <2>5, <3>1 DEF StartLeaves
  <2>6. CASE fds' = Append(fds, "closed") /\ connector' = c /\ retryTimers' = 0
    BY <2>1, <2>2, <2>6 DEF StartLeaves
  <2> QED
    BY <1>3, <2>4, <2>5, <2>6 DEF C!StartInLoop
<1> QED
  BY <1>2, <1>3

(* The main thread: none of its steps disturbs an attempt.                 *)
LEMMA MainKeeps ==
  ASSUME ClientInv,
         \/ C!MainConnects \/ C!MainConnected \/ C!MainDisconnects
         \/ C!MainReturns
  PROVE  ClientInv'
<1>1. /\ ClientTypes /\ connection \in Nat \cup {NoFd} /\ connector \in Connectors
      /\ pending \in Seq(Functors) /\ batch \in Seq(Functors)
  BY DEF ClientInv, ClientTypes
<1>2. UNCHANGED <<connection, fds, phase, polled, batch, retryTimers, assertFailed>>
  BY DEF C!MainConnects, C!MainConnected, C!MainDisconnects, C!MainReturns,
         C!loopVars
<1>3. /\ connector' \in Connectors /\ connector'.state = connector.state
      /\ connector'.channel = connector.channel
      /\ connector'.attached = connector.attached
      /\ connector'.connect # connector.connect =>
           \/ main = "start" \/ ~connector'.connect
  BY <1>1 DEF C!MainConnects, C!MainConnected, C!MainDisconnects, C!MainReturns,
              Connectors
<1>4. main' # "start"
  BY DEF C!MainConnects, C!MainConnected, C!MainDisconnects, C!MainReturns
<1>5. Accounted => (Functions' = Functions => Accounted')
  BY <1>2, <1>3 DEF Accounted
<1>6. CASE UNCHANGED pending
  <2>1. Functions' = Functions /\ main # "start"
    BY <1>2, <1>6 DEF Functions, C!MainConnects, C!MainConnected,
       C!MainDisconnects, C!MainReturns
  <2> QED
    BY <1>1, <1>2, <1>3, <1>4, <1>5, <1>6, <2>1
       DEF ClientInv, ClientTypes, StartsOnce, OneAttempt, ResetsOnce,
           ResetInTime
<1>7. ASSUME NEW x \in Functors, pending' = Append(pending, x),
             x # <<"reset">>, x = <<"start">> => main = "start",
             x = <<"stop">> => ~connector'.connect
      PROVE  ClientInv'
  <2>1. /\ pending' \in Seq(Functors) /\ batch' \in Seq(Functors)
        /\ \A f : In(f, Functions)' <=> In(f, Functions) \/ f = x
        /\ \A f : Once(f, Functions) /\ ~ (f = x /\ In(f, Functions)) =>
                    Once(f, Functions)'
        /\ \A f : In(f, pending)' <=> In(f, pending) \/ f = x
    BY <1>1, <1>2, <1>7, FunctorAdded
  <2>2. ClientTypes'
    BY <1>1, <1>2, <1>3, <2>1 DEF ClientTypes
  <2>3. main = "start" => \A f : ~ In(f, Functions)
    BY DEF ClientInv, StartsOnce, In
  <2>4. StartsOnce'
    BY <1>2, <1>3, <1>4, <1>7, <2>1, <2>3 DEF ClientInv, StartsOnce
  <2>5. OneAttempt'
    BY <1>2, <1>3 DEF ClientInv, OneAttempt
  <2>6. ResetsOnce'
    <3>1. In(<<"reset">>, Functions)' <=> In(<<"reset">>, Functions)
      BY <1>7, <2>1
    <3>2. Once(<<"reset">>, Functions)' /\ Once(<<"start">>, Functions)'
      BY <1>7, <2>1, <2>3 DEF ClientInv, ResetsOnce
    <3> QED
      BY <1>3, <3>1, <3>2 DEF ClientInv, ResetsOnce
  <2>7. ResetInTime'
    <3>1. In(<<"reset">>, pending)' <=> In(<<"reset">>, pending)
      BY <1>7, <2>1
    <3>2. main = "start" =>
            ~ In(<<"reset">>, pending) /\ connector.channel = NoFd
      <4>1. \A f : In(f, pending) => In(f, Functions)
        BY <1>1, TwoQueues DEF Functions
      <4> QED
        BY <2>3, <4>1 DEF ClientInv, StartsOnce
    <3> QED
      BY <1>2, <1>3, <1>7, <2>1, <2>3, <3>1, <3>2 DEF ClientInv, ResetInTime
  <2>8. Accounted'
    BY <1>2, <1>3, <2>1 DEF ClientInv, Accounted
  <2> QED
    BY <1>2, <2>2, <2>4, <2>5, <2>6, <2>7, <2>8 DEF ClientInv
<1>8. CASE C!MainConnects
  <2>1. /\ <<"start">> \in Functors /\ <<"start">> # <<"reset">>
        /\ <<"start">> # <<"stop">>
    BY DEF Functors
  <2> QED
    BY <1>7, <1>8, <2>1 DEF C!MainConnects
<1>9. CASE C!MainDisconnects
  <2>1. CASE connection # NoFd
    <3>1. /\ <<"shutdown", connection>> \in Functors
          /\ <<"shutdown", connection>> # <<"reset">>
          /\ <<"shutdown", connection>> # <<"start">>
          /\ <<"shutdown", connection>> # <<"stop">>
      BY <1>1, <2>1 DEF Functors
    <3>2. PICK x \in Functors : x = <<"shutdown", connection>>
      BY <3>1
    <3>3. pending' = Append(pending, x)
      BY <1>9, <2>1, <3>2 DEF C!MainDisconnects
    <3> QED
      BY <1>7, <3>1, <3>2, <3>3
  <2> QED
    BY <1>6, <1>9, <2>1 DEF C!MainDisconnects
<1>10. CASE C!MainReturns
  <2>1. /\ <<"stop">> \in Functors /\ <<"stop">> # <<"reset">>
        /\ <<"stop">> # <<"start">>
    BY DEF Functors
  <2>2. CASE connection = NoFd
    <3>1. ~ connector'.connect /\ pending' = Append(pending, <<"stop">>)
      BY <1>1, <1>10, <2>2 DEF C!MainReturns, Connectors
    <3> QED
      BY <1>7, <2>1, <3>1
  <2> QED
    BY <1>6, <1>10, <2>2 DEF C!MainReturns
<1>11. CASE C!MainConnected
  BY <1>6, <1>11 DEF C!MainConnected, C!loopVars
<1> QED
  BY <1>8, <1>9, <1>10, <1>11

(* The loop goes from events to functors and back.                         *)
LEMMA LoopTurns ==
  ASSUME ClientInv, C!EndFunctors \/ C!EndEvents
  PROVE  ClientInv'
<1>1. /\ ClientTypes /\ StartsOnce /\ OneAttempt /\ ResetsOnce /\ ResetInTime
      /\ Accounted /\ ~assertFailed
      /\ pending \in Seq(Functors) /\ batch \in Seq(Functors)
      /\ retryTimers \in {0, 1}
  BY DEF ClientInv, ClientTypes
<1>2. UNCHANGED <<main, chat, connection, connector, fds, retryTimers,
                  assertFailed>>
  BY DEF C!EndFunctors, C!EndEvents
<1>3. /\ <<>> \o pending = pending /\ pending \o <<>> = pending
      /\ <<>> \in Seq(Functors)
  BY <1>1, ConcatEmptySeq
<1>4. Functions' = Functions
  <2>1. CASE C!EndFunctors
    BY <2>1 DEF C!EndFunctors, Functions
  <2>2. CASE C!EndEvents
    <3>1. batch = <<>> /\ batch' = pending /\ pending' = <<>>
      BY <1>1, <2>2 DEF C!EndEvents, ResetInTime
    <3> QED
      BY <1>3, <3>1 DEF Functions
  <2> QED
    BY <2>1, <2>2
<1>5. StartsOnce' /\ OneAttempt' /\ ResetsOnce' /\ Accounted' /\ ~assertFailed'
  BY <1>1, <1>2, <1>4 DEF StartsOnce, OneAttempt, ResetsOnce, Accounted
<1>6. CASE C!EndFunctors
  <2>1. /\ phase = "functors" /\ batch = <<>> /\ phase' = "events"
        /\ polled'.timers = retryTimers /\ pending' = pending /\ batch' = batch
    BY <1>6 DEF C!EndFunctors
  <2>2. ClientTypes'
    <3>1. polled' \in [fds : SUBSET (Nat \cup {NoFd}), timers : Nat]
      BY <1>1, <1>6 DEF C!EndFunctors, ClientTypes, Connectors
    <3> QED
      BY <1>1, <1>2, <2>1, <3>1 DEF ClientTypes
  <2>3. connector.connect /\ retryTimers > 0 => connector.channel = NoFd
    <3>1. connector.connect => ~ In(<<"reset">>, pending)
      BY <1>1, <2>1 DEF ResetInTime
    <3>2. In(<<"reset">>, Functions) <=> In(<<"reset">>, pending)
      BY <1>3, <2>1 DEF Functions
    <3>3. retryTimers > 0 => ~ connector.attached
      BY <1>1 DEF OneAttempt
    <3> QED
      BY <1>1, <3>1, <3>2, <3>3 DEF ResetsOnce
  <2>4. ResetInTime'
    BY <1>1, <1>2, <1>4, <2>1, <2>3 DEF ResetInTime
  <2> QED
    BY <1>5, <2>2, <2>4 DEF ClientInv
<1>7. CASE C!EndEvents
  <2>1. /\ phase' = "functors" /\ batch' = pending /\ pending' = <<>>
        /\ polled' = polled
    BY <1>7 DEF C!EndEvents
  <2>2. ClientTypes'
    BY <1>1, <1>2, <1>3, <2>1 DEF ClientTypes
  <2>3. ~ In(<<"reset">>, pending)'
    BY <2>1 DEF In
  <2>4. ResetInTime'
    BY <1>1, <1>2, <1>4, <2>1, <2>3 DEF ResetInTime
  <2> QED
    BY <1>5, <2>2, <2>4 DEF ClientInv
<1> QED
  BY <1>6, <1>7

(* The attempt of the channel ends: the channel is to be reset, and no     *)
(* other one has begun.                                                    *)
LEMMA AttemptEnds ==
  ASSUME ClientInv, connector.attached, phase = "events",
         UNCHANGED <<main, phase, polled, batch, assertFailed>>,
         pending' = Append(pending, <<"reset">>),
         connector' \in Connectors, ~ connector'.attached,
         connector'.state # "kConnecting",
         connector'.channel = connector.channel,
         connector'.connect = connector.connect,
         fds' \in Seq({"open", "shut", "closed"}), DOMAIN fds' = DOMAIN fds,
         \A fd \in DOMAIN fds : fd # connector.channel => fds'[fd] = fds[fd],
         connection' \in Nat \cup {NoFd}, retryTimers' \in {0, 1},
         retryTimers' = 1 => connector'.state = "kDisconnected",
         connection' # NoFd => connector'.state = "kConnected",
         \A fd \in DOMAIN fds :
           fd = connector.channel => fds'[fd] = "closed" \/ connection' = fd
  PROVE  ClientInv'
<1>1. /\ ClientTypes /\ StartsOnce /\ OneAttempt /\ ResetsOnce /\ ResetInTime
      /\ Accounted /\ ~assertFailed
  BY DEF ClientInv
<1>2. /\ connector.state = "kConnecting" /\ connector.channel # NoFd
      /\ retryTimers = 0 /\ connection = NoFd
  BY <1>1 DEF OneAttempt, ClientTypes
<1>3. /\ main # "start" /\ ~ In(<<"start">>, Functions)
      /\ ~ In(<<"reset">>, Functions)
  BY <1>1, <1>2 DEF StartsOnce, ResetsOnce
<1>4. /\ <<"reset">> \in Functors /\ <<"reset">> # <<"start">>
      /\ <<"reset">> # <<"stop">>
  BY DEF Functors
<1>5. /\ pending' \in Seq(Functors) /\ batch' \in Seq(Functors)
      /\ \A f : In(f, Functions)' <=> In(f, Functions) \/ f = <<"reset">>
      /\ \A f : Once(f, Functions) /\ ~ (f = <<"reset">> /\ In(f, Functions)) =>
                  Once(f, Functions)'
  BY <1>1, <1>4, FunctorAdded
<1>6. ClientTypes'
  BY <1>1, <1>5 DEF ClientTypes
<1>7. StartsOnce'
  BY <1>3, <1>4, <1>5 DEF StartsOnce
<1>8. OneAttempt'
  BY DEF OneAttempt
<1>9. ResetsOnce'
  BY <1>1, <1>2, <1>3, <1>4, <1>5 DEF ResetsOnce
<1>10. ResetInTime'
  <2>1. polled.timers \in Nat /\ polled.timers <= 0
    BY <1>1, <1>2 DEF ClientTypes, ResetInTime
  <2> QED
    BY <1>1, <1>4, <1>5, <2>1 DEF ResetInTime
<1>11. Accounted'
  <2> SUFFICES ASSUME NEW fd \in DOMAIN fds, fds'[fd] # "closed"
               PROVE  connection' = fd \/ In(<<"destroyed", fd>>, Functions)'
    BY DEF Accounted
  <2>1. CASE fd = connector.channel
    BY <2>1
  <2>2. CASE fd # connector.channel
    <3>1. In(<<"destroyed", fd>>, Functions)
      BY <1>1, <1>2, <2>2, ConnectorAssumption DEF Accounted, ClientTypes
    <3> QED
      BY <1>5, <3>1
  <2> QED
    BY <2>1, <2>2
<1> QED
  BY <1>1, <1>6, <1>7, <1>8, <1>9, <1>10, <1>11 DEF ClientInv

(* A place of a sequence is set, if it is one.                             *)
LEMMA ExceptOfSeq ==
  ASSUME NEW D, NEW q \in Seq(D), NEW n, NEW x \in D
  PROVE  /\ [q EXCEPT ![n] = x] \in Seq(D)
         /\ DOMAIN [q EXCEPT ![n] = x] = DOMAIN q
         /\ \A i \in DOMAIN q :
              [q EXCEPT ![n] = x][i] = IF i = n THEN x ELSE q[i]
<1>1. q \in [1 .. Len(q) -> D] /\ Len(q) \in Nat /\ DOMAIN q = 1 .. Len(q)
  BY LenProperties
<1>2. CASE n \in 1 .. Len(q)
  BY <1>1, <1>2, ExceptSeq
<1>3. CASE n \notin 1 .. Len(q)
  <2>1. [q EXCEPT ![n] = x] = q
    BY <1>1, <1>3
  <2> QED
    BY <1>1, <1>3, <2>1
<1> QED
  BY <1>2, <1>3

(* The attempt fails, or its socket is connected.                          *)
LEMMA AttemptKeeps ==
  ASSUME ClientInv, C!ConnectFails \/ C!HandleWrite
  PROVE  ClientInv'
<1>1. /\ C!LoopRuns /\ phase = "events" /\ connector.attached
      /\ UNCHANGED <<main, phase, polled, batch, assertFailed>>
      /\ pending' = Append(pending, <<"reset">>)
  BY DEF C!ConnectFails, C!HandleWrite, C!Connecting
<1>2. /\ connector \in Connectors /\ connector.channel # NoFd
      /\ connector.channel \in Nat
      /\ fds \in Seq({"open", "shut", "closed"})
      /\ retryTimers = 0 /\ connection = NoFd
  BY <1>1 DEF ClientInv, ClientTypes, OneAttempt, Connectors
<1>3. PICK c \in Connectors : c = C!Detached(connector)
  BY <1>2 DEF C!Detached, Connectors
<1>4. /\ ~ c.attached /\ c.channel = connector.channel
      /\ c.connect = connector.connect
  BY <1>2, <1>3 DEF C!Detached, Connectors
<1>5. /\ C!Close(connector.channel) \in Seq({"open", "shut", "closed"})
      /\ DOMAIN C!Close(connector.channel) = DOMAIN fds
      /\ \A fd \in DOMAIN fds : C!Close(connector.channel)[fd] =
           IF fd = connector.channel THEN "closed" ELSE fds[fd]
  <2>1. PICK n \in Nat : n = connector.channel
    BY <1>2
  <2>2. C!Close(n) = [fds EXCEPT ![n] = "closed"]
    BY DEF C!Close
  <2>3. /\ [fds EXCEPT ![n] = "closed"] \in Seq({"open", "shut", "closed"})
        /\ DOMAIN [fds EXCEPT ![n] = "closed"] = DOMAIN fds
        /\ \A fd \in DOMAIN fds : [fds EXCEPT ![n] = "closed"][fd] =
             IF fd = n THEN "closed" ELSE fds[fd]
    BY <1>2, ExceptOfSeq
  <2> QED
    BY <2>1, <2>2, <2>3
<1>6. CASE C!ConnectFails
  <2>1. PICK timers0 \in Nat : timers0 = 0
    OBVIOUS
  <2>2. C!Retry(c, timers0)
    BY <1>2, <1>3, <1>6, <2>1 DEF C!ConnectFails
  <2>3. /\ connector' \in Connectors /\ connector'.state = "kDisconnected"
        /\ connector'.connect = c.connect /\ connector'.channel = c.channel
        /\ connector'.attached = c.attached
        /\ retryTimers' = IF c.connect THEN timers0 + 1 ELSE timers0
    BY <2>2, RetryLeaves
  <2>4. fds' = C!Close(connector.channel) /\ connection' = connection
    BY <1>6 DEF C!ConnectFails
  <2>5. retryTimers' \in {0, 1}
    BY <2>1, <2>3
  <2> QED
    BY <1>1, <1>2, <1>4, <1>5, <2>3, <2>4, <2>5, AttemptEnds
<1>7. CASE C!HandleWrite
  <2>1. connector' = [c EXCEPT !.state = "kConnected"]
    BY <1>3, <1>7 DEF C!HandleWrite
  <2>2. /\ connector' \in Connectors /\ connector'.state = "kConnected"
        /\ connector'.connect = c.connect /\ connector'.channel = c.channel
        /\ ~ connector'.attached
    BY <1>4, <2>1 DEF Connectors, ConnectorStates
  <2>3. retryTimers' = 0
    BY <1>2, <1>7 DEF C!HandleWrite
  <2>4. \/ connection' = connector.channel /\ fds' = fds
        \/ connection' = NoFd /\ fds' = C!Close(connector.channel)
    BY <1>2, <1>7 DEF C!HandleWrite, C!NewConnection
  <2> QED
    BY <1>1, <1>2, <1>4, <1>5, <2>2, <2>3, <2>4, AttemptEnds
<1> QED
  BY <1>6, <1>7

(* The connection is over: its destruction is queued.                      *)
LEMMA ClosesKeeps ==
  ASSUME ClientInv, C!ConnectionCloses
  PROVE  ClientInv'
<1>1. /\ ClientTypes /\ StartsOnce /\ OneAttempt /\ ResetsOnce /\ ResetInTime
      /\ Accounted /\ ~assertFailed
  BY DEF ClientInv
<1>2. /\ phase = "events" /\ connection # NoFd /\ connection' = NoFd
      /\ pending' = Append(pending, <<"destroyed", connection>>)
      /\ UNCHANGED <<main, connector, fds, phase, polled, batch, retryTimers,
                     assertFailed>>
  BY DEF C!ConnectionCloses, C!loopVars
<1>3. PICK x \in Functors : x = <<"destroyed", connection>>
  BY <1>1, <1>2 DEF ClientTypes, Functors
<1>4. x # <<"reset">> /\ x # <<"start">> /\ x # <<"stop">>
  BY <1>3
<1>5. /\ pending' \in Seq(Functors) /\ batch' \in Seq(Functors)
      /\ \A f : In(f, Functions)' <=> In(f, Functions) \/ f = x
      /\ \A f : Once(f, Functions) /\ ~ (f = x /\ In(f, Functions)) =>
                  Once(f, Functions)'
      /\ \A f : In(f, pending)' <=> In(f, pending) \/ f = x
  BY <1>1, <1>2, <1>3, FunctorAdded
<1>6. ClientTypes'
  BY <1>1, <1>2, <1>5 DEF ClientTypes
<1>7. StartsOnce'
  BY <1>1, <1>2, <1>4, <1>5 DEF StartsOnce
<1>8. OneAttempt'
  BY <1>1, <1>2 DEF OneAttempt
<1>9. ResetsOnce'
  BY <1>1, <1>2, <1>4, <1>5 DEF ResetsOnce
<1>10. ResetInTime'
  BY <1>1, <1>2, <1>4, <1>5 DEF ResetInTime
<1>11. Accounted'
  BY <1>1, <1>2, <1>3, <1>5 DEF Accounted
<1> QED
  BY <1>1, <1>2, <1>6, <1>7, <1>8, <1>9, <1>10, <1>11 DEF ClientInv

(* The timer finds the channel of the attempt before reset.                *)
LEMMA RetryTimerKeeps ==
  ASSUME ClientInv, C!RetryTimer
  PROVE  ClientInv'
<1>1. /\ ClientTypes /\ StartsOnce /\ OneAttempt /\ ResetsOnce /\ ResetInTime
      /\ Accounted /\ ~assertFailed
  BY DEF ClientInv
<1>2. /\ phase = "events" /\ polled.timers > 0
      /\ polled' = [polled EXCEPT !.timers = @ - 1]
      /\ C!StartInLoop(connector, retryTimers - 1)
      /\ UNCHANGED <<main, chat, connection, phase, pending, batch>>
  BY DEF C!RetryTimer
<1>3. retryTimers = 1 /\ polled.timers = 1
  BY <1>1, <1>2 DEF ClientTypes, ResetInTime
<1>4. PICK c \in Connectors : c = connector
  BY <1>1 DEF ClientTypes
<1>5. /\ c.state = "kDisconnected" /\ ~ c.attached
      /\ c.connect => c.channel = NoFd
      /\ connection = NoFd
  BY <1>1, <1>2, <1>3, <1>4 DEF OneAttempt, ResetInTime
<1>6. C!StartInLoop(c, 0)
  BY <1>2, <1>3, <1>4
<1>7. StartLeaves(c)
  BY <1>5, <1>6, StartDoes
<1>8. Functions' = Functions
  BY <1>2 DEF Functions
<1>9. polled'.timers = 0
  BY <1>1, <1>2, <1>3 DEF ClientTypes
<1>10. ClientTypes'
  <2>1. polled' \in [fds : SUBSET (Nat \cup {NoFd}), timers : Nat]
    BY <1>1, <1>2, <1>3 DEF ClientTypes
  <2> QED
    BY <1>1, <1>2, <1>7, <2>1 DEF ClientTypes, StartLeaves
<1>11. StartsOnce'
  BY <1>1, <1>2, <1>3, <1>8 DEF StartsOnce
<1>12. OneAttempt'
  BY <1>2, <1>5, <1>7 DEF OneAttempt, StartLeaves
<1>13. ResetsOnce'
  <2>1. In(<<"reset">>, Functions) <=> c.channel # NoFd
    BY <1>1, <1>4, <1>5 DEF ResetsOnce
  <2>2. connector'.attached => c.channel = NoFd
    BY <1>4, <1>5, <1>6, <1>7 DEF C!StartInLoop, StartLeaves
  <2> QED
    BY <1>1, <1>7, <1>8, <2>1, <2>2 DEF ResetsOnce, StartLeaves
<1>14. ResetInTime'
  BY <1>1, <1>2, <1>4, <1>7, <1>8, <1>9 DEF ResetInTime, StartLeaves
<1>15. Accounted'
  <2>1. connector.state # "kConnecting"
    BY <1>4, <1>5
  <2> QED
    BY <1>1, <1>2, <1>7, <1>8, <2>1 DEF Accounted, StartLeaves
<1> QED
  BY <1>7, <1>10, <1>11, <1>12, <1>13, <1>14, <1>15 DEF ClientInv, StartLeaves

(* A functor that runs leaves the rest of the queue, in order.             *)
LEMMA FunctorKeeps ==
  ASSUME ClientInv, C!RunFunctor
  PROVE  ClientInv'
<1>1. /\ ClientTypes /\ StartsOnce /\ OneAttempt /\ ResetsOnce /\ ResetInTime
      /\ Accounted /\ ~assertFailed
      /\ connector \in Connectors /\ fds \in Seq({"open", "shut", "closed"})
  BY DEF ClientInv, ClientTypes
<1>2. /\ phase = "functors" /\ batch # <<>> /\ batch' = Tail(batch)
      /\ UNCHANGED <<main, chat, connection, phase, polled>>
  BY DEF C!RunFunctor
<1>3. PICK f0 : f0 = Head(batch)
  OBVIOUS
<1>4. Functions # <<>>
  BY <1>1, <1>2, TwoQueues DEF Functions, ClientTypes
<1>5. main # "start"
  BY <1>1, <1>4 DEF StartsOnce
<1>6. f0 \in Functors
  BY <1>1, <1>2, <1>3, HeadTailProperties DEF ClientTypes
<1>7. ASSUME pending' = pending
      PROVE  /\ pending' \in Seq(Functors) /\ batch' \in Seq(Functors)
             /\ \A f : In(f, Functions) <=> In(f, Functions)' \/ f = f0
             /\ Once(<<"start">>, Functions)' /\ Once(<<"reset">>, Functions)'
             /\ \A f \in {<<"start">>, <<"reset">>} :
                  f = f0 => ~ In(f, Functions)'
  BY <1>1, <1>2, <1>3, <1>7, FunctorTaken DEF ResetsOnce
<1>8. CASE f0[1] = "start"
  <2>1. f0 = <<"start">> /\ f0 # <<"reset">>
    BY <1>6, <1>8 DEF Functors
  <2>2. C!StartInLoop(connector, retryTimers) /\ UNCHANGED pending
    BY <1>3, <1>8 DEF C!RunFunctor
  <2>3. In(<<"start">>, Functions) /\ ~ In(<<"start">>, Functions)'
    BY <1>7, <2>1, <2>2
  <2>4. /\ fds = <<>> /\ retryTimers = 0 /\ connection = NoFd
        /\ connector.state = "kDisconnected" /\ connector.channel = NoFd
        /\ ~ connector.attached
    BY <1>1, <2>3 DEF StartsOnce, OneAttempt
  <2>5. PICK c \in Connectors : c = connector
    BY <1>1
  <2>6. C!StartInLoop(c, 0)
    BY <2>2, <2>4, <2>5
  <2>7. StartLeaves(c)
    BY <2>4, <2>5, <2>6, StartDoes
  <2>8. ClientTypes'
    BY <1>1, <1>2, <1>7, <2>2, <2>7 DEF ClientTypes, StartLeaves
  <2>9. StartsOnce'
    BY <1>2, <1>5, <2>3 DEF StartsOnce
  <2>10. OneAttempt'
    BY <1>2, <2>4, <2>7 DEF OneAttempt, StartLeaves
  <2>11. ~ In(<<"reset">>, Functions) /\ ~ In(<<"reset">>, Functions)'
    BY <1>1, <1>7, <2>2, <2>4 DEF ResetsOnce
  <2>12. ResetsOnce'
    BY <1>7, <2>2, <2>4, <2>5, <2>7, <2>11 DEF ResetsOnce, StartLeaves
  <2>13. ResetInTime'
    <3>1. In(<<"stop">>, Functions)' => In(<<"stop">>, Functions)
      BY <1>7, <2>2
    <3>2. In(<<"reset">>, pending)' => In(<<"reset">>, pending)
      BY <2>2 DEF In
    <3>3. polled'.timers <= retryTimers'
      BY <1>1, <1>2, <2>4, <2>7 DEF ResetInTime, ClientTypes, StartLeaves
    <3> QED
      BY <1>1, <1>2, <2>5, <2>7, <3>1, <3>2, <3>3 DEF ResetInTime, StartLeaves
  <2>14. Accounted'
    <3>1. DOMAIN fds = {}
      BY <2>4
    <3> QED
      BY <2>7, <3>1 DEF Accounted, StartLeaves
  <2> QED
    BY <2>7, <2>8, <2>9, <2>10, <2>12, <2>13, <2>14 DEF ClientInv, StartLeaves
<1>9. CASE f0[1] = "stop"
  <2>1. f0 = <<"stop">> /\ f0 # <<"reset">> /\ f0 # <<"start">>
    BY <1>6, <1>9 DEF Functors
  <2>2. C!StopInLoop /\ UNCHANGED assertFailed
    BY <1>3, <1>9 DEF C!RunFunctor
  <2>3. ~ connector.connect
    <3>1. In(<<"stop">>, Functions)
      <4>1. PICK p \in Seq(Functors), b \in Seq(Functors) :
              p = pending /\ b = batch
        BY <1>1 DEF ClientTypes
      <4>2. In(<<"stop">>, b)
        BY <1>2, <1>3, <2>1, <4>1, InTail
      <4> QED
        BY <4>1, <4>2, TwoQueues DEF Functions
    <3> QED
      BY <1>1, <3>1 DEF ResetInTime
  <2>4. CASE connector.state # "kConnecting"
    <3>1. UNCHANGED <<connector, fds, pending, retryTimers>>
      BY <2>2, <2>4 DEF C!StopInLoop
    <3>2. \A f : f # f0 => (In(f, Functions)' <=> In(f, Functions))
      BY <1>7, <3>1
    <3>3. \A f : In(f, Functions)' => In(f, Functions)
      BY <1>7, <3>1
    <3>4. ClientTypes' /\ StartsOnce' /\ OneAttempt'
      BY <1>1, <1>2, <1>5, <1>7, <3>1, <3>3
         DEF ClientTypes, StartsOnce, OneAttempt
    <3>5. ResetsOnce' /\ ResetInTime'
      BY <1>1, <1>2, <1>7, <2>1, <2>3, <3>1, <3>2 DEF ResetsOnce, ResetInTime
    <3>6. Accounted'
      BY <1>1, <1>2, <2>1, <3>1, <3>2 DEF Accounted
    <3> QED
      BY <1>1, <2>2, <3>4, <3>5, <3>6 DEF ClientInv
  <2>5. CASE connector.state = "kConnecting"
    <3>1. /\ connector.attached /\ connector.channel # NoFd
          /\ connector.channel \in Nat
          /\ connection = NoFd /\ retryTimers = 0
      BY <1>1, <2>5 DEF OneAttempt, ClientTypes, Connectors
    <3>2. PICK c \in Connectors :
            c = [C!Detached(connector) EXCEPT !.state = "kDisconnected"]
      BY <1>1 DEF C!Detached, Connectors, ConnectorStates
    <3>3. /\ ~ c.attached /\ ~ c.connect /\ c.channel = connector.channel
      BY <1>1, <2>3, <3>2 DEF C!Detached, Connectors
    <3>4. PICK timers0 \in Nat : timers0 = 0
      OBVIOUS
    <3>5. C!Retry(c, timers0)
      BY <2>2, <2>5, <3>1, <3>2, <3>4 DEF C!StopInLoop
    <3>6. /\ connector' \in Connectors /\ connector'.state = "kDisconnected"
          /\ ~ connector'.connect /\ connector'.channel = connector.channel
          /\ ~ connector'.attached /\ retryTimers' = 0
      BY <3>3, <3>4, <3>5, RetryLeaves
    <3>7. /\ fds' = [fds EXCEPT ![connector.channel] = "closed"]
          /\ pending' = Append(pending, <<"reset">>)
      BY <2>2, <2>5 DEF C!StopInLoop, C!Close
    <3>8. PICK n \in Nat : n = connector.channel
      BY <3>1
    <3>9. /\ fds' \in Seq({"open", "shut", "closed"}) /\ DOMAIN fds' = DOMAIN fds
          /\ \A fd \in DOMAIN fds :
               fds'[fd] = IF fd = n THEN "closed" ELSE fds[fd]
      BY <1>1, <3>7, <3>8, ExceptOfSeq
    <3>10. <<"reset">> \in Functors /\ <<"reset">> # <<"start">>
      BY DEF Functors
    <3>11. /\ ~ In(<<"start">>, Functions) /\ ~ In(<<"reset">>, Functions)
      BY <1>1, <3>1 DEF StartsOnce, ResetsOnce
    <3>12. /\ pending' \in Seq(Functors) /\ batch' \in Seq(Functors)
           /\ \A f : In(f, Functions)' => In(f, Functions) \/ f = <<"reset">>
           /\ \A f : In(f, Functions) => In(f, Functions)' \/ f = f0
           /\ In(<<"reset">>, Functions)'
           /\ \A f : Once(f, Functions) /\ ~ (f = <<"reset">> /\ In(f, Functions))
                       => Once(f, Functions)'
      BY <1>1, <1>2, <1>3, <3>7, <3>10, FunctorTakenAndAdded
    <3>13. ClientTypes' /\ OneAttempt'
      BY <1>1, <1>2, <3>1, <3>6, <3>9, <3>12 DEF ClientTypes, OneAttempt
    <3>14. StartsOnce'
      BY <1>2, <1>5, <3>10, <3>11, <3>12 DEF StartsOnce
    <3>15. ResetsOnce'
      BY <1>1, <3>1, <3>6, <3>10, <3>11, <3>12 DEF ResetsOnce
    <3>16. ResetInTime'
      BY <1>1, <1>2, <3>1, <3>6 DEF ResetInTime
    <3>17. Accounted'
      <4> SUFFICES ASSUME NEW fd \in DOMAIN fds, fds'[fd] # "closed"
                   PROVE  In(<<"destroyed", fd>>, Functions)'
        BY <3>9 DEF Accounted
      <4>1. fd # n /\ fd # NoFd /\ fds[fd] # "closed"
        BY <1>1, <3>9, ConnectorAssumption
      <4>2. In(<<"destroyed", fd>>, Functions)
        BY <1>1, <3>1, <3>8, <4>1 DEF Accounted
      <4> QED
        BY <2>1, <3>12, <4>2
    <3> QED
      BY <1>1, <2>2, <3>13, <3>14, <3>15, <3>16, <3>17 DEF ClientInv
  <2> QED
    BY <2>4, <2>5
<1>10. CASE f0[1] = "reset"
  <2>1. f0 = <<"reset">> /\ <<"start">> # <<"reset">> /\ <<"stop">> # <<"reset">>
    BY <1>6, <1>10 DEF Functors
  <2>2. C!ResetChannel /\ UNCHANGED <<pending, assertFailed>>
    BY <1>3, <1>10 DEF C!RunFunctor
  <2>3. UNCHANGED <<fds, retryTimers>>
    BY <2>2 DEF C!ResetChannel
  <2>4. connector' = [connector EXCEPT !.channel = NoFd]
    BY <2>2 DEF C!ResetChannel
  <2>5. /\ connector' \in Connectors /\ connector'.state = connector.state
        /\ connector'.attached = connector.attached
        /\ connector'.connect = connector.connect /\ connector'.channel = NoFd
    BY <1>1, <2>4 DEF Connectors
  <2>6. In(<<"reset">>, Functions) /\ ~ In(<<"reset">>, Functions)'
    BY <1>7, <2>1, <2>2
  <2>7. connector.channel # NoFd /\ ~ connector.attached
        /\ connector.state # "kConnecting"
    BY <1>1, <2>6 DEF ResetsOnce, OneAttempt
  <2>8. \A f : f # <<"reset">> => (In(f, Functions)' <=> In(f, Functions))
    BY <1>7, <2>1, <2>2
  <2>9. ClientTypes' /\ OneAttempt'
    BY <1>1, <1>2, <1>7, <2>2, <2>3, <2>5, <2>7 DEF ClientTypes, OneAttempt
  <2>10. StartsOnce'
    BY <1>1, <1>2, <1>5, <2>1, <2>3, <2>5, <2>8 DEF StartsOnce
  <2>11. ResetsOnce'
    BY <1>7, <2>2, <2>5, <2>6 DEF ResetsOnce
  <2>12. ResetInTime'
    <3>1. In(<<"reset">>, pending)' <=> In(<<"reset">>, pending)
      BY <2>2 DEF In
    <3> QED
      BY <1>1, <1>2, <2>1, <2>3, <2>5, <2>8, <3>1 DEF ResetInTime
  <2>13. Accounted'
    BY <1>1, <1>2, <2>3, <2>7, <2>8 DEF Accounted
  <2> QED
    BY <1>1, <2>2, <2>9, <2>10, <2>11, <2>12, <2>13 DEF ClientInv
<1>11. ASSUME f0[1] \in {"shutdown", "destroyed"}
       PROVE  ClientInv'
  <2>1. PICK n \in Nat : n = f0[2] /\ f0 = <<f0[1], n>>
    BY <1>6, <1>11 DEF Functors
  <2>2. f0 # <<"reset">> /\ f0 # <<"start">> /\ f0 # <<"stop">>
    BY <2>1
  <2>3. /\ UNCHANGED <<connector, retryTimers, pending, assertFailed>>
        /\ f0[1] = "shutdown" =>
             fds' = [fds EXCEPT ![n] = IF @ = "open" THEN "shut" ELSE @]
        /\ f0[1] = "destroyed" => fds' = [fds EXCEPT ![n] = "closed"]
    BY <1>3, <1>11, <2>1
       DEF C!RunFunctor, C!ShutdownInLoop, C!ConnectDestroyed, C!Close
  <2>4. /\ fds' \in Seq({"open", "shut", "closed"}) /\ DOMAIN fds' = DOMAIN fds
        /\ \A fd \in DOMAIN fds : fds'[fd] # "closed" =>
             fds[fd] # "closed" /\ <<"destroyed", fd>> # f0
    <3>1. CASE f0[1] = "destroyed"
      <4>1. /\ fds' \in Seq({"open", "shut", "closed"})
            /\ DOMAIN fds' = DOMAIN fds
            /\ \A fd \in DOMAIN fds :
                 fds'[fd] = IF fd = n THEN "closed" ELSE fds[fd]
        BY <1>1, <2>3, <3>1, ExceptOfSeq
      <4> QED
        BY <2>1, <4>1
    <3>2. CASE f0[1] = "shutdown"
      <4>1. CASE n \in DOMAIN fds
        <5>1. PICK st \in {"open", "shut", "closed"} :
                st = IF fds[n] = "open" THEN "shut" ELSE fds[n]
          BY <1>1, <4>1, ElementOfSeq
        <5>2. fds' = [fds EXCEPT ![n] = st] /\ (st = "closed" <=> fds[n] = "closed")
          BY <2>3, <3>2, <5>1
        <5>3. /\ fds' \in Seq({"open", "shut", "closed"})
              /\ DOMAIN fds' = DOMAIN fds
              /\ \A fd \in DOMAIN fds :
                   fds'[fd] = IF fd = n THEN st ELSE fds[fd]
          BY <1>1, <5>2, ExceptOfSeq
        <5> QED
          BY <2>1, <3>2, <5>2, <5>3
      <4>2. CASE n \notin DOMAIN fds
        <5>1. fds' = fds
          <6>1. fds' = [fds EXCEPT ![n] =
                          IF fds[n] = "open" THEN "shut" ELSE fds[n]]
            BY <2>3, <3>2
          <6>2. fds \in [1 .. Len(fds) -> {"open", "shut", "closed"}]
            BY <1>1, LenProperties
          <6> QED
            BY <4>2, <6>1, <6>2
        <5> QED
          BY <1>1, <2>1, <3>2, <5>1
      <4> QED
        BY <4>1, <4>2
    <3> QED
      BY <1>11, <3>1, <3>2
  <2>5. \A f : f # f0 => (In(f, Functions)' <=> In(f, Functions))
    BY <1>7, <2>3
  <2>6. ClientTypes' /\ OneAttempt'
    BY <1>1, <1>2, <1>7, <2>3, <2>4 DEF ClientTypes, OneAttempt
  <2>7. StartsOnce'
    <3>1. In(<<"start">>, Functions)' => fds' = <<>>
      <4>1. In(<<"start">>, Functions)' => fds = <<>>
        BY <1>1, <2>2, <2>5 DEF StartsOnce
      <4>2. fds = <<>> => fds' = <<>>
        <5>1. fds = <<>> => DOMAIN fds' = {}
          BY <2>4
        <5> QED
          BY <2>4, <5>1, EmptySeq, LenProperties
      <4> QED
        BY <4>1, <4>2
    <3> QED
      BY <1>1, <1>2, <1>5, <2>2, <2>3, <2>5, <3>1 DEF StartsOnce
  <2>8. ResetsOnce'
    BY <1>1, <1>7, <2>2, <2>3, <2>5 DEF ResetsOnce
  <2>9. ResetInTime'
    <3>1. In(<<"reset">>, pending)' <=> In(<<"reset">>, pending)
      BY <2>3 DEF In
    <3> QED
      BY <1>1, <1>2, <2>2, <2>3, <2>5, <3>1 DEF ResetInTime
  <2>10. Accounted'
    BY <1>1, <1>2, <2>3, <2>4, <2>5 DEF Accounted
  <2> QED
    BY <1>1, <2>3, <2>6, <2>7, <2>8, <2>9, <2>10 DEF ClientInv
<1> QED
  BY <1>3, <1>8, <1>9, <1>10, <1>11 DEF C!RunFunctor

(* Each step of the client keeps the invariant of its connection.          *)
LEMMA ClientStep ==
  ClientInv /\ [C!ClientNext]_clientVars => ClientInv'
<1> SUFFICES ASSUME ClientInv, [C!ClientNext]_clientVars
             PROVE  ClientInv'
  OBVIOUS
<1>1. CASE UNCHANGED clientVars
  <2>1. Functions' = Functions /\ pending' = pending
    BY <1>1 DEF clientVars, Functions
  <2>2. ClientTypes' /\ StartsOnce' /\ OneAttempt' /\ ResetsOnce' /\ Accounted'
    BY <1>1, <2>1 DEF clientVars, ClientInv, ClientTypes, StartsOnce, OneAttempt,
                      ResetsOnce, Accounted
  <2>3. ResetInTime' /\ ~assertFailed'
    BY <1>1, <2>1 DEF clientVars, ClientInv, ResetInTime
  <2> QED
    BY <2>2, <2>3 DEF ClientInv
<1> QED
  BY <1>1, MainKeeps, LoopTurns, FunctorKeeps, AttemptKeeps, RetryTimerKeeps,
     ClosesKeeps DEF C!ClientNext

-----------------------------------------------------------------------------
(* The acceptor.                                                           *)

Owners == {"free", "idle", "refused", "connection", "other"}
Descriptors == 1 .. MaxFd
OwnsIdle == {"poll", "close", "refuse"}

(* It has one descriptor of its own, "idleFd", or none: never while it has *)
(* given it up.                                                            *)
AcceptInv ==
  /\ descriptors \in [Descriptors -> Owners]
  /\ idleFd \in Descriptors \cup {-1}
  /\ accepting \in {"poll", "close", "accept", "refuse", "open"}
  /\ \A fd \in Descriptors : descriptors[fd] \in {"idle", "refused"} =>
       fd = idleFd /\ accepting \in OwnsIdle
  /\ accepting \in OwnsIdle /\ idleFd # -1 =>
       descriptors[idleFd] \in {"idle", "refused"}
  /\ ~wrongClose

(* The kernel gives a number that is free, when there is one.              *)
LEMMA LowestFree ==
  ASSUME descriptors \in [Descriptors -> Owners], A!Free # {}
  PROVE  A!Lowest \in Descriptors /\ descriptors[A!Lowest] = "free"
<1>1. A!Free \subseteq Nat
  BY DEF A!Free, Descriptors
<1>2. \E fd \in A!Free : \A other \in A!Free : fd <= other
  BY <1>1, LeastOfNat
<1>3. A!Lowest \in A!Free
  BY <1>2 DEF A!Lowest
<1> QED
  BY <1>3 DEF A!Free

(* Each step of the acceptor and of the threads around it keeps it.        *)
LEMMA AcceptorStep ==
  AcceptInv /\ [A!AcceptNext]_acceptVars => AcceptInv'
<1> SUFFICES ASSUME AcceptInv, [A!AcceptNext]_acceptVars
             PROVE  AcceptInv'
  OBVIOUS
<1> USE DEF AcceptInv
<1>1. CASE UNCHANGED acceptVars
  BY <1>1 DEF acceptVars
<1>2. A!Free # {} => \E fd \in Descriptors : fd = A!Lowest /\ fd # -1
                                             /\ descriptors[fd] = "free"
  BY LowestFree DEF Descriptors
<1>3. CASE A!ClientComes
  BY <1>3 DEF A!ClientComes
<1>4. CASE A!OtherOpens
  BY <1>2, <1>4 DEF A!OtherOpens, Owners
<1>5. CASE A!OtherCloses
  BY <1>5 DEF A!OtherCloses, Owners
<1>6. CASE A!HandleRead
  BY <1>2, <1>6 DEF A!HandleRead, Owners, OwnsIdle
<1>7. CASE A!GiveUpIdle \/ A!Refuse
  <2>1. /\ accepting \in OwnsIdle /\ accepting' \in {"accept", "open"}
        /\ accepting' \notin OwnsIdle /\ idleFd' = idleFd
    BY <1>7 DEF A!GiveUpIdle, A!Refuse, A!CloseIdle, OwnsIdle
  <2>2. CASE idleFd = -1
    <3>1. UNCHANGED <<descriptors, wrongClose>>
      BY <1>7, <2>2 DEF A!GiveUpIdle, A!Refuse, A!CloseIdle
    <3>2. \A fd \in Descriptors : descriptors[fd] \notin {"idle", "refused"}
      BY <2>2 DEF Descriptors
    <3> QED
      BY <2>1, <3>1, <3>2
  <2>3. CASE idleFd # -1
    <3>1. /\ descriptors' = [descriptors EXCEPT ![idleFd] = "free"]
          /\ wrongClose' = (wrongClose \/
                             descriptors[idleFd] \notin {"idle", "refused"})
      BY <1>7, <2>3 DEF A!GiveUpIdle, A!Refuse, A!CloseIdle
    <3>2. ~wrongClose'
      BY <2>1, <2>3, <3>1
    <3>3. descriptors' \in [Descriptors -> Owners]
      BY <3>1 DEF Owners
    <3>4. \A fd \in Descriptors : descriptors'[fd] \notin {"idle", "refused"}
      BY <3>1
    <3> QED
      BY <2>1, <3>2, <3>3, <3>4
  <2> QED
    BY <2>2, <2>3
<1>8. CASE A!AcceptAgain
  BY <1>2, <1>8 DEF A!AcceptAgain, Owners, OwnsIdle
<1>9. CASE A!OpenIdle
  BY <1>2, <1>9 DEF A!OpenIdle, Owners, OwnsIdle
<1> QED
  BY <1>1, <1>3, <1>4, <1>5, <1>6, <1>7, <1>8, <1>9
     DEF A!AcceptNext, A!AcceptorStep

(* Connector.cc:158-195, :209-225, TcpClient.cc:162-180, Acceptor.cc:55-88:*)
(* for any number of attempts, clients and descriptors, each socket of the *)
(* command-line client is the one being connected, the connection or about *)
(* to be destroyed, and the acceptor closes no descriptor but its own.     *)
THEOREM SocketsAlwaysAccounted == Spec => []SocketsAccounted
<1>1. Init => ClientInv /\ AcceptInv
  <2> SUFFICES ASSUME C!ClientInit, A!AcceptInit
               PROVE  ClientInv /\ AcceptInv
    BY DEF Init
  <2>1. ClientInv
    <3> USE DEF C!ClientInit
    <3>1. Functions = <<>> /\ pending = <<>> /\ \A f : ~ In(f, <<>>)
      BY DEF Functions, In
    <3>2. ClientTypes
      BY ConnectorAssumption DEF ClientTypes, Connectors, ConnectorStates
    <3>3. StartsOnce /\ OneAttempt /\ ResetsOnce
      BY <3>1 DEF StartsOnce, OneAttempt, ResetsOnce, Once
    <3>4. ResetInTime /\ Accounted
      BY <3>1 DEF ResetInTime, Accounted
    <3> QED
      BY <3>2, <3>3, <3>4 DEF ClientInv
  <2>2. AcceptInv
    BY AcceptAssumption DEF A!AcceptInit, AcceptInv, Descriptors, Owners, OwnsIdle
  <2> QED
    BY <2>1, <2>2
<1>2. ClientInv /\ AcceptInv /\ [Next]_vars => ClientInv' /\ AcceptInv'
  <2>1. Next => [C!ClientNext]_clientVars
    <3> SUFFICES ASSUME Next
                 PROVE  [C!ClientNext]_clientVars
      OBVIOUS
    <3> QED
      BY DEF Next, libraryVars
  <2>2. Next => [A!AcceptNext]_acceptVars
    <3> SUFFICES ASSUME Next
                 PROVE  [A!AcceptNext]_acceptVars
      OBVIOUS
    <3> QED
      BY DEF Next, libraryVars
  <2>3. [Next]_vars => [C!ClientNext]_clientVars /\ [A!AcceptNext]_acceptVars
    BY <2>1, <2>2 DEF vars
  <2> QED
    BY <2>3, ClientStep, AcceptorStep
<1>3. ClientInv /\ AcceptInv => SocketsAccounted
  <2> SUFFICES ASSUME ClientInv, AcceptInv
               PROVE  SocketsAccounted
    OBVIOUS
  <2>1. PICK p \in Seq(Functors), b \in Seq(Functors) : p = pending /\ b = batch
    BY DEF ClientInv, ClientTypes
  <2>2. \A f : In(f, b \o p) => In(f, p \o b)
    BY TwoQueues
  <2>3. \A f : In(f, Functions) =>
                 f \in {(pending \o batch)[i] : i \in DOMAIN (pending \o batch)}
    BY <2>1, <2>2 DEF Functions, In
  <2>4. C!SocketsAccounted
    BY <2>3 DEF C!SocketsAccounted, ClientInv, Accounted
  <2>5. A!DescriptorsOwned
    BY DEF A!DescriptorsOwned, AcceptInv
  <2> QED
    BY <2>4, <2>5 DEF SocketsAccounted
<1> QED
  BY <1>1, <1>2, <1>3, PTL DEF Spec

-----------------------------------------------------------------------------
(* The server's statistics.                                                *)

(* The threads that have counted a message in total and not in the         *)
(* interval.                                                               *)
Midway == {t \in IoThreads : recording[t] = 1}

MetricsTypes ==
  /\ count \in [M!Counters -> Nat]
  /\ recording \in [IoThreads -> 0..3]
  /\ snapshot \in Seq(Nat) /\ Len(snapshot) \in 0..5
  /\ reported \in [messages : Nat, snapshots : Nat, exact : BOOLEAN]

(* The messages of the interval that the running snapshot has taken.       *)
Taken == IF snapshot = <<>> THEN 0 ELSE snapshot[1]

MetricsInv ==
  /\ MetricsTypes /\ reported.exact /\ IsFiniteSet(Midway)
  /\ count["totalMessages"] =
       reported.messages + Taken + count["intervalMessages"]
         + Cardinality(Midway)
  /\ Len(snapshot) > 1 => snapshot[2] >= reported.messages + Taken

(* The snapshot reads the interval's messages first, the total next.       *)
LEMMA TakenIsPending ==
  ASSUME MetricsTypes
  PROVE  M!Pending = Taken /\ Taken \in Nat
<1>1. /\ Len(snapshot) \in 0..5
      /\ DOMAIN snapshot = 1 .. Len(snapshot)
      /\ snapshot = <<>> <=> Len(snapshot) = 0
      /\ \A i \in DOMAIN snapshot : snapshot[i] \in Nat
  BY EmptySeq, LenProperties DEF MetricsTypes
<1>2. \A i \in 1 .. 6 : M!SnapshotSteps[i] = "intervalMessages" <=> i = 1
  BY DEF M!SnapshotSteps
<1>3. \A i \in DOMAIN snapshot :
        M!SnapshotSteps[i] = "intervalMessages" <=> i = 1
  BY <1>1, <1>2
<1>4. {i \in DOMAIN snapshot : M!SnapshotSteps[i] = "intervalMessages"} =
        IF snapshot = <<>> THEN {} ELSE {1}
  BY <1>1, <1>3
<1> QED
  BY <1>1, <1>4 DEF M!Pending, Taken

(* A step of recordMessage: a counter, and how far its thread is.          *)
LEMMA RecordKeeps ==
  ASSUME MetricsInv, NEW t \in IoThreads, M!RecordMessage(t)
  PROVE  MetricsInv'
<1>1. /\ MetricsTypes /\ reported.exact /\ IsFiniteSet(Midway)
      /\ Taken \in Nat /\ reported.messages \in Nat
  BY TakenIsPending DEF MetricsInv, MetricsTypes
<1>2. Cardinality(Midway) \in Nat
  BY <1>1, FS_CardinalityType
<1>3. PICK r \in 0..3 : r = recording[t]
  BY <1>1 DEF MetricsTypes
<1>4. /\ UNCHANGED <<snapshot, reported>> /\ Taken' = Taken
      /\ recording' = [recording EXCEPT ![t] = (r + 1) % 4]
  BY <1>3 DEF M!RecordMessage, Taken
<1>5. PICK n \in {0, 1} : /\ r # 2 => n = 1
                          /\ M!Add(M!RecordSteps[r + 1], n)
  BY <1>3 DEF M!RecordMessage
<1>6. PICK c \in M!Counters :
        /\ c = M!RecordSteps[r + 1]
        /\ r = 0 => c = "totalMessages"
        /\ r = 1 => c = "intervalMessages"
        /\ r \notin {0, 1} => c \notin {"totalMessages", "intervalMessages"}
  <2>1. /\ M!RecordSteps[1] = "totalMessages"
        /\ M!RecordSteps[2] = "intervalMessages"
        /\ M!RecordSteps[3] = "intervalLatencyMicros"
        /\ M!RecordSteps[4] = "intervalLatencySamples"
    BY DEF M!RecordSteps
  <2>2. r = 0 \/ r = 1 \/ r = 2 \/ r = 3
    OBVIOUS
  <2>3. CASE r = 0
    BY <2>1, <2>3 DEF M!Counters
  <2>4. CASE r = 1
    BY <2>1, <2>4 DEF M!Counters
  <2>5. CASE r = 2
    BY <2>1, <2>5 DEF M!Counters
  <2>6. CASE r = 3
    BY <2>1, <2>6 DEF M!Counters
  <2> QED
    BY <2>2, <2>3, <2>4, <2>5, <2>6
<1>13. /\ count' = [count EXCEPT ![c] = @ + n]
       /\ r \in {0, 1} => n = 1
  BY <1>5, <1>6 DEF M!Add
<1>7. /\ count \in [M!Counters -> Nat] /\ "totalMessages" \in M!Counters
      /\ "intervalMessages" \in M!Counters
      /\ count["totalMessages"] \in Nat /\ count["intervalMessages"] \in Nat
  BY <1>1 DEF MetricsTypes, M!Counters
<1>8. MetricsTypes'
  BY <1>1, <1>3, <1>4, <1>13 DEF MetricsTypes
<1>9. /\ \A u \in IoThreads \ {t} : recording'[u] = recording[u]
      /\ recording'[t] = 1 <=> r = 0
      /\ recording[t] = 1 <=> r = 1
  BY <1>1, <1>3, <1>4 DEF MetricsTypes
<1>10. CASE r = 0
  <2>1. Midway' = Midway \cup {t} /\ t \notin Midway
    BY <1>9, <1>10 DEF Midway
  <2>2. /\ IsFiniteSet(Midway \cup {t})
        /\ Cardinality(Midway \cup {t}) = Cardinality(Midway) + 1
    BY <1>1, <2>1, FS_AddElement
  <2>3. IsFiniteSet(Midway') /\ Cardinality(Midway') = Cardinality(Midway) + 1
    BY <2>1, <2>2
  <2>4. /\ count'["totalMessages"] = count["totalMessages"] + 1
        /\ count'["intervalMessages"] = count["intervalMessages"]
    BY <1>6, <1>7, <1>13, <1>10
  <2> QED
    BY <1>1, <1>2, <1>4, <1>7, <1>8, <2>3, <2>4, SMTT(20) DEF MetricsInv
<1>11. CASE r = 1
  <2>1. Midway' = Midway \ {t} /\ t \in Midway
    BY <1>9, <1>11 DEF Midway
  <2>2. /\ IsFiniteSet(Midway \ {t})
        /\ Cardinality(Midway \ {t}) = Cardinality(Midway) - 1
    BY <1>1, <2>1, FS_RemoveElement
  <2>3. IsFiniteSet(Midway') /\ Cardinality(Midway') = Cardinality(Midway) - 1
    BY <2>1, <2>2
  <2>4. /\ count'["intervalMessages"] = count["intervalMessages"] + 1
        /\ count'["totalMessages"] = count["totalMessages"]
    BY <1>6, <1>7, <1>13, <1>11
  <2> QED
    BY <1>1, <1>2, <1>4, <1>7, <1>8, <2>3, <2>4, SMTT(20) DEF MetricsInv
<1>12. CASE r \notin {0, 1}
  <2>1. Midway' = Midway
    BY <1>9, <1>12 DEF Midway
  <2>2. /\ count'["intervalMessages"] = count["intervalMessages"]
        /\ count'["totalMessages"] = count["totalMessages"]
    BY <1>6, <1>7, <1>13, <1>12
  <2> QED
    BY <1>1, <1>2, <1>4, <1>7, <1>8, <2>1, <2>2 DEF MetricsInv
<1> QED
  BY <1>10, <1>11, <1>12

(* A step of the snapshot: a counter read, or the last of them.            *)
LEMMA SnapshotKeeps ==
  ASSUME MetricsInv, M!PrintPerformanceStats
  PROVE  MetricsInv'
<1>1. /\ MetricsTypes /\ reported.exact /\ IsFiniteSet(Midway)
      /\ Taken \in Nat /\ reported.messages \in Nat
      /\ reported \in [messages : Nat, snapshots : Nat, exact : BOOLEAN]
  BY TakenIsPending DEF MetricsInv, MetricsTypes
<1>2. Cardinality(Midway) \in Nat /\ Midway' = Midway
  BY <1>1, FS_CardinalityType DEF M!PrintPerformanceStats, Midway
<1>3. PICK k \in 0..5 : k = Len(snapshot) /\ k + 1 = Len(snapshot) + 1
  BY <1>1 DEF MetricsTypes
<1>4. /\ M!SnapshotSteps[1] = "intervalMessages"
      /\ M!SnapshotSteps[2] = "totalMessages"
      /\ M!SnapshotSteps[3] = "totalConnections"
      /\ M!SnapshotSteps[4] = "droppedConnections"
      /\ M!SnapshotSteps[5] = "intervalLatencyMicros"
      /\ M!SnapshotSteps[6] = "intervalLatencySamples"
      /\ Len(M!SnapshotSteps) = 6
  BY DEF M!SnapshotSteps
<1>5. PICK c \in M!Counters : /\ c = M!SnapshotSteps[k + 1]
                              /\ k = 0 <=> c = "intervalMessages"
                              /\ k = 1 <=> c = "totalMessages"
  <2>1. k = 0 \/ k = 1 \/ k = 2 \/ k = 3 \/ k = 4 \/ k = 5
    OBVIOUS
  <2>2. CASE k = 0
    BY <1>4, <2>2 DEF M!Counters
  <2>3. CASE k = 1
    BY <1>4, <2>3 DEF M!Counters
  <2>4. CASE k = 2
    BY <1>4, <2>4 DEF M!Counters
  <2>5. CASE k = 3
    BY <1>4, <2>5 DEF M!Counters
  <2>6. CASE k = 4
    BY <1>4, <2>6 DEF M!Counters
  <2>7. CASE k = 5
    BY <1>4, <2>7 DEF M!Counters
  <2> QED
    BY <2>1, <2>2, <2>3, <2>4, <2>5, <2>6, <2>7
<1>6. /\ count \in [M!Counters -> Nat] /\ count[c] \in Nat
      /\ "totalMessages" \in M!Counters /\ "intervalMessages" \in M!Counters
      /\ count["totalMessages"] \in Nat /\ count["intervalMessages"] \in Nat
  BY <1>1 DEF MetricsTypes, M!Counters
<1>7. PICK read \in Seq(Nat) : read = Append(snapshot, count[c])
  <2>1. snapshot \in Seq(Nat)
    BY <1>1 DEF MetricsTypes
  <2> QED
    BY <1>6, <2>1, AppendProperties
<1>8. /\ Len(read) = k + 1 /\ DOMAIN read = 1 .. k + 1
      /\ \A i \in 1 .. k : read[i] = snapshot[i]
      /\ read[k + 1] = count[c] /\ read # <<>>
      /\ \A i \in 1 .. k + 1 : read[i] \in Nat
  <2>1. snapshot \in Seq(Nat)
    BY <1>1 DEF MetricsTypes
  <2>2. /\ Len(read) = Len(snapshot) + 1 /\ read # <<>>
        /\ \A i \in 1 .. Len(snapshot) : read[i] = snapshot[i]
        /\ read[Len(snapshot) + 1] = count[c]
    BY <1>6, <1>7, <2>1, AppendProperties
  <2>3. DOMAIN read = 1 .. k + 1 /\ \A i \in 1 .. k + 1 : read[i] \in Nat
    BY <1>3, <2>2, LenProperties
  <2> QED
    BY <1>3, <2>2, <2>3
<1>9. UNCHANGED <<recording, open>>
  BY DEF M!PrintPerformanceStats
<1>10. /\ c = M!SnapshotSteps[Len(snapshot) + 1]
       /\ read = Append(snapshot, count[M!SnapshotSteps[Len(snapshot) + 1]])
  BY <1>3, <1>5, <1>7
<1>14. count' = IF c \in M!IntervalCounters THEN [count EXCEPT ![c] = 0]
                ELSE count
  BY <1>10 DEF M!PrintPerformanceStats, M!SnapshotAndReset
<1>15. Len(read) < Len(M!SnapshotSteps) =>
         snapshot' = read /\ UNCHANGED reported
  BY <1>10 DEF M!PrintPerformanceStats, M!SnapshotAndReset
<1>11. /\ count' \in [M!Counters -> Nat]
       /\ count'["totalMessages"] = count["totalMessages"]
       /\ k = 0 => count'["intervalMessages"] = 0 /\ c = "intervalMessages"
       /\ k # 0 => count'["intervalMessages"] = count["intervalMessages"]
       /\ k = 1 => c = "totalMessages"
  <2>1. /\ c \in M!IntervalCounters => c # "totalMessages"
        /\ "intervalMessages" \in M!IntervalCounters
    BY DEF M!IntervalCounters
  <2>2. count' \in [M!Counters -> Nat]
    BY <1>6, <1>14
  <2>3. count'["totalMessages"] = count["totalMessages"]
    BY <1>6, <1>14, <2>1
  <2>4. count'["intervalMessages"] =
          IF c = "intervalMessages" THEN 0 ELSE count["intervalMessages"]
    BY <1>6, <1>14, <2>1
  <2> QED
    BY <1>5, <2>2, <2>3, <2>4
<1>12. CASE k < 5
  <2>1. snapshot' = read /\ UNCHANGED reported
    BY <1>4, <1>8, <1>12, <1>15
  <2>2. MetricsTypes'
    <3>1. Len(read) \in 0..5
      BY <1>8, <1>12
    <3> QED
      BY <1>1, <1>9, <1>11, <2>1, <3>1 DEF MetricsTypes
  <2>3. Taken' = IF k = 0 THEN count["intervalMessages"] ELSE Taken
    <3>1. k = 0 <=> snapshot = <<>>
      BY <1>1, <1>3, EmptySeq DEF MetricsTypes
    <3> QED
      BY <1>3, <1>8, <1>11, <2>1, <3>1 DEF Taken
  <2>4. k = 0 => Taken = 0
    BY <1>1, <1>3, EmptySeq DEF MetricsTypes, Taken
  <2>5. count'["totalMessages"] = reported.messages + Taken'
          + count'["intervalMessages"] + Cardinality(Midway)
    BY <1>1, <1>2, <1>6, <1>11, <2>3, <2>4 DEF MetricsInv
  <2>6. Len(snapshot)' > 1 => snapshot'[2] >= reported.messages + Taken'
    <3>1. CASE k = 1
      <4>1. snapshot'[2] = count["totalMessages"]
        BY <1>8, <1>11, <2>1, <3>1
      <4> QED
        BY <1>1, <1>2, <1>6, <2>3, <3>1, <4>1 DEF MetricsInv
    <3>2. CASE k > 1
      <4>1. snapshot'[2] = snapshot[2] /\ Taken' = Taken
        BY <1>3, <1>8, <2>1, <2>3, <3>2
      <4> QED
        BY <1>1, <1>3, <3>2, <4>1 DEF MetricsInv
    <3> QED
      BY <1>3, <1>8, <2>1, <3>1, <3>2
  <2> QED
    BY <1>1, <1>2, <2>1, <2>2, <2>5, <2>6 DEF MetricsInv
<1>13. CASE k = 5
  <2>1. (CHOOSE i \in DOMAIN read : M!SnapshotSteps[i] = "intervalMessages") = 1
    BY <1>4, <1>8, <1>13
  <2>2. (CHOOSE i \in DOMAIN read : M!SnapshotSteps[i] = "totalMessages") = 2
    BY <1>4, <1>8, <1>13
  <2>3. /\ snapshot' = <<>>
        /\ reported' = [messages |-> reported.messages + read[1],
                        snapshots |-> reported.snapshots + 1,
                        exact |-> read[2] >= reported.messages + read[1]]
    <3>1. ~ (Len(read) < Len(M!SnapshotSteps))
      BY <1>4, <1>8, <1>13
    <3> QED
      BY <1>10, <2>1, <2>2, <3>1 DEF M!PrintPerformanceStats, M!SnapshotAndReset
  <2>4. /\ read[1] = snapshot[1] /\ read[2] = snapshot[2] /\ snapshot # <<>>
        /\ read[1] = Taken
    <3>1. snapshot # <<>>
      <4>1. Len(<<>>) = 0 /\ Len(snapshot) = 5
        BY <1>3, <1>13, EmptySeq
      <4>2. Len(snapshot) # Len(<<>>)
        BY <4>1
      <4> QED
        BY <4>2
    <3> QED
      BY <1>8, <1>13, <3>1 DEF Taken
  <2>5. reported'.exact /\ reported'.messages = reported.messages + Taken
    BY <1>1, <1>3, <1>13, <2>3, <2>4 DEF MetricsInv
  <2>6. MetricsTypes'
    <3>1. read[1] \in Nat /\ reported.snapshots + 1 \in Nat
      BY <1>1, <1>8, <1>13
    <3>2. reported' \in [messages : Nat, snapshots : Nat, exact : BOOLEAN]
      BY <1>1, <2>3, <3>1
    <3> QED
      BY <1>1, <1>9, <1>11, <2>3, <3>2 DEF MetricsTypes
  <2>7. Taken' = 0 /\ ~ (Len(snapshot)' > 1)
    BY <2>3 DEF Taken
  <2> QED
    BY <1>1, <1>2, <1>6, <1>11, <1>13, <2>5, <2>6, <2>7 DEF MetricsInv
<1> QED
  BY <1>12, <1>13

(* Each step of the threads and of the timer keeps it.                     *)
LEMMA MetricsStep ==
  MetricsInv /\ [M!MetricsNext]_metricsVars => MetricsInv'
<1> SUFFICES ASSUME MetricsInv, [M!MetricsNext]_metricsVars
             PROVE  MetricsInv'
  OBVIOUS
<1>1. CASE UNCHANGED metricsVars
  BY <1>1 DEF metricsVars, MetricsInv, MetricsTypes, Taken, Midway
<1>2. ASSUME NEW c \in M!Counters, M!Add(c, 1),
             c \notin {"totalMessages", "intervalMessages"},
             UNCHANGED <<recording, snapshot, reported>>
      PROVE  MetricsInv'
  <2>1. Midway' = Midway /\ Taken' = Taken
    BY <1>2 DEF Midway, Taken
  <2>2. /\ count'["totalMessages"] = count["totalMessages"]
        /\ count'["intervalMessages"] = count["intervalMessages"]
        /\ count' \in [M!Counters -> Nat]
    BY <1>2 DEF MetricsInv, MetricsTypes, M!Add, M!Counters
  <2> QED
    BY <1>2, <2>1, <2>2 DEF MetricsInv, MetricsTypes
<1>3. CASE M!ConnectionOpened
  BY <1>2, <1>3 DEF M!ConnectionOpened, M!Counters
<1>4. CASE M!ConnectionDropped
  BY <1>2, <1>4 DEF M!ConnectionDropped, M!Counters
<1> QED
  BY <1>1, <1>3, <1>4, RecordKeeps, SnapshotKeeps DEF M!MetricsNext

-----------------------------------------------------------------------------
(* The stress tool.                                                        *)

Stages == {"gate", "connect", "login", "loop", "last", "done"}
Flights == [sent : Nat, echoed : Nat, left : Nat]
Atomics == {"attempts", "successes", "failures", "sent", "received"}

StressTypes ==
  /\ stage \in [Clients -> Stages]
  /\ inFlight \in [Clients -> Flights]
  /\ metrics \in [Atomics -> Nat]

AtGate == {c \in Clients : stage[c] = "gate"}
Connecting == {c \in Clients : stage[c] = "connect"}

(* A client's messages that the server has, and its echoes, by number.     *)
InTheAir(c) == inFlight[c].sent + inFlight[c].echoed
Underway == {e \in Clients \X (Nat \ {0}) : e[2] <= InTheAir(e[1])}

StressInv ==
  /\ StressTypes /\ IsFiniteSet(Underway)
  /\ metrics["attempts"] + Cardinality(AtGate) = Cardinality(Clients)
  /\ metrics["attempts"] = metrics["successes"] + metrics["failures"]
                             + Cardinality(Connecting)
  /\ metrics["received"] + Cardinality(Underway) <= metrics["sent"]
  /\ S!CsvCounts

(* A client goes on to another stage.                                      *)
LEMMA StageDoes ==
  ASSUME StressTypes, NEW c \in Clients, NEW s \in Stages \ {"gate"}, S!To(c, s)
  PROVE  /\ stage' \in [Clients -> Stages]
         /\ Cardinality(AtGate) \in Nat /\ Cardinality(Connecting) \in Nat
         /\ Cardinality(AtGate') =
              IF stage[c] = "gate" THEN Cardinality(AtGate) - 1
              ELSE Cardinality(AtGate)
         /\ stage[c] # "connect" => Cardinality(Connecting') =
              IF s = "connect" THEN Cardinality(Connecting) + 1
              ELSE Cardinality(Connecting)
         /\ stage[c] = "connect" /\ s # "connect" =>
              Cardinality(Connecting') = Cardinality(Connecting) - 1
<1>1. IsFiniteSet(AtGate) /\ IsFiniteSet(Connecting)
  BY ClientsAssumption, FS_Subset DEF AtGate, Connecting
<1>2. /\ stage' \in [Clients -> Stages] /\ stage'[c] = s
      /\ \A d \in Clients \ {c} : stage'[d] = stage[d]
  BY DEF StressTypes, S!To
<1>3. AtGate' = AtGate \ {c}
  BY <1>2 DEF AtGate
<1>4. Connecting' = IF s = "connect" THEN Connecting \cup {c}
                    ELSE Connecting \ {c}
  BY <1>2 DEF Connecting
<1>5. /\ c \in AtGate <=> stage[c] = "gate"
      /\ c \in Connecting <=> stage[c] = "connect"
  BY DEF AtGate, Connecting
<1>6. /\ Cardinality(AtGate) \in Nat /\ Cardinality(Connecting) \in Nat
  BY <1>1, FS_CardinalityType
<1>7. Cardinality(AtGate \ {c}) = IF c \in AtGate THEN Cardinality(AtGate) - 1
                                  ELSE Cardinality(AtGate)
  BY <1>1, FS_RemoveElement
<1>8. /\ Cardinality(Connecting \ {c}) =
           IF c \in Connecting THEN Cardinality(Connecting) - 1
           ELSE Cardinality(Connecting)
      /\ Cardinality(Connecting \cup {c}) =
           IF c \in Connecting THEN Cardinality(Connecting)
           ELSE Cardinality(Connecting) + 1
  BY <1>1, FS_AddElement, FS_RemoveElement
<1>9. Cardinality(AtGate') = IF stage[c] = "gate" THEN Cardinality(AtGate) - 1
                             ELSE Cardinality(AtGate)
  BY <1>3, <1>5, <1>7
<1>10. CASE s = "connect"
  <2>1. stage[c] # "connect" =>
          Cardinality(Connecting') = Cardinality(Connecting) + 1
    BY <1>4, <1>5, <1>8, <1>10
  <2> QED
    BY <1>2, <1>6, <1>9, <1>10, <2>1
<1>11. CASE s # "connect"
  <2>1. Cardinality(Connecting') =
          IF stage[c] = "connect" THEN Cardinality(Connecting) - 1
          ELSE Cardinality(Connecting)
    BY <1>4, <1>5, <1>8, <1>11
  <2> QED
    BY <1>2, <1>6, <1>9, <1>11, <2>1
<1> QED
  BY <1>10, <1>11

(* A client sends a message, the server echoes it, the client reads it.    *)
LEMMA FlightDoes ==
  ASSUME StressTypes, IsFiniteSet(Underway), NEW c \in Clients,
         inFlight' \in [Clients -> Flights],
         \A d \in Clients \ {c} : inFlight'[d] = inFlight[d]
  PROVE  /\ Cardinality(Underway) \in Nat
         /\ InTheAir(c)' = InTheAir(c) => Underway' = Underway
         /\ InTheAir(c)' = InTheAir(c) + 1 =>
              /\ IsFiniteSet(Underway')
              /\ Cardinality(Underway') = Cardinality(Underway) + 1
         /\ InTheAir(c)' = InTheAir(c) - 1 =>
              /\ IsFiniteSet(Underway')
              /\ Cardinality(Underway') = Cardinality(Underway) - 1
<1>1. Cardinality(Underway) \in Nat
  BY FS_CardinalityType
<1>2. \A d \in Clients \ {c} : InTheAir(d)' = InTheAir(d)
  BY DEF InTheAir
<1>3. PICK n \in Nat : n = InTheAir(c)
  BY DEF InTheAir, StressTypes, Flights
<1>4. PICK m \in Nat : m = InTheAir(c)'
  BY DEF InTheAir, Flights
<1>5. \A d \in Clients, k \in Nat \ {0} :
        /\ <<d, k>> \in Underway <=> k <= IF d = c THEN n ELSE InTheAir(d)
        /\ <<d, k>> \in Underway' <=> k <= IF d = c THEN m ELSE InTheAir(d)
  BY <1>2, <1>3, <1>4 DEF Underway
<1>6. /\ Underway \subseteq Clients \X (Nat \ {0})
      /\ Underway' \subseteq Clients \X (Nat \ {0})
  BY DEF Underway
<1>7. m = n => Underway' = Underway
  BY <1>5, <1>6
<1>8. ASSUME m = n + 1
      PROVE  /\ IsFiniteSet(Underway')
             /\ Cardinality(Underway') = Cardinality(Underway) + 1
  <2>1. PICK e \in Clients \X (Nat \ {0}) : e = <<c, n + 1>>
    <3>1. n + 1 \in Nat \ {0}
      OBVIOUS
    <3>2. <<c, n + 1>> \in Clients \X (Nat \ {0})
      BY <3>1
    <3> QED
      BY <3>2
  <2>2. Underway' = Underway \cup {e} /\ e \notin Underway
    BY <1>5, <1>6, <1>8, <2>1
  <2>3. /\ IsFiniteSet(Underway \cup {e})
        /\ Cardinality(Underway \cup {e}) = Cardinality(Underway) + 1
    BY <2>2, FS_AddElement
  <2> QED
    BY <2>2, <2>3
<1>9. ASSUME m = n - 1
      PROVE  /\ IsFiniteSet(Underway')
             /\ Cardinality(Underway') = Cardinality(Underway) - 1
  <2>1. PICK e \in Clients \X (Nat \ {0}) : e = <<c, n>>
    <3>1. n \in Nat \ {0}
      BY <1>9
    <3>2. <<c, n>> \in Clients \X (Nat \ {0})
      BY <3>1
    <3> QED
      BY <3>2
  <2>2. Underway' = Underway \ {e} /\ e \in Underway
    BY <1>5, <1>6, <1>9, <2>1
  <2>3. /\ IsFiniteSet(Underway \ {e})
        /\ Cardinality(Underway \ {e}) = Cardinality(Underway) - 1
    BY <2>2, FS_RemoveElement
  <2> QED
    BY <2>2, <2>3
<1> QED
  BY <1>1, <1>3, <1>4, <1>7, <1>8, <1>9

(* Each step of the clients, the server and the main thread keeps it.      *)
LEMMA StressStep ==
  StressInv /\ [S!StressNext]_stressVars => StressInv'
<1> SUFFICES ASSUME StressInv, [S!StressNext]_stressVars
             PROVE  StressInv'
  OBVIOUS
<1>1. /\ StressTypes /\ IsFiniteSet(Underway)
      /\ metrics["attempts"] \in Nat /\ metrics["successes"] \in Nat
      /\ metrics["failures"] \in Nat /\ metrics["sent"] \in Nat
      /\ metrics["received"] \in Nat
      /\ metrics \in [Atomics -> Nat]
  BY DEF StressInv, StressTypes, Atomics
<1>2. IsFiniteSet(AtGate) /\ IsFiniteSet(Connecting)
  BY ClientsAssumption, FS_Subset DEF AtGate, Connecting
<1>3. /\ Cardinality(AtGate) \in Nat /\ Cardinality(Connecting) \in Nat
      /\ Cardinality(Underway) \in Nat /\ Cardinality(Clients) \in Nat
  BY <1>1, <1>2, ClientsAssumption, FS_CardinalityType
<1>4. UNCHANGED csv => S!CsvCounts'
  BY DEF StressInv, S!CsvCounts
<1>5. UNCHANGED inFlight => Underway' = Underway
  BY DEF Underway, InTheAir
<1>6. UNCHANGED stage => AtGate' = AtGate /\ Connecting' = Connecting
  BY DEF AtGate, Connecting
<1>7. ASSUME UNCHANGED <<stage, inFlight, metrics, csv>>
      PROVE  StressInv'
  BY <1>1, <1>4, <1>5, <1>6, <1>7 DEF StressInv, StressTypes
<1>8. ASSUME NEW c \in Clients, stage[c] \notin {"gate", "connect"},
             S!To(c, "loop") \/ S!To(c, "last") \/ S!To(c, "done"),
             UNCHANGED <<inFlight, metrics, csv>>
      PROVE  StressInv'
  <2>1. PICK s \in Stages \ {"gate", "connect"} : S!To(c, s)
    BY <1>8 DEF Stages
  <2>2. /\ stage' \in [Clients -> Stages]
        /\ Cardinality(AtGate') = Cardinality(AtGate)
        /\ Cardinality(Connecting') = Cardinality(Connecting)
    BY <1>1, <1>8, <2>1, StageDoes
  <2> QED
    BY <1>1, <1>4, <1>5, <1>8, <2>2 DEF StressInv, StressTypes
<1>9. ASSUME NEW m \in Atomics, S!Counted(m)
      PROVE  /\ metrics' \in [Atomics -> Nat] /\ metrics'[m] = metrics[m] + 1
             /\ \A other \in Atomics \ {m} : metrics'[other] = metrics[other]
  BY <1>1, <1>9 DEF S!Counted
<1>10. ASSUME NEW c \in Clients, S!PassGate(c)
       PROVE  StressInv'
  <2>1. /\ stage' \in [Clients -> Stages]
        /\ Cardinality(AtGate') = Cardinality(AtGate) - 1
        /\ Cardinality(Connecting') = Cardinality(Connecting) + 1
    BY <1>1, <1>10, StageDoes DEF S!PassGate, Stages
  <2>2. /\ metrics' \in [Atomics -> Nat]
        /\ metrics'["attempts"] = metrics["attempts"] + 1
        /\ metrics'["successes"] = metrics["successes"]
        /\ metrics'["failures"] = metrics["failures"]
        /\ metrics'["sent"] = metrics["sent"]
        /\ metrics'["received"] = metrics["received"]
    BY <1>9, <1>10 DEF S!PassGate, Atomics
  <2>3. UNCHANGED <<inFlight, csv>>
    BY <1>10 DEF S!PassGate
  <2> QED
    BY <1>1, <1>3, <1>4, <1>5, <2>1, <2>2, <2>3 DEF StressInv, StressTypes
<1>11. ASSUME NEW c \in Clients, S!Connect(c)
       PROVE  StressInv'
  <2>1. PICK s \in {"login", "done"} : stage[c] = "connect" /\ S!To(c, s)
    BY <1>11 DEF S!Connect
  <2>2. /\ stage' \in [Clients -> Stages]
        /\ Cardinality(AtGate') = Cardinality(AtGate)
        /\ Cardinality(Connecting') = Cardinality(Connecting) - 1
    BY <1>1, <2>1, StageDoes DEF Stages
  <2>3. /\ metrics' \in [Atomics -> Nat]
        /\ metrics'["attempts"] = metrics["attempts"]
        /\ metrics'["successes"] + metrics'["failures"] =
             metrics["successes"] + metrics["failures"] + 1
        /\ metrics'["sent"] = metrics["sent"]
        /\ metrics'["received"] = metrics["received"]
    <3>1. CASE S!Counted("successes")
      BY <1>1, <1>9, <3>1 DEF Atomics
    <3>2. CASE S!Counted("failures")
      BY <1>1, <1>9, <3>2 DEF Atomics
    <3> QED
      BY <1>11, <3>1, <3>2 DEF S!Connect
  <2>4. metrics'["successes"] \in Nat /\ metrics'["failures"] \in Nat
    BY <2>3 DEF Atomics
  <2>5. UNCHANGED <<inFlight, csv>>
    BY <1>11 DEF S!Connect
  <2> QED
    BY <1>1, <1>3, <1>4, <1>5, <2>2, <2>3, <2>4, <2>5 DEF StressInv, StressTypes
<1>12. ASSUME NEW c \in Clients, S!SendPrivate(c)
       PROVE  StressInv'
  <2>1. CASE S!To(c, "last") /\ UNCHANGED <<metrics, inFlight>>
    BY <1>8, <1>12, <2>1 DEF S!SendPrivate
  <2>2. CASE S!Counted("sent") /\ UNCHANGED stage
    <3>1. PICK up \in {0, 1} :
            inFlight' = [inFlight EXCEPT ![c].left = @ - 1, ![c].sent = @ + up]
      BY <1>1, <1>12, <2>2 DEF S!SendPrivate, StressTypes, Flights, S!To
    <3>2. /\ inFlight' \in [Clients -> Flights]
          /\ \A d \in Clients \ {c} : inFlight'[d] = inFlight[d]
          /\ InTheAir(c)' = InTheAir(c) + up
      BY <1>1, <1>12, <3>1 DEF S!SendPrivate, StressTypes, Flights, InTheAir
    <3>3. /\ IsFiniteSet(Underway')
          /\ Cardinality(Underway') <= Cardinality(Underway) + 1
          /\ Cardinality(Underway') \in Nat
      <4>1. up = 0 => Underway' = Underway
        BY <1>1, <3>2, FlightDoes DEF StressTypes, Flights, InTheAir
      <4>2. up = 1 => /\ IsFiniteSet(Underway')
                      /\ Cardinality(Underway') = Cardinality(Underway) + 1
        BY <1>1, <3>2, FlightDoes
      <4> QED
        BY <1>1, <1>3, <4>1, <4>2
    <3>4. /\ metrics' \in [Atomics -> Nat]
          /\ metrics'["attempts"] = metrics["attempts"]
          /\ metrics'["successes"] = metrics["successes"]
          /\ metrics'["failures"] = metrics["failures"]
          /\ metrics'["sent"] = metrics["sent"] + 1
          /\ metrics'["received"] = metrics["received"]
      BY <1>9, <2>2 DEF Atomics
    <3>5. UNCHANGED <<stage, csv>>
      BY <1>12, <2>2 DEF S!SendPrivate
    <3> QED
      BY <1>1, <1>3, <1>4, <1>6, <3>2, <3>3, <3>4, <3>5
         DEF StressInv, StressTypes
  <2> QED
    BY <1>12, <2>1, <2>2 DEF S!SendPrivate
<1>13. ASSUME NEW c \in Clients, S!Drain(c)
       PROVE  StressInv'
  <2>1. /\ inFlight' = [inFlight EXCEPT ![c].echoed = @ - 1]
        /\ inFlight[c].echoed > 0 /\ S!Counted("received")
        /\ UNCHANGED <<stage, csv>>
    BY <1>13 DEF S!Drain
  <2>2. /\ inFlight' \in [Clients -> Flights]
        /\ \A d \in Clients \ {c} : inFlight'[d] = inFlight[d]
        /\ InTheAir(c)' = InTheAir(c) - 1
    BY <1>1, <2>1 DEF StressTypes, Flights, InTheAir
  <2>3. /\ IsFiniteSet(Underway')
        /\ Cardinality(Underway') = Cardinality(Underway) - 1
    BY <1>1, <2>2, FlightDoes
  <2>4. /\ metrics' \in [Atomics -> Nat]
        /\ metrics'["attempts"] = metrics["attempts"]
        /\ metrics'["successes"] = metrics["successes"]
        /\ metrics'["failures"] = metrics["failures"]
        /\ metrics'["sent"] = metrics["sent"]
        /\ metrics'["received"] = metrics["received"] + 1
    BY <1>9, <2>1 DEF Atomics
  <2> QED
    BY <1>1, <1>3, <1>4, <1>6, <2>1, <2>2, <2>3, <2>4 DEF StressInv, StressTypes
<1>14. ASSUME NEW c \in Clients, S!Echo(c)
       PROVE  StressInv'
  <2>1. /\ inFlight' = [inFlight EXCEPT ![c].sent = @ - 1, ![c].echoed = @ + 1]
        /\ inFlight[c].sent > 0 /\ UNCHANGED <<stage, metrics, csv>>
    BY <1>14 DEF S!Echo
  <2>2. /\ inFlight' \in [Clients -> Flights]
        /\ \A d \in Clients \ {c} : inFlight'[d] = inFlight[d]
        /\ InTheAir(c)' = InTheAir(c)
    BY <1>1, <2>1 DEF StressTypes, Flights, InTheAir
  <2>3. Underway' = Underway
    BY <1>1, <2>2, FlightDoes
  <2> QED
    BY <1>1, <1>4, <1>6, <2>1, <2>2, <2>3 DEF StressInv, StressTypes
<1>15. CASE S!WriteCsv
  <2>1. AtGate = {} /\ Connecting = {}
    BY <1>15 DEF S!WriteCsv, AtGate, Connecting
  <2>2. Cardinality(AtGate) = 0 /\ Cardinality(Connecting) = 0
    BY <2>1, FS_EmptySet
  <2>3. /\ metrics["attempts"] = Cardinality(Clients)
        /\ metrics["attempts"] = metrics["successes"] + metrics["failures"]
        /\ metrics["received"] <= metrics["sent"]
    BY <1>1, <1>3, <2>2 DEF StressInv
  <2>4. csv' = metrics /\ UNCHANGED <<stage, inFlight, metrics>>
    BY <1>15 DEF S!WriteCsv
  <2>5. S!CsvCounts'
    <3>1. S!Cardinality(Clients) = Cardinality(Clients)
      BY DEF S!Cardinality, Cardinality
    <3> QED
      BY <2>3, <2>4, <3>1 DEF S!CsvCounts
  <2> QED
    BY <1>1, <1>5, <1>6, <2>4, <2>5 DEF StressInv, StressTypes
<1>16. ASSUME NEW c \in Clients, S!SendLogin(c) \/ S!EndLoop(c) \/ S!EndDrain(c)
       PROVE  StressInv'
  BY <1>8, <1>16 DEF S!SendLogin, S!EndLoop, S!EndDrain
<1>17. ASSUME NEW c \in Clients, S!ServerCloses(c)
       PROVE  StressInv'
  BY <1>7, <1>17 DEF S!ServerCloses
<1>18. CASE S!OpenGate \/ S!TimePasses
  BY <1>7, <1>18 DEF S!OpenGate, S!TimePasses
<1>19. CASE UNCHANGED stressVars
  BY <1>7, <1>19 DEF stressVars
<1> QED
  BY <1>10, <1>11, <1>12, <1>13, <1>14, <1>15, <1>16, <1>17, <1>18, <1>19
     DEF S!StressNext

(* ServerMetrics.cc:26-75, StressClient.cc:386-493: for any number of      *)
(* threads, connections, clients and messages, the lines of statistics and *)
(* the CSV line add up.                                                    *)
THEOREM CountsAlwaysAgree == Spec => []CountsAgree
<1>1. Init => MetricsInv /\ StressInv
  <2> SUFFICES ASSUME M!MetricsInit, S!StressInit
               PROVE  MetricsInv /\ StressInv
    BY DEF Init
  <2>1. MetricsInv
    <3> USE DEF M!MetricsInit
    <3>1. Midway = {}
      BY DEF Midway
    <3>2. IsFiniteSet(Midway) /\ Cardinality(Midway) = 0
      BY <3>1, FS_EmptySet
    <3>3. MetricsTypes
      BY EmptySeq DEF MetricsTypes
    <3>4. Taken = 0 /\ Len(snapshot) = 0
      BY DEF Taken
    <3>5. count["totalMessages"] = 0 /\ count["intervalMessages"] = 0
      BY DEF M!Counters
    <3> QED
      BY <3>2, <3>3, <3>4, <3>5 DEF MetricsInv
  <2>2. StressInv
    <3> USE DEF S!StressInit
    <3>1. /\ metrics \in [Atomics -> Nat]
          /\ \A m \in Atomics : metrics[m] = 0
      <4>1. DOMAIN S!None = Atomics
        BY DEF S!None, Atomics
      <4> QED
        BY <4>1
    <3>2. StressTypes
      BY <3>1, ClientsAssumption DEF StressTypes, Stages, Flights
    <3>3. Underway = {}
      BY DEF Underway, InTheAir
    <3>4. AtGate = Clients /\ Connecting = {}
      BY DEF AtGate, Connecting
    <3>5. /\ IsFiniteSet(Underway) /\ Cardinality(Underway) = 0
          /\ Cardinality(Connecting) = 0
      BY <3>3, <3>4, FS_EmptySet
    <3>6. /\ Cardinality(AtGate) = Cardinality(Clients)
          /\ Cardinality(Clients) \in Nat
      BY <3>4, ClientsAssumption, FS_CardinalityType
    <3>7. S!CsvCounts
      BY DEF S!CsvCounts
    <3> QED
      BY <3>1, <3>2, <3>5, <3>6, <3>7 DEF StressInv, Atomics
  <2> QED
    BY <2>1, <2>2
<1>2. MetricsInv /\ StressInv /\ [Next]_vars => MetricsInv' /\ StressInv'
  <2>1. Next => [M!MetricsNext]_metricsVars
    <3> SUFFICES ASSUME Next
                 PROVE  [M!MetricsNext]_metricsVars
      OBVIOUS
    <3> QED
      BY DEF Next, libraryVars
  <2>2. Next => [S!StressNext]_stressVars
    <3> SUFFICES ASSUME Next
                 PROVE  [S!StressNext]_stressVars
      OBVIOUS
    <3> QED
      BY DEF Next, libraryVars
  <2>3. [Next]_vars => [M!MetricsNext]_metricsVars /\ [S!StressNext]_stressVars
    BY <2>1, <2>2 DEF vars
  <2> QED
    BY <2>3, MetricsStep, StressStep
<1>3. MetricsInv /\ StressInv => CountsAgree
  <2> SUFFICES ASSUME MetricsInv, StressInv
               PROVE  CountsAgree
    OBVIOUS
  <2>1. M!Cardinality(Midway) = Cardinality(Midway)
    BY DEF M!Cardinality, Cardinality
  <2>2. M!Pending = Taken
    BY TakenIsPending DEF MetricsInv
  <2>3. M!SnapshotsAddUp
    BY <2>1, <2>2 DEF M!SnapshotsAddUp, MetricsInv, Midway
  <2> QED
    BY <2>3 DEF CountsAgree, StressInv
<1> QED
  BY <1>1, <1>2, <1>3, PTL DEF Spec

-----------------------------------------------------------------------------
(* The buffers of a connection.                                            *)

Bytes == 0 .. Base - 1
Vectors == [bytes : Seq(Bytes), reader : Nat, writer : Nat]

(* The indices are in order, and a header always had its room.             *)
Ordered(b) ==
  /\ b \in Vectors
  /\ kCheapPrepend <= Len(b.bytes)
  /\ b.reader <= b.writer /\ b.writer <= Len(b.bytes)

(* What a caller can read.                                                 *)
LEMMA ReadableIs ==
  ASSUME NEW b, Ordered(b)
  PROVE  /\ b.bytes \in Seq(Bytes) /\ Len(b.bytes) \in Nat
         /\ b.reader \in Nat /\ b.writer \in Nat
         /\ B!Readable(b) \in Seq(Bytes)
         /\ Len(B!Readable(b)) = b.writer - b.reader
         /\ \A i \in 1 .. b.writer - b.reader :
              /\ B!Readable(b)[i] = b.bytes[b.reader + i]
              /\ b.bytes[b.reader + i] \in Bytes
<1>1. PICK s \in Seq(Bytes), r \in Nat, w \in Nat :
        s = b.bytes /\ r = b.reader /\ w = b.writer
  BY DEF Ordered, Vectors
<1>2. Len(s) \in Nat /\ r <= w /\ w <= Len(s)
  BY <1>1, LenProperties DEF Ordered
<1>3. /\ r + 1 \in 1 .. Len(s) + 1 /\ w \in r + 1 - 1 .. Len(s)
      /\ w - (r + 1) + 1 = w - r
  BY <1>2
<1>4. /\ SubSeq(s, r + 1, w) \in Seq(Bytes)
      /\ Len(SubSeq(s, r + 1, w)) = w - r
      /\ \A i \in 1 .. w - r : SubSeq(s, r + 1, w)[i] = s[r + 1 + i - 1]
  BY <1>3, SubSeqProperties
<1>5. \A i \in 1 .. w - r : r + 1 + i - 1 = r + i /\ r + i \in 1 .. Len(s)
  BY <1>2
<1>6. \A i \in 1 .. w - r : s[r + i] \in Bytes
  BY <1>5, ElementOfSeq
<1> QED
  BY <1>1, <1>2, <1>4, <1>5, <1>6 DEF B!Readable

(* Two buffers of the same bytes are read the same.                        *)
LEMMA ReadTheSame ==
  ASSUME NEW b, Ordered(b), NEW c, Ordered(c),
         c.writer - c.reader = b.writer - b.reader,
         \A i \in 1 .. b.writer - b.reader :
           c.bytes[c.reader + i] = b.bytes[b.reader + i]
  PROVE  B!Readable(c) = B!Readable(b)
<1>1. /\ B!Readable(b) \in Seq(Bytes) /\ B!Readable(c) \in Seq(Bytes)
      /\ Len(B!Readable(b)) = b.writer - b.reader
      /\ Len(B!Readable(c)) = b.writer - b.reader
      /\ \A i \in 1 .. b.writer - b.reader :
           B!Readable(c)[i] = B!Readable(b)[i]
  BY ReadableIs
<1> QED
  BY <1>1, SeqEqual

(* A function on 1..n is a sequence.                                       *)
LEMMA VectorIs ==
  ASSUME NEW D, NEW n \in Nat, NEW v \in [1 .. n -> D]
  PROVE  v \in Seq(D) /\ Len(v) = n
OBVIOUS

(* std::copy and vector::resize.                                           *)
LEMMA CopyIs ==
  ASSUME NEW v \in Seq(Bytes), NEW at \in Nat, NEW s \in Seq(Bytes)
  PROVE  /\ B!CopyTo(v, at, s) \in Seq(Bytes)
         /\ Len(B!CopyTo(v, at, s)) = Len(v)
         /\ \A i \in 1 .. Len(v) : B!CopyTo(v, at, s)[i] =
              IF at < i /\ i <= at + Len(s) THEN s[i - at] ELSE v[i]
<1>1. /\ Len(v) \in Nat /\ DOMAIN v = 1 .. Len(v)
      /\ Len(s) \in Nat /\ DOMAIN s = 1 .. Len(s)
  BY LenProperties
<1>2. /\ \A i \in 1 .. Len(v) : v[i] \in Bytes
      /\ \A i \in 1 .. Len(s) : s[i] \in Bytes
  BY ElementOfSeq
<1>3. \A i \in 1 .. Len(v) :
        i - at \in 1 .. Len(s) <=> at < i /\ i <= at + Len(s)
  BY <1>1
<1>4. PICK c : c = B!CopyTo(v, at, s)
  OBVIOUS
<1>5. /\ c \in [1 .. Len(v) -> Bytes]
      /\ \A i \in 1 .. Len(v) :
           c[i] = IF i - at \in 1 .. Len(s) THEN s[i - at] ELSE v[i]
  BY <1>1, <1>2, <1>4 DEF B!CopyTo
<1>6. c \in Seq(Bytes) /\ Len(c) = Len(v)
  BY <1>1, <1>5, VectorIs
<1> QED
  BY <1>3, <1>4, <1>5, <1>6

(* The bytes that a resized vector had are still there.                    *)
LEMMA ResizeIs ==
  ASSUME NEW v \in Seq(Bytes), NEW n \in Nat
  PROVE  /\ B!Resize(v, n) \in Seq(Bytes) /\ Len(B!Resize(v, n)) = n
         /\ \A i \in 1 .. Len(v) : i <= n => B!Resize(v, n)[i] = v[i]
<1>1. /\ Len(v) \in Nat /\ DOMAIN v = 1 .. Len(v)
      /\ \A i \in 1 .. Len(v) : v[i] \in Bytes
  BY LenProperties, ElementOfSeq
<1>2. 0 \in Bytes
  BY BufferAssumption DEF Bytes
<1>3. PICK c : c = B!Resize(v, n)
  OBVIOUS
<1>4. /\ c \in [1 .. n -> Bytes]
      /\ \A i \in 1 .. n : c[i] = IF i \in 1 .. Len(v) THEN v[i] ELSE 0
  BY <1>1, <1>2, <1>3 DEF B!Resize
<1>5. c \in Seq(Bytes) /\ Len(c) = n
  BY <1>4, VectorIs
<1> QED
  BY <1>1, <1>3, <1>4, <1>5

(* Making space loses nothing and shifts nothing, and makes enough of it.  *)
LEMMA MakeSpaceDoes ==
  ASSUME NEW b, Ordered(b), NEW len \in Nat, B!writableBytes(b) < len,
         NEW c, c = B!makeSpace(b, len)
  PROVE  /\ Ordered(c) /\ B!Readable(c) = B!Readable(b)
         /\ len <= B!writableBytes(c)
<1>1. /\ b.bytes \in Seq(Bytes) /\ Len(b.bytes) \in Nat
      /\ b.reader \in Nat /\ b.writer \in Nat
      /\ kCheapPrepend \in Nat
      /\ b.reader <= b.writer /\ b.writer <= Len(b.bytes)
      /\ kCheapPrepend <= Len(b.bytes)
      /\ B!writableBytes(b) = Len(b.bytes) - b.writer
      /\ B!readableBytes(b) = b.writer - b.reader
  BY ReadableIs, BufferAssumption
     DEF Ordered, B!writableBytes, B!readableBytes
<1>2. CASE B!writableBytes(b) + B!prependableBytes(b) < len + kCheapPrepend
  <2>1. c = [b EXCEPT !.bytes = B!Resize(@, b.writer + len)]
    BY <1>2 DEF B!makeSpace
  <2>2. /\ B!Resize(b.bytes, b.writer + len) \in Seq(Bytes)
        /\ Len(B!Resize(b.bytes, b.writer + len)) = b.writer + len
        /\ \A i \in 1 .. Len(b.bytes) : i <= b.writer + len =>
             B!Resize(b.bytes, b.writer + len)[i] = b.bytes[i]
    <3>1. PICK v \in Seq(Bytes) : v = b.bytes
      BY <1>1
    <3>2. PICK n \in Nat : n = b.writer + len
      <4>1. b.writer + len \in Nat
        BY <1>1
      <4> QED
        BY <4>1
    <3>3. /\ B!Resize(v, n) \in Seq(Bytes) /\ Len(B!Resize(v, n)) = n
          /\ \A i \in 1 .. Len(v) : i <= n => B!Resize(v, n)[i] = v[i]
      BY ResizeIs
    <3> QED
      BY <3>1, <3>2, <3>3
  <2>3. /\ c.bytes = B!Resize(b.bytes, b.writer + len)
        /\ c.reader = b.reader /\ c.writer = b.writer /\ c \in Vectors
    BY <1>1, <2>1, <2>2 DEF Ordered, Vectors
  <2>4. Ordered(c)
    BY <1>1, <2>2, <2>3 DEF Ordered
  <2>5. \A i \in 1 .. b.writer - b.reader :
          c.bytes[c.reader + i] = b.bytes[b.reader + i]
    <3> SUFFICES ASSUME NEW i \in 1 .. b.writer - b.reader
                 PROVE  c.bytes[c.reader + i] = b.bytes[b.reader + i]
      OBVIOUS
    <3>1. b.reader + i \in 1 .. Len(b.bytes) /\ b.reader + i <= b.writer + len
      BY <1>1
    <3> QED
      BY <2>2, <2>3, <3>1
  <2>6. B!Readable(c) = B!Readable(b)
    BY <2>3, <2>4, <2>5, ReadTheSame
  <2>7. B!writableBytes(c) = len
    BY <1>1, <2>2, <2>3 DEF B!writableBytes
  <2> QED
    BY <2>4, <2>6, <2>7
<1>3. CASE ~ (B!writableBytes(b) + B!prependableBytes(b) < len + kCheapPrepend)
  <2>1. c = [bytes |-> B!CopyTo(b.bytes, kCheapPrepend, B!Readable(b)),
             reader |-> kCheapPrepend,
             writer |-> kCheapPrepend + B!readableBytes(b)]
    BY <1>3 DEF B!makeSpace
  <2>2. /\ B!Readable(b) \in Seq(Bytes)
        /\ Len(B!Readable(b)) = b.writer - b.reader
        /\ \A i \in 1 .. b.writer - b.reader :
             B!Readable(b)[i] = b.bytes[b.reader + i]
    BY ReadableIs
  <2>3. PICK v \in Seq(Bytes), s \in Seq(Bytes) :
          v = b.bytes /\ s = B!Readable(b)
    BY <1>1, <2>2
  <2>4. /\ B!CopyTo(v, kCheapPrepend, s) \in Seq(Bytes)
        /\ Len(B!CopyTo(v, kCheapPrepend, s)) = Len(v)
        /\ \A i \in 1 .. Len(v) : B!CopyTo(v, kCheapPrepend, s)[i] =
             IF kCheapPrepend < i /\ i <= kCheapPrepend + Len(s)
             THEN s[i - kCheapPrepend] ELSE v[i]
    BY <1>1, CopyIs
  <2>41. PICK t \in Seq(Bytes) : t = B!CopyTo(v, kCheapPrepend, s)
    BY <2>4
  <2>42. t = c.bytes
    BY <2>1, <2>3, <2>41
  <2>43. /\ Len(t) = Len(b.bytes)
         /\ \A i \in 1 .. Len(b.bytes) :
              kCheapPrepend < i /\ i <= kCheapPrepend + Len(s) =>
                t[i] = s[i - kCheapPrepend]
    BY <2>3, <2>4, <2>41
  <2>5. /\ c.reader = kCheapPrepend
        /\ c.writer = kCheapPrepend + (b.writer - b.reader)
        /\ c \in Vectors
    BY <1>1, <2>1, <2>41, <2>42 DEF Vectors
  <2>6. kCheapPrepend + (b.writer - b.reader) + len <= Len(b.bytes)
    BY <1>1, <1>3 DEF B!prependableBytes
  <2>7. Ordered(c)
    BY <1>1, <2>42, <2>43, <2>5, <2>6 DEF Ordered
  <2>8. \A i \in 1 .. b.writer - b.reader :
          c.bytes[c.reader + i] = b.bytes[b.reader + i]
    <3> SUFFICES ASSUME NEW i \in 1 .. b.writer - b.reader
                 PROVE  c.bytes[c.reader + i] = b.bytes[b.reader + i]
      OBVIOUS
    <3>1. /\ kCheapPrepend + i \in 1 .. Len(b.bytes)
          /\ kCheapPrepend < kCheapPrepend + i
          /\ kCheapPrepend + i <= kCheapPrepend + Len(s)
          /\ kCheapPrepend + i - kCheapPrepend = i
      <4>1. PICK k \in Nat, size \in Nat, n \in Nat :
              /\ k = kCheapPrepend /\ size = b.writer - b.reader
              /\ n = Len(b.bytes)
        <5>1. b.writer - b.reader \in Nat
          BY <1>1
        <5> QED
          BY <1>1, <5>1
      <4>2. k + size + len <= n /\ size = Len(s)
        BY <2>2, <2>3, <2>6, <4>1
      <4>3. i \in 1 .. size
        BY <4>1
      <4>4. k + i \in 1 .. n /\ k < k + i /\ k + i <= k + size /\ k + i - k = i
        BY <4>2, <4>3
      <4> QED
        BY <4>1, <4>2, <4>4
    <3>2. t[kCheapPrepend + i] = s[i]
      <4>1. PICK j \in 1 .. Len(b.bytes) : j = kCheapPrepend + i
        BY <3>1
      <4>2. kCheapPrepend < j /\ j <= kCheapPrepend + Len(s)
        BY <3>1, <4>1
      <4>3. t[j] = s[j - kCheapPrepend]
        BY <2>43, <4>2
      <4>4. j - kCheapPrepend = i
        BY <1>1, <4>1
      <4> QED
        BY <4>1, <4>3, <4>4
    <3>3. s[i] = b.bytes[b.reader + i]
      BY <2>2, <2>3
    <3> QED
      BY <2>42, <2>5, <3>2, <3>3
  <2>9. c.writer - c.reader = b.writer - b.reader
    BY <1>1, <2>5
  <2>10. B!Readable(c) = B!Readable(b)
    BY <2>7, <2>8, <2>9, ReadTheSame
  <2>11. len <= B!writableBytes(c)
    BY <1>1, <2>42, <2>43, <2>5, <2>6 DEF B!writableBytes
  <2> QED
    BY <2>7, <2>10, <2>11
<1> QED
  BY <1>2, <1>3

(* Nor does ensureWritableBytes.                                           *)
LEMMA EnsureDoes ==
  ASSUME NEW b, Ordered(b), NEW len \in Nat,
         NEW c, c = B!ensureWritableBytes(b, len)
  PROVE  /\ Ordered(c) /\ B!Readable(c) = B!Readable(b)
         /\ len <= B!writableBytes(c)
<1>1. CASE B!writableBytes(b) < len
  <2>1. c = B!makeSpace(b, len)
    BY <1>1 DEF B!ensureWritableBytes
  <2> QED
    BY <1>1, <2>1, MakeSpaceDoes
<1>2. CASE ~ (B!writableBytes(b) < len)
  <2>1. c = b
    BY <1>2 DEF B!ensureWritableBytes
  <2>2. B!writableBytes(b) \in Int
    BY ReadableIs DEF B!writableBytes
  <2> QED
    BY <1>2, <2>1, <2>2
<1> QED
  BY <1>1, <1>2

(* Bytes copied to where writing begins are read after the others.         *)
LEMMA WriteDoes ==
  ASSUME NEW b, Ordered(b), NEW s \in Seq(Bytes),
         Len(s) <= B!writableBytes(b),
         NEW c, c = [b EXCEPT !.bytes = B!CopyTo(@, b.writer, s),
                              !.writer = @ + Len(s)]
  PROVE  /\ Ordered(c) /\ B!Readable(c) = B!Readable(b) \o s
         /\ B!writableBytes(c) = B!writableBytes(b) - Len(s)
<1>1. PICK u \in Seq(Bytes), r \in Nat, w \in Nat, n \in Nat, k \in Nat :
        /\ u = b.bytes /\ r = b.reader /\ w = b.writer
        /\ n = Len(u) /\ k = Len(s)
  BY ReadableIs, LenProperties
<1>2. r <= w /\ w + k <= n /\ kCheapPrepend <= n
  BY <1>1 DEF Ordered, B!writableBytes
<1>3. PICK v \in Seq(Bytes) :
        /\ v = B!CopyTo(u, w, s) /\ Len(v) = n
        /\ \A i \in 1 .. n : v[i] =
             IF w < i /\ i <= w + k THEN s[i - w] ELSE u[i]
  <2>1. /\ B!CopyTo(u, w, s) \in Seq(Bytes)
        /\ Len(B!CopyTo(u, w, s)) = Len(u)
        /\ \A i \in 1 .. Len(u) : B!CopyTo(u, w, s)[i] =
             IF w < i /\ i <= w + Len(s) THEN s[i - w] ELSE u[i]
    BY CopyIs
  <2> QED
    BY <1>1, <2>1
<1>4. /\ c.bytes = v /\ c.reader = r /\ c.writer = w + k
      /\ c \in Vectors
  <2>1. w + k \in Nat /\ b \in [bytes : Seq(Bytes), reader : Nat, writer : Nat]
    BY DEF Ordered, Vectors
  <2>2. c = [b EXCEPT !.bytes = v, !.writer = w + k]
    BY <1>1, <1>3, <2>1
  <2> QED
    BY <1>1, <2>1, <2>2 DEF Vectors
<1>5. Ordered(c)
  BY <1>2, <1>3, <1>4 DEF Ordered
<1>6. PICK old \in Seq(Bytes) :
        /\ old = B!Readable(b) /\ Len(old) = w - r
        /\ \A i \in 1 .. w - r : old[i] = u[r + i]
  BY <1>1, ReadableIs
<1>7. PICK new \in Seq(Bytes) :
        /\ new = B!Readable(c) /\ Len(new) = w + k - r
        /\ \A i \in 1 .. w + k - r : new[i] = v[r + i]
  <2>0. c.writer - c.reader = w + k - r
    BY <1>4
  <2>1. /\ B!Readable(c) \in Seq(Bytes)
        /\ Len(B!Readable(c)) = c.writer - c.reader
        /\ \A i \in 1 .. c.writer - c.reader :
             B!Readable(c)[i] = c.bytes[c.reader + i]
    BY <1>5, ReadableIs
  <2>2. \A i \in 1 .. w + k - r : B!Readable(c)[i] = v[r + i]
    BY <1>4, <2>0, <2>1
  <2> QED
    BY <2>0, <2>1, <2>2
<1>8. /\ old \o s \in Seq(Bytes) /\ Len(old \o s) = w - r + k
      /\ \A i \in 1 .. w - r + k :
           (old \o s)[i] = IF i <= w - r THEN old[i] ELSE s[i - (w - r)]
  <2>1. /\ old \o s \in Seq(Bytes) /\ Len(old \o s) = Len(old) + Len(s)
        /\ \A i \in 1 .. Len(old) + Len(s) :
             (old \o s)[i] = IF i <= Len(old) THEN old[i] ELSE s[i - Len(old)]
    BY ConcatProperties
  <2> QED
    BY <1>1, <1>6, <2>1
<1>9. w + k - r = w - r + k
  OBVIOUS
<1>10. \A i \in 1 .. w - r + k : new[i] = (old \o s)[i]
  <2> SUFFICES ASSUME NEW i \in 1 .. w - r + k
               PROVE  new[i] = (old \o s)[i]
    OBVIOUS
  <2>1. new[i] = v[r + i] /\ r + i \in 1 .. n
    BY <1>2, <1>7, <1>9
  <2>2. CASE i <= w - r
    <3>1. i \in 1 .. w - r /\ ~ (w < r + i)
      BY <2>2
    <3>2. v[r + i] = u[r + i]
      BY <1>3, <2>1, <3>1
    <3>3. (old \o s)[i] = old[i] /\ old[i] = u[r + i]
      BY <1>6, <1>8, <2>2, <3>1
    <3> QED
      BY <2>1, <3>2, <3>3
  <2>3. CASE ~ (i <= w - r)
    <3>1. w < r + i /\ r + i <= w + k /\ r + i - w = i - (w - r)
      BY <2>3
    <3>2. v[r + i] = s[r + i - w]
      <4>1. PICK j \in 1 .. n : j = r + i /\ w < j /\ j <= w + k
        BY <2>1, <3>1
      <4>2. v[j] = s[j - w]
        BY <1>3, <4>1
      <4> QED
        BY <4>1, <4>2, SMTT(20)
    <3>3. (old \o s)[i] = s[i - (w - r)]
      BY <1>8, <2>3
    <3> QED
      BY <2>1, <3>1, <3>2, <3>3
  <2> QED
    BY <2>2, <2>3
<1>11. new = old \o s
  BY <1>7, <1>8, <1>9, <1>10, SeqEqual
<1>12. B!writableBytes(c) = B!writableBytes(b) - Len(s)
  BY <1>1, <1>3, <1>4 DEF B!writableBytes
<1> QED
  BY <1>5, <1>6, <1>7, <1>11, <1>12

(* append                                                                  *)
LEMMA AppendDoes ==
  ASSUME NEW b, Ordered(b), NEW s \in Seq(Bytes), NEW c, c = B!append(b, s)
  PROVE  Ordered(c) /\ B!Readable(c) = B!Readable(b) \o s
<1>1. Len(s) \in Nat
  BY LenProperties
<1>2. PICK roomy : roomy = B!ensureWritableBytes(b, Len(s))
  OBVIOUS
<1>3. /\ Ordered(roomy) /\ B!Readable(roomy) = B!Readable(b)
      /\ Len(s) <= B!writableBytes(roomy)
  BY <1>1, <1>2, EnsureDoes
<1>4. c = [roomy EXCEPT !.bytes = B!CopyTo(@, roomy.writer, s),
                        !.writer = @ + Len(s)]
  BY <1>2 DEF B!append
<1> QED
  BY <1>3, <1>4, WriteDoes

(* What is left of the bytes after x of them, and before the y-th one.     *)
IsPart(c, b, x, y) ==
  /\ x <= y /\ y <= Len(B!Readable(b))
  /\ c.writer - c.reader = y - x
  /\ \A i \in 1 .. y - x :
       c.bytes[c.reader + i] = b.bytes[b.reader + x + i]

(* It is read as that part of them.                                        *)
LEMMA ReadPart ==
  ASSUME NEW b, Ordered(b), NEW x \in Nat, NEW y \in Nat,
         NEW c, Ordered(c), IsPart(c, b, x, y)
  PROVE  B!Readable(c) = SubSeq(B!Readable(b), x + 1, y)
<1>1. PICK all \in Seq(Bytes), r \in Nat, n \in Nat :
        /\ all = B!Readable(b) /\ r = b.reader /\ Len(all) = n
        /\ \A i \in 1 .. n : all[i] = b.bytes[r + i]
  <2>1. /\ B!Readable(b) \in Seq(Bytes) /\ b.reader \in Nat
        /\ Len(B!Readable(b)) = b.writer - b.reader
        /\ \A i \in 1 .. b.writer - b.reader :
             B!Readable(b)[i] = b.bytes[b.reader + i]
    BY ReadableIs
  <2>2. Len(B!Readable(b)) \in Nat
    BY <2>1, LenProperties
  <2> QED
    BY <2>1, <2>2
<1>0. /\ x <= y /\ y <= Len(B!Readable(b))
      /\ c.writer - c.reader = y - x
      /\ \A i \in 1 .. y - x :
           c.bytes[c.reader + i] = b.bytes[b.reader + x + i]
  BY DEF IsPart
<1>2. PICK part \in Seq(Bytes) :
        /\ part = B!Readable(c) /\ Len(part) = y - x
        /\ \A i \in 1 .. y - x : part[i] = c.bytes[c.reader + i]
  BY <1>0, ReadableIs
<1>3. y <= n
  BY <1>0, <1>1
<1>4. x + 1 \in 1 .. n + 1 /\ y \in x + 1 - 1 .. n /\ y - (x + 1) + 1 = y - x
  BY <1>0, <1>3
<1>5. PICK from \in 1 .. Len(all) + 1 :
        from = x + 1 /\ y \in from - 1 .. Len(all)
  BY <1>1, <1>4
<1>6. /\ SubSeq(all, from, y) \in Seq(Bytes)
      /\ Len(SubSeq(all, from, y)) = y - from + 1
      /\ \A i \in 1 .. y - from + 1 :
           SubSeq(all, from, y)[i] = all[from + i - 1]
  BY <1>5, SubSeqProperties
<1>7. y - from + 1 = y - x
  BY <1>5
<1>8. \A i \in 1 .. y - x : SubSeq(all, from, y)[i] = part[i]
  <2> SUFFICES ASSUME NEW i \in 1 .. y - x
               PROVE  SubSeq(all, from, y)[i] = part[i]
    OBVIOUS
  <2>1. /\ from + i - 1 = x + i /\ x + i \in 1 .. n
        /\ r + (x + i) = r + x + i
    BY <1>3, <1>5
  <2>2. SubSeq(all, from, y)[i] = all[x + i]
    BY <1>6, <1>7, <2>1
  <2>3. all[x + i] = b.bytes[r + x + i]
    BY <1>1, <2>1
  <2> QED
    BY <1>0, <1>1, <1>2, <2>2, <2>3
<1>9. part = SubSeq(all, from, y)
  BY <1>2, <1>6, <1>7, <1>8, SeqEqual
<1> QED
  BY <1>1, <1>2, <1>5, <1>9

(* retrieve, and when everything was retrieved.                            *)
LEMMA RetrieveDoes ==
  ASSUME NEW b, Ordered(b), NEW len \in Nat, len <= B!readableBytes(b),
         NEW c, c = B!retrieve(b, len)
  PROVE  /\ Ordered(c)
         /\ B!Readable(c) =
              SubSeq(B!Readable(b), len + 1, Len(B!Readable(b)))
<1>1. PICK u \in Seq(Bytes), r \in Nat, w \in Nat, n \in Nat :
        /\ u = b.bytes /\ r = b.reader /\ w = b.writer /\ n = Len(u)
        /\ Len(B!Readable(b)) = w - r
  BY ReadableIs, LenProperties
<1>2. /\ r <= w /\ w <= n /\ kCheapPrepend <= n /\ len <= w - r
      /\ kCheapPrepend \in Nat
  BY <1>1, BufferAssumption DEF Ordered, B!readableBytes
<1>3. w - r \in Nat /\ len <= w - r
  BY <1>2
<1>4. CASE len < B!readableBytes(b)
  <2>1. c = [b EXCEPT !.reader = @ + len]
    BY <1>4 DEF B!retrieve
  <2>2. /\ c.reader = r + len /\ c.bytes = u /\ c.writer = w
        /\ c \in Vectors
    BY <1>1, <2>1 DEF Ordered, Vectors
  <2>3. Ordered(c)
    BY <1>1, <1>2, <2>2 DEF Ordered
  <2>4. PICK y \in Nat : y = w - r /\ len <= y
    BY <1>3
  <2>5. IsPart(c, b, len, y)
    <3>1. y <= Len(B!Readable(b)) /\ len <= y
      BY <1>1, <2>4
    <3>2. c.writer - c.reader = y - len
      BY <1>2, <2>2, <2>4
    <3>3. \A i \in 1 .. y - len :
            c.bytes[c.reader + i] = b.bytes[b.reader + len + i]
      BY <1>1, <2>2
    <3> QED
      BY <3>1, <3>2, <3>3 DEF IsPart
  <2>6. B!Readable(c) = SubSeq(B!Readable(b), len + 1, y)
    BY <2>3, <2>5, ReadPart
  <2> QED
    BY <1>1, <2>3, <2>4, <2>6
<1>5. CASE ~ (len < B!readableBytes(b))
  <2>1. c = [b EXCEPT !.reader = kCheapPrepend, !.writer = kCheapPrepend]
    BY <1>5 DEF B!retrieve
  <2>2. len = w - r
    BY <1>1, <1>2, <1>5 DEF B!readableBytes
  <2>3. /\ c.reader = kCheapPrepend /\ c.writer = kCheapPrepend
        /\ c.bytes = u /\ c \in Vectors
    BY <1>1, <1>2, <2>1 DEF Ordered, Vectors
  <2>4. Ordered(c)
    BY <1>1, <1>2, <2>3 DEF Ordered
  <2>5. IsPart(c, b, len, len)
    <3>1. len <= Len(B!Readable(b))
      BY <1>1, <1>2
    <3>2. c.writer - c.reader = 0 /\ len - len = 0 /\ len <= len
      BY <1>2, <2>3
    <3>3. 1 .. 0 = {}
      OBVIOUS
    <3> QED
      BY <3>1, <3>2, <3>3 DEF IsPart
  <2>6. B!Readable(c) = SubSeq(B!Readable(b), len + 1, len)
    BY <2>4, <2>5, ReadPart
  <2> QED
    BY <1>1, <2>2, <2>4, <2>6
<1> QED
  BY <1>4, <1>5

(* Bytes prepended are read before the others.                             *)
LEMMA PrependDoes ==
  ASSUME NEW b, Ordered(b), NEW s \in Seq(Bytes),
         Len(s) <= B!prependableBytes(b),
         NEW c, c = [b EXCEPT !.reader = @ - Len(s),
                              !.bytes = B!CopyTo(@, b.reader - Len(s), s)]
  PROVE  Ordered(c) /\ B!Readable(c) = s \o B!Readable(b)
<1>1. PICK u \in Seq(Bytes), r \in Nat, w \in Nat, n \in Nat, k \in Nat :
        /\ u = b.bytes /\ r = b.reader /\ w = b.writer
        /\ n = Len(u) /\ k = Len(s)
  BY ReadableIs, LenProperties
<1>2. r <= w /\ w <= n /\ k <= r /\ kCheapPrepend <= n
  BY <1>1 DEF Ordered, B!prependableBytes
<1>3. PICK x \in Nat : x = r - k
  <2>1. r - k \in Nat
    BY <1>2
  <2> QED
    BY <2>1
<1>4. PICK v \in Seq(Bytes) :
        /\ v = B!CopyTo(u, x, s) /\ Len(v) = n
        /\ \A i \in 1 .. n : v[i] =
             IF x < i /\ i <= x + k THEN s[i - x] ELSE u[i]
  <2>1. /\ B!CopyTo(u, x, s) \in Seq(Bytes)
        /\ Len(B!CopyTo(u, x, s)) = Len(u)
        /\ \A i \in 1 .. Len(u) : B!CopyTo(u, x, s)[i] =
             IF x < i /\ i <= x + Len(s) THEN s[i - x] ELSE u[i]
    BY CopyIs
  <2> QED
    BY <1>1, <2>1
<1>5. c.bytes = v /\ c.reader = x /\ c.writer = w /\ c \in Vectors
  <2>1. b \in [bytes : Seq(Bytes), reader : Nat, writer : Nat]
    BY DEF Ordered, Vectors
  <2>2. c = [b EXCEPT !.reader = x, !.bytes = v]
    BY <1>1, <1>3, <1>4, <2>1
  <2> QED
    BY <1>1, <2>1, <2>2 DEF Vectors
<1>6. Ordered(c)
  BY <1>2, <1>3, <1>4, <1>5 DEF Ordered
<1>7. PICK old \in Seq(Bytes) :
        /\ old = B!Readable(b) /\ Len(old) = w - r
        /\ \A i \in 1 .. w - r : old[i] = u[r + i]
  BY <1>1, ReadableIs
<1>8. PICK new \in Seq(Bytes) :
        /\ new = B!Readable(c) /\ Len(new) = w - x
        /\ \A i \in 1 .. w - x : new[i] = v[x + i]
  <2>1. c.writer - c.reader = w - x
    BY <1>5
  <2>2. /\ B!Readable(c) \in Seq(Bytes)
        /\ Len(B!Readable(c)) = c.writer - c.reader
        /\ \A i \in 1 .. c.writer - c.reader :
             B!Readable(c)[i] = c.bytes[c.reader + i]
    BY <1>6, ReadableIs
  <2>3. \A i \in 1 .. w - x : B!Readable(c)[i] = v[x + i]
    BY <1>5, <2>1, <2>2
  <2> QED
    BY <2>1, <2>2, <2>3
<1>9. /\ s \o old \in Seq(Bytes) /\ Len(s \o old) = k + (w - r)
      /\ \A i \in 1 .. k + (w - r) :
           (s \o old)[i] = IF i <= k THEN s[i] ELSE old[i - k]
  <2>1. /\ s \o old \in Seq(Bytes) /\ Len(s \o old) = Len(s) + Len(old)
        /\ \A i \in 1 .. Len(s) + Len(old) :
             (s \o old)[i] = IF i <= Len(s) THEN s[i] ELSE old[i - Len(s)]
    BY ConcatProperties
  <2> QED
    BY <1>1, <1>7, <2>1
<1>10. w - x = k + (w - r)
  BY <1>3
<1>11. \A i \in 1 .. k + (w - r) : new[i] = (s \o old)[i]
  <2> SUFFICES ASSUME NEW i \in 1 .. k + (w - r)
               PROVE  new[i] = (s \o old)[i]
    OBVIOUS
  <2>1. PICK j \in 1 .. n : j = x + i
    <3>1. x + i <= w /\ x + i \in 1 .. n
      BY <1>2, <1>10
    <3> QED
      BY <3>1
  <2>2. new[i] = v[j]
    BY <1>8, <1>10, <2>1
  <2>3. CASE i <= k
    <3>1. x < j /\ j <= x + k /\ j - x = i
      BY <2>1, <2>3
    <3>2. v[j] = s[j - x]
      BY <1>4, <3>1
    <3>3. (s \o old)[i] = s[i]
      BY <1>9, <2>3
    <3> QED
      BY <2>2, <3>1, <3>2, <3>3
  <2>4. CASE ~ (i <= k)
    <3>1. ~ (j <= x + k) /\ i - k \in 1 .. w - r /\ r + (i - k) = j
      <4>1. i - k \in 1 .. w - r
        BY <1>2, <2>4
      <4>2. r + (i - k) = x + i
        BY <1>3
      <4> QED
        BY <2>1, <2>4, <4>1, <4>2
    <3>2. v[j] = u[j]
      BY <1>4, <3>1
    <3>3. (s \o old)[i] = old[i - k]
      BY <1>9, <2>4
    <3>4. old[i - k] = u[r + (i - k)]
      BY <1>7, <3>1
    <3> QED
      BY <2>2, <3>1, <3>2, <3>3, <3>4
  <2> QED
    BY <2>3, <2>4
<1>12. new = s \o old
  BY <1>8, <1>9, <1>10, <1>11, SeqEqual
<1> QED
  BY <1>6, <1>7, <1>8, <1>12

(* unwrite                                                                 *)
LEMMA UnwriteDoes ==
  ASSUME NEW b, Ordered(b), NEW len \in Nat, len <= B!readableBytes(b),
         NEW c, c = [b EXCEPT !.writer = @ - len]
  PROVE  /\ Ordered(c)
         /\ B!Readable(c) =
              SubSeq(B!Readable(b), 1, Len(B!Readable(b)) - len)
<1>1. PICK u \in Seq(Bytes), r \in Nat, w \in Nat, n \in Nat :
        /\ u = b.bytes /\ r = b.reader /\ w = b.writer /\ n = Len(u)
        /\ Len(B!Readable(b)) = w - r
  BY ReadableIs, LenProperties
<1>2. /\ r <= w /\ w <= n /\ kCheapPrepend <= n /\ len <= w - r
  BY <1>1 DEF Ordered, B!readableBytes
<1>3. w - len \in Nat /\ w - r - len \in Nat
  BY <1>2
<1>4. /\ c.reader = r /\ c.bytes = u /\ c.writer = w - len /\ c \in Vectors
  <2>1. b \in [bytes : Seq(Bytes), reader : Nat, writer : Nat]
    BY DEF Ordered, Vectors
  <2>2. c = [b EXCEPT !.writer = w - len]
    BY <1>1, <2>1
  <2> QED
    BY <1>1, <1>3, <2>1, <2>2 DEF Vectors
<1>5. Ordered(c)
  BY <1>1, <1>2, <1>4 DEF Ordered
<1>6. PICK y \in Nat : y = w - r - len
  BY <1>3
<1>7. IsPart(c, b, 0, y)
  <2>1. y <= Len(B!Readable(b)) /\ 0 <= y /\ y - 0 = y
    BY <1>1, <1>2, <1>6
  <2>2. c.writer - c.reader = y
    BY <1>2, <1>4, <1>6
  <2>3. \A i \in 1 .. y : c.bytes[c.reader + i] = b.bytes[b.reader + 0 + i]
    BY <1>1, <1>4
  <2> QED
    BY <2>1, <2>2, <2>3 DEF IsPart
<1>8. B!Readable(c) = SubSeq(B!Readable(b), 0 + 1, y)
  <2>1. PICK zero \in Nat : zero = 0
    OBVIOUS
  <2>2. PICK d : d = c
    OBVIOUS
  <2>3. Ordered(d) /\ IsPart(d, b, zero, y)
    BY <1>5, <1>7, <2>1, <2>2
  <2>4. B!Readable(d) = SubSeq(B!Readable(b), zero + 1, y)
    BY <2>3, ReadPart
  <2> QED
    BY <2>1, <2>2, <2>4
<1>9. Len(B!Readable(b)) - len = y /\ 0 + 1 = 1
  BY <1>1, <1>6
<1> QED
  BY <1>5, <1>8, <1>9

(* A buffer that was just made.                                            *)
LEMMA NewIs ==
  Ordered(B!New(kInitialSize)) /\ B!Readable(B!New(kInitialSize)) = <<>>
<1>1. PICK n \in Nat, k \in Nat :
        n = kCheapPrepend + kInitialSize /\ k = kCheapPrepend /\ k <= n
  BY BufferAssumption
<1>2. PICK v : v = [i \in 1 .. n |-> 0]
  OBVIOUS
<1>3. 0 \in Bytes
  BY BufferAssumption DEF Bytes
<1>4. v \in [1 .. n -> Bytes]
  BY <1>2, <1>3
<1>5. v \in Seq(Bytes) /\ Len(v) = n
  BY <1>4, VectorIs
<1>6. PICK b : b = B!New(kInitialSize)
  OBVIOUS
<1>7. b = [bytes |-> v, reader |-> k, writer |-> k]
  BY <1>1, <1>2, <1>6 DEF B!New
<1>8. b \in Vectors /\ b.bytes = v /\ b.reader = k /\ b.writer = k
  BY <1>5, <1>7 DEF Vectors
<1>9. Ordered(b)
  BY <1>1, <1>5, <1>8 DEF Ordered
<1>10. B!Readable(b) \in Seq(Bytes) /\ Len(B!Readable(b)) = 0
  <2>1. k - k = 0
    OBVIOUS
  <2> QED
    BY <1>8, <1>9, <2>1, ReadableIs
<1> QED
  BY <1>6, <1>9, <1>10, EmptySeq

(* Whatever is appended at once is a sequence of bytes, not a long one.    *)
LEMMA DataIs ==
  /\ \A s \in B!Data : s \in Seq(Bytes)
  /\ \A n \in 0 .. MaxData : [1 .. n -> Bytes] \subseteq B!Data
<1>1. ASSUME NEW s \in B!Data
      PROVE  s \in Seq(Bytes)
  <2>1. PICK n \in 0 .. MaxData : s \in [1 .. n -> 0 .. Base - 1]
    BY DEF B!Data
  <2> QED
    BY <2>1, BufferAssumption DEF Bytes
<1> QED
  BY <1>1 DEF B!Data, Bytes

(* Dividing by Base, and what is left.                                     *)
LEMMA DivideIs ==
  ASSUME NEW x \in Int
  PROVE  x \div Base \in Int /\ x % Base \in Bytes
<1>1. PICK y \in Nat : y = Base /\ y > 0
  BY BufferAssumption
<1>2. x \div y \in Int /\ x % y \in 0 .. y - 1
  BY <1>1
<1> QED
  BY <1>1, <1>2 DEF Bytes

(* An integer of one or two bytes, in network order.                       *)
LEMMA DigitsIs ==
  ASSUME NEW n \in 1 .. 2, NEW x \in Int
  PROVE  B!Q!Digits(x, n) \in B!Data
<1> DEFINE Rest(f) ==
      f = [k \in 0 .. n |-> IF k = 0 THEN x ELSE f[k - 1] \div Base]
<1>1. \E f : Rest(f)
  <2>1. PICK f : f = [k \in 0 .. n |-> IF k = 0 THEN x
                        ELSE IF k = 1 THEN x \div Base
                        ELSE (x \div Base) \div Base]
    OBVIOUS
  <2>2. f[0] = x /\ f[1] = x \div Base
    BY <2>1
  <2>3. \A k \in 0 .. n : (IF k = 0 THEN x ELSE f[k - 1] \div Base) =
          IF k = 0 THEN x ELSE IF k = 1 THEN x \div Base
          ELSE (x \div Base) \div Base
    <3> SUFFICES ASSUME NEW k \in 0 .. n, k # 0
                 PROVE  f[k - 1] \div Base =
                          IF k = 1 THEN x \div Base
                          ELSE (x \div Base) \div Base
      OBVIOUS
    <3>1. k = 1 \/ k = 2
      OBVIOUS
    <3>2. CASE k = 1
      BY <2>2, <3>2
    <3>3. CASE k = 2
      BY <2>2, <3>3
    <3> QED
      BY <3>1, <3>2, <3>3
  <2>4. Rest(f)
    BY <2>1, <2>3
  <2> QED
    BY <2>4
<1> DEFINE rest == CHOOSE f : Rest(f)
<1>3. Rest(rest)
  BY <1>1
<1>4. B!Q!Digits(x, n) = [i \in 1 .. n |-> rest[n - i] % Base]
  BY DEF B!Q!Digits
<1> HIDE DEF rest
<1>5. \A i \in 1 .. n : rest[n - i] \in Int
  <2>1. rest[0] = x
    BY <1>3
  <2>2. rest[1] = rest[0] \div Base
    BY <1>3
  <2>3. rest[1] \in Int
    BY <2>1, <2>2, DivideIs
  <2>4. \A i \in 1 .. n : n - i = 0 \/ n - i = 1
    OBVIOUS
  <2> QED
    BY <2>1, <2>3, <2>4
<1>6. \A i \in 1 .. n : rest[n - i] % Base \in Bytes
  BY <1>5, DivideIs
<1>7. B!Q!Digits(x, n) \in [1 .. n -> Bytes]
  BY <1>4, <1>6
<1>8. n \in 0 .. MaxData
  BY BufferAssumption
<1> QED
  BY <1>7, <1>8, DataIs

(* The three ways a call can only look: at the first bytes, for a line     *)
(* feed, for a carriage return before one.                                 *)
LEMMA PeekIs ==
  ASSUME NEW b, Ordered(b), NEW n \in Nat, n <= B!readableBytes(b)
  PROVE  /\ SubSeq(b.bytes, b.reader + 1, b.reader + n) =
              SubSeq(B!Readable(b), 1, n)
         /\ n \in 0 .. Len(B!Readable(b))
<1>1. PICK r \in Nat, w \in Nat :
        r = b.reader /\ w = b.writer /\ Len(B!Readable(b)) = w - r
  BY ReadableIs
<1>2. n <= w - r
  BY <1>1 DEF B!readableBytes
<1>3. PICK len \in Nat : len = w - r - n
  <2>1. w - r - n \in Nat
    BY <1>2
  <2> QED
    BY <2>1
<1>4. len <= B!readableBytes(b)
  BY <1>1, <1>3 DEF B!readableBytes
<1>5. PICK c : c = [b EXCEPT !.writer = @ - len]
  OBVIOUS
<1>6. B!Readable(c) = SubSeq(B!Readable(b), 1, Len(B!Readable(b)) - len)
  BY <1>4, <1>5, UnwriteDoes
<1>7. Len(B!Readable(b)) - len = n /\ w - len = r + n
  <2>1. w - r - len = n /\ w - len = r + n
    BY <1>3
  <2> QED
    BY <1>1, <2>1
<1>8. c.bytes = b.bytes /\ c.reader = b.reader /\ c.writer = r + n
  BY <1>1, <1>5, <1>7 DEF Ordered, Vectors
<1>9. B!Readable(c) = SubSeq(b.bytes, b.reader + 1, b.reader + n)
  BY <1>1, <1>8 DEF B!Readable
<1>10. n \in 0 .. Len(B!Readable(b))
  BY <1>1, <1>2
<1> QED
  BY <1>6, <1>7, <1>9, <1>10

(* The positions that findEOL and findCRLF can return.                     *)
LEMMA FindIs ==
  ASSUME NEW b, Ordered(b)
  PROVE  /\ {i \in 0 .. B!readableBytes(b) - 1 : b.bytes[b.reader + i + 1] = LF}
              = B!Q!EndsOfLine(B!Readable(b))
         /\ {i \in 0 .. B!readableBytes(b) - 2 :
               /\ b.bytes[b.reader + i + 1] = CR
               /\ b.bytes[b.reader + (i + 1) + 1] = LF}
              = B!Q!EndsOfHeader(B!Readable(b))
<1>1. PICK r \in Nat, size \in Int, s \in Seq(Bytes) :
        /\ r = b.reader /\ size = B!readableBytes(b)
        /\ s = B!Readable(b) /\ Len(s) = size
        /\ \A i \in 1 .. size : s[i] = b.bytes[r + i]
  <2>1. /\ b.reader \in Nat /\ B!readableBytes(b) \in Int
        /\ B!Readable(b) \in Seq(Bytes)
        /\ Len(B!Readable(b)) = B!readableBytes(b)
        /\ \A i \in 1 .. B!readableBytes(b) :
             B!Readable(b)[i] = b.bytes[b.reader + i]
    BY ReadableIs DEF B!readableBytes
  <2> QED
    BY <2>1
<1>2. \A i \in 0 .. size - 1 : b.bytes[r + i + 1] = s[i + 1]
  <2> SUFFICES ASSUME NEW i \in 0 .. size - 1
               PROVE  b.bytes[r + i + 1] = s[i + 1]
    OBVIOUS
  <2>1. PICK j \in 1 .. size : j = i + 1 /\ r + i + 1 = r + j
    OBVIOUS
  <2> QED
    BY <1>1, <2>1
<1>3. \A i \in 0 .. size - 2 :
        /\ b.bytes[r + i + 1] = s[i + 1]
        /\ b.bytes[r + (i + 1) + 1] = s[i + 2]
  <2> SUFFICES ASSUME NEW i \in 0 .. size - 2
               PROVE  /\ b.bytes[r + i + 1] = s[i + 1]
                      /\ b.bytes[r + (i + 1) + 1] = s[i + 2]
    OBVIOUS
  <2>1. PICK j \in 0 .. size - 1 : j = i + 1 /\ i + 2 = j + 1
    OBVIOUS
  <2>2. b.bytes[r + j + 1] = s[j + 1]
    BY <1>2
  <2>3. i \in 0 .. size - 1
    OBVIOUS
  <2> QED
    BY <1>2, <2>1, <2>2, <2>3
<1>4. {i \in 0 .. size - 1 : b.bytes[r + i + 1] = LF} = B!Q!EndsOfLine(s)
  BY <1>1, <1>2 DEF B!Q!EndsOfLine
<1>5. {i \in 0 .. size - 2 : /\ b.bytes[r + i + 1] = CR
                             /\ b.bytes[r + (i + 1) + 1] = LF}
        = B!Q!EndsOfHeader(s)
  BY <1>1, <1>3 DEF B!Q!EndsOfHeader
<1> QED
  BY <1>1, <1>4, <1>5

(* c holds what b holds, and then x.                                       *)
Follows(c, b, x) == Ordered(c) /\ B!Readable(c) = B!Readable(b) \o x

(* Bytes appended in two parts are appended.                               *)
LEMMA SplitAppend ==
  ASSUME NEW b, Ordered(b), NEW x \in Seq(Bytes), NEW y \in Seq(Bytes),
         NEW c, Follows(c, b, x)
  PROVE  Follows(B!append(c, y), b, x \o y)
<1>1. Ordered(c) /\ B!Readable(c) = B!Readable(b) \o x
  BY DEF Follows
<1>2. /\ Ordered(B!append(c, y))
      /\ B!Readable(B!append(c, y)) = B!Readable(c) \o y
  BY <1>1, AppendDoes
<1>3. PICK r \in Seq(Bytes) : r = B!Readable(b)
  BY ReadableIs
<1>4. (r \o x) \o y = r \o (x \o y)
  BY ConcatAssociative
<1> QED
  BY <1>1, <1>2, <1>3, <1>4 DEF Follows

(* readFd: what readv put into the vector, and that and what it put into   *)
(* extrabuf, where both were needed.                                       *)
LEMMA SplitRead ==
  ASSUME NEW b, Ordered(b), NEW s \in Seq(Bytes), NEW n \in 0 .. Len(s),
         n <= B!writableBytes(b)
  PROVE  \A filled :
           filled = [b EXCEPT !.bytes = B!CopyTo(@, b.writer, SubSeq(s, 1, n)),
                              !.writer = @ + Len(SubSeq(s, 1, n))] =>
             LET all == B!append(filled, SubSeq(s, n + 1, Len(s))) IN
             /\ Ordered(filled)
             /\ B!Readable(filled) = B!Readable(b) \o SubSeq(s, 1, n)
             /\ Ordered(all) /\ B!Readable(all) = B!Readable(b) \o s
<1>1. Len(s) \in Nat /\ \A i \in 1 .. Len(s) : s[i] \in Bytes
  BY LenProperties, ElementOfSeq
<1>2. PICK len \in Nat, from \in Int : len = Len(s) /\ from = n + 1
  BY <1>1
<1>3. PICK x \in Seq(Bytes) : x = SubSeq(s, 1, n) /\ Len(x) = n
  <2>1. \A i \in 1 .. n : s[i] \in Bytes
    BY <1>1
  <2> QED
    <3>1. /\ SubSeq(s, 1, n) \in Seq(Bytes)
          /\ Len(SubSeq(s, 1, n)) = IF 1 <= n THEN n - 1 + 1 ELSE 0
      BY <2>1, SubSeqProperties
    <3>2. Len(SubSeq(s, 1, n)) = n
      BY <1>1, <3>1
    <3> QED
      BY <3>1, <3>2
<1>4. PICK y \in Seq(Bytes) : y = SubSeq(s, n + 1, Len(s))
  <2>1. \A i \in from .. len : s[i] \in Bytes
    BY <1>1, <1>2
  <2>2. SubSeq(s, from, len) \in Seq(Bytes)
    BY <2>1, SubSeqProperties
  <2> QED
    BY <1>2, <2>2
<1>5. x \o y = s
  <2>1. SubSeq(s, 1, n) \o SubSeq(s, n + 1, Len(s)) = SubSeq(s, 1, Len(s))
    <3>1. /\ 1 \in 1 .. Len(s) + 1 /\ n \in 1 - 1 .. Len(s)
          /\ Len(s) \in n .. Len(s)
      BY <1>1
    <3> QED
      BY <3>1, ConcatAdjacentSubSeq
  <2> QED
    BY <1>3, <1>4, <2>1, SubSeqFull
<1>6. ASSUME NEW filled,
             filled = [b EXCEPT !.bytes = B!CopyTo(@, b.writer, x),
                                !.writer = @ + Len(x)]
      PROVE  /\ Ordered(filled)
             /\ B!Readable(filled) = B!Readable(b) \o x
             /\ Ordered(B!append(filled, y))
             /\ B!Readable(B!append(filled, y)) = B!Readable(b) \o s
  <2>1. Ordered(filled) /\ B!Readable(filled) = B!Readable(b) \o x
    BY <1>3, <1>6, WriteDoes
  <2>2. Follows(filled, b, x)
    BY <2>1 DEF Follows
  <2>3. Follows(B!append(filled, y), b, x \o y)
    BY <2>2, SplitAppend
  <2>4. /\ Ordered(B!append(filled, y))
        /\ B!Readable(B!append(filled, y)) = B!Readable(b) \o s
    BY <1>5, <2>3 DEF Follows
  <2> QED
    BY <2>1, <2>4
<1> QED
  BY <1>3, <1>4, <1>6

(* shrink: a new buffer takes what the old one held.                       *)
LEMMA ShrinkDoes ==
  ASSUME NEW b, Ordered(b), NEW reserve \in Nat,
         NEW other, other = B!ensureWritableBytes(B!New(kInitialSize),
                              B!readableBytes(b) + reserve),
         NEW c, c = B!append(other, B!Readable(b))
  PROVE  Ordered(c) /\ B!Readable(c) = B!Readable(b)
<1>1. B!Readable(b) \in Seq(Bytes) /\ B!readableBytes(b) \in Nat
  BY ReadableIs DEF Ordered, B!readableBytes
<1>2. PICK len \in Nat : len = B!readableBytes(b) + reserve
  <2>1. B!readableBytes(b) + reserve \in Nat
    BY <1>1
  <2> QED
    BY <2>1
<1>3. Ordered(other) /\ B!Readable(other) = <<>>
  BY <1>2, NewIs, EnsureDoes
<1>4. Ordered(c) /\ B!Readable(c) = <<>> \o B!Readable(b)
  <2>1. \A x : \A y \in Seq(Bytes) : Ordered(x) =>
          /\ Ordered(B!append(x, y))
          /\ B!Readable(B!append(x, y)) = B!Readable(x) \o y
    BY AppendDoes
  <2>2. /\ Ordered(B!append(other, B!Readable(b)))
        /\ B!Readable(B!append(other, B!Readable(b))) =
             B!Readable(other) \o B!Readable(b)
    BY <1>1, <1>3, <2>1, Zenon
  <2> QED
    BY <1>3, <2>2, Zenon
<1> QED
  BY <1>1, <1>4, ConcatEmptySeq

-----------------------------------------------------------------------------
(* Every step of a buffer is a step of the queue, or shows nothing of it.  *)
LEMMA BufferStep ==
  ASSUME Ordered(buffer), [B!BufferNext]_(B!bufferVars)
  PROVE  /\ Ordered(buffer)'
         /\ [B!Q!QueueNext(B!Data)]_(B!Q!queueVars)
<1>1. PICK b, c : b = buffer /\ c = buffer'
  OBVIOUS
<1>2. PICK d, e : d = B!Readable(b) /\ e = B!Readable(c)
  OBVIOUS
<1>3. B!Readable(buffer) = d /\ B!Readable(buffer)' = e
  BY <1>1, <1>2 DEF B!Readable
<1>4. Ordered(b)
  BY <1>1
<1>5. Ordered(buffer)' <=> Ordered(c)
  BY <1>1 DEF Ordered, Vectors
<1>6. ASSUME NEW s \in B!Data, e = d \o s \/ e = s \o d, result' = <<>>
      PROVE  B!Q!QueueNext(B!Data)
  BY <1>3, <1>6 DEF B!Q!QueueNext, B!Q!PutLast, B!Q!PutFirst
<1>7. ASSUME NEW n \in 0 .. Len(d),
             \/ e = SubSeq(d, n + 1, Len(d)) /\ result' = <<>>
             \/ e = SubSeq(d, n + 1, Len(d)) /\ result' = SubSeq(d, 1, n)
             \/ e = SubSeq(d, 1, Len(d) - n) /\ result' = <<>>
             \/ e = d /\ result' = <<B!Q!Number(SubSeq(d, 1, n))>>
             \/ e = d /\ result' = <<B!Q!FirstFrom(n, B!Q!EndsOfLine(d))>>
             \/ e = d /\ result' = <<B!Q!FirstFrom(n, B!Q!EndsOfHeader(d))>>
      PROVE  B!Q!QueueNext(B!Data)
  <2>1. \/ B!Q!TakeFirst(n) \/ B!Q!DropFirst(n) \/ B!Q!DropLast(n)
        \/ B!Q!Peek(n) \/ B!Q!Search(n)
    BY <1>3, <1>7 DEF B!Q!TakeFirst, B!Q!DropFirst, B!Q!DropLast, B!Q!Peek,
                      B!Q!Search
  <2>2. n \in 0 .. Len(B!Readable(buffer))
    BY <1>3
  <2> QED
    BY <2>1, <2>2 DEF B!Q!QueueNext
<1>8. ASSUME e = d, result' = <<>>
      PROVE  B!Q!QueueNext(B!Data)
  BY <1>3, <1>8 DEF B!Q!QueueNext, B!Q!Keep
<1> SUFFICES Ordered(c) /\ [B!Q!QueueNext(B!Data)]_(B!Q!queueVars)
  BY <1>5
<1>9. ASSUME NEW s \in B!Data,
             B!AppendData(s) \/ B!Prepend(s) \/ B!ReadFd(s)
      PROVE  Ordered(c) /\ B!Q!QueueNext(B!Data)
  <2>1. s \in Seq(Bytes)
    BY DataIs
  <2>2. CASE B!AppendData(s)
    <3>1. c = B!append(b, s) /\ result' = <<>>
      BY <1>1, <2>2 DEF B!AppendData
    <3>2. Ordered(c) /\ e = d \o s
      BY <1>2, <1>4, <2>1, <3>1, AppendDoes
    <3> QED
      BY <1>6, <3>1, <3>2
  <2>3. CASE B!Prepend(s)
    <3>1. /\ Len(s) <= B!prependableBytes(b) /\ result' = <<>>
          /\ c = [b EXCEPT !.reader = @ - Len(s),
                           !.bytes = B!CopyTo(@, b.reader - Len(s), s)]
      BY <1>1, <2>3 DEF B!Prepend
    <3>2. Ordered(c) /\ e = s \o d
      BY <1>2, <1>4, <2>1, <3>1, PrependDoes
    <3> QED
      BY <1>6, <3>1, <3>2
  <2>4. CASE B!ReadFd(s)
    <3>1. PICK n : n = IF Len(s) <= B!writableBytes(b) THEN Len(s)
                       ELSE B!writableBytes(b)
      OBVIOUS
    <3>2. PICK filled :
            filled = [b EXCEPT !.bytes = B!CopyTo(@, b.writer, SubSeq(s, 1, n)),
                               !.writer = @ + Len(SubSeq(s, 1, n))]
      OBVIOUS
    <3>3. /\ c = IF Len(s) <= B!writableBytes(b) THEN filled
                 ELSE B!append(filled, SubSeq(s, n + 1, Len(s)))
          /\ result' = <<>>
      BY <1>1, <2>4, <3>1, <3>2 DEF B!ReadFd
    <3>4. B!writableBytes(b) \in Nat /\ Len(s) \in Nat
      BY <1>4, <2>1, ReadableIs, LenProperties DEF Ordered, B!writableBytes
    <3>5. n \in 0 .. Len(s) /\ n <= B!writableBytes(b)
      BY <3>1, <3>4
    <3>6. /\ Ordered(filled)
          /\ B!Readable(filled) = d \o SubSeq(s, 1, n)
          /\ Ordered(B!append(filled, SubSeq(s, n + 1, Len(s))))
          /\ B!Readable(B!append(filled, SubSeq(s, n + 1, Len(s)))) = d \o s
      BY <1>2, <1>4, <2>1, <3>2, <3>5, SplitRead
    <3>7. Ordered(c) /\ e = d \o s
      <4>1. CASE Len(s) <= B!writableBytes(b)
        <5>1. SubSeq(s, 1, n) = s
          BY <2>1, <3>1, <4>1, SubSeqFull
        <5> QED
          BY <1>2, <3>3, <3>6, <4>1, <5>1
      <4>2. CASE ~ (Len(s) <= B!writableBytes(b))
        BY <1>2, <3>3, <3>6, <4>2
      <4> QED
        BY <4>1, <4>2
    <3> QED
      BY <1>6, <3>3, <3>7
  <2> QED
    BY <1>9, <2>2, <2>3, <2>4
<1>10. ASSUME NEW n \in 1 .. 2, NEW x \in Int, B!AppendInt(x, n)
       PROVE  Ordered(c) /\ B!Q!QueueNext(B!Data)
  <2>1. PICK s \in B!Data : B!AppendData(s)
    BY <1>10, DigitsIs DEF B!AppendInt
  <2> QED
    BY <1>9, <2>1
<1>11. ASSUME NEW n \in Nat,
              \/ B!Retrieve(n) \/ B!RetrieveAsString(n) \/ B!Unwrite(n)
              \/ B!Find(n) \/ B!PeekInt(n)
       PROVE  Ordered(c) /\ B!Q!QueueNext(B!Data)
  <2>1. n <= B!readableBytes(b)
    BY <1>1, <1>11 DEF B!Retrieve, B!RetrieveAsString, B!Unwrite, B!Find,
                       B!PeekInt
  <2>2. /\ SubSeq(b.bytes, b.reader + 1, b.reader + n) = SubSeq(d, 1, n)
        /\ n \in 0 .. Len(d)
    BY <1>2, <1>4, <2>1, PeekIs
  <2>3. CASE B!Retrieve(n) \/ B!RetrieveAsString(n)
    <3>1. /\ c = B!retrieve(b, n)
          /\ result' = <<>> \/ result' = SubSeq(d, 1, n)
      BY <1>1, <1>3, <2>3 DEF B!Retrieve, B!RetrieveAsString
    <3>2. Ordered(c) /\ e = SubSeq(d, n + 1, Len(d))
      BY <1>2, <1>4, <2>1, <3>1, RetrieveDoes
    <3> QED
      BY <1>7, <2>2, <3>1, <3>2
  <2>4. CASE B!Unwrite(n)
    <3>1. c = [b EXCEPT !.writer = @ - n] /\ result' = <<>>
      BY <1>1, <2>4 DEF B!Unwrite
    <3>2. Ordered(c) /\ e = SubSeq(d, 1, Len(d) - n)
      BY <1>2, <1>4, <2>1, <3>1, UnwriteDoes
    <3> QED
      BY <1>7, <2>2, <3>1, <3>2
  <2>5. CASE B!Find(n)
    <3>1. c = b
      BY <1>1, <2>5 DEF B!Find
    <3>2. /\ {i \in 0 .. B!readableBytes(b) - 1 :
                b.bytes[b.reader + i + 1] = LF} = B!Q!EndsOfLine(d)
          /\ {i \in 0 .. B!readableBytes(b) - 2 :
                /\ b.bytes[b.reader + i + 1] = CR
                /\ b.bytes[b.reader + (i + 1) + 1] = LF}
               = B!Q!EndsOfHeader(d)
      BY <1>2, <1>4, FindIs
    <3>3. \/ result' = <<B!Q!FirstFrom(n, {i \in 0 .. B!readableBytes(b) - 1 :
                           b.bytes[b.reader + i + 1] = LF})>>
          \/ result' = <<B!Q!FirstFrom(n, {i \in 0 .. B!readableBytes(b) - 2 :
                           /\ b.bytes[b.reader + i + 1] = CR
                           /\ b.bytes[b.reader + (i + 1) + 1] = LF})>>
      BY <1>1, <2>5 DEF B!Find
    <3>4. \/ result' = <<B!Q!FirstFrom(n, B!Q!EndsOfLine(d))>>
          \/ result' = <<B!Q!FirstFrom(n, B!Q!EndsOfHeader(d))>>
      BY <3>2, <3>3
    <3> QED
      BY <1>2, <1>4, <1>7, <2>2, <3>1, <3>4
  <2>6. CASE B!PeekInt(n)
    <3>1. c = b /\ result' = <<B!Q!Number(SubSeq(b.bytes, b.reader + 1,
                                              b.reader + n))>>
      BY <1>1, <2>6 DEF B!PeekInt
    <3> QED
      BY <1>2, <1>4, <1>7, <2>2, <3>1
  <2> QED
    BY <1>11, <2>3, <2>4, <2>5, <2>6
<1>12. ASSUME NEW reserve \in {0, 1}, B!Shrink(reserve)
       PROVE  Ordered(c) /\ B!Q!QueueNext(B!Data)
  <2>1. /\ c = B!append(B!ensureWritableBytes(B!New(kInitialSize),
                          B!readableBytes(b) + reserve), d)
        /\ result' = <<>>
    BY <1>1, <1>3, <1>12 DEF B!Shrink
  <2>2. Ordered(c) /\ e = d
    BY <1>2, <1>4, <2>1, ShrinkDoes
  <2> QED
    BY <1>8, <2>1, <2>2
<1>13. CASE B!BufferNext
  <2>1. \/ \E s \in B!Data : B!AppendData(s) \/ B!Prepend(s) \/ B!ReadFd(s)
        \/ \E n \in 1 .. 2 : \E x \in Int : B!AppendInt(x, n)
        \/ \E n \in Nat : \/ B!Retrieve(n) \/ B!RetrieveAsString(n)
                          \/ B!Unwrite(n) \/ B!Find(n) \/ B!PeekInt(n)
        \/ \E reserve \in {0, 1} : B!Shrink(reserve)
    BY <1>13 DEF B!BufferNext
  <2> QED
    BY <1>9, <1>10, <1>11, <1>12, <2>1
<1>14. CASE UNCHANGED B!bufferVars
  <2>1. buffer' = buffer /\ result' = result
    BY <1>14 DEF B!bufferVars
  <2>2. c = b /\ d = e
    BY <1>1, <1>2, <2>1
  <2> QED
    BY <1>3, <1>4, <2>1, <2>2 DEF B!Q!queueVars
<1> QED
  BY <1>13, <1>14

(* Buffer.h:48-409, Buffer.cc:25-57: whatever is appended, prepended, read *)
(* from a socket, retrieved, unwritten, searched and shrunk in whatever    *)
(* order, a buffer is a queue of bytes, for any size of the vector, of the *)
(* room in front and of the data.                                          *)
THEOREM BufferAlwaysQueue == Spec => BufferIsQueue
<1>1. Init => Ordered(buffer) /\ B!Q!QueueInit
  <2> SUFFICES ASSUME B!BufferInit
               PROVE  Ordered(buffer) /\ B!Q!QueueInit
    BY DEF Init
  <2>1. PICK b : b = B!New(kInitialSize)
    OBVIOUS
  <2>2. buffer = b /\ result = <<>>
    BY <2>1 DEF B!BufferInit
  <2>3. Ordered(b) /\ B!Readable(b) = <<>>
    BY <2>1, NewIs
  <2> QED
    BY <2>2, <2>3 DEF B!Q!QueueInit
<1>2. [Next]_vars => [B!BufferNext]_(B!bufferVars)
  <2>1. Next => B!BufferNext \/ UNCHANGED bufferVars
    <3> SUFFICES ASSUME Next
                 PROVE  B!BufferNext \/ UNCHANGED bufferVars
      OBVIOUS
    <3> QED
      BY DEF Next, libraryVars
  <2> QED
    BY <2>1 DEF vars, bufferVars, B!bufferVars
<1>3. Ordered(buffer) /\ [Next]_vars =>
        Ordered(buffer)' /\ [B!Q!QueueNext(B!Data)]_(B!Q!queueVars)
  BY <1>2, BufferStep
<1> QED
  BY <1>1, <1>3, PTL DEF Spec, BufferIsQueue, B!ImplementsQueue

-----------------------------------------------------------------------------
(* The log's thread.                                                       *)

(* The lines of files or buffers, and their order; 0 is a notice.          *)
Rising(s) ==
  \A i, j \in DOMAIN s : i < j /\ s[i] # 0 /\ s[j] # 0 => s[i] < s[j]

Below(low, high) ==
  \A x \in low, y \in high : x # 0 /\ y # 0 => x < y

Elements(s) == {s[i] : i \in DOMAIN s}

LinesOf(parts) == UNION {Elements(parts[p]) : p \in DOMAIN parts}

InOrder(parts) ==
  /\ \A p \in DOMAIN parts : Rising(parts[p])
  /\ \A p, q \in DOMAIN parts :
       p < q => Below(Elements(parts[p]), Elements(parts[q]))

NoticesOf(parts) ==
  UNION {{<<f, i>> : i \in {k \in DOMAIN parts[f] : parts[f][k] = 0}} :
           f \in DOMAIN parts}

Unwritten ==
  SubSeq(writer.toWrite, writer.written + 1, Len(writer.toWrite))

LogTypes ==
  /\ files \in Seq(Seq(Nat)) /\ files # <<>>
  /\ buffers \in Seq(Seq(Nat)) /\ current \in Seq(Nat)
  /\ next \in BOOLEAN /\ lines \in Nat
  /\ writer \in [stage : {"loop", "wait", "drop", "write", "ended"},
                 new1 : BOOLEAN, new2 : BOOLEAN, toWrite : Seq(Seq(Nat)),
                 written : Nat]
  /\ dropped \in [lines : SUBSET (1 .. lines), times : Nat]

(* What the thread has taken, and the buffers that it gave for it.         *)
TakenSound ==
  /\ writer.written <= Len(writer.toWrite)
  /\ writer.stage \notin {"drop", "write"} =>
       writer.toWrite = <<>> /\ writer.written = 0
  /\ writer.stage = "drop" => writer.written = 0
  /\ ~next => buffers # <<>>
  /\ writer.stage \in {"drop", "write"} =>
       Len(writer.toWrite) >= IF writer.new2 THEN 1 ELSE 2
  /\ writer.stage \notin {"drop", "write"} => writer.new2

(* Each of the four places is in order, and so are the places.             *)
PlacesInOrder ==
  /\ InOrder(files) /\ InOrder(Unwritten) /\ InOrder(buffers) /\ Rising(current)
  /\ Below(LinesOf(files), LinesOf(Unwritten))
  /\ Below(LinesOf(files), LinesOf(buffers))
  /\ Below(LinesOf(files), Elements(current))
  /\ Below(LinesOf(Unwritten), LinesOf(buffers))
  /\ Below(LinesOf(Unwritten), Elements(current))
  /\ Below(LinesOf(buffers), Elements(current))

LinesKept ==
  /\ 0 \notin LinesOf(Unwritten) \cup LinesOf(buffers) \cup Elements(current)
  /\ (LinesOf(files) \ {0}) \cup LinesOf(Unwritten) \cup LinesOf(buffers)
       \cup Elements(current) = 1 .. lines \ dropped.lines

NoticesCounted ==
  IsFiniteSet(NoticesOf(files)) /\ Cardinality(NoticesOf(files)) = dropped.times

LogInv ==
  LogTypes /\ TakenSound /\ PlacesInOrder /\ LinesKept /\ NoticesCounted

-----------------------------------------------------------------------------
(* What two texts of lines make, one after the other.                      *)
LEMMA LinesConcat ==
  ASSUME NEW s \in Seq(Nat), NEW t \in Seq(Nat)
  PROVE  /\ s \o t \in Seq(Nat)
         /\ Elements(s \o t) = Elements(s) \cup Elements(t)
         /\ Rising(s) /\ Rising(t) /\ Below(Elements(s), Elements(t)) =>
              Rising(s \o t)
<1>1. PICK u : u = s \o t
  OBVIOUS
<1>2. PICK m \in Nat, n \in Nat : m = Len(s) /\ n = Len(t)
  BY LenProperties
<1>3. /\ u \in Seq(Nat) /\ Len(u) = m + n
      /\ \A i \in 1 .. m + n : u[i] = IF i <= m THEN s[i] ELSE t[i - m]
  BY <1>1, <1>2, ConcatProperties
<1>4. DOMAIN u = 1 .. m + n /\ DOMAIN s = 1 .. m /\ DOMAIN t = 1 .. n
  BY <1>2, <1>3, LenProperties
<1>5. \A i \in 1 .. m : u[i] = s[i]
  BY <1>3
<1>6. \A i \in 1 .. n : u[m + i] = t[i] /\ m + i \in 1 .. m + n
  BY <1>3
<1>7. \A i \in 1 .. m + n : i \in 1 .. m \/ (i - m \in 1 .. n /\ i = m + (i - m))
  OBVIOUS
<1>8. Elements(u) = Elements(s) \cup Elements(t)
  <2>1. \A i \in 1 .. m : i \in 1 .. m + n
    OBVIOUS
  <2>2. \A i \in 1 .. m + n :
          \/ i \in 1 .. m /\ u[i] = s[i]
          \/ i - m \in 1 .. n /\ u[i] = t[i - m]
    <3> SUFFICES ASSUME NEW i \in 1 .. m + n
                 PROVE  \/ i \in 1 .. m /\ u[i] = s[i]
                        \/ i - m \in 1 .. n /\ u[i] = t[i - m]
      OBVIOUS
    <3>1. u[i] = IF i <= m THEN s[i] ELSE t[i - m]
      BY <1>3
    <3> QED
      BY <3>1
  <2>3. Elements(u) \subseteq Elements(s) \cup Elements(t)
    BY <1>4, <2>2 DEF Elements
  <2>4. Elements(s) \subseteq Elements(u)
    BY <1>4, <1>5, <2>1 DEF Elements
  <2>5. Elements(t) \subseteq Elements(u)
    BY <1>4, <1>6 DEF Elements
  <2> QED
    BY <2>3, <2>4, <2>5
<1>9. ASSUME Rising(s), Rising(t), Below(Elements(s), Elements(t))
      PROVE  Rising(u)
  <2> SUFFICES ASSUME NEW i \in 1 .. m + n, NEW j \in 1 .. m + n,
                      i < j, u[i] # 0, u[j] # 0
               PROVE  u[i] < u[j]
    BY <1>4 DEF Rising
  <2>1. CASE j <= m
    <3>1. i \in 1 .. m /\ j \in 1 .. m
      BY <2>1
    <3> QED
      BY <1>4, <1>5, <1>9, <3>1 DEF Rising
  <2>2. CASE i > m
    <3>1. i - m \in 1 .. n /\ j - m \in 1 .. n /\ i - m < j - m
      BY <2>2
    <3>2. u[i] = t[i - m] /\ u[j] = t[j - m]
      BY <1>3, <2>2
    <3> QED
      BY <1>4, <1>9, <3>1, <3>2 DEF Rising
  <2>3. CASE i <= m /\ j > m
    <3>1. i \in DOMAIN s /\ j - m \in DOMAIN t
      BY <1>4, <2>3
    <3>2. u[i] = s[i] /\ u[j] = t[j - m]
      BY <1>3, <2>3
    <3>3. u[i] \in Elements(s) /\ u[j] \in Elements(t)
      BY <3>1, <3>2 DEF Elements
    <3> QED
      BY <1>9, <3>3 DEF Below
  <2> QED
    BY <2>1, <2>2, <2>3
<1> QED
  BY <1>1, <1>3, <1>8, <1>9

(* The same of their parts.                                                *)
LEMMA PartsConcat ==
  ASSUME NEW s \in Seq(Seq(Nat)), NEW t \in Seq(Seq(Nat))
  PROVE  /\ s \o t \in Seq(Seq(Nat))
         /\ LinesOf(s \o t) = LinesOf(s) \cup LinesOf(t)
         /\ InOrder(s) /\ InOrder(t) /\ Below(LinesOf(s), LinesOf(t)) =>
              InOrder(s \o t)
<1>1. PICK u : u = s \o t
  OBVIOUS
<1>2. PICK m \in Nat, n \in Nat : m = Len(s) /\ n = Len(t)
  BY LenProperties
<1>3. /\ u \in Seq(Seq(Nat)) /\ Len(u) = m + n
      /\ \A i \in 1 .. m + n : u[i] = IF i <= m THEN s[i] ELSE t[i - m]
  BY <1>1, <1>2, ConcatProperties
<1>4. DOMAIN u = 1 .. m + n /\ DOMAIN s = 1 .. m /\ DOMAIN t = 1 .. n
  BY <1>2, <1>3, LenProperties
<1>5. \A i \in 1 .. m : u[i] = s[i]
  BY <1>3
<1>6. \A i \in 1 .. n : u[m + i] = t[i] /\ m + i \in 1 .. m + n
  BY <1>3
<1>7. \A i \in 1 .. m + n : i \in 1 .. m \/ (i - m \in 1 .. n /\ i = m + (i - m))
  OBVIOUS
<1>8. LinesOf(u) = LinesOf(s) \cup LinesOf(t)
  <2>1. \A i \in 1 .. m : i \in 1 .. m + n
    OBVIOUS
  <2>2. \A i \in 1 .. m + n :
          \/ i \in 1 .. m /\ u[i] = s[i]
          \/ i - m \in 1 .. n /\ u[i] = t[i - m]
    <3> SUFFICES ASSUME NEW i \in 1 .. m + n
                 PROVE  \/ i \in 1 .. m /\ u[i] = s[i]
                        \/ i - m \in 1 .. n /\ u[i] = t[i - m]
      OBVIOUS
    <3>1. u[i] = IF i <= m THEN s[i] ELSE t[i - m]
      BY <1>3
    <3> QED
      BY <3>1
  <2>3. LinesOf(u) \subseteq LinesOf(s) \cup LinesOf(t)
    BY <1>4, <2>2 DEF LinesOf
  <2>4. LinesOf(s) \subseteq LinesOf(u)
    BY <1>4, <1>5, <2>1 DEF LinesOf
  <2>5. LinesOf(t) \subseteq LinesOf(u)
    BY <1>4, <1>6 DEF LinesOf
  <2> QED
    BY <2>3, <2>4, <2>5
<1>9. ASSUME InOrder(s), InOrder(t), Below(LinesOf(s), LinesOf(t))
      PROVE  InOrder(u)
  <2>1. ASSUME NEW i \in 1 .. m + n
        PROVE  Rising(u[i])
    BY <1>4, <1>5, <1>6, <1>7, <1>9 DEF InOrder
  <2>2. ASSUME NEW i \in 1 .. m + n, NEW j \in 1 .. m + n, i < j
        PROVE  Below(Elements(u[i]), Elements(u[j]))
    <3>1. CASE j <= m
      <4>1. i \in 1 .. m /\ j \in 1 .. m
        BY <2>2, <3>1
      <4> QED
        BY <1>4, <1>5, <1>9, <2>2, <4>1 DEF InOrder
    <3>2. CASE i > m
      <4>1. i - m \in 1 .. n /\ j - m \in 1 .. n /\ i - m < j - m
        BY <2>2, <3>2
      <4>2. u[i] = t[i - m] /\ u[j] = t[j - m]
        BY <1>3, <2>2, <3>2
      <4> QED
        BY <1>4, <1>9, <4>1, <4>2 DEF InOrder
    <3>3. CASE i <= m /\ j > m
      <4>1. i \in DOMAIN s /\ j - m \in DOMAIN t
        BY <1>4, <3>3
      <4>2. u[i] = s[i] /\ u[j] = t[j - m]
        BY <1>3, <3>3
      <4>3. Elements(s[i]) \subseteq LinesOf(s) /\
            Elements(t[j - m]) \subseteq LinesOf(t)
        BY <4>1 DEF LinesOf
      <4> QED
        BY <1>9, <4>2, <4>3 DEF Below
    <3> QED
      BY <3>1, <3>2, <3>3
  <2> QED
    BY <1>4, <2>1, <2>2 DEF InOrder
<1> QED
  BY <1>1, <1>3, <1>8, <1>9

(* One line, one part, and none.                                           *)
LEMMA OneLine ==
  ASSUME NEW e \in Nat
  PROVE  <<e>> \in Seq(Nat) /\ Elements(<<e>>) = {e} /\ Rising(<<e>>)
<1>1. PICK u : u = <<e>>
  OBVIOUS
<1>2. u \in Seq(Nat) /\ DOMAIN u = {1} /\ u[1] = e
  BY <1>1
<1>3. Elements(u) = {e}
  BY <1>2 DEF Elements
<1>4. Rising(u)
  BY <1>2 DEF Rising
<1> QED
  BY <1>1, <1>2, <1>3, <1>4

(* One buffer.                                                             *)
LEMMA OnePart ==
  ASSUME NEW s \in Seq(Nat)
  PROVE  /\ <<s>> \in Seq(Seq(Nat)) /\ LinesOf(<<s>>) = Elements(s)
         /\ Rising(s) => InOrder(<<s>>)
<1>1. PICK u : u = <<s>>
  OBVIOUS
<1>2. u \in Seq(Seq(Nat)) /\ DOMAIN u = {1} /\ u[1] = s
  BY <1>1
<1>3. LinesOf(u) = Elements(s)
  BY <1>2 DEF LinesOf
<1>4. Rising(s) => InOrder(u)
  BY <1>2 DEF InOrder
<1> QED
  BY <1>1, <1>2, <1>3, <1>4

(* None.                                                                   *)
LEMMA NoPart ==
  /\ <<>> \in Seq(Seq(Nat)) /\ LinesOf(<<>>) = {} /\ InOrder(<<>>)
  /\ <<>> \in Seq(Nat) /\ Elements(<<>>) = {} /\ Rising(<<>>)
<1>1. DOMAIN <<>> = {} /\ \A D : <<>> \in Seq(D)
  OBVIOUS
<1>2. LinesOf(<<>>) = {} /\ Elements(<<>>) = {}
  BY <1>1 DEF LinesOf, Elements
<1>3. InOrder(<<>>) /\ Rising(<<>>)
  BY <1>1 DEF InOrder, Rising
<1> QED
  BY <1>1, <1>2, <1>3

(* What appending to a sequence makes.                                     *)
LEMMA LinesAppend ==
  ASSUME NEW s \in Seq(Nat), NEW e \in Nat
  PROVE  /\ Append(s, e) \in Seq(Nat)
         /\ Elements(Append(s, e)) = Elements(s) \cup {e}
         /\ Rising(s) /\ Below(Elements(s), {e}) => Rising(Append(s, e))
<1>1. Append(s, e) = s \o <<e>>
  BY AppendIsConcat
<1> QED
  BY <1>1, OneLine, LinesConcat

(* A buffer behind the others.                                             *)
LEMMA PartsAppend ==
  ASSUME NEW s \in Seq(Seq(Nat)), NEW e \in Seq(Nat)
  PROVE  /\ Append(s, e) \in Seq(Seq(Nat))
         /\ LinesOf(Append(s, e)) = LinesOf(s) \cup Elements(e)
         /\ InOrder(s) /\ Rising(e) /\ Below(LinesOf(s), Elements(e)) =>
              InOrder(Append(s, e))
<1>1. Append(s, e) = s \o <<e>>
  BY AppendIsConcat
<1> QED
  BY <1>1, OnePart, PartsConcat

-----------------------------------------------------------------------------
(* The files.                                                              *)

(* The places of the notices.                                              *)
LEMMA NoticeIs ==
  ASSUME NEW parts
  PROVE  /\ \A f \in DOMAIN parts : \A i \in DOMAIN parts[f] :
              parts[f][i] = 0 => <<f, i>> \in NoticesOf(parts)
         /\ \A z \in NoticesOf(parts) :
              \E f \in DOMAIN parts : \E i \in DOMAIN parts[f] :
                parts[f][i] = 0 /\ z = <<f, i>>
BY DEF NoticesOf

(* Where they can be at most.                                              *)
LEMMA NoticesWithin ==
  ASSUME NEW parts, NEW D,
         \A f \in DOMAIN parts : \A i \in DOMAIN parts[f] :
           parts[f][i] = 0 => <<f, i>> \in D
  PROVE  NoticesOf(parts) \subseteq D
BY DEF NoticesOf

(* The files g are the files f and what was written.                       *)
Written(f, data, g) ==
  /\ g \in Seq(Seq(Nat)) /\ g # <<>>
  /\ LinesOf(g) = LinesOf(f) \cup Elements(data)
  /\ InOrder(f) /\ Rising(data) /\ Below(LinesOf(f), Elements(data)) =>
       InOrder(g)
  /\ 0 \notin Elements(data) => NoticesOf(g) = NoticesOf(f)
  /\ data = << 0 >> =>
       \E z : z \notin NoticesOf(f) /\ NoticesOf(g) = NoticesOf(f) \cup {z}

(* What is written comes behind the last of the files.                     *)
LEMMA LastFileGrows ==
  ASSUME NEW f \in Seq(Seq(Nat)), f # <<>>, NEW data \in Seq(Nat)
  PROVE  \A g : g = [f EXCEPT ![Len(f)] = @ \o data] => Written(f, data, g)
<1> SUFFICES ASSUME NEW g, g = [f EXCEPT ![Len(f)] = @ \o data]
             PROVE  Written(f, data, g)
  OBVIOUS
<1>1. PICK n \in Nat \ {0} : n = Len(f)
  BY EmptySeq, LenProperties
<1>2. DOMAIN f = 1 .. n /\ f[n] \in Seq(Nat) /\ n \in 1 .. n
  BY <1>1, LenProperties, ElementOfSeq
<1>3. PICK last : last = f[n]
  OBVIOUS
<1>4. /\ last \o data \in Seq(Nat)
      /\ Elements(last \o data) = Elements(last) \cup Elements(data)
      /\ Rising(last) /\ Rising(data) /\ Below(Elements(last), Elements(data)) =>
           Rising(last \o data)
  BY <1>2, <1>3, LinesConcat
<1>5. PICK longer : longer = last \o data
  OBVIOUS
<1>6. /\ g \in Seq(Seq(Nat)) /\ Len(g) = n /\ DOMAIN g = 1 .. n
      /\ g[n] = longer /\ \A p \in 1 .. n : p # n => g[p] = f[p]
  <2>1. g = [f EXCEPT ![n] = longer]
    BY <1>1, <1>2, <1>3, <1>5
  <2>2. g \in Seq(Seq(Nat)) /\ Len(g) = n
    BY <1>1, <1>2, <1>4, <1>5, <2>1, ExceptSeq
  <2> QED
    BY <1>2, <2>1, <2>2, LenProperties
<1>7. g # <<>>
  BY <1>6, EmptySeq
<1>8. LinesOf(g) = LinesOf(f) \cup Elements(data)
  <2>1. \A p \in 1 .. n : /\ Elements(f[p]) \subseteq Elements(g[p])
                          /\ Elements(g[p]) \subseteq
                               Elements(f[p]) \cup Elements(data)
    BY <1>3, <1>4, <1>5, <1>6
  <2>2. Elements(data) \subseteq Elements(g[n])
    BY <1>4, <1>5, <1>6
  <2>3. LinesOf(f) \subseteq LinesOf(g)
    <3> SUFFICES ASSUME NEW p \in 1 .. n
                 PROVE  Elements(f[p]) \subseteq LinesOf(g)
      BY <1>2 DEF LinesOf
    <3> QED
      BY <1>6, <2>1 DEF LinesOf
  <2>4. Elements(data) \subseteq LinesOf(g)
    BY <1>2, <1>6, <2>2 DEF LinesOf
  <2>5. LinesOf(g) \subseteq LinesOf(f) \cup Elements(data)
    BY <1>2, <1>6, <2>1 DEF LinesOf
  <2> QED
    BY <2>3, <2>4, <2>5
<1>9. ASSUME InOrder(f), Rising(data), Below(LinesOf(f), Elements(data))
      PROVE  InOrder(g)
  <2>1. \A p \in 1 .. n : Elements(f[p]) \subseteq LinesOf(f)
    BY <1>2 DEF LinesOf
  <2>2. \A p \in 1 .. n : Below(Elements(f[p]), Elements(data))
    BY <1>9, <2>1 DEF Below
  <2>3. ASSUME NEW p \in 1 .. n
        PROVE  Rising(g[p])
    BY <1>2, <1>3, <1>4, <1>5, <1>6, <1>9, <2>2 DEF InOrder
  <2>4. ASSUME NEW p \in 1 .. n, NEW q \in 1 .. n, p < q
        PROVE  Below(Elements(g[p]), Elements(g[q]))
    <3>1. g[p] = f[p]
      BY <1>6, <2>4
    <3>2. Below(Elements(f[p]), Elements(f[q]))
      BY <1>2, <1>9, <2>4 DEF InOrder
    <3>3. CASE q = n
      <4>1. Elements(g[q]) = Elements(f[q]) \cup Elements(data)
        BY <1>3, <1>4, <1>5, <1>6, <3>3
      <4> QED
        BY <2>2, <3>1, <3>2, <4>1 DEF Below
    <3>4. CASE q # n
      BY <1>6, <3>1, <3>2, <3>4
    <3> QED
      BY <3>3, <3>4
  <2> QED
    BY <1>6, <2>3, <2>4 DEF InOrder
<1>10. PICK m \in Nat, k \in Nat :
         /\ m = Len(last) /\ k = Len(data)
         /\ DOMAIN last = 1 .. m /\ DOMAIN data = 1 .. k
  BY <1>2, <1>3, LenProperties
<1>11. /\ DOMAIN longer = 1 .. m + k
       /\ \A i \in 1 .. m + k :
            longer[i] = IF i <= m THEN last[i] ELSE data[i - m]
  BY <1>2, <1>3, <1>4, <1>5, <1>10, ConcatProperties, LenProperties
<1>12. NoticesOf(f) \subseteq NoticesOf(g)
  <2> SUFFICES \A p \in 1 .. n : \A i \in DOMAIN f[p] :
                  f[p][i] = 0 => <<p, i>> \in NoticesOf(g)
    BY <1>2, NoticesWithin
  <2> SUFFICES ASSUME NEW p \in 1 .. n, NEW i \in DOMAIN f[p],
                      f[p][i] = 0
               PROVE  <<p, i>> \in NoticesOf(g)
    OBVIOUS
  <2>1. i \in DOMAIN g[p] /\ g[p][i] = 0
    <3>1. CASE p = n
      <4>1. i \in 1 .. m
        BY <1>3, <1>10, <3>1
      <4>2. i \in 1 .. m + k /\ i <= m
        BY <4>1
      <4> QED
        BY <1>3, <1>6, <1>11, <3>1, <4>2
    <3>2. CASE p # n
      BY <1>6, <3>2
    <3> QED
      BY <3>1, <3>2
  <2> QED
    BY <1>6, <2>1, NoticeIs
<1>13. \A p \in 1 .. n : \A i \in DOMAIN g[p] :
         g[p][i] = 0 =>
           \/ i \in DOMAIN f[p] /\ f[p][i] = 0
           \/ p = n /\ i - m \in 1 .. k /\ data[i - m] = 0 /\ i \in 1 .. m + k
  <2> SUFFICES ASSUME NEW p \in 1 .. n, NEW i \in DOMAIN g[p], g[p][i] = 0
               PROVE  \/ i \in DOMAIN f[p] /\ f[p][i] = 0
                      \/ /\ p = n /\ i - m \in 1 .. k /\ data[i - m] = 0
                         /\ i \in 1 .. m + k
    OBVIOUS
  <2>1. CASE p # n
    BY <1>6, <2>1
  <2>2. CASE p = n
    <3>1. /\ i \in 1 .. m + k /\ longer[i] = 0
          /\ longer[i] = IF i <= m THEN last[i] ELSE data[i - m]
      BY <1>6, <1>11, <2>2
    <3>2. CASE i <= m
      <4>1. i \in 1 .. m
        BY <3>1, <3>2
      <4> QED
        BY <1>3, <1>10, <2>2, <3>1, <3>2, <4>1
    <3>3. CASE i > m
      BY <2>2, <3>1, <3>3
    <3> QED
      BY <3>1, <3>2, <3>3
  <2> QED
    BY <2>1, <2>2
<1>14. ASSUME 0 \notin Elements(data)
       PROVE  NoticesOf(g) = NoticesOf(f)
  <2>1. \A i \in 1 .. k : data[i] # 0
    BY <1>10, <1>14 DEF Elements
  <2>2. NoticesOf(g) \subseteq NoticesOf(f)
    <3> SUFFICES \A p \in 1 .. n : \A i \in DOMAIN g[p] :
                    g[p][i] = 0 => <<p, i>> \in NoticesOf(f)
      BY <1>6, NoticesWithin
    <3> SUFFICES ASSUME NEW p \in 1 .. n, NEW i \in DOMAIN g[p],
                        g[p][i] = 0
                 PROVE  <<p, i>> \in NoticesOf(f)
      OBVIOUS
    <3>1. i \in DOMAIN f[p] /\ f[p][i] = 0
      BY <1>13, <2>1
    <3> QED
      BY <1>2, <3>1, NoticeIs
  <2> QED
    BY <1>12, <2>2
<1>15. ASSUME data = << 0 >>
       PROVE  \E z : z \notin NoticesOf(f) /\ NoticesOf(g) = NoticesOf(f) \cup {z}
  <2>1. k = 1 /\ data[1] = 0
    BY <1>10, <1>15
  <2>2. /\ m + 1 \in DOMAIN longer /\ longer[m + 1] = 0
        /\ m + 1 \notin DOMAIN last
    BY <1>10, <1>11, <2>1
  <2>3. <<n, m + 1>> \in NoticesOf(g)
    BY <1>2, <1>6, <2>2, NoticeIs
  <2>4. <<n, m + 1>> \notin NoticesOf(f)
    <3> SUFFICES ASSUME NEW p \in DOMAIN f, NEW i \in DOMAIN f[p],
                        <<n, m + 1>> = <<p, i>>
                 PROVE  FALSE
      BY NoticeIs
    <3>1. n = p /\ m + 1 = i
      OBVIOUS
    <3> QED
      BY <1>3, <2>2, <3>1
  <2>5. NoticesOf(g) \subseteq NoticesOf(f) \cup {<<n, m + 1>>}
    <3>0. PICK D : D = NoticesOf(f) \cup {<<n, m + 1>>}
      OBVIOUS
    <3> SUFFICES NoticesOf(g) \subseteq D
      BY <3>0
    <3> SUFFICES \A p \in 1 .. n : \A i \in DOMAIN g[p] :
                    g[p][i] = 0 => <<p, i>> \in D
      BY <1>6, NoticesWithin
    <3> SUFFICES ASSUME NEW p \in 1 .. n, NEW i \in DOMAIN g[p],
                        g[p][i] = 0
                 PROVE  <<p, i>> \in D
      OBVIOUS
    <3>1. CASE i \in DOMAIN f[p] /\ f[p][i] = 0
      BY <1>2, <3>0, <3>1, NoticeIs
    <3>2. CASE p = n /\ i - m \in 1 .. k /\ i \in 1 .. m + k
      <4>1. i = m + 1
        BY <2>1, <3>2
      <4> QED
        BY <3>0, <3>2, <4>1
    <3> QED
      BY <1>13, <3>1, <3>2
  <2>6. NoticesOf(g) = NoticesOf(f) \cup {<<n, m + 1>>}
    BY <1>12, <2>3, <2>5
  <2> QED
    BY <2>4, <2>6
<1> QED
  BY <1>6, <1>7, <1>8, <1>9, <1>14, <1>15 DEF Written

(* A new file is empty.                                                    *)
LEMMA NewFile ==
  ASSUME NEW f \in Seq(Seq(Nat))
  PROVE  /\ Append(f, <<>>) \in Seq(Seq(Nat)) /\ Append(f, <<>>) # <<>>
         /\ LinesOf(Append(f, <<>>)) = LinesOf(f)
         /\ InOrder(f) => InOrder(Append(f, <<>>))
         /\ NoticesOf(Append(f, <<>>)) = NoticesOf(f)
<1>1. PICK g : g = Append(f, <<>>)
  OBVIOUS
<1>2. Below(LinesOf(f), {})
  BY DEF Below
<1>3. /\ g \in Seq(Seq(Nat)) /\ LinesOf(g) = LinesOf(f)
      /\ InOrder(f) => InOrder(g)
  BY <1>1, <1>2, NoPart, PartsAppend
<1>4. PICK n \in Nat : n = Len(f) /\ DOMAIN f = 1 .. n
  BY LenProperties
<1>5. /\ Len(g) = n + 1 /\ DOMAIN g = 1 .. n + 1 /\ g[n + 1] = <<>>
      /\ \A p \in 1 .. n : g[p] = f[p]
  BY <1>1, <1>3, <1>4, NoPart, AppendProperties, LenProperties
<1>6. g # <<>>
  BY <1>3, <1>5, EmptySeq
<1>7. \A p \in 1 .. n + 1 : p \in 1 .. n \/ p = n + 1
  OBVIOUS
<1>8. NoticesOf(g) = NoticesOf(f)
  <2>1. NoticesOf(f) \subseteq NoticesOf(g)
    <3> SUFFICES \A p \in 1 .. n : \A i \in DOMAIN f[p] :
                    f[p][i] = 0 => <<p, i>> \in NoticesOf(g)
      BY <1>4, NoticesWithin
    <3> SUFFICES ASSUME NEW p \in 1 .. n, NEW i \in DOMAIN f[p],
                        f[p][i] = 0
                 PROVE  <<p, i>> \in NoticesOf(g)
      OBVIOUS
    <3>1. p \in 1 .. n + 1 /\ g[p] = f[p]
      BY <1>5
    <3> QED
      BY <1>5, <3>1, NoticeIs
  <2>2. NoticesOf(g) \subseteq NoticesOf(f)
    <3> SUFFICES \A p \in 1 .. n + 1 : \A i \in DOMAIN g[p] :
                    g[p][i] = 0 => <<p, i>> \in NoticesOf(f)
      BY <1>5, NoticesWithin
    <3> SUFFICES ASSUME NEW p \in 1 .. n + 1, NEW i \in DOMAIN g[p],
                        g[p][i] = 0
                 PROVE  <<p, i>> \in NoticesOf(f)
      OBVIOUS
    <3>1. p \in 1 .. n
      BY <1>5, <1>7
    <3> QED
      BY <1>4, <1>5, <3>1, NoticeIs
  <2> QED
    BY <2>1, <2>2
<1> QED
  BY <1>1, <1>3, <1>6, <1>8

(* What append() to the file does to the files.                            *)
LEMMA DataWritten ==
  ASSUME LogTypes, NEW data \in Seq(Nat), L!AppendToFile(data)
  PROVE  Written(files, data, files')
<1>1. PICK f : f = files
  OBVIOUS
<1>2. f \in Seq(Seq(Nat)) /\ f # <<>>
  BY <1>1 DEF LogTypes
<1>3. PICK g : g = [f EXCEPT ![Len(f)] = @ \o data]
  OBVIOUS
<1>4. files' = g \/ files' = Append(g, <<>>)
  BY <1>1, <1>3 DEF L!AppendToFile, L!RollFile, L!FilesWith
<1>5. Written(f, data, g)
  BY <1>2, <1>3, LastFileGrows
<1>6. Written(f, data, Append(g, <<>>))
  BY <1>5, NewFile DEF Written
<1> QED
  BY <1>1, <1>4, <1>5, <1>6

(* What has not been written: one buffer less, and all but two less.       *)
LEMMA PartsSplit ==
  ASSUME NEW s \in Seq(Seq(Nat)), NEW t \in Seq(Seq(Nat)), InOrder(s \o t)
  PROVE  InOrder(s) /\ InOrder(t) /\ Below(LinesOf(s), LinesOf(t))
<1>1. PICK u : u = s \o t
  OBVIOUS
<1>2. PICK m \in Nat, n \in Nat : m = Len(s) /\ n = Len(t)
  BY LenProperties
<1>3. /\ u \in Seq(Seq(Nat)) /\ Len(u) = m + n
      /\ \A i \in 1 .. m + n : u[i] = IF i <= m THEN s[i] ELSE t[i - m]
  BY <1>1, <1>2, ConcatProperties
<1>4. DOMAIN u = 1 .. m + n /\ DOMAIN s = 1 .. m /\ DOMAIN t = 1 .. n
  BY <1>2, <1>3, LenProperties
<1>5. \A i \in 1 .. m : u[i] = s[i] /\ i \in 1 .. m + n
  BY <1>3
<1>6. \A i \in 1 .. n : u[m + i] = t[i] /\ m + i \in 1 .. m + n
  BY <1>3
<1>7. InOrder(u)
  BY <1>1
<1>8. InOrder(s)
  <2>1. \A i \in 1 .. m : Rising(s[i])
    BY <1>4, <1>5, <1>7 DEF InOrder
  <2>2. ASSUME NEW i \in 1 .. m, NEW j \in 1 .. m, i < j
        PROVE  Below(Elements(s[i]), Elements(s[j]))
    BY <1>4, <1>5, <1>7, <2>2 DEF InOrder
  <2> QED
    BY <1>4, <2>1, <2>2 DEF InOrder
<1>9. InOrder(t)
  <2>1. \A i \in 1 .. n : Rising(t[i])
    BY <1>4, <1>6, <1>7 DEF InOrder
  <2>2. ASSUME NEW i \in 1 .. n, NEW j \in 1 .. n, i < j
        PROVE  Below(Elements(t[i]), Elements(t[j]))
    <3>1. /\ m + i \in 1 .. m + n /\ m + j \in 1 .. m + n /\ m + i < m + j
          /\ u[m + i] = t[i] /\ u[m + j] = t[j]
      BY <1>6, <2>2
    <3> QED
      BY <1>4, <1>7, <3>1 DEF InOrder
  <2> QED
    BY <1>4, <2>1, <2>2 DEF InOrder
<1>10. Below(LinesOf(s), LinesOf(t))
  <2> SUFFICES ASSUME NEW i \in 1 .. m, NEW j \in 1 .. n
               PROVE  Below(Elements(s[i]), Elements(t[j]))
    BY <1>4 DEF Below, LinesOf
  <2>1. /\ i \in 1 .. m + n /\ m + j \in 1 .. m + n /\ i < m + j
        /\ u[i] = s[i] /\ u[m + j] = t[j]
    BY <1>5, <1>6
  <2> QED
    BY <1>4, <1>7, <2>1 DEF InOrder
<1> QED
  BY <1>8, <1>9, <1>10

FirstAndRest(first, rest, all) ==
  /\ first \in Seq(Nat) /\ LinesOf(all) = Elements(first) \cup LinesOf(rest)
  /\ InOrder(all) => /\ Rising(first) /\ InOrder(rest)
                     /\ Below(Elements(first), LinesOf(rest))

(* The next buffer to be written, and those behind it.                     *)
LEMMA FirstPart ==
  ASSUME NEW s \in Seq(Seq(Nat)), NEW w \in Nat, w < Len(s)
  PROVE  FirstAndRest(s[w + 1], SubSeq(s, w + 2, Len(s)),
                      SubSeq(s, w + 1, Len(s)))
<1>0. PICK rest, all :
        rest = SubSeq(s, w + 2, Len(s)) /\ all = SubSeq(s, w + 1, Len(s))
  OBVIOUS
<1>1. PICK n \in Nat : n = Len(s)
  BY LenProperties
<1>2. w + 1 \in 1 .. n /\ DOMAIN s = 1 .. n
  BY <1>1, LenProperties
<1>3. PICK first : first = s[w + 1]
  OBVIOUS
<1>4. first \in Seq(Nat)
  BY <1>1, <1>2, <1>3, ElementOfSeq
<1>5. rest \in Seq(Seq(Nat)) /\ all \in Seq(Seq(Nat))
  <2>1. /\ n \in 1 .. n /\ w + 1 \in 1 .. n + 1 /\ w + 2 \in 1 .. n + 1
        /\ \A i \in (w + 1) .. n : i \in 1 .. n
        /\ \A i \in (w + 2) .. n : i \in 1 .. n
    BY <1>2
  <2> QED
    BY <1>0, <1>1, <2>1, SubSeqProperties
<1>6. all = <<first>> \o rest
  <2>1. w + 1 \in 1 .. n + 1 /\ w + 1 \in (w + 1) - 1 .. n /\ n \in (w + 1) .. n
        /\ (w + 1) + 1 = w + 2
    BY <1>2
  <2>2. SubSeq(s, w + 1, w + 1) \o SubSeq(s, (w + 1) + 1, n) = SubSeq(s, w + 1, n)
    BY <1>1, <2>1, ConcatAdjacentSubSeq
  <2>3. SubSeq(s, w + 1, w + 1) = <<first>>
    <3>1. \A i \in (w + 1) .. (w + 1) : s[i] \in Seq(Nat)
      BY <1>3, <1>4
    <3>2. PICK u : u = SubSeq(s, w + 1, w + 1)
      OBVIOUS
    <3>3. /\ u \in Seq(Seq(Nat)) /\ Len(u) = 1
          /\ \A i \in 1 .. 1 : u[i] = s[(w + 1) + i - 1]
      <4>1. w + 1 \in Int /\ w + 1 <= w + 1 /\ (w + 1) - (w + 1) + 1 = 1
        OBVIOUS
      <4> QED
        BY <3>1, <3>2, <4>1, SubSeqProperties
    <3>4. u[1] = first
      BY <1>3, <3>3
    <3>5. PICK v : v = <<first>>
      OBVIOUS
    <3>6. v \in Seq(Seq(Nat)) /\ Len(v) = 1 /\ v[1] = first
      BY <1>4, <3>5
    <3>7. \A i \in 1 .. Len(u) : u[i] = v[i]
      BY <3>3, <3>4, <3>6
    <3> QED
      BY <3>2, <3>3, <3>5, <3>6, <3>7, SeqEqual
  <2> QED
    BY <1>0, <1>1, <2>1, <2>2, <2>3
<1>7. <<first>> \in Seq(Seq(Nat)) /\ LinesOf(<<first>>) = Elements(first)
  BY <1>4, OnePart
<1>8. LinesOf(all) = Elements(first) \cup LinesOf(rest)
  BY <1>5, <1>6, <1>7, PartsConcat
<1>9. ASSUME InOrder(all)
      PROVE  /\ Rising(first) /\ InOrder(rest)
             /\ Below(Elements(first), LinesOf(rest))
  <2>1. InOrder(<<first>>) /\ InOrder(rest)
        /\ Below(LinesOf(<<first>>), LinesOf(rest))
    BY <1>5, <1>6, <1>7, <1>9, PartsSplit
  <2>2. 1 \in DOMAIN <<first>> /\ <<first>>[1] = first
    OBVIOUS
  <2>3. Rising(first)
    BY <2>1, <2>2 DEF InOrder
  <2> QED
    BY <1>7, <2>1, <2>3
<1> QED
  BY <1>0, <1>3, <1>4, <1>8, <1>9 DEF FirstAndRest

TwoAndGone(kept, gone, s) ==
  /\ kept \in Seq(Seq(Nat)) /\ Len(kept) = 2 /\ InOrder(kept)
  /\ LinesOf(s) = LinesOf(kept) \cup gone /\ Below(LinesOf(kept), gone)

(* The first two of the buffers, and the lines of the others.              *)
LEMMA FirstTwo ==
  ASSUME NEW s \in Seq(Seq(Nat)), Len(s) >= 2, InOrder(s)
  PROVE  TwoAndGone(SubSeq(s, 1, 2),
                    UNION {Elements(s[i]) : i \in 3 .. Len(s)}, s)
<1>0. PICK kept, gone : /\ kept = SubSeq(s, 1, 2)
                        /\ gone = UNION {Elements(s[i]) : i \in 3 .. Len(s)}
  OBVIOUS
<1>1. PICK n \in Nat : n = Len(s) /\ n >= 2
  BY LenProperties
<1>2. PICK rest : rest = SubSeq(s, 3, n)
  OBVIOUS
<1>3. /\ 1 \in 1 .. n + 1 /\ 2 \in 1 .. n /\ 2 \in 1 - 1 .. n /\ n \in 2 .. n
      /\ 3 \in 1 .. n + 1
      /\ \A i \in 1 .. 2 : i \in 1 .. n
      /\ \A i \in 3 .. n : i \in 1 .. n
  BY <1>1
<1>4. kept \in Seq(Seq(Nat)) /\ Len(kept) = 2
  BY <1>0, <1>1, <1>3, SubSeqProperties
<1>5. /\ rest \in Seq(Seq(Nat)) /\ Len(rest) = n - 2
      /\ \A i \in 1 .. n - 2 : rest[i] = s[3 + i - 1]
  <2>1. \A i \in 3 .. n : s[i] \in Seq(Nat)
    BY <1>1, <1>3
  <2>2. /\ rest \in Seq(Seq(Nat)) /\ Len(rest) = IF 3 <= n THEN n - 3 + 1 ELSE 0
        /\ \A i \in 1 .. n - 3 + 1 : rest[i] = s[3 + i - 1]
    BY <1>2, <2>1, SubSeqProperties
  <2>3. n - 3 + 1 = n - 2 /\ (~(3 <= n) => n - 2 = 0)
    BY <1>1
  <2> QED
    BY <2>2, <2>3
<1>6. s = kept \o rest
  <2>1. SubSeq(s, 1, 2) \o SubSeq(s, 2 + 1, n) = SubSeq(s, 1, n)
    BY <1>1, <1>3, ConcatAdjacentSubSeq
  <2>2. SubSeq(s, 1, n) = s
    BY <1>1, SubSeqFull
  <2> QED
    BY <1>0, <1>2, <2>1, <2>2
<1>7. LinesOf(rest) = gone
  <2>1. DOMAIN rest = 1 .. n - 2
    BY <1>5, LenProperties
  <2>2. \A i \in 1 .. n - 2 : i + 2 \in 3 .. n /\ rest[i] = s[i + 2]
    BY <1>1, <1>5
  <2>3. \A i \in 3 .. n : i - 2 \in 1 .. n - 2 /\ rest[i - 2] = s[i]
    BY <1>1, <1>5
  <2>4. LinesOf(rest) \subseteq gone
    BY <1>0, <1>1, <2>1, <2>2 DEF LinesOf
  <2>5. gone \subseteq LinesOf(rest)
    BY <1>0, <1>1, <2>1, <2>3 DEF LinesOf
  <2> QED
    BY <2>4, <2>5
<1>8. LinesOf(s) = LinesOf(kept) \cup LinesOf(rest)
  BY <1>4, <1>5, <1>6, PartsConcat
<1>9. InOrder(kept) /\ Below(LinesOf(kept), LinesOf(rest))
  <2>1. InOrder(kept \o rest)
    BY <1>6
  <2> QED
    BY <1>4, <1>5, <2>1, PartsSplit
<1> QED
  BY <1>0, <1>4, <1>7, <1>8, <1>9 DEF TwoAndGone

-----------------------------------------------------------------------------
(* A line goes into the current buffer, or a full one joins the others.    *)
LEMMA PutStep ==
  ASSUME LogInv, L!Put(lines + 1), lines' = lines + 1,
         writer' = writer, dropped' = dropped, files' = files
  PROVE  LogInv'
<1>1. PICK n : n = lines + 1
  OBVIOUS
<1>2. n \in Nat /\ n # 0 /\ lines' = n /\ \A x \in 1 .. lines : x < n
  BY <1>1 DEF LogInv, LogTypes
<1>3. /\ LinesOf(files) \cup LinesOf(Unwritten) \cup LinesOf(buffers)
           \cup Elements(current) \subseteq 1 .. lines \cup {0}
      /\ 1 .. n = 1 .. lines \cup {n} /\ n \notin 1 .. lines
  <2>1. LinesOf(files) \cup LinesOf(Unwritten) \cup LinesOf(buffers)
          \cup Elements(current) \subseteq 1 .. lines \cup {0}
    BY DEF LogInv, LinesKept
  <2>2. lines \in Nat
    BY DEF LogInv, LogTypes
  <2> QED
    BY <1>1, <2>1, <2>2
<1>4. /\ Below(LinesOf(files), {n}) /\ Below(LinesOf(Unwritten), {n})
      /\ Below(LinesOf(buffers), {n}) /\ Below(Elements(current), {n})
  BY <1>2, <1>3 DEF Below
<1>5. Unwritten' = Unwritten
  BY DEF Unwritten
<1>6. /\ dropped \in [lines : SUBSET (1 .. lines), times : Nat]
      /\ dropped \in [lines : SUBSET (1 .. n), times : Nat]
      /\ n \notin dropped.lines
  BY <1>2, <1>3 DEF LogInv, LogTypes
<1>7. CASE /\ current' = Append(current, n)
           /\ next' = next /\ buffers' = buffers
  <2>1. /\ current' \in Seq(Nat) /\ Rising(current')
        /\ Elements(current') = Elements(current) \cup {n}
    BY <1>2, <1>4, <1>7, LinesAppend DEF LogInv, LogTypes, PlacesInOrder
  <2>2. LogTypes'
    BY <1>2, <1>6, <1>7, <2>1 DEF LogInv, LogTypes
  <2>3. TakenSound'
    BY <1>7 DEF LogInv, TakenSound
  <2>4. PlacesInOrder'
    BY <1>4, <1>5, <1>7, <2>1 DEF LogInv, PlacesInOrder, Below
  <2>5. LinesKept'
    BY <1>2, <1>3, <1>5, <1>6, <1>7, <2>1 DEF LogInv, LinesKept
  <2> QED
    BY <2>2, <2>3, <2>4, <2>5 DEF LogInv, NoticesCounted
<1>8. CASE /\ buffers' = Append(buffers, current)
           /\ current' = <<n>> /\ next' = FALSE
  <2>1. current' \in Seq(Nat) /\ Rising(current') /\ Elements(current') = {n}
    BY <1>2, <1>8, OneLine
  <2>2. /\ buffers' \in Seq(Seq(Nat)) /\ InOrder(buffers')
        /\ LinesOf(buffers') = LinesOf(buffers) \cup Elements(current)
    BY <1>8, PartsAppend DEF LogInv, LogTypes, PlacesInOrder
  <2>3. buffers' # <<>>
    <3>1. Len(buffers') = Len(buffers) + 1 /\ Len(buffers) \in Nat
      BY <1>8, AppendProperties, LenProperties DEF LogInv, LogTypes
    <3> QED
      BY <2>2, <3>1, EmptySeq
  <2>4. LogTypes'
    BY <1>2, <1>6, <1>8, <2>1, <2>2 DEF LogInv, LogTypes
  <2>5. TakenSound'
    BY <1>8, <2>3 DEF LogInv, TakenSound
  <2>6. PlacesInOrder'
    BY <1>4, <1>5, <1>8, <2>1, <2>2 DEF LogInv, PlacesInOrder, Below
  <2>7. LinesKept'
    <3>1. LinesOf(buffers') \cup Elements(current') =
            LinesOf(buffers) \cup Elements(current) \cup {n}
      BY <2>1, <2>2
    <3>2. (LinesOf(files) \ {0}) \cup LinesOf(Unwritten) \cup LinesOf(buffers')
            \cup Elements(current') = (1 .. lines \ dropped.lines) \cup {n}
      BY <3>1 DEF LogInv, LinesKept
    <3>3. (1 .. lines \ dropped.lines) \cup {n} = 1 .. n \ dropped.lines
      BY <1>3, <1>6
    <3>4. 0 \notin LinesOf(Unwritten) \cup LinesOf(buffers') \cup Elements(current')
      BY <1>2, <3>1 DEF LogInv, LinesKept
    <3> QED
      BY <1>2, <1>5, <3>2, <3>3, <3>4 DEF LinesKept
  <2> QED
    BY <2>4, <2>5, <2>6, <2>7 DEF LogInv, NoticesCounted
<1> QED
  BY <1>1, <1>7, <1>8 DEF L!Put

(* Nothing of this changes.                                                *)
LEMMA LogStutter ==
  ASSUME LogInv,
         UNCHANGED <<lines, current, next, buffers, writer, dropped, files>>
  PROVE  LogInv'
BY DEF LogInv, LogTypes, TakenSound, PlacesInOrder, LinesKept, NoticesCounted,
       Unwritten

(* The thread looks at the time, and begins again.                         *)
LEMMA CheckStep ==
  ASSUME LogInv, L!Check
  PROVE  LogInv'
<1>1. /\ writer.stage = "loop"
      /\ \E to \in {"wait", "ended"} : writer' = [writer EXCEPT !.stage = to]
      /\ lines' = lines /\ current' = current /\ next' = next
      /\ buffers' = buffers /\ dropped' = dropped /\ files' = files
  BY DEF L!Check, L!WriterAt
<1>2. PICK to \in {"wait", "ended"} : writer' = [writer EXCEPT !.stage = to]
  BY <1>1
<1>3. /\ writer'.stage = to /\ writer'.toWrite = writer.toWrite
      /\ writer'.written = writer.written /\ writer'.new2 = writer.new2
  BY <1>2 DEF LogInv, LogTypes
<1>4. Unwritten' = Unwritten
  BY <1>3 DEF Unwritten
<1>5. LogTypes'
  BY <1>1, <1>2 DEF LogInv, LogTypes
<1>6. TakenSound'
  BY <1>1, <1>3 DEF LogInv, TakenSound
<1> QED
  BY <1>1, <1>4, <1>5, <1>6
     DEF LogInv, PlacesInOrder, LinesKept, NoticesCounted

(* When all buffers are written, no line waits.                            *)
LEMMA NothingUnwritten ==
  ASSUME LogTypes, writer.written = Len(writer.toWrite)
  PROVE  Unwritten = <<>>
<1>1. Len(writer.toWrite) \in Nat
  BY LenProperties DEF LogTypes
<1> QED
  BY <1>1, SubSeqEmpty DEF Unwritten

(* The two buffers go back, and the thread begins again.                   *)
LEMMA RecycleStep ==
  ASSUME LogInv, L!Recycle
  PROVE  LogInv'
<1>1. /\ writer.written = Len(writer.toWrite)
      /\ writer' = [stage |-> "loop", new1 |-> TRUE, new2 |-> TRUE,
                    toWrite |-> <<>>, written |-> 0]
      /\ lines' = lines /\ current' = current /\ next' = next
      /\ buffers' = buffers /\ dropped' = dropped /\ files' = files
  BY DEF L!Recycle
<1>2. LogTypes'
  BY <1>1, NoPart DEF LogInv, LogTypes
<1>3. writer'.written = Len(writer'.toWrite)
  BY <1>1, EmptySeq
<1>4. Unwritten = <<>> /\ Unwritten' = <<>>
  BY <1>1, <1>2, <1>3, NothingUnwritten, SubSeqEmpty DEF LogInv, Unwritten
<1>5. TakenSound'
  BY <1>1, <1>3 DEF LogInv, TakenSound
<1> QED
  BY <1>1, <1>2, <1>4, <1>5
     DEF LogInv, PlacesInOrder, LinesKept, NoticesCounted

(* The full buffers and the current one become what is to be written.      *)
LEMMA SwapStep ==
  ASSUME LogInv, L!Swap
  PROVE  LogInv'
<1>1. /\ writer.stage = "wait" /\ writer.toWrite = <<>> /\ writer.written = 0
      /\ writer.new2
      /\ writer' = [stage |-> "drop", new1 |-> FALSE,
                    new2 |-> writer.new2 /\ next,
                    toWrite |-> Append(buffers, current), written |-> 0]
      /\ current' = <<>> /\ buffers' = <<>> /\ next' = TRUE
      /\ lines' = lines /\ dropped' = dropped /\ files' = files
  BY DEF L!Swap, L!WriterAt, LogInv, TakenSound, L!fileVars
<1>2. PICK all : all = Append(buffers, current)
  OBVIOUS
<1>3. /\ all \in Seq(Seq(Nat)) /\ InOrder(all)
      /\ LinesOf(all) = LinesOf(buffers) \cup Elements(current)
      /\ Len(all) = Len(buffers) + 1
  BY <1>2, PartsAppend, AppendProperties DEF LogInv, LogTypes, PlacesInOrder
<1>4. Unwritten = <<>>
  BY <1>1, EmptySeq, NothingUnwritten DEF LogInv
<1>5. Unwritten' = all
  BY <1>1, <1>2, <1>3, SubSeqFull DEF Unwritten
<1>6. LogTypes'
  BY <1>1, <1>2, <1>3, NoPart DEF LogInv, LogTypes
<1>7. TakenSound'
  <2>1. Len(buffers) \in Nat /\ (~next => Len(buffers) # 0)
    BY EmptySeq, LenProperties DEF LogInv, LogTypes, TakenSound
  <2>2. Len(all) >= IF next THEN 1 ELSE 2
    BY <1>3, <2>1
  <2>3. /\ writer'.stage = "drop" /\ writer'.written = 0
        /\ writer'.toWrite = all /\ writer'.new2 = next /\ next' = TRUE
    BY <1>1, <1>2 DEF LogInv, LogTypes
  <2>4. writer'.written <= Len(writer'.toWrite)
    BY <1>3, <2>3, LenProperties
  <2> QED
    BY <2>2, <2>3, <2>4 DEF TakenSound
<1>8. PlacesInOrder'
  BY <1>1, <1>3, <1>5, NoPart DEF LogInv, PlacesInOrder, Below
<1>9. LinesKept'
  BY <1>1, <1>3, <1>4, <1>5, NoPart DEF LogInv, LinesKept
<1> QED
  BY <1>1, <1>6, <1>7, <1>8, <1>9 DEF LogInv, NoticesCounted

(* A buffer is written.                                                    *)
LEMMA WriteStep ==
  ASSUME LogInv, L!WriteBuffer
  PROVE  LogInv'
<1>1. PICK w \in Nat, s \in Seq(Seq(Nat)) : w = writer.written /\ s = writer.toWrite
  BY DEF LogInv, LogTypes
<1>2. PICK data : data = s[w + 1]
  OBVIOUS
<1>3. /\ w < Len(s) /\ writer.stage = "write"
      /\ L!AppendToFile(data)
      /\ writer' = [writer EXCEPT !.written = w + 1]
      /\ lines' = lines /\ current' = current /\ next' = next
      /\ buffers' = buffers /\ dropped' = dropped
  <2>1. w < Len(s) /\ writer.stage = "write"
    BY <1>1 DEF L!WriteBuffer, L!WriterAt, LogInv, TakenSound
  <2>2. L!AppendToFile(data)
    BY <1>1, <1>2 DEF L!WriteBuffer
  <2> QED
    BY <1>1, <2>1, <2>2 DEF L!WriteBuffer
<1>4. PICK rest : rest = SubSeq(s, w + 2, Len(s))
  OBVIOUS
<1>5. Unwritten = SubSeq(s, w + 1, Len(s))
  BY <1>1 DEF Unwritten
<1>6. /\ writer'.stage = writer.stage /\ writer'.toWrite = s
      /\ writer'.written = w + 1 /\ writer'.new2 = writer.new2
      /\ writer'.new1 = writer.new1
  BY <1>1, <1>3 DEF LogInv, LogTypes
<1>7. Unwritten' = rest
  <2>1. (w + 1) + 1 = w + 2
    OBVIOUS
  <2> QED
    BY <1>4, <1>6, <2>1 DEF Unwritten
<1>8. /\ data \in Seq(Nat) /\ Rising(data) /\ InOrder(rest)
      /\ LinesOf(Unwritten) = Elements(data) \cup LinesOf(rest)
      /\ Below(Elements(data), LinesOf(rest))
  <2>1. InOrder(Unwritten)
    BY DEF LogInv, PlacesInOrder
  <2> QED
    BY <1>2, <1>3, <1>4, <1>5, <2>1, FirstPart DEF FirstAndRest
<1>9. Below(LinesOf(files), Elements(data)) /\ 0 \notin Elements(data)
  BY <1>8 DEF LogInv, PlacesInOrder, LinesKept, Below
<1>10. Written(files, data, files')
  BY <1>3, <1>8, DataWritten DEF LogInv
<1>11. /\ files' \in Seq(Seq(Nat)) /\ files' # <<>> /\ InOrder(files')
       /\ LinesOf(files') = LinesOf(files) \cup Elements(data)
       /\ NoticesOf(files') = NoticesOf(files)
  BY <1>8, <1>9, <1>10 DEF Written, LogInv, PlacesInOrder
<1>12. LogTypes'
  <2>1. writer' \in [stage : {"loop", "wait", "drop", "write", "ended"},
                     new1 : BOOLEAN, new2 : BOOLEAN, toWrite : Seq(Seq(Nat)),
                     written : Nat]
    <3>1. /\ writer \in [stage : {"loop", "wait", "drop", "write", "ended"},
                         new1 : BOOLEAN, new2 : BOOLEAN,
                         toWrite : Seq(Seq(Nat)), written : Nat]
          /\ w + 1 \in Nat
      BY DEF LogInv, LogTypes
    <3> QED
      BY <1>3, <3>1
  <2> QED
    BY <1>3, <1>11, <2>1 DEF LogInv, LogTypes
<1>13. TakenSound'
  <2>1. Len(s) \in Nat /\ w + 1 <= Len(s)
    BY <1>3, LenProperties
  <2> QED
    BY <1>1, <1>3, <1>6, <2>1 DEF LogInv, TakenSound
<1>14. PlacesInOrder'
  BY <1>3, <1>7, <1>8, <1>9, <1>11 DEF LogInv, PlacesInOrder, Below
<1>15. LinesKept'
  <2>1. (LinesOf(files') \ {0}) \cup LinesOf(rest) =
          (LinesOf(files) \ {0}) \cup LinesOf(Unwritten)
    BY <1>8, <1>9, <1>11
  <2>2. LinesOf(rest) \subseteq LinesOf(Unwritten)
    BY <1>8
  <2> QED
    BY <1>3, <1>7, <2>1, <2>2 DEF LogInv, LinesKept
<1> QED
  BY <1>3, <1>11, <1>12, <1>13, <1>14, <1>15 DEF LogInv, NoticesCounted

(* There are too many buffers, or not.                                     *)
LEMMA DropStep ==
  ASSUME LogInv, L!Drop
  PROVE  LogInv'
<1>1. PICK s \in Seq(Seq(Nat)) : s = writer.toWrite
  BY DEF LogInv, LogTypes
<1>2. /\ writer.stage = "drop" /\ writer.written = 0
      /\ lines' = lines /\ current' = current /\ next' = next
      /\ buffers' = buffers
  BY DEF L!Drop, L!WriterAt, LogInv, TakenSound
<1>3. Unwritten = s
  BY <1>1, <1>2, SubSeqFull DEF Unwritten
<1>4. CASE /\ ~(Len(s) > MaxBuffers)
           /\ writer' = [writer EXCEPT !.stage = "write"]
           /\ dropped' = dropped /\ files' = files
  <2>1. /\ writer'.stage = "write" /\ writer'.toWrite = s
        /\ writer'.written = 0 /\ writer'.new2 = writer.new2
    BY <1>1, <1>2, <1>4 DEF LogInv, LogTypes
  <2>2. Unwritten' = Unwritten
    BY <1>1, <1>2, <2>1 DEF Unwritten
  <2>3. LogTypes'
    BY <1>2, <1>4 DEF LogInv, LogTypes
  <2>4. TakenSound'
    BY <1>1, <1>2, <2>1 DEF LogInv, TakenSound
  <2> QED
    BY <1>2, <1>4, <2>2, <2>3, <2>4
       DEF LogInv, PlacesInOrder, LinesKept, NoticesCounted
<1>5. ASSUME NEW kept, kept = SubSeq(s, 1, 2),
             NEW gone, gone = UNION {Elements(s[i]) : i \in 3 .. Len(s)},
             Len(s) > MaxBuffers,
             writer' = [writer EXCEPT !.stage = "write", !.toWrite = kept],
             dropped' = [lines |-> dropped.lines \cup gone,
                         times |-> dropped.times + 1],
             L!AppendToFile(<< 0 >>)
      PROVE  LogInv'
  <2>1. Len(s) >= 2 /\ InOrder(s)
    <3>1. Len(s) \in Nat
      BY LenProperties
    <3>2. InOrder(s)
      BY <1>3 DEF LogInv, PlacesInOrder
    <3> QED
      BY <1>5, <3>1, <3>2, LogAssumption
  <2>2. /\ kept \in Seq(Seq(Nat)) /\ Len(kept) = 2 /\ InOrder(kept)
        /\ LinesOf(s) = LinesOf(kept) \cup gone /\ Below(LinesOf(kept), gone)
    BY <1>5, <2>1, FirstTwo DEF TwoAndGone
  <2>3. /\ writer'.stage = "write" /\ writer'.toWrite = kept
        /\ writer'.written = 0 /\ writer'.new2 = writer.new2
        /\ writer'.new1 = writer.new1
    BY <1>2, <1>5 DEF LogInv, LogTypes
  <2>4. Unwritten' = kept
    BY <2>2, <2>3, 0 + 1 = 1, SubSeqFull DEF Unwritten
  <2>5. << 0 >> \in Seq(Nat) /\ Elements(<< 0 >>) = {0} /\ Rising(<< 0 >>)
    BY OneLine
  <2>6. Written(files, << 0 >>, files')
    BY <1>5, <2>5, DataWritten DEF LogInv
  <2>7. Below(LinesOf(files), {0})
    BY DEF Below
  <2>8. /\ files' \in Seq(Seq(Nat)) /\ files' # <<>> /\ InOrder(files')
        /\ LinesOf(files') = LinesOf(files) \cup {0}
    BY <2>5, <2>6, <2>7 DEF Written, LogInv, PlacesInOrder
  <2>9. PICK z : /\ z \notin NoticesOf(files)
                 /\ NoticesOf(files') = NoticesOf(files) \cup {z}
    BY <2>6 DEF Written
  <2>10. NoticesCounted'
    <3>1. /\ IsFiniteSet(NoticesOf(files))
          /\ Cardinality(NoticesOf(files)) = dropped.times
      BY DEF LogInv, NoticesCounted
    <3>2. /\ IsFiniteSet(NoticesOf(files) \cup {z})
          /\ Cardinality(NoticesOf(files) \cup {z}) = dropped.times + 1
      BY <2>9, <3>1, FS_AddElement
    <3> QED
      BY <1>5, <2>9, <3>2 DEF NoticesCounted
  <2>11. gone \subseteq 1 .. lines /\ gone \cap dropped.lines = {} /\ 0 \notin gone
    BY <1>3, <2>2 DEF LogInv, LinesKept
  <2>12. LogTypes'
    <3>1. writer' \in [stage : {"loop", "wait", "drop", "write", "ended"},
                       new1 : BOOLEAN, new2 : BOOLEAN, toWrite : Seq(Seq(Nat)),
                       written : Nat]
      BY <1>5, <2>2 DEF LogInv, LogTypes
    <3>2. dropped' \in [lines : SUBSET (1 .. lines), times : Nat]
      <4>1. dropped.lines \subseteq 1 .. lines /\ dropped.times + 1 \in Nat
        BY DEF LogInv, LogTypes
      <4>2. dropped.lines \cup gone \in SUBSET (1 .. lines)
        BY <2>11, <4>1
      <4> QED
        BY <1>5, <4>1, <4>2
    <3> QED
      BY <1>2, <2>8, <3>1, <3>2 DEF LogInv, LogTypes
  <2>13. TakenSound'
    <3>1. /\ Len(kept) >= IF writer'.new2 THEN 1 ELSE 2
          /\ writer'.written <= Len(kept)
      BY <2>2, <2>3
    <3> QED
      BY <1>2, <2>3, <3>1 DEF LogInv, TakenSound
  <2>14. PlacesInOrder'
    BY <1>2, <1>3, <2>2, <2>4, <2>8 DEF LogInv, PlacesInOrder, Below
  <2>15. LinesKept'
    <3>1. /\ \A x \in gone : x \notin LinesOf(files)
          /\ \A x \in gone : x \notin LinesOf(buffers)
          /\ \A x \in gone : x \notin Elements(current)
          /\ \A x \in gone : x \notin LinesOf(kept)
      <4>1. \A x \in gone : x # 0 /\ x \in LinesOf(Unwritten) /\ x \in Nat
        BY <1>3, <2>2, <2>11 DEF LogInv, LogTypes
      <4>2. \A x \in Nat : ~(x < x)
        OBVIOUS
      <4> QED
        BY <2>2, <4>1, <4>2 DEF LogInv, PlacesInOrder, Below
    <3>2. (LinesOf(files') \ {0}) \cup LinesOf(kept) \cup LinesOf(buffers)
            \cup Elements(current) = (1 .. lines \ dropped.lines) \ gone
      BY <1>3, <2>2, <2>8, <3>1 DEF LogInv, LinesKept
    <3>3. (1 .. lines \ dropped.lines) \ gone = 1 .. lines \ dropped'.lines
      BY <1>5
    <3>4. 0 \notin LinesOf(kept) \cup LinesOf(buffers) \cup Elements(current)
      BY <1>3, <2>2 DEF LogInv, LinesKept
    <3> QED
      BY <1>2, <2>4, <3>2, <3>3, <3>4 DEF LinesKept
  <2> QED
    BY <2>10, <2>12, <2>13, <2>14, <2>15 DEF LogInv
<1>6. CASE Len(writer.toWrite) > MaxBuffers
  <2>1. PICK kept, gone :
          /\ kept = SubSeq(s, 1, 2)
          /\ gone = UNION {Elements(s[i]) : i \in 3 .. Len(s)}
    OBVIOUS
  <2>2. gone = UNION {L!Range(writer.toWrite[i]) :
                        i \in 3 .. Len(writer.toWrite)}
    <3>1. \A t : L!Range(t) = Elements(t)
      BY DEF L!Range, Elements
    <3>2. gone = UNION {L!Range(s[i]) : i \in 3 .. Len(s)}
      BY <2>1, <3>1
    <3> QED
      BY <1>1, <3>2
  <2>3. /\ writer' = [writer EXCEPT !.stage = "write",
                                   !.toWrite = SubSeq(writer.toWrite, 1, 2)]
        /\ dropped' = [lines |-> dropped.lines \cup gone,
                       times |-> dropped.times + 1]
        /\ L!AppendToFile(<< 0 >>)
    BY <1>6, <2>2, Zenon DEF L!Drop
  <2> QED
    BY <1>1, <1>5, <1>6, <2>1, <2>3
<1>7. CASE ~(Len(writer.toWrite) > MaxBuffers)
  <2>1. /\ writer' = [writer EXCEPT !.stage = "write"]
        /\ dropped' = dropped /\ UNCHANGED L!fileVars
    BY <1>7, Zenon DEF L!Drop
  <2> QED
    BY <1>1, <1>4, <1>7, <2>1 DEF L!fileVars
<1> QED
  BY <1>6, <1>7

(* Each step of the log keeps the invariant.                               *)
LEMMA LogStep ==
  ASSUME LogInv, L!LogNext
  PROVE  LogInv'
<1>1. CASE L!AppendLine \/ L!LogFatal
  BY <1>1, PutStep DEF L!AppendLine, L!LogFatal, L!fileVars
<1>2. CASE L!Stop \/ L!Join \/ L!Second
  BY <1>2, LogStutter DEF L!Stop, L!Join, L!Second, L!fileVars
<1>3. CASE L!Check
  BY <1>3, CheckStep
<1>4. CASE L!Swap
  BY <1>4, SwapStep
<1>5. CASE L!Drop
  BY <1>5, DropStep
<1>6. CASE L!WriteBuffer
  BY <1>6, WriteStep
<1>7. CASE L!Recycle
  BY <1>7, RecycleStep
<1> QED
  BY <1>1, <1>2, <1>3, <1>4, <1>5, <1>6, <1>7 DEF L!LogNext

(* The log begins with it.                                                 *)
LEMMA LogStart == L!LogInit => LogInv
<1> SUFFICES ASSUME L!LogInit
             PROVE  LogInv
  OBVIOUS
<1>1. PICK f : f = <<<<>>>>
  OBVIOUS
<1>2. /\ f \in Seq(Seq(Nat)) /\ LinesOf(f) = {} /\ InOrder(f)
  BY <1>1, NoPart, OnePart
<1>3. Len(f) = 1 /\ f[1] = <<>> /\ f # <<>> /\ DOMAIN f = {1}
  BY <1>1
<1>4. NoticesOf(f) = {}
  <2>1. DOMAIN f[1] = {}
    BY <1>3
  <2> QED
    BY <1>3, <2>1 DEF NoticesOf
<1>5. /\ files = f /\ lines = 0 /\ current = <<>> /\ next = TRUE
      /\ buffers = <<>>
      /\ writer = [stage |-> "loop", new1 |-> TRUE, new2 |-> TRUE,
                   toWrite |-> <<>>, written |-> 0]
      /\ dropped = [lines |-> {}, times |-> 0]
  BY <1>1 DEF L!LogInit
<1>6. LogTypes
  BY <1>2, <1>3, <1>5, NoPart DEF LogTypes
<1>7. Len(<<>>) = 0
  OBVIOUS
<1>8. Unwritten = <<>>
  BY <1>5, <1>6, <1>7, NothingUnwritten
<1>9. TakenSound
  BY <1>5, <1>7 DEF TakenSound
<1>10. PlacesInOrder
  BY <1>2, <1>5, <1>8, NoPart DEF PlacesInOrder, Below
<1>11. LinesKept
  <2>1. 1 .. 0 = {}
    OBVIOUS
  <2> QED
    BY <1>2, <1>5, <1>8, <2>1, NoPart DEF LinesKept
<1>12. NoticesCounted
  BY <1>4, <1>5, FS_EmptySet DEF NoticesCounted
<1> QED
  BY <1>6, <1>9, <1>10, <1>11, <1>12 DEF LogInv

(* It says what the property says, in terms of places.                     *)
LEMMA LogImplied == LogInv => L!LogInOrder
<1> SUFFICES ASSUME LogInv
             PROVE  L!LogInOrder
  OBVIOUS
<1>1. PICK f \in Seq(Seq(Nat)), r \in Seq(Seq(Nat)), b \in Seq(Seq(Nat)),
           c \in Seq(Nat) :
        f = files /\ r = Unwritten /\ b = buffers /\ c = current
  <2>1. Unwritten \in Seq(Seq(Nat))
    <3>1. PICK n \in Nat, w \in Nat, s \in Seq(Seq(Nat)) :
            n = Len(writer.toWrite) /\ w = writer.written /\ s = writer.toWrite
      BY LenProperties DEF LogInv, LogTypes
    <3>2. \A i \in (w + 1) .. n : s[i] \in Seq(Nat)
      BY <3>1, ElementOfSeq
    <3> QED
      BY <3>1, <3>2, SubSeqProperties DEF Unwritten
  <2> QED
    BY <2>1 DEF LogInv, LogTypes
<1>2. /\ InOrder(f) /\ InOrder(r) /\ InOrder(b) /\ Rising(c)
      /\ Below(LinesOf(f), LinesOf(r))
      /\ Below(LinesOf(f) \cup LinesOf(r), LinesOf(b))
      /\ Below(LinesOf(f) \cup LinesOf(r) \cup LinesOf(b), Elements(c))
  BY <1>1 DEF LogInv, PlacesInOrder, Below
<1>3. PICK fr : fr = f \o r
  OBVIOUS
<1>4. /\ fr \in Seq(Seq(Nat)) /\ InOrder(fr)
      /\ LinesOf(fr) = LinesOf(f) \cup LinesOf(r)
  BY <1>2, <1>3, PartsConcat
<1>5. PICK frb : frb = fr \o b
  OBVIOUS
<1>6. /\ frb \in Seq(Seq(Nat)) /\ InOrder(frb)
      /\ LinesOf(frb) = LinesOf(f) \cup LinesOf(r) \cup LinesOf(b)
  BY <1>2, <1>4, <1>5, PartsConcat
<1>7. PICK last : last = <<c>>
  OBVIOUS
<1>8. last \in Seq(Seq(Nat)) /\ LinesOf(last) = Elements(c) /\ InOrder(last)
  BY <1>2, <1>7, OnePart
<1>9. PICK all : all = frb \o last
  OBVIOUS
<1>10. /\ all \in Seq(Seq(Nat)) /\ InOrder(all)
       /\ LinesOf(all) =
            LinesOf(f) \cup LinesOf(r) \cup LinesOf(b) \cup Elements(c)
  <2>1. Below(LinesOf(frb), LinesOf(last))
    BY <1>2, <1>6, <1>8
  <2>2. /\ frb \o last \in Seq(Seq(Nat))
        /\ LinesOf(frb \o last) = LinesOf(frb) \cup LinesOf(last)
        /\ InOrder(frb \o last)
    BY <1>6, <1>8, <2>1, PartsConcat
  <2> QED
    BY <1>6, <1>8, <1>9, <2>2
<1>11. L!Places = all
  BY <1>1, <1>3, <1>5, <1>7, <1>9 DEF L!Places, Unwritten
<1>12. L!InAppendOrder(all)
  <2> SUFFICES ASSUME NEW p \in DOMAIN all, NEW q \in DOMAIN all,
                      NEW i \in DOMAIN all[p], NEW j \in DOMAIN all[q],
                      p < q \/ (p = q /\ i < j),
                      all[p][i] # 0, all[q][j] # 0
               PROVE  all[p][i] < all[q][j]
    BY DEF L!InAppendOrder
  <2>1. all[p][i] \in Elements(all[p]) /\ all[q][j] \in Elements(all[q])
    BY DEF Elements
  <2>2. CASE p < q
    BY <1>10, <2>1, <2>2 DEF InOrder, Below
  <2>3. CASE p = q /\ i < j
    BY <1>10, <2>3 DEF InOrder, Rising
  <2> QED
    BY <2>2, <2>3
<1>13. L!LinesIn(all) = LinesOf(all)
  <2>1. \A t : L!Range(t) = Elements(t)
    BY DEF L!Range, Elements
  <2> QED
    BY <2>1 DEF L!LinesIn, LinesOf
<1>14. LinesOf(all) \ {0} = 1 .. lines \ dropped.lines
  BY <1>1, <1>10 DEF LogInv, LinesKept
<1>15. L!Cardinality(L!Notices) = dropped.times
  <2>1. \A D : L!Cardinality(D) = Cardinality(D)
    BY DEF L!Cardinality, Cardinality
  <2>2. L!Notices = NoticesOf(files)
    BY DEF L!Notices, NoticesOf
  <2> QED
    BY <2>1, <2>2 DEF LogInv, NoticesCounted
<1>16. writer.stage = "write" =>
         Len(writer.toWrite) >= IF writer.new2 THEN 1 ELSE 2
  BY DEF LogInv, TakenSound
<1>17. /\ L!InAppendOrder(L!Places)
       /\ L!LinesIn(L!Places) \ {0} = 1 .. lines \ dropped.lines
  BY <1>11, <1>12, <1>13, <1>14
<1> QED
  BY <1>15, <1>16, <1>17 DEF L!LogInOrder

(* AsyncLogging.cc:34-135, LogFile.cc:64-108: for any sizes of buffers and *)
(* files, the files and then the buffers hold the lines in the order of    *)
(* append, each once, less those that were dropped with a notice.          *)
THEOREM LogAlwaysInOrder == Spec => []LogInOrder
<1>1. Init => LogInv
  BY LogStart DEF Init
<1>2. LogInv /\ [Next]_vars => LogInv'
  <2>1. Next => [L!LogNext]_logVars
    <3> SUFFICES ASSUME Next
                 PROVE  [L!LogNext]_logVars
      OBVIOUS
    <3> QED
      BY DEF Next, libraryVars
  <2>2. [Next]_vars => [L!LogNext]_logVars
    BY <2>1 DEF vars
  <2> QED
    BY <2>2, LogStep, LogStutter DEF logVars
<1>3. LogInv => LogInOrder
  BY LogImplied DEF LogInOrder
<1> QED
  BY <1>1, <1>2, <1>3, PTL DEF Spec

-----------------------------------------------------------------------------
(* The queues between threads.                                             *)

(* The threads that are about to test for room, or for a value.            *)
AwakePutters == {p \in Putters : putter[p].at \in {"put", "woken"}}

AwakeTakers == {t \in Takers : taker[t] \in {"take", "woken"}}

QueueTypes ==
  /\ bounded \in BOOLEAN
  /\ putter \in [Putters -> [at : {"idle", "put", "notFull", "woken"},
                             left : Int]]
  /\ taker \in [Takers -> {"idle", "take", "notEmpty", "woken"}]
  /\ items \in Seq(Putters \X Int) /\ taken \in Seq(Putters \X Int)

RoomAwaited ==
  (\E p \in Putters : putter[p].at = "notFull") =>
    bounded /\ capacity - Len(items) <= Cardinality(AwakePutters)

ValueAwaited ==
  (\E t \in Takers : taker[t] = "notEmpty") =>
    Len(items) <= Cardinality(AwakeTakers)

QueueInv == QueueTypes /\ RoomAwaited /\ ValueAwaited /\ put = taken \o items

(* One thread more, or less, of finitely many.                             *)
LEMMA OneMore ==
  ASSUME NEW D, IsFiniteSet(D), NEW x
  PROVE  /\ Cardinality(D) \in Nat
         /\ x \in D => Cardinality(D \ {x}) = Cardinality(D) - 1
         /\ x \notin D => Cardinality(D \cup {x}) = Cardinality(D) + 1
BY FS_AddElement, FS_RemoveElement, FS_CardinalityType

(* There are finitely many threads.                                        *)
LEMMA AwakeFinite ==
  /\ IsFiniteSet(AwakePutters) /\ Cardinality(AwakePutters) \in Nat
  /\ IsFiniteSet(AwakeTakers) /\ Cardinality(AwakeTakers) \in Nat
<1>1. IsFiniteSet(AwakePutters) /\ IsFiniteSet(AwakeTakers)
  BY QueueAssumption, FS_Subset DEF AwakePutters, AwakeTakers
<1> QED
  BY <1>1, FS_CardinalityType

(* A taker that was asleep, or about to call, is awake.                    *)
LEMMA TakerWakes ==
  ASSUME QueueTypes, NEW t \in Takers, taker[t] \notin {"take", "woken"},
         NEW at \in {"take", "woken"}, taker' = [taker EXCEPT ![t] = at]
  PROVE  /\ Cardinality(AwakeTakers') = Cardinality(AwakeTakers) + 1
         /\ taker' \in [Takers -> {"idle", "take", "notEmpty", "woken"}]
         /\ \A x \in Takers :
              taker'[x] = "notEmpty" => taker[x] = "notEmpty"
<1>1. AwakeTakers' = AwakeTakers \cup {t} /\ t \notin AwakeTakers
  BY DEF QueueTypes, AwakeTakers
<1>2. Cardinality(AwakeTakers \cup {t}) = Cardinality(AwakeTakers) + 1
  BY <1>1, AwakeFinite, OneMore
<1> QED
  BY <1>1, <1>2 DEF QueueTypes

(* A putter likewise.                                                      *)
LEMMA PutterWakes ==
  ASSUME QueueTypes, NEW p \in Putters,
         putter[p].at \notin {"put", "woken"},
         NEW at \in {"put", "woken"},
         putter' = [putter EXCEPT ![p].at = at]
  PROVE  /\ Cardinality(AwakePutters') = Cardinality(AwakePutters) + 1
         /\ putter' \in [Putters -> [at : {"idle", "put", "notFull", "woken"},
                                     left : Int]]
         /\ \A x \in Putters :
              putter'[x].at = "notFull" => putter[x].at = "notFull"
<1>1. putter' \in [Putters -> [at : {"idle", "put", "notFull", "woken"},
                               left : Int]]
  BY DEF QueueTypes
<1>2. \A x \in Putters :
        putter'[x].at = IF x = p THEN at ELSE putter[x].at
  BY DEF QueueTypes
<1>3. AwakePutters' = AwakePutters \cup {p} /\ p \notin AwakePutters
  BY <1>2 DEF AwakePutters
<1>4. Cardinality(AwakePutters \cup {p}) = Cardinality(AwakePutters) + 1
  BY <1>3, AwakeFinite, OneMore
<1> QED
  BY <1>1, <1>2, <1>3, <1>4

(* One that was awake stops being so.                                      *)
LEMMA TakerRests ==
  ASSUME QueueTypes, NEW t \in Takers, taker[t] \in {"take", "woken"},
         NEW at \in {"idle", "notEmpty"}, taker' = [taker EXCEPT ![t] = at]
  PROVE  /\ Cardinality(AwakeTakers') = Cardinality(AwakeTakers) - 1
         /\ taker' \in [Takers -> {"idle", "take", "notEmpty", "woken"}]
         /\ \A x \in Takers :
              taker'[x] = IF x = t THEN at ELSE taker[x]
<1>1. AwakeTakers' = AwakeTakers \ {t} /\ t \in AwakeTakers
  BY DEF QueueTypes, AwakeTakers
<1>2. Cardinality(AwakeTakers \ {t}) = Cardinality(AwakeTakers) - 1
  BY <1>1, AwakeFinite, OneMore
<1> QED
  BY <1>1, <1>2 DEF QueueTypes

LEMMA PutterRests ==
  ASSUME QueueTypes, NEW p \in Putters, putter[p].at \in {"put", "woken"},
         NEW at \in {"idle", "notFull"}, NEW left \in Int,
         putter' = [putter EXCEPT ![p] = [at |-> at, left |-> left]]
  PROVE  /\ Cardinality(AwakePutters') = Cardinality(AwakePutters) - 1
         /\ putter' \in [Putters -> [at : {"idle", "put", "notFull", "woken"},
                                     left : Int]]
         /\ \A x \in Putters :
              putter'[x].at = IF x = p THEN at ELSE putter[x].at
<1>1. putter' \in [Putters -> [at : {"idle", "put", "notFull", "woken"},
                               left : Int]]
  BY DEF QueueTypes
<1>2. \A x \in Putters :
        putter'[x].at = IF x = p THEN at ELSE putter[x].at
  BY DEF QueueTypes
<1>3. AwakePutters' = AwakePutters \ {p} /\ p \in AwakePutters
  BY <1>2 DEF AwakePutters
<1>4. Cardinality(AwakePutters \ {p}) = Cardinality(AwakePutters) - 1
  BY <1>3, AwakeFinite, OneMore
<1> QED
  BY <1>1, <1>2, <1>3, <1>4

(* A value joins what was put; the oldest one moves to what was taken.     *)
LEMMA ValueMoves ==
  ASSUME NEW D, NEW a \in Seq(D), NEW b \in Seq(D)
  PROVE  /\ \A x \in D : a \o Append(b, x) = Append(a \o b, x)
         /\ b # <<>> => /\ Head(b) \in D /\ Tail(b) \in Seq(D)
                        /\ Len(Tail(b)) = Len(b) - 1
                        /\ Append(a, Head(b)) \in Seq(D)
                        /\ Append(a, Head(b)) \o Tail(b) = a \o b
<1>1. ASSUME NEW x \in D
      PROVE  a \o Append(b, x) = Append(a \o b, x)
  <2>1. a \o b \in Seq(D)
    BY ConcatProperties
  <2>2. Append(b, x) = b \o <<x>> /\ Append(a \o b, x) = (a \o b) \o <<x>>
    BY <2>1, AppendIsConcat
  <2>3. <<x>> \in Seq(D)
    OBVIOUS
  <2> QED
    BY <2>2, <2>3, ConcatAssociative
<1>2. ASSUME b # <<>>
      PROVE  /\ Head(b) \in D /\ Tail(b) \in Seq(D)
             /\ Len(Tail(b)) = Len(b) - 1
             /\ Append(a, Head(b)) \in Seq(D)
             /\ Append(a, Head(b)) \o Tail(b) = a \o b
  <2>1. /\ Head(b) \in D /\ Tail(b) \in Seq(D) /\ Len(Tail(b)) = Len(b) - 1
        /\ \A i \in 1 .. Len(Tail(b)) : Tail(b)[i] = b[i + 1]
    BY <1>2, HeadTailProperties
  <2>2. PICK h \in D : h = Head(b)
    BY <2>1
  <2>3. <<h>> \in Seq(D) /\ Append(a, h) = a \o <<h>> /\ Append(a, h) \in Seq(D)
    BY AppendIsConcat
  <2>4. b = <<h>> \o Tail(b)
    <3>1. Len(b) \in Nat \ {0} /\ Len(<<h>>) = 1 /\ <<h>>[1] = h /\ h = b[1]
      BY <1>2, <2>2, EmptySeq
    <3>2. /\ <<h>> \o Tail(b) \in Seq(D)
          /\ Len(<<h>> \o Tail(b)) = Len(<<h>>) + Len(Tail(b))
          /\ \A i \in 1 .. Len(<<h>>) + Len(Tail(b)) :
               (<<h>> \o Tail(b))[i] =
                 IF i <= Len(<<h>>) THEN <<h>>[i] ELSE Tail(b)[i - Len(<<h>>)]
      BY <2>1, <2>3, ConcatProperties
    <3>3. \A i \in 1 .. Len(b) : b[i] = (<<h>> \o Tail(b))[i]
      <4> SUFFICES ASSUME NEW i \in 1 .. Len(b)
                   PROVE  b[i] = (<<h>> \o Tail(b))[i]
        OBVIOUS
      <4>1. CASE i = 1
        BY <2>1, <3>1, <3>2, <4>1
      <4>2. CASE i # 1
        <5>1. i - 1 \in 1 .. Len(Tail(b)) /\ i - 1 + 1 = i
          BY <2>1, <3>1, <4>2
        <5>2. Tail(b)[i - 1] = b[i]
          BY <2>1, <5>1
        <5> QED
          BY <2>1, <3>1, <3>2, <4>2, <5>2
      <4> QED
        BY <4>1, <4>2
    <3> QED
      BY <2>1, <3>1, <3>2, <3>3, SeqEqual
  <2>5. (a \o <<h>>) \o Tail(b) = a \o (<<h>> \o Tail(b))
    BY <2>1, <2>3, ConcatAssociative
  <2> QED
    BY <2>1, <2>2, <2>3, <2>4, <2>5
<1> QED
  BY <1>1, <1>2

(* A taker may have been told that the queue is not empty.                 *)
LEMMA TakerTold ==
  ASSUME QueueTypes, Q!NotifyNotEmpty
  PROVE  /\ taker' \in [Takers -> {"idle", "take", "notEmpty", "woken"}]
         /\ (\E t \in Takers : taker'[t] = "notEmpty") =>
              /\ \E t \in Takers : taker[t] = "notEmpty"
              /\ Cardinality(AwakeTakers') = Cardinality(AwakeTakers) + 1
<1>1. CASE \E t \in Takers : /\ taker[t] = "notEmpty"
                             /\ taker' = [taker EXCEPT ![t] = "woken"]
  <2> PICK t \in Takers : /\ taker[t] = "notEmpty"
                          /\ taker' = [taker EXCEPT ![t] = "woken"]
    BY <1>1
  <2> QED
    BY TakerWakes
<1>2. CASE taker' = taker /\ ~ \E t \in Takers : taker[t] = "notEmpty"
  BY <1>2 DEF QueueTypes
<1> QED
  BY <1>1, <1>2 DEF Q!NotifyNotEmpty

(* A putter may have been told that the queue is not full.                 *)
LEMMA PutterTold ==
  ASSUME QueueTypes, RoomAwaited, Q!NotifyNotFull
  PROVE  /\ putter' \in [Putters -> [at : {"idle", "put", "notFull", "woken"},
                                     left : Int]]
         /\ (\E p \in Putters : putter'[p].at = "notFull") =>
              /\ \E p \in Putters : putter[p].at = "notFull"
              /\ Cardinality(AwakePutters') = Cardinality(AwakePutters) + 1
<1>1. CASE \E p \in Putters : /\ putter[p].at = "notFull"
                              /\ putter' = [putter EXCEPT ![p].at = "woken"]
  <2> PICK p \in Putters : /\ putter[p].at = "notFull"
                           /\ putter' = [putter EXCEPT ![p].at = "woken"]
    BY <1>1
  <2> QED
    BY PutterWakes
<1>2. CASE /\ putter' = putter
           /\ ~bounded \/ ~ \E p \in Putters : putter[p].at = "notFull"
  BY <1>2 DEF QueueTypes, RoomAwaited
<1> QED
  BY <1>1, <1>2 DEF Q!NotifyNotFull

(* A thread calls put, or is woken there by nobody.                        *)
LEMMA PutterBeginsStep ==
  ASSUME QueueInv, NEW p \in Putters, NEW at \in {"put", "woken"},
         putter[p].at \notin {"put", "woken"},
         putter' = [putter EXCEPT ![p].at = at],
         UNCHANGED <<bounded, items, taker, put, taken>>
  PROVE  QueueInv'
<1>1. /\ Cardinality(AwakePutters') = Cardinality(AwakePutters) + 1
      /\ putter' \in [Putters -> [at : {"idle", "put", "notFull", "woken"},
                                  left : Int]]
      /\ \A x \in Putters :
           putter'[x].at = "notFull" => putter[x].at = "notFull"
  BY PutterWakes DEF QueueInv
<1>2. QueueTypes' /\ ValueAwaited' /\ (put = taken \o items)'
  BY <1>1 DEF QueueInv, QueueTypes, ValueAwaited, AwakeTakers
<1>3. Cardinality(AwakePutters) \in Nat /\ Len(items) \in Nat
  BY AwakeFinite DEF QueueInv, QueueTypes
<1>4. RoomAwaited'
  <2> SUFFICES ASSUME \E x \in Putters : putter'[x].at = "notFull"
               PROVE  bounded' /\ capacity - Len(items') <=
                                    Cardinality(AwakePutters')
    BY DEF RoomAwaited
  <2>1. bounded /\ capacity - Len(items) <= Cardinality(AwakePutters)
    BY <1>1 DEF QueueInv, RoomAwaited
  <2> QED
    BY <1>1, <1>3, <2>1, QueueAssumption
<1> QED
  BY <1>2, <1>4 DEF QueueInv

(* A thread calls take, or is woken there by nobody.                       *)
LEMMA TakerBeginsStep ==
  ASSUME QueueInv, NEW t \in Takers, NEW at \in {"take", "woken"},
         taker[t] \notin {"take", "woken"},
         taker' = [taker EXCEPT ![t] = at],
         UNCHANGED <<bounded, items, putter, put, taken>>
  PROVE  QueueInv'
<1>1. /\ Cardinality(AwakeTakers') = Cardinality(AwakeTakers) + 1
      /\ taker' \in [Takers -> {"idle", "take", "notEmpty", "woken"}]
      /\ \A x \in Takers : taker'[x] = "notEmpty" => taker[x] = "notEmpty"
  BY TakerWakes DEF QueueInv
<1>2. QueueTypes' /\ RoomAwaited' /\ (put = taken \o items)'
  BY <1>1 DEF QueueInv, QueueTypes, RoomAwaited, AwakePutters
<1>3. Cardinality(AwakeTakers) \in Nat /\ Len(items) \in Nat
  BY AwakeFinite DEF QueueInv, QueueTypes
<1>4. ValueAwaited'
  <2> SUFFICES ASSUME \E x \in Takers : taker'[x] = "notEmpty"
               PROVE  Len(items') <= Cardinality(AwakeTakers')
    BY DEF ValueAwaited
  <2>1. Len(items) <= Cardinality(AwakeTakers)
    BY <1>1 DEF QueueInv, ValueAwaited
  <2> QED
    BY <1>1, <1>3, <2>1
<1> QED
  BY <1>2, <1>4 DEF QueueInv

(* put: the thread waits for room, or adds its value and tells a taker.    *)
LEMMA PutCallStep ==
  ASSUME QueueInv, NEW p \in Putters, Q!Put(p)
  PROVE  QueueInv'
<1> USE DEF QueueInv
<1>1. putter[p].at \in {"put", "woken"} /\ putter[p].left \in Int
  BY DEF Q!Put, QueueTypes
<1>2. /\ Cardinality(AwakePutters) \in Nat /\ Cardinality(AwakeTakers) \in Nat
      /\ Len(items) \in Nat /\ capacity \in Nat
  BY AwakeFinite, QueueAssumption DEF QueueTypes
<1>3. CASE Q!full
  <2>1. /\ putter' = [putter EXCEPT ![p].at = "notFull"]
        /\ bounded' = bounded /\ items' = items /\ put' = put /\ taker' = taker
        /\ taken' = taken /\ bounded /\ Len(items) = capacity
    BY <1>3 DEF Q!Put, Q!full
  <2>2. [putter EXCEPT ![p].at = "notFull"] =
          [putter EXCEPT ![p] = [at |-> "notFull", left |-> putter[p].left]]
    <3>1. PICK r \in [at : {"idle", "put", "notFull", "woken"}, left : Int] :
            r = putter[p]
      BY DEF QueueTypes
    <3>2. [r EXCEPT !.at = "notFull"] = [at |-> "notFull", left |-> r.left]
      OBVIOUS
    <3> QED
      BY <3>1, <3>2
  <2>3. /\ Cardinality(AwakePutters') = Cardinality(AwakePutters) - 1
        /\ putter' \in [Putters -> [at : {"idle", "put", "notFull", "woken"},
                                    left : Int]]
    BY <1>1, <2>1, <2>2, PutterRests
  <2>4. QueueTypes' /\ ValueAwaited' /\ (put = taken \o items)'
    BY <2>1, <2>3 DEF QueueTypes, ValueAwaited, AwakeTakers
  <2>5. Cardinality(AwakePutters') \in Nat
    <3>1. AwakePutters' \subseteq Putters
      BY DEF AwakePutters
    <3> QED
      BY <3>1, QueueAssumption, FS_Subset, FS_CardinalityType
  <2>6. RoomAwaited'
    BY <1>2, <2>1, <2>5 DEF RoomAwaited
  <2> QED
    BY <2>4, <2>6
<1>4. CASE ~ Q!full
  <2>1. PICK v \in Putters \X Int : v = <<p, putter[p].left>>
    BY <1>1
  <2>2. /\ putter' = [putter EXCEPT ![p] = [at |-> "idle",
                                            left |-> putter[p].left - 1]]
        /\ bounded' = bounded /\ taken' = taken /\ Q!NotifyNotEmpty
        /\ put' = Append(put, v) /\ items' = Append(items, v)
    BY <1>4, <2>1 DEF Q!Put, Q!PushBack
  <2>3. /\ Cardinality(AwakePutters') = Cardinality(AwakePutters) - 1
        /\ putter' \in [Putters -> [at : {"idle", "put", "notFull", "woken"},
                                    left : Int]]
        /\ \A x \in Putters :
             putter'[x].at = IF x = p THEN "idle" ELSE putter[x].at
    <3>1. putter[p].left - 1 \in Int
      BY <1>1
    <3> QED
      BY <1>1, <2>2, <3>1, PutterRests
  <2>4. /\ taker' \in [Takers -> {"idle", "take", "notEmpty", "woken"}]
        /\ (\E t \in Takers : taker'[t] = "notEmpty") =>
             /\ \E t \in Takers : taker[t] = "notEmpty"
             /\ Cardinality(AwakeTakers') = Cardinality(AwakeTakers) + 1
    BY <2>2, TakerTold
  <2>5. items' \in Seq(Putters \X Int) /\ Len(items') = Len(items) + 1
    BY <2>2 DEF QueueTypes
  <2>6. put' = taken' \o items'
    <3>1. taken \o Append(items, v) = Append(taken \o items, v)
      <4>1. taken \in Seq(Putters \X Int) /\ items \in Seq(Putters \X Int)
        BY DEF QueueTypes
      <4> QED
        BY <4>1, ValueMoves
    <3> QED
      BY <2>2, <3>1
  <2>7. QueueTypes'
    BY <2>2, <2>3, <2>4, <2>5 DEF QueueTypes
  <2>8. RoomAwaited'
    <3> SUFFICES ASSUME \E x \in Putters : putter'[x].at = "notFull"
                 PROVE  bounded' /\ capacity - Len(items') <=
                                      Cardinality(AwakePutters')
      BY DEF RoomAwaited
    <3>1. bounded /\ capacity - Len(items) <= Cardinality(AwakePutters)
      BY <2>3 DEF RoomAwaited
    <3> QED
      BY <1>2, <2>2, <2>3, <2>5, <3>1
  <2>9. ValueAwaited'
    <3> SUFFICES ASSUME \E x \in Takers : taker'[x] = "notEmpty"
                 PROVE  Len(items') <= Cardinality(AwakeTakers')
      BY DEF ValueAwaited
    <3>1. /\ Len(items) <= Cardinality(AwakeTakers)
          /\ Cardinality(AwakeTakers') = Cardinality(AwakeTakers) + 1
      BY <2>4 DEF ValueAwaited
    <3> QED
      BY <1>2, <2>5, <3>1
  <2> QED
    BY <2>6, <2>7, <2>8, <2>9
<1> QED
  BY <1>3, <1>4

(* take: the thread waits for a value, or takes the oldest and tells a     *)
(* putter.                                                                 *)
LEMMA TakeCallStep ==
  ASSUME QueueInv, NEW t \in Takers, Q!Take(t)
  PROVE  QueueInv'
<1> USE DEF QueueInv
<1>1. taker[t] \in {"take", "woken"}
  BY DEF Q!Take
<1>2. /\ Cardinality(AwakePutters) \in Nat /\ Cardinality(AwakeTakers) \in Nat
      /\ Len(items) \in Nat /\ capacity \in Nat
  BY AwakeFinite, QueueAssumption DEF QueueTypes
<1>3. CASE items = <<>>
  <2>1. /\ taker' = [taker EXCEPT ![t] = "notEmpty"]
        /\ bounded' = bounded /\ items' = items /\ put' = put
        /\ putter' = putter /\ taken' = taken
    BY <1>3 DEF Q!Take
  <2>2. taker' \in [Takers -> {"idle", "take", "notEmpty", "woken"}]
    BY <1>1, <2>1, TakerRests
  <2>3. QueueTypes' /\ RoomAwaited' /\ (put = taken \o items)'
    BY <2>1, <2>2 DEF QueueTypes, RoomAwaited, AwakePutters
  <2>4. Cardinality(AwakeTakers') \in Nat
    <3>1. AwakeTakers' \subseteq Takers
      BY DEF AwakeTakers
    <3> QED
      BY <3>1, QueueAssumption, FS_Subset, FS_CardinalityType
  <2>5. Len(items') = 0
    BY <1>3, <2>1
  <2>6. ValueAwaited'
    BY <2>4, <2>5 DEF ValueAwaited
  <2> QED
    BY <2>3, <2>6
<1>4. CASE items # <<>>
  <2>1. /\ taker' = [taker EXCEPT ![t] = "idle"]
        /\ bounded' = bounded /\ put' = put /\ Q!NotifyNotFull
        /\ taken' = Append(taken, Head(items)) /\ items' = Tail(items)
    BY <1>4 DEF Q!Take
  <2>2. /\ Cardinality(AwakeTakers') = Cardinality(AwakeTakers) - 1
        /\ taker' \in [Takers -> {"idle", "take", "notEmpty", "woken"}]
        /\ \A x \in Takers :
             taker'[x] = IF x = t THEN "idle" ELSE taker[x]
    BY <1>1, <2>1, TakerRests
  <2>3. /\ putter' \in [Putters -> [at : {"idle", "put", "notFull", "woken"},
                                    left : Int]]
        /\ (\E p \in Putters : putter'[p].at = "notFull") =>
             /\ \E p \in Putters : putter[p].at = "notFull"
             /\ Cardinality(AwakePutters') = Cardinality(AwakePutters) + 1
    BY <2>1, PutterTold
  <2>4. /\ items' \in Seq(Putters \X Int) /\ taken' \in Seq(Putters \X Int)
        /\ Len(items') = Len(items) - 1 /\ taken' \o items' = taken \o items
    <3>1. taken \in Seq(Putters \X Int) /\ items \in Seq(Putters \X Int)
      BY DEF QueueTypes
    <3> QED
      BY <1>4, <2>1, <3>1, ValueMoves
  <2>5. QueueTypes' /\ (put = taken \o items)'
    BY <2>1, <2>2, <2>3, <2>4 DEF QueueTypes
  <2>6. RoomAwaited'
    <3> SUFFICES ASSUME \E x \in Putters : putter'[x].at = "notFull"
                 PROVE  bounded' /\ capacity - Len(items') <=
                                      Cardinality(AwakePutters')
      BY DEF RoomAwaited
    <3>1. /\ bounded /\ capacity - Len(items) <= Cardinality(AwakePutters)
          /\ Cardinality(AwakePutters') = Cardinality(AwakePutters) + 1
      BY <2>3 DEF RoomAwaited
    <3> QED
      BY <1>2, <2>1, <2>4, <3>1
  <2>7. ValueAwaited'
    <3> SUFFICES ASSUME \E x \in Takers : taker'[x] = "notEmpty"
                 PROVE  Len(items') <= Cardinality(AwakeTakers')
      BY DEF ValueAwaited
    <3>1. Len(items) <= Cardinality(AwakeTakers)
      BY <2>2 DEF ValueAwaited
    <3> QED
      BY <1>2, <2>2, <2>4, <3>1
  <2> QED
    BY <2>5, <2>6, <2>7
<1> QED
  BY <1>3, <1>4

(* drain: everything moves at once; nobody waits for room.                 *)
LEMMA DrainStep ==
  ASSUME QueueInv, Q!Drain
  PROVE  QueueInv'
<1>1. /\ ~bounded /\ taken' = taken \o items /\ items' = <<>>
      /\ bounded' = bounded /\ putter' = putter /\ taker' = taker /\ put' = put
  BY DEF Q!Drain
<1>2. /\ taken \o items \in Seq(Putters \X Int)
      /\ (taken \o items) \o <<>> = taken \o items
  <2>1. taken \o items \in Seq(Putters \X Int)
    BY ConcatProperties DEF QueueInv, QueueTypes
  <2> QED
    BY <2>1, ConcatEmptySeq
<1>3. QueueTypes' /\ (put = taken \o items)' /\ RoomAwaited'
  BY <1>1, <1>2 DEF QueueInv, QueueTypes, RoomAwaited
<1>4. AwakeTakers' = AwakeTakers /\ Cardinality(AwakeTakers) \in Nat
  BY <1>1, AwakeFinite DEF QueueInv, AwakeTakers
<1>5. ValueAwaited'
  BY <1>1, <1>4 DEF ValueAwaited
<1> QED
  BY <1>3, <1>5 DEF QueueInv

(* Every step of the threads and their queue.                              *)
LEMMA QueueStep ==
  ASSUME QueueInv, Q!QueueNext
  PROVE  QueueInv'
<1>1. ASSUME NEW p \in Putters, Q!CallPut(p)
      PROVE  QueueInv'
  <2>1. /\ putter[p].at \notin {"put", "woken"}
        /\ putter' = [putter EXCEPT ![p].at = "put"]
        /\ UNCHANGED <<bounded, items, taker, put, taken>>
    BY <1>1 DEF Q!CallPut
  <2> QED
    BY <2>1, PutterBeginsStep
<1>2. ASSUME NEW t \in Takers, Q!CallTake(t)
      PROVE  QueueInv'
  <2>1. /\ taker[t] \notin {"take", "woken"}
        /\ taker' = [taker EXCEPT ![t] = "take"]
        /\ UNCHANGED <<bounded, items, putter, put, taken>>
    BY <1>2 DEF Q!CallTake
  <2> QED
    BY <2>1, TakerBeginsStep
<1>3. ASSUME Q!QueueSpurious
      PROVE  QueueInv'
  <2>1. ASSUME NEW t \in Takers, taker[t] = "notEmpty",
               taker' = [taker EXCEPT ![t] = "woken"], UNCHANGED putter
        PROVE  QueueInv'
    <3>1. UNCHANGED <<bounded, items, putter, put, taken>>
      BY <1>3, <2>1 DEF Q!QueueSpurious
    <3> QED
      BY <2>1, <3>1, TakerBeginsStep
  <2>2. ASSUME NEW p \in Putters, putter[p].at = "notFull",
               putter' = [putter EXCEPT ![p].at = "woken"], UNCHANGED taker
        PROVE  QueueInv'
    <3>1. UNCHANGED <<bounded, items, taker, put, taken>>
      BY <1>3, <2>2 DEF Q!QueueSpurious
    <3> QED
      BY <2>2, <3>1, PutterBeginsStep
  <2> QED
    BY <1>3, <2>1, <2>2 DEF Q!QueueSpurious
<1> QED
  BY <1>1, <1>2, <1>3, PutCallStep, TakeCallStep, DrainStep DEF Q!QueueNext

(* Both queues start empty, with every thread elsewhere.                   *)
LEMMA QueueStart ==
  ASSUME Q!QueueInit
  PROVE  QueueInv
<1>1. /\ bounded \in BOOLEAN /\ items = <<>> /\ put = <<>> /\ taken = <<>>
      /\ putter = [p \in Putters |-> [at |-> "idle", left |-> MaxPuts]]
      /\ taker = [t \in Takers |-> "idle"]
  BY DEF Q!QueueInit
<1>2. items \in Seq(Putters \X Int) /\ taken \in Seq(Putters \X Int)
  BY <1>1
<1>3. QueueTypes
  BY <1>1, <1>2, QueueAssumption DEF QueueTypes
<1>4. RoomAwaited /\ ValueAwaited
  BY <1>1 DEF RoomAwaited, ValueAwaited
<1>5. <<>> = <<>> \o <<>>
  OBVIOUS
<1> QED
  BY <1>1, <1>3, <1>4, <1>5 DEF QueueInv

(* What the invariant is for.                                              *)
LEMMA QueueImplied ==
  ASSUME QueueInv
  PROVE  QueuesSound
<1>1. \A D : Q!Cardinality(D) = Cardinality(D)
  BY DEF Q!Cardinality, Cardinality
<1>2. Q!NobodyWaitsInVain
  BY <1>1 DEF Q!NobodyWaitsInVain, QueueInv, RoomAwaited, ValueAwaited,
              AwakePutters, AwakeTakers
<1> QED
  BY <1>2 DEF QueuesSound, Q!ValuesInOrder, QueueInv

(* Steps elsewhere.                                                        *)
LEMMA QueueStutter ==
  ASSUME QueueInv, UNCHANGED <<bounded, items, putter, taker, put, taken>>
  PROVE  QueueInv'
BY DEF QueueInv, QueueTypes, RoomAwaited, ValueAwaited, AwakePutters,
       AwakeTakers

(* BlockingQueue.h:31-69, BoundedBlockingQueue.h:30-66: for any number of  *)
(* threads, values and places, no thread waits for what nobody else is     *)
(* awake to take, and the values are taken in the order they were put in.  *)
THEOREM QueuesAlwaysSound == Spec => []QueuesSound
<1>1. Init => QueueInv
  BY QueueStart DEF Init
<1>2. QueueInv /\ [Next]_vars => QueueInv'
  <2>1. Next => [Q!QueueNext]_queueVars
    <3> SUFFICES ASSUME Next
                 PROVE  [Q!QueueNext]_queueVars
      OBVIOUS
    <3> QED
      BY DEF Next, libraryVars
  <2>2. [Next]_vars => [Q!QueueNext]_queueVars
    BY <2>1 DEF vars
  <2> QED
    BY <2>2, QueueStep, QueueStutter DEF queueVars
<1>3. QueueInv => QueuesSound
  BY QueueImplied
<1> QED
  BY <1>1, <1>2, <1>3, PTL DEF Spec
=============================================================================
