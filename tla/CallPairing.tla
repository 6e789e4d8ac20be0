---------------------------- MODULE CallPairing ----------------------------
(***************************************************************************)
(* What the call manager promises, without its data structures: at any     *)
(* time there is a set of calls, each with its own id, no two of which     *)
(* share a user.  A call begins pending, may be accepted once, and ends.   *)
(* README.md:231 of the repository: "Starting a call atomically reserves   *)
(* both users ... preventing any user from joining two calls."             *)
(***************************************************************************)
CONSTANTS Users, CallIds

VARIABLE active        \* the calls that have begun and have not ended

Call == [id : CallIds, caller : Users, callee : Users, accepted : BOOLEAN]

Parties(c) == {c.caller, c.callee}

-----------------------------------------------------------------------------

Init == active = {}

(* A new pending call between two users who are in no call.                *)
Begin(c) ==
  /\ ~c.accepted
  /\ c.caller # c.callee
  /\ \A d \in active : d.id # c.id /\ Parties(c) \cap Parties(d) = {}
  /\ active' = active \cup {c}

Answered(c) ==
  [id |-> c.id, caller |-> c.caller, callee |-> c.callee, accepted |-> TRUE]

Accept(c) ==
  /\ c \in active
  /\ ~c.accepted
  /\ active' = (active \ {c}) \cup {Answered(c)}

Finish(c) ==
  /\ c \in active
  /\ active' = active \ {c}

Next == \E c \in Call : Begin(c) \/ Accept(c) \/ Finish(c)

Spec == Init /\ [][Next]_active
=============================================================================
