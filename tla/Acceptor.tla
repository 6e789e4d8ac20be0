------------------------------ MODULE Acceptor ------------------------------
(***************************************************************************)
(* The acceptor of the server, net/Acceptor.cc, in a process that runs out *)
(* of descriptors.  It keeps one on /dev/null to give up when accept fails *)
(* for that (EMFILE), so that the client that waits can be turned away.    *)
(* Meanwhile the other threads of the process open and close descriptors   *)
(* of their own: connections, the database.  The kernel gives the lowest   *)
(* number that is free.                                                    *)
(***************************************************************************)
EXTENDS Integers, FiniteSets

CONSTANTS MaxFd,        \* descriptors are 1..MaxFd
          MaxClients,   \* bound on the clients that come
          MaxOpens      \* bound on the descriptors other threads open

VARIABLES
  descriptors, \* who has each: "free", "idle" (/dev/null), "refused" (just
               \* accepted, to be closed), "connection" or "other"
  idleFd,      \* idleFd_; -1 if it could not be opened
  accepting,   \* where handleRead is: "poll", "close", "accept", "refuse",
               \* "open"
  backlog,     \* clients that wait to be accepted
  came,        \* clients that have come, and descriptors others have opened
  othersOpened,
  wrongClose   \* has the acceptor closed a descriptor of somebody else

acceptVars == <<descriptors, idleFd, accepting, backlog, came, othersOpened,
                wrongClose>>

Free == {fd \in DOMAIN descriptors : descriptors[fd] = "free"}
Lowest == CHOOSE fd \in Free : \A other \in Free : fd <= other

AcceptInit ==
  /\ descriptors = [fd \in 1..MaxFd |-> IF fd = 1 THEN "idle" ELSE "free"]
  /\ idleFd = 1 /\ accepting = "poll" /\ backlog = 0 /\ came = 0
  /\ othersOpened = 0 /\ wrongClose = FALSE

-----------------------------------------------------------------------------
ClientComes ==
  /\ came < MaxClients /\ came' = came + 1 /\ backlog' = backlog + 1
  /\ UNCHANGED <<descriptors, idleFd, accepting, othersOpened, wrongClose>>

OtherOpens ==
  /\ Free # {} /\ othersOpened < MaxOpens /\ othersOpened' = othersOpened + 1
  /\ descriptors' = [descriptors EXCEPT ![Lowest] = "other"]
  /\ UNCHANGED <<idleFd, accepting, backlog, came, wrongClose>>

OtherCloses ==
  /\ \E fd \in DOMAIN descriptors :
       /\ descriptors[fd] \in {"other", "connection"}
       /\ descriptors' = [descriptors EXCEPT ![fd] = "free"]
  /\ UNCHANGED <<idleFd, accepting, backlog, came, othersOpened, wrongClose>>

(* handleRead: accept, and hand the descriptor to newConnection.           *)
HandleRead ==
  /\ accepting = "poll" /\ backlog > 0
  /\ IF Free = {}
     THEN accepting' = "close" /\ UNCHANGED <<descriptors, backlog>>
     ELSE /\ descriptors' = [descriptors EXCEPT ![Lowest] = "connection"]
          /\ backlog' = backlog - 1 /\ UNCHANGED accepting
  /\ UNCHANGED <<idleFd, came, othersOpened, wrongClose>>

(* close(idleFd_), which does nothing to -1                                *)
CloseIdle(before, after) ==
  /\ accepting = before /\ accepting' = after
  /\ IF idleFd = -1 THEN UNCHANGED <<descriptors, wrongClose>>
     ELSE /\ descriptors' = [descriptors EXCEPT ![idleFd] = "free"]
          /\ wrongClose' = (wrongClose \/
                             descriptors[idleFd] \notin {"idle", "refused"})
  /\ UNCHANGED <<idleFd, backlog, came, othersOpened>>

GiveUpIdle == CloseIdle("close", "accept")
Refuse == CloseIdle("refuse", "open")

(* Mutant: the result of accept is kept only if it is a descriptor.        *)
AcceptKeepsOld ==
  /\ accepting = "accept"
  /\ IF Free = {}
     THEN accepting' = "refuse" /\ UNCHANGED <<descriptors, idleFd, backlog>>
     ELSE /\ descriptors' = [descriptors EXCEPT ![Lowest] = "refused"]
          /\ idleFd' = Lowest /\ backlog' = backlog - 1
          /\ accepting' = "refuse"
  /\ UNCHANGED <<came, othersOpened, wrongClose>>

(* idleFd_ = accept(...)                                                   *)
AcceptAgain ==
  /\ accepting = "accept" /\ accepting' = "refuse"
  /\ IF Free = {}
     THEN idleFd' = -1 /\ UNCHANGED <<descriptors, backlog>>
     ELSE /\ descriptors' = [descriptors EXCEPT ![Lowest] = "refused"]
          /\ idleFd' = Lowest /\ backlog' = backlog - 1
  /\ UNCHANGED <<came, othersOpened, wrongClose>>

(* idleFd_ = open("/dev/null", ...)                                        *)
OpenIdle ==
  /\ accepting = "open" /\ accepting' = "poll"
  /\ IF Free = {} THEN idleFd' = -1 /\ UNCHANGED descriptors
     ELSE /\ descriptors' = [descriptors EXCEPT ![Lowest] = "idle"]
          /\ idleFd' = Lowest
  /\ UNCHANGED <<backlog, came, othersOpened, wrongClose>>

AcceptorStep ==
  HandleRead \/ GiveUpIdle \/ AcceptAgain \/ Refuse \/ OpenIdle

AcceptNext == ClientComes \/ OtherOpens \/ OtherCloses \/ AcceptorStep

-----------------------------------------------------------------------------
(* Acceptor.cc:55-88: whichever descriptors other threads take while the   *)
(* acceptor has given up its own, it never closes one of theirs and it     *)
(* never forgets one of its own.                                           *)
DescriptorsOwned ==
  /\ ~wrongClose
  /\ \A fd \in DOMAIN descriptors :
       descriptors[fd] \in {"idle", "refused"} => fd = idleFd

(* The same lines: a client that waits is accepted or turned away, unless  *)
(* another thread took the descriptor that was given up for it.            *)
ClientsHeard == backlog > 0 ~> (backlog = 0 \/ idleFd = -1)
=============================================================================
