---------------------------- MODULE StressClient ----------------------------
(***************************************************************************)
(* The load generator, src/tools/StressClient.cc: threads that wait at the *)
(* gate, connect, log in and send themselves private messages until the    *)
(* time is over, counting in shared atomics, and the main thread, which    *)
(* opens the gate, joins them and writes the CSV line.  The server echoes  *)
(* messages back, late, or closes.  Latencies are left out.                *)
(***************************************************************************)
EXTENDS Integers, FiniteSets

CONSTANTS Clients, MaxSends   \* bound on the messages of one client

VARIABLES
  opened,      \* StartGate::started
  timeOver,    \* endTime has passed
  stage,       \* of a client: "gate", "connect", "login", "loop", "last" or
               \* "done"
  server,      \* of a client's connection at the server: "none", "up", "closed"
  loggedIn,    \* whether the server has the client's login
  inFlight,    \* of a client: messages the server has, echoes it will read
  metrics,     \* the atomics of Metrics
  csv          \* what writeCsv has written, or none

stressVars == <<opened, timeOver, stage, server, loggedIn, inFlight, metrics,
                csv>>

None == [attempts |-> -1, successes |-> -1, failures |-> -1,
         sent |-> -1, received |-> -1]

StressInit ==
  /\ opened = FALSE /\ timeOver = FALSE
  /\ stage = [c \in Clients |-> "gate"]
  /\ server = [c \in Clients |-> "none"]
  /\ loggedIn = [c \in Clients |-> FALSE]
  /\ inFlight = [c \in Clients |-> [sent |-> 0, echoed |-> 0, left |-> MaxSends]]
  /\ metrics = [m \in DOMAIN None |-> 0]
  /\ csv = None

To(c, s) == stage' = [stage EXCEPT ![c] = s]
Counted(m) == metrics' = [metrics EXCEPT ![m] = @ + 1]

-----------------------------------------------------------------------------
(* clientThread                                                            *)

PassGate(c) ==
  /\ stage[c] = "gate" /\ opened /\ To(c, "connect") /\ Counted("attempts")
  /\ UNCHANGED <<opened, timeOver, server, loggedIn, inFlight, csv>>

(* connectToServer                                                         *)
Connect(c) ==
  /\ stage[c] = "connect"
  /\ \/ /\ To(c, "login") /\ Counted("successes")
        /\ server' = [server EXCEPT ![c] = "up"]
     \/ /\ To(c, "done") /\ Counted("failures") /\ UNCHANGED server
  /\ UNCHANGED <<opened, timeOver, loggedIn, inFlight, csv>>

(* sendAll: into a connection that the server has closed it may still      *)
(* succeed.  The server may refuse the login: the client does not look.    *)
SendLogin(c) ==
  /\ stage[c] = "login"
  /\ \/ /\ To(c, "loop")
        /\ \E accepted \in BOOLEAN :
             loggedIn' = [loggedIn EXCEPT ![c] = accepted /\ server[c] = "up"]
     \/ server[c] = "closed" /\ To(c, "done") /\ UNCHANGED loggedIn
  /\ UNCHANGED <<opened, timeOver, server, inFlight, metrics, csv>>

SendPrivate(c) ==
  /\ stage[c] = "loop" /\ inFlight[c].left > 0
  /\ \/ /\ Counted("sent") /\ UNCHANGED stage
        /\ inFlight' = [inFlight EXCEPT ![c].left = @ - 1,
                          ![c].sent = IF server[c] = "up" THEN @ + 1 ELSE @]
     \/ /\ server[c] = "closed" /\ To(c, "last")
        /\ UNCHANGED <<metrics, inFlight>>
  /\ UNCHANGED <<opened, timeOver, server, loggedIn, csv>>

(* drainSocket and handleLine, one echo at a time                          *)
Drain(c) ==
  /\ stage[c] \in {"loop", "last"} /\ inFlight[c].echoed > 0
  /\ inFlight' = [inFlight EXCEPT ![c].echoed = @ - 1]
  /\ Counted("received")
  /\ UNCHANGED <<opened, timeOver, stage, server, loggedIn, csv>>

(* The loop ends; the socket is drained once more, of what has arrived by  *)
(* then, and closed.                                                       *)
EndLoop(c) ==
  /\ stage[c] = "loop" /\ timeOver /\ To(c, "last")
  /\ UNCHANGED <<opened, timeOver, server, loggedIn, inFlight, metrics, csv>>

EndDrain(c) ==
  /\ stage[c] = "last" /\ To(c, "done")
  /\ UNCHANGED <<opened, timeOver, server, loggedIn, inFlight, metrics, csv>>

(* The server: one private event for a request, or it closes.              *)
Echo(c) ==
  /\ server[c] = "up" /\ loggedIn[c] /\ inFlight[c].sent > 0
  /\ inFlight' = [inFlight EXCEPT ![c].sent = @ - 1, ![c].echoed = @ + 1]
  /\ UNCHANGED <<opened, timeOver, stage, server, loggedIn, metrics, csv>>

ServerCloses(c) ==
  /\ server[c] = "up" /\ server' = [server EXCEPT ![c] = "closed"]
  /\ UNCHANGED <<opened, timeOver, stage, loggedIn, inFlight, metrics, csv>>

-----------------------------------------------------------------------------
(* main                                                                    *)

OpenGate ==
  /\ ~opened /\ opened' = TRUE
  /\ UNCHANGED <<timeOver, stage, server, loggedIn, inFlight, metrics, csv>>

TimePasses ==
  /\ ~timeOver /\ timeOver' = TRUE
  /\ UNCHANGED <<opened, stage, server, loggedIn, inFlight, metrics, csv>>

(* Mutant: the line is written when the time is over.                      *)
WriteCsvEarly ==
  /\ csv = None /\ timeOver
  /\ csv' = metrics
  /\ UNCHANGED <<opened, timeOver, stage, server, loggedIn, inFlight, metrics>>

(* writeCsv, after every thread was joined                                 *)
WriteCsv ==
  /\ csv = None /\ \A c \in Clients : stage[c] = "done"
  /\ csv' = metrics
  /\ UNCHANGED <<opened, timeOver, stage, server, loggedIn, inFlight, metrics>>

StressNext ==
  \/ \E c \in Clients :
       \/ PassGate(c) \/ Connect(c) \/ SendLogin(c) \/ SendPrivate(c)
       \/ Drain(c) \/ EndLoop(c) \/ EndDrain(c)
       \/ Echo(c) \/ ServerCloses(c)
  \/ OpenGate \/ TimePasses \/ WriteCsv

-----------------------------------------------------------------------------
(* StressClient.cc:386-493: the CSV line counts every client once, as a    *)
(* connection or as a failure, and no more echoes than messages.           *)
CsvCounts ==
  csv # None =>
    /\ csv.attempts = Cardinality(Clients)
    /\ csv.attempts = csv.successes + csv.failures
    /\ csv.received <= csv.sent
=============================================================================
