---------------------------- MODULE ServerMetrics ----------------------------
(***************************************************************************)
(* The counters of src/server/ServerMetrics.cc.  The io threads record     *)
(* requests and connections, one atomic counter after the other, while a   *)
(* timer of the main loop takes a snapshot, also counter by counter.       *)
(***************************************************************************)
EXTENDS Integers, Sequences, FiniteSets

CONSTANTS IoThreads,
          MaxMessages, MaxSnapshots,  \* bounds on requests, on snapshots
          MaxConnections              \* and on connections

Counters == {"totalConnections", "droppedConnections", "totalMessages",
             "intervalMessages", "intervalLatencyMicros",
             "intervalLatencySamples"}

VARIABLES
  count,       \* the six atomic counters
  recording,   \* per io thread: how far its recordMessage is, 0 when idle
  open,        \* connections that are up
  snapshot,    \* what snapshotAndReset has read so far
  reported     \* messages of all finished snapshots, and the number of these

metricsVars == <<count, recording, open, snapshot, reported>>

MetricsInit ==
  /\ count = [c \in Counters |-> 0]
  /\ recording = [t \in IoThreads |-> 0]
  /\ open = 0
  /\ snapshot = <<>>
  /\ reported = [messages |-> 0, snapshots |-> 0, exact |-> TRUE]

-----------------------------------------------------------------------------
Add(c, n) == count' = [count EXCEPT ![c] = @ + n]

(* recordMessage of a request that took no time or one unit: onMessage     *)
(* calls it; a negative latency counts as none.                            *)
RecordSteps == <<"totalMessages", "intervalMessages",
                 "intervalLatencyMicros", "intervalLatencySamples">>

RecordMessage(t) ==
  LET step == recording[t] + 1 IN
    /\ step = 1 => count["totalMessages"] < MaxMessages
    /\ \E n \in IF step = 3 THEN {0, 1} ELSE {1} : Add(RecordSteps[step], n)
    /\ recording' = [recording EXCEPT ![t] = step % 4]
    /\ UNCHANGED <<open, snapshot, reported>>

(* recordConnectionOpened and recordConnectionDropped, by onConnection     *)
ConnectionOpened ==
  /\ count["totalConnections"] < MaxConnections
  /\ Add("totalConnections", 1) /\ open' = open + 1
  /\ UNCHANGED <<recording, snapshot, reported>>

ConnectionDropped ==
  /\ open > 0 /\ open' = open - 1 /\ Add("droppedConnections", 1)
  /\ UNCHANGED <<recording, snapshot, reported>>

-----------------------------------------------------------------------------
(* Mutant: the total is read before the interval's messages.               *)
SnapshotStepsTotalFirst == <<"totalMessages", "intervalMessages",
                             "totalConnections", "droppedConnections",
                             "intervalLatencyMicros", "intervalLatencySamples">>

(* The counters in the order snapshotAndReset reads them; those of the     *)
(* interval are reset as they are read.                                    *)
SnapshotSteps == <<"intervalMessages", "totalMessages",
                   "totalConnections", "droppedConnections",
                   "intervalLatencyMicros", "intervalLatencySamples">>

IntervalCounters == {"intervalMessages", "intervalLatencyMicros",
                     "intervalLatencySamples"}

SnapshotAndReset ==
  LET c == SnapshotSteps[Len(snapshot) + 1]
      now == Append(snapshot, count[c])
      Value(d) == now[CHOOSE i \in DOMAIN now : SnapshotSteps[i] = d]
      shown == reported.messages + Value("intervalMessages") IN
    /\ snapshot = <<>> => reported.snapshots < MaxSnapshots
    /\ count' = IF c \in IntervalCounters THEN [count EXCEPT ![c] = 0] ELSE count
    /\ IF Len(now) < Len(SnapshotSteps)
       THEN snapshot' = now /\ UNCHANGED reported
       ELSE /\ snapshot' = <<>>
            /\ reported' = [messages |-> shown,
                            snapshots |-> reported.snapshots + 1,
                            exact |-> Value("totalMessages") >= shown]

(* The timer's callback; the averages it prints change nothing.            *)
PrintPerformanceStats == SnapshotAndReset /\ UNCHANGED <<recording, open>>

MetricsNext ==
  \/ \E t \in IoThreads : RecordMessage(t)
  \/ ConnectionOpened \/ ConnectionDropped
  \/ PrintPerformanceStats

-----------------------------------------------------------------------------
(* What the running snapshot has taken from the interval's messages.       *)
Pending ==
  LET read == {i \in DOMAIN snapshot : SnapshotSteps[i] = "intervalMessages"}
  IN  IF read = {} THEN 0 ELSE snapshot[CHOOSE i \in read : TRUE]

(* ServerMetrics.cc:26-75: every message is in exactly one interval, or    *)
(* its thread is between the two counters, and no line of statistics shows *)
(* fewer messages in total than the intervals so far have shown.           *)
SnapshotsAddUp ==
  /\ reported.exact
  /\ count["totalMessages"] =
       reported.messages + Pending + count["intervalMessages"]
         + Cardinality({t \in IoThreads : recording[t] = 1})
=============================================================================
