---------------------------- MODULE AsyncLogging ----------------------------
(***************************************************************************)
(* The server's log: server/main.cc hands every line to AsyncLogging.cc,   *)
(* whose thread writes full buffers, or what there is after a while, to a  *)
(* LogFile.cc over an AppendFile (FileUtil.cc).  Lines are numbered in the *)
(* order of append; sizes are counted in lines.                            *)
(***************************************************************************)
EXTENDS Integers, Sequences, FiniteSets, Functions

CONSTANTS
  kLargeBuffer,       \* a buffer holds fewer lines than this
  MaxBuffers,         \* 25: more buffers than this are dropped but two
  rollSize, checkEveryN, flushInterval, kRollPerSeconds,
  MaxLogLines, MaxLogTime   \* bounds

VARIABLES
  process,     \* "running", "stopping", "stopped" or "aborted"
  lines,       \* how many lines were appended
  current, next, buffers,   \* currentBuffer_, whether there is a nextBuffer_,
                            \* buffers_
  writer,      \* threadFunc: its stage, newBuffer1 and newBuffer2 (whether
               \* they are there), buffersToWrite, and how many are written
  dropped,     \* lines that were given up, and how often that was done
  logFile,     \* LogFile: count_, startOfPeriod_, lastRoll_, lastFlush_
  files,       \* the files, each a sequence of lines; 0 is a notice
  flushed,     \* lines of the last file that are not only in its buffer
  seconds      \* the clock

logVars == <<process, lines, current, next, buffers, writer, dropped, logFile,
             files, flushed, seconds>>

fileVars == <<logFile, files, flushed>>

PeriodOf(time) == (time \div kRollPerSeconds) * kRollPerSeconds

LogInit ==
  /\ process = "running" /\ lines = 0
  /\ current = <<>> /\ next = TRUE /\ buffers = <<>>
  /\ writer = [stage |-> "loop", new1 |-> TRUE, new2 |-> TRUE,
               toWrite |-> <<>>, written |-> 0]
  /\ dropped = [lines |-> {}, times |-> 0]
  /\ logFile = [count |-> 0, period |-> PeriodOf(1), lastRoll |-> 1,
                lastFlush |-> 1]
  /\ files = <<<<>>>> /\ flushed = 0 /\ seconds = 1

-----------------------------------------------------------------------------
(* AsyncLogging::append, by any thread that logs                           *)

(* Mutant: the full buffer is not kept.                                    *)
PutReplaces(line) ==
  IF kLargeBuffer - Len(current) > 1
  THEN current' = Append(current, line) /\ UNCHANGED <<next, buffers>>
  ELSE /\ current' = <<line>> /\ next' = FALSE
       /\ UNCHANGED buffers

Put(line) ==
  IF kLargeBuffer - Len(current) > 1
  THEN current' = Append(current, line) /\ UNCHANGED <<next, buffers>>
  ELSE /\ buffers' = Append(buffers, current)
       /\ current' = <<line>> /\ next' = FALSE

AppendLine ==
  /\ process = "running" /\ lines < MaxLogLines /\ lines' = lines + 1
  /\ Put(lines + 1)
  /\ UNCHANGED <<process, writer, dropped, fileVars, seconds>>

(* ~Logger of a fatal line: asyncFlush flushes nothing, then abort.        *)
LogFatal ==
  /\ process = "running" /\ process' = "aborted" /\ lines < MaxLogLines
  /\ lines' = lines + 1 /\ Put(lines + 1)
  /\ UNCHANGED <<writer, dropped, fileVars, seconds>>

(* stop, by the destructor: main returns when it cannot open the database. *)
Stop ==
  /\ process = "running" /\ process' = "stopping"
  /\ UNCHANGED <<lines, current, next, buffers, writer, dropped, fileVars,
                 seconds>>

-----------------------------------------------------------------------------
(* LogFile                                                                 *)

FilesWith(data) == [files EXCEPT ![Len(files)] = @ \o data]

(* rollFile: at most once in a second; closing a file flushes it.          *)
RollFile(count, written) ==
  IF seconds > logFile.lastRoll
  THEN /\ logFile' = [count |-> count, period |-> PeriodOf(seconds),
                      lastRoll |-> seconds, lastFlush |-> seconds]
       /\ files' = Append(written, <<>>) /\ flushed' = 0
  ELSE /\ logFile' = [logFile EXCEPT !.count = count]
       /\ files' = written /\ UNCHANGED flushed

(* append_unlocked                                                         *)
AppendToFile(data) ==
  LET written == FilesWith(data)
      count == (logFile.count + 1) % checkEveryN IN
  IF Len(written[Len(written)]) > rollSize THEN RollFile(logFile.count, written)
  ELSE IF count = 0 /\ PeriodOf(seconds) # logFile.period
  THEN RollFile(0, written)
  ELSE /\ files' = written
       /\ IF count = 0 /\ seconds - logFile.lastFlush > flushInterval
          THEN /\ logFile' = [logFile EXCEPT !.count = 0, !.lastFlush = seconds]
               /\ flushed' = Len(written[Len(written)])
          ELSE logFile' = [logFile EXCEPT !.count = count] /\ UNCHANGED flushed

-----------------------------------------------------------------------------
(* threadFunc                                                              *)

WriterAt(stage) == process # "aborted" /\ writer.stage = stage

(* The loop's condition, then the mutex; it may wait when nothing is full. *)
Check ==
  /\ WriterAt("loop")
  /\ writer' = [writer EXCEPT !.stage = IF process = "running" THEN "wait"
                                        ELSE "ended"]
  /\ flushed' = IF process = "running" THEN flushed ELSE Len(files[Len(files)])
  /\ UNCHANGED <<process, lines, current, next, buffers, dropped, logFile,
                 files, seconds>>

(* waitForSeconds ends at any time, or there was no need to wait: the      *)
(* thread takes the full buffers and the current one.                      *)
Swap ==
  /\ WriterAt("wait")
  /\ writer' = [stage |-> "drop", new1 |-> FALSE,
                new2 |-> writer.new2 /\ next,
                toWrite |-> Append(buffers, current), written |-> 0]
  /\ current' = <<>> /\ buffers' = <<>> /\ next' = TRUE
  /\ UNCHANGED <<process, lines, dropped, fileVars, seconds>>

(* Too many buffers: a notice is written, the first two are kept.          *)
Drop ==
  /\ WriterAt("drop")
  /\ LET all == writer.toWrite
         gone == UNION {Range(all[i]) : i \in 3..Len(all)} IN
       IF Len(all) > MaxBuffers
       THEN /\ writer' = [writer EXCEPT !.stage = "write",
                                        !.toWrite = SubSeq(all, 1, 2)]
            /\ dropped' = [lines |-> dropped.lines \cup gone,
                           times |-> dropped.times + 1]
            /\ AppendToFile(<<0>>)
       ELSE /\ writer' = [writer EXCEPT !.stage = "write"]
            /\ UNCHANGED <<dropped, fileVars>>
  /\ UNCHANGED <<process, lines, current, next, buffers, seconds>>

WriteBuffer ==
  /\ WriterAt("write") /\ writer.written < Len(writer.toWrite)
  /\ AppendToFile(writer.toWrite[writer.written + 1])
  /\ writer' = [writer EXCEPT !.written = @ + 1]
  /\ UNCHANGED <<process, lines, current, next, buffers, dropped, seconds>>

(* Two of the buffers become newBuffer1 and newBuffer2 again; the file is  *)
(* flushed.                                                                *)
Recycle ==
  /\ WriterAt("write") /\ writer.written = Len(writer.toWrite)
  /\ writer' = [stage |-> "loop", new1 |-> TRUE, new2 |-> TRUE,
                toWrite |-> <<>>, written |-> 0]
  /\ flushed' = Len(files[Len(files)])
  /\ UNCHANGED <<process, lines, current, next, buffers, dropped, logFile,
                 files, seconds>>

(* thread_.join of stop                                                    *)
Join ==
  /\ process = "stopping" /\ writer.stage = "ended" /\ process' = "stopped"
  /\ UNCHANGED <<lines, current, next, buffers, writer, dropped, fileVars,
                 seconds>>

Second ==
  /\ seconds < MaxLogTime /\ seconds' = seconds + 1
  /\ UNCHANGED <<process, lines, current, next, buffers, writer, dropped,
                 fileVars>>

LogNext ==
  \/ AppendLine \/ LogFatal \/ Stop \/ Join \/ Second
  \/ Check \/ Swap \/ Drop \/ WriteBuffer \/ Recycle

-----------------------------------------------------------------------------
(* Where lines are, the oldest first: the files, what the thread has yet to *)
(* write, the full buffers, the current one.                               *)
Places ==
  files \o SubSeq(writer.toWrite, writer.written + 1, Len(writer.toWrite))
        \o buffers \o <<current>>

LinesIn(places) == UNION {Range(places[p]) : p \in DOMAIN places}

InAppendOrder(places) ==
  \A p, q \in DOMAIN places :
    \A i \in DOMAIN places[p], j \in DOMAIN places[q] :
      /\ p < q \/ (p = q /\ i < j)
      /\ places[p][i] # 0 /\ places[q][j] # 0
      => places[p][i] < places[q][j]

Notices ==
  UNION {{<<f, i>> : i \in {k \in DOMAIN files[f] : files[f][k] = 0}} :
           f \in DOMAIN files}

(* AsyncLogging.cc:34-135, LogFile.cc:64-108: whatever the pace of those   *)
(* who log, the files and then the buffers hold the lines in the order of  *)
(* append, each once, less those that were dropped with a notice; and the  *)
(* thread finds as many buffers to use again as it gave away.              *)
LogInOrder ==
  /\ InAppendOrder(Places)
  /\ LinesIn(Places) \ {0} = 1..lines \ dropped.lines
  /\ Cardinality(Notices) = dropped.times
  /\ writer.stage = "write" => Len(writer.toWrite) >= IF writer.new2 THEN 1 ELSE 2
=============================================================================
