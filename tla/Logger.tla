------------------------------- MODULE Logger -------------------------------
(***************************************************************************)
(* muduo's LogStream: integers to text, and the buffer of fixed size that  *)
(* drops what does not fit; the text is a sequence of pieces, each with    *)
(* its length.  Logging.cc: statements of several threads, each written as *)
(* a line.  The text of the current second is kept per thread; a           *)
(* statement's arguments may log themselves.                               *)
(***************************************************************************)
EXTENDS TimeZone, FiniteSetsExt, SequencesExt, Functions

CONSTANTS
  kSmallBuffer, kMaxNumericSize,
  Threads,
  Seconds,            \* what the clock may show; it may be set back
  Strings,            \* what is logged: the lengths of texts; numbers are
                      \* in the header and at the end
  LineZone,           \* g_logTimeZone if it is valid
  MaxLines, MaxPieces \* bounds: statements begun, arguments of one

TRACE == 1
INFO == 3
ERROR == 5
FATAL == 6

-----------------------------------------------------------------------------
(* LogStream                                                               *)

(* digits and zero: the digit of a remainder, which C++ gives the sign of  *)
(* the number.                                                             *)
digits == <<"9", "8", "7", "6", "5", "4", "3", "2", "1", "0",
            "1", "2", "3", "4", "5", "6", "7", "8", "9">>
zero(lsd) == digits[10 + lsd]

digitsHex == <<"0", "1", "2", "3", "4", "5", "6", "7", "8", "9",
               "A", "B", "C", "D", "E", "F">>

Tens(i) == IF i >= 0 THEN i \div 10 ELSE -((-i) \div 10)

(* Mutant: the digits end when the rest is not positive.                   *)
convertWhilePositive(value) ==
  LET text[n \in Int] ==
        (IF Tens(n) <= 0 THEN <<>> ELSE text[Tens(n)])
          \o <<zero(n - 10 * Tens(n))>>
  IN (IF value < 0 THEN <<"-">> ELSE <<>>) \o text[value]

convert(value) ==
  LET text[n \in Int] ==
        (IF Tens(n) = 0 THEN <<>> ELSE text[Tens(n)])
          \o <<zero(n - 10 * Tens(n))>>
  IN (IF value < 0 THEN <<"-">> ELSE <<>>) \o text[value]

convertHex(value) ==
  LET text[n \in Nat] ==
        (IF n < 16 THEN <<>> ELSE text[n \div 16]) \o <<digitsHex[(n % 16) + 1]>>
  IN text[value]

-----------------------------------------------------------------------------
(* FixedBuffer                                                             *)

TextLength(data) == FoldFunction(LAMBDA piece, sum : piece.len + sum, 0, data)

avail(data) == kSmallBuffer - TextLength(data)

(* Mutant: a text that is as long as the space is cut off nowhere.         *)
appendFills(data, piece) ==
  IF avail(data) >= piece.len THEN Append(data, piece) ELSE data

append(data, piece) ==
  IF avail(data) > piece.len THEN Append(data, piece) ELSE data

(* formatInteger: only with room for any number.                           *)
formatInteger(data, piece) ==
  IF avail(data) >= kMaxNumericSize THEN Append(data, piece) ELSE data

-----------------------------------------------------------------------------
VARIABLES
  clock,         \* the second
  g_logLevel,
  zoned,         \* whether g_logTimeZone is valid
  t_lastSecond, t_time,   \* of each thread
  statements,    \* the Loggers of each thread, the innermost first
  begun,         \* how many statements were begun
  output,        \* the lines that were given to g_output
  flushedLines,  \* how many of them g_flush has seen
  aborted        \* the process has ended

loggerVars == <<clock, g_logLevel, zoned, t_lastSecond, t_time, statements,
                begun, output, flushedLines, aborted>>

LoggerInit ==
  /\ clock \in Seconds /\ g_logLevel \in {TRACE, INFO} /\ zoned \in BOOLEAN
  /\ t_lastSecond = [t \in Threads |-> 0]
  /\ t_time = [t \in Threads |-> BreakTime(0)]
  /\ statements = [t \in Threads |-> <<>>] /\ begun = 0
  /\ output = <<>> /\ flushedLines = 0 /\ aborted = FALSE

Piece(kind, len) == [kind |-> kind, len |-> len]

NumberPiece(value) == Piece("number", Len(convert(value)))

(* What Logger::Impl::Impl and formatTime write in front, the error        *)
(* number's text of LOG_SYSERR and LOG_SYSFATAL, the function of LOG_TRACE.*)
HeaderPieces(level, sysError) ==
  <<Piece("time", 17), Piece("micros", IF zoned THEN 8 ELSE 9),
    Piece("tid", 6), Piece("level", 6)>>
    \o (IF sysError
        THEN <<Piece("error", 8), Piece("text", 8), NumberPiece(2),
               Piece("text", 2)>>
        ELSE <<>>)
    \o (IF level = TRACE THEN <<Piece("func", 9), Piece("text", 1)>> ELSE <<>>)

(* Impl::finish                                                            *)
FinishPieces ==
  <<Piece("text", 3), Piece("file", 7), Piece("text", 1), NumberPiece(42),
    Piece("end", 1)>>

Put(data, piece) ==
  IF piece.kind = "number" THEN formatInteger(data, piece)
  ELSE append(data, piece)

PutAll(data, pieces) == FoldLeft(Put, data, pieces)

-----------------------------------------------------------------------------
(* Timestamp::now                                                          *)
ClockSet(second) ==
  /\ ~aborted /\ clock' = second
  /\ UNCHANGED <<g_logLevel, zoned, t_lastSecond, t_time, statements, begun,
                 output, flushedLines, aborted>>

setLogLevel(level) ==
  /\ ~aborted /\ g_logLevel' = level
  /\ UNCHANGED <<clock, zoned, t_lastSecond, t_time, statements, begun, output,
                 flushedLines, aborted>>

(* Mutant: the text is kept when the clock was set back.                   *)
formatTimeForward(t) ==
  IF clock <= t_lastSecond[t] THEN UNCHANGED <<t_lastSecond, t_time>>
  ELSE /\ t_lastSecond' = [t_lastSecond EXCEPT ![t] = clock]
       /\ t_time' = [t_time EXCEPT
                       ![t] = IF zoned THEN toLocalTime(LineZone, clock)
                              ELSE BreakTime(clock)]

formatTime(t) ==
  IF clock = t_lastSecond[t] THEN UNCHANGED <<t_lastSecond, t_time>>
  ELSE /\ t_lastSecond' = [t_lastSecond EXCEPT ![t] = clock]
       /\ t_time' = [t_time EXCEPT
                       ![t] = IF zoned THEN toLocalTime(LineZone, clock)
                              ELSE BreakTime(clock)]

(* The macros, which ask for the level up to INFO only, and Logger::Logger.*)
(* A line remembers what it was given, for LinesWhole.                     *)
Begin(t, level, sysError) ==
  /\ ~aborted /\ begun < MaxLines /\ begun' = begun + 1
  /\ level <= INFO => g_logLevel <= level
  /\ sysError => level \in {ERROR, FATAL}
  /\ statements[t] # <<>> => statements[t][1].stage = "open"
  /\ formatTime(t)
  /\ LET given == HeaderPieces(level, sysError)
     IN statements' = [statements EXCEPT ![t] =
          <<[stage |-> "open", level |-> level, second |-> clock,
             time |-> t_time'[t], given |-> given,
             data |-> PutAll(<<>>, given), arguments |-> 0]>> \o @]
  /\ UNCHANGED <<clock, g_logLevel, zoned, output, flushedLines, aborted>>

(* LogStream's operator<< with an argument of the statement.               *)
Stream(t, piece) ==
  /\ ~aborted
  /\ statements[t] # <<>> /\ statements[t][1].stage = "open"
  /\ statements[t][1].arguments < MaxPieces
  /\ statements' = [statements EXCEPT
       ![t][1].data = Put(@, piece), ![t][1].given = Append(@, piece),
       ![t][1].arguments = @ + 1]
  /\ UNCHANGED <<clock, g_logLevel, zoned, t_lastSecond, t_time, begun, output,
                 flushedLines, aborted>>

(* Logger::~Logger: finish and g_output; for a fatal line, then g_flush,   *)
(* then abort.                                                             *)
Finish(t) ==
  /\ ~aborted
  /\ statements[t] # <<>> /\ statements[t][1].stage = "open"
  /\ LET top == statements[t][1]
         line == [top EXCEPT !.data = PutAll(@, FinishPieces),
                             !.given = @ \o FinishPieces]
     IN /\ output' = Append(output, line)
        /\ statements' = [statements EXCEPT
             ![t] = IF top.level = FATAL THEN <<[top EXCEPT !.stage = "flush"]>>
                    ELSE Tail(@)]
  /\ UNCHANGED <<clock, g_logLevel, zoned, t_lastSecond, t_time, begun, flushedLines,
                 aborted>>

(* Mutant: abort before the flush.                                         *)
FlushForgotten(t) ==
  /\ ~aborted
  /\ statements[t] # <<>> /\ statements[t][1].stage = "flush"
  /\ statements' = [statements EXCEPT ![t][1].stage = "abort"]
  /\ UNCHANGED <<clock, g_logLevel, zoned, t_lastSecond, t_time, begun, output,
                 flushedLines, aborted>>

Flush(t) ==
  /\ ~aborted
  /\ statements[t] # <<>> /\ statements[t][1].stage = "flush"
  /\ statements' = [statements EXCEPT ![t][1].stage = "abort"]
  /\ flushedLines' = Len(output)
  /\ UNCHANGED <<clock, g_logLevel, zoned, t_lastSecond, t_time, begun, output,
                 aborted>>

Abort(t) ==
  /\ ~aborted
  /\ statements[t] # <<>> /\ statements[t][1].stage = "abort"
  /\ aborted' = TRUE
  /\ UNCHANGED <<clock, g_logLevel, zoned, t_lastSecond, t_time, statements,
                 begun, output, flushedLines>>

LoggerNext ==
  \/ \E second \in Seconds : ClockSet(second)
  \/ \E level \in {TRACE, INFO} : setLogLevel(level)
  \/ \E t \in Threads :
       \/ \E level \in {TRACE, INFO, ERROR, FATAL}, sysError \in BOOLEAN :
            Begin(t, level, sysError)
       \/ \E len \in Strings : Stream(t, Piece("text", len))
       \/ Finish(t) \/ Flush(t) \/ Abort(t)

-----------------------------------------------------------------------------
(* LogStream.h:39-47, LogStream.cc:236-244, Logging.cc:116-173: a line is  *)
(* made of whole pieces in the order they were given, fits its buffer with *)
(* room for the end, has its whole header, and if what was given leaves    *)
(* the space of one number, nothing of it is lost, the line's end          *)
(* included.                                                               *)
LinesWhole ==
  \A i \in DOMAIN output :
    LET line == output[i] IN
      /\ FoldLeft(LAMBDA rest, piece :
                    IF rest # <<>> /\ Head(rest) = piece THEN Tail(rest)
                    ELSE rest, line.data, line.given) = <<>>
      /\ TextLength(line.data) < kSmallBuffer
      /\ IsPrefix(SubSeq(line.given, 1, 4), line.data)
      /\ TextLength(line.given) <= kSmallBuffer - kMaxNumericSize =>
           line.data = line.given

(* Logging.cc:133-168: a line shows the second it was begun in, in the     *)
(* log's time zone, also when the clock was set back, another thread       *)
(* logged in between, or an argument logged a line of its own.             *)
LinesOnTime ==
  \A i \in DOMAIN output :
    output[i].second =
      IF zoned THEN fromLocalTime(LineZone, output[i].time, FALSE)
      ELSE fromUtcTime(output[i].time)

(* Logging.cc:196-206: when the process aborts, a fatal line is among the  *)
(* flushed ones, whichever thread logged it and whatever the others were   *)
(* writing.                                                                *)
FatalFlushed ==
  aborted => \E i \in 1..flushedLines : output[i].level = FATAL

(* What a reader makes of the digits.                                      *)
ValueOf(text, base) ==
  LET Digit(d) == CHOOSE k \in 1..16 : digitsHex[k] = d
  IN FoldLeft(LAMBDA sum, d : base * sum + Digit(d) - 1, 0, text)

(* LogStream.cc:38-84: every number of the type, its least one included,   *)
(* is printed so that it reads back, without zeros in front, and fits with *)
(* its end into the space formatInteger asks for.                          *)
NumberReadsBack(value) ==
  LET text == convert(value)
      number == IF value < 0 THEN Tail(text) ELSE text
      hex == convertHex(IF value < 0 THEN value + 256 ELSE value)
  IN /\ ValueOf(number, 10) = IF value < 0 THEN -value ELSE value
     /\ value < 0 => Head(text) = "-"
     /\ Len(number) > 1 => number[1] # "0"
     /\ ValueOf(hex, 16) % 256 = value % 256
     /\ Len(text) < kMaxNumericSize /\ Len(hex) + 2 < kMaxNumericSize
=============================================================================
