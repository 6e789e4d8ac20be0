---------------------------- MODULE LineProtocol ----------------------------
(***************************************************************************)
(* What a user types at the command-line client (client/main.cc), the      *)
(* request it becomes (common/Protocol.cc), its way over a stream that     *)
(* comes in pieces, how ChatServer::onMessage finds it again, and the way  *)
(* of an event that carries its fields back to a client.                   *)
(*                                                                         *)
(* Between them are flat JSON objects (common/Json.cc), whose values are   *)
(* kept as text.  A text is a sequence of symbols.  A symbol is a          *)
(* character that the code tests for, or a run of characters that it never *)
(* looks into ("bob"), or that it compares as a whole ("true", and the     *)
(* four digits of an escape).                                              *)
(***************************************************************************)
EXTENDS StdMap, Integers, Sequences, SequencesExt

CONSTANTS Typed,           \* what may be typed, each with the fields that the
                           \* user means, or NoRequest
          NoRequest,
          MaxLineLength,   \* kMaxRequestLineBytes
          MaxLines         \* bound on the lines typed

VARIABLES
  typed,       \* the lines typed
  refused,     \* how many the client has refused
  up, down,    \* the streams, what the receiver has not read
  inbox,       \* the server's input buffer
  outbox,      \* the client's
  handled,     \* the requests the server has handled
  badLines,    \* the lines it has answered with "invalid json"
  printed,     \* the lines the client has printed
  forceClosed

lineVars == <<typed, refused, up, down, inbox, outbox, handled, badLines,
              printed, forceClosed>>

LineInit ==
  /\ typed = <<>> /\ refused = 0 /\ up = <<>> /\ down = <<>>
  /\ inbox = <<>> /\ outbox = <<>>
  /\ handled = <<>> /\ badLines = 0 /\ printed = <<>> /\ forceClosed = FALSE

-----------------------------------------------------------------------------
(* common/Json.cc.  A parser takes a text and a position, and returns      *)
(* whether it succeeds, the position after what it read, and what that     *)
(* stands for.                                                             *)

Space == {" ", "TAB", "CR", "LF"}
Control == {"TAB", "CR", "LF", "CTL"}
Digits == {"0", "7"}
Literals == {"true", "false", "null"}

At(text, p, symbol) == p <= Len(text) /\ text[p] = symbol

Failed == [ok |-> FALSE]
Read(p, value) == [ok |-> TRUE, pos |-> p, value |-> value]

(* The end of the run of symbols of a set that starts at p.                *)
RECURSIVE RunEnd(_, _, _)
RunEnd(text, p, symbols) ==
  IF p <= Len(text) /\ text[p] \in symbols
  THEN RunEnd(text, p + 1, symbols) ELSE p

SkipWhitespace(text, p) == RunEnd(text, p, Space)

(* What an escape stands for; \u0001 does for every code below 0x80.       *)
Unescaped ==
  [e \in {"\"", "\\", "/", "n", "r", "t"} |->
     CASE e = "n" -> "LF" [] e = "r" -> "CR" [] e = "t" -> "TAB" [] OTHER -> e]

(* parseJsonString                                                         *)
RECURSIVE StringFrom(_, _, _)
StringFrom(text, p, output) ==
  IF p > Len(text) THEN Failed                       \* unterminated string
  ELSE IF text[p] = "\"" THEN Read(p + 1, output)
  ELSE IF text[p] # "\\"
  THEN IF text[p] \in Control THEN Failed
       ELSE StringFrom(text, p + 1, Append(output, text[p]))
  ELSE IF p < Len(text) /\ text[p + 1] \in DOMAIN Unescaped
  THEN StringFrom(text, p + 2, Append(output, Unescaped[text[p + 1]]))
  ELSE IF At(text, p + 1, "u") /\ At(text, p + 2, "0001")
  THEN StringFrom(text, p + 3, Append(output, "CTL"))
  ELSE Failed

ParseString(text, p) ==
  IF At(text, p, "\"") THEN StringFrom(text, p + 1, <<>>) ELSE Failed

(* parseJsonNumberAsString: the number stays the text that it is.          *)
ParseNumber(text, p) ==
  LET start == IF At(text, p, "-") THEN p + 1 ELSE p
      whole == RunEnd(text, start, Digits)
      dot == At(text, whole, ".")
      fraction == IF dot THEN RunEnd(text, whole + 1, Digits) ELSE whole
      e == At(text, fraction, "e")
      sign == fraction + 1 < Len(text) /\ text[fraction + 1] \in {"+", "-"}
      power == IF ~e THEN fraction ELSE IF sign THEN fraction + 2
               ELSE fraction + 1
      end == IF e THEN RunEnd(text, power, Digits) ELSE fraction
  IN  IF \/ whole = start
         \/ dot /\ fraction = whole + 1
         \/ e /\ end = power
      THEN Failed ELSE Read(end, SubSeq(text, p, end - 1))

(* consumeJsonValue and its parts: the value stays the text that it is.    *)
(* The members of an object are collected for parseJsonObject.             *)
RECURSIVE Consume(_, _), Elements(_, _), Members(_, _, _)

(* parseJsonValueAsString: a string is unescaped, the rest is kept.        *)
Value(text, p) ==
  IF At(text, p, "\"") THEN ParseString(text, p)
  ELSE LET c == Consume(text, p)
       IN  IF c.ok THEN Read(c.pos, SubSeq(text, p, c.pos - 1)) ELSE Failed

Consume(text, p) ==
  LET q == SkipWhitespace(text, p + 1) IN
  CASE At(text, p, "\"") -> ParseString(text, p)
    [] At(text, p, "{") -> IF At(text, q, "}") THEN Read(q + 1, EmptyMap)
                           ELSE Members(text, q, EmptyMap)
    [] At(text, p, "[") -> IF At(text, q, "]") THEN Read(q + 1, <<>>)
                           ELSE Elements(text, q)
    [] p <= Len(text) /\ text[p] \in Literals -> Read(p + 1, <<text[p]>>)
    [] OTHER -> ParseNumber(text, p)

(* consumeJsonArray, from an element on                                    *)
Elements(text, p) ==
  LET v == Consume(text, p)
      q == SkipWhitespace(text, v.pos)
  IN  IF ~v.ok THEN Failed
      ELSE IF At(text, q, "]") THEN Read(q + 1, <<>>)
      ELSE IF At(text, q, ",") THEN Elements(text, SkipWhitespace(text, q + 1))
      ELSE Failed

(* consumeJsonObject and parseJsonObject, from a key on                    *)
Members(text, p, object) ==
  LET key == ParseString(text, p)
      colon == SkipWhitespace(text, key.pos)
      v == Value(text, SkipWhitespace(text, colon + 1))
      q == SkipWhitespace(text, v.pos)
      found == Put(object, key.value, v.value)
  IN  IF ~key.ok \/ ~At(text, colon, ":") \/ ~v.ok THEN Failed
      ELSE IF At(text, q, "}") THEN Read(q + 1, found)
      ELSE IF At(text, q, ",")
      THEN Members(text, SkipWhitespace(text, q + 1), found)
      ELSE Failed

(* parseJsonObject: nothing may follow the object.                         *)
ParseJsonObject(text) ==
  LET p == SkipWhitespace(text, 1)
      object == IF At(text, p, "{") THEN Consume(text, p) ELSE Failed
  IN  IF object.ok /\ SkipWhitespace(text, object.pos) > Len(text)
      THEN object ELSE Failed

-----------------------------------------------------------------------------
Escaped(symbol) ==
  CASE symbol \in {"\"", "\\"} -> <<"\\", symbol>>
    [] symbol = "LF" -> <<"\\", "n">>
    [] symbol = "CR" -> <<"\\", "r">>
    [] symbol = "TAB" -> <<"\\", "t">>
    [] symbol = "CTL" -> <<"\\", "u", "0001">>
    [] OTHER -> <<symbol>>

EscapeJsonString(value) ==
  FoldLeft(LAMBDA text, symbol : text \o Escaped(symbol), <<>>, value)

Quoted(value) == <<"\"">> \o EscapeJsonString(value) \o <<"\"">>

(* serializeJsonObject: the order of the keys is the map's.                *)
SerializeJsonObject(object) ==
  LET Member(k) == Quoted(k) \o <<":">> \o Quoted(object[k])
      Join(text, k) == IF text = <<>> THEN Member(k)
                       ELSE text \o <<",">> \o Member(k)
  IN  <<"{">> \o FoldLeft(Join, <<>>, SetToSeq(DOMAIN object)) \o <<"}">>

MakeJsonLine(object) == Append(SerializeJsonObject(object), "LF")

-----------------------------------------------------------------------------
(* common/Protocol.cc                                                      *)

(* toUpperCopy                                                             *)
Upper(word) == CASE word = "login" -> "LOGIN"
                 [] word = "private" -> "PRIVATE"
                 [] OTHER -> word

(* trimCopy                                                                *)
Trim(text) ==
  LET kept == {i \in DOMAIN text : text[i] \notin Space}
  IN  IF kept = {} THEN <<>>
      ELSE SubSeq(text, CHOOSE i \in kept : \A j \in kept : i <= j,
                        CHOOSE i \in kept : \A j \in kept : i >= j)

(* readToken: <<>> at the end of the text                                  *)
Solid(text) == {text[i] : i \in DOMAIN text} \ Space
ReadToken(text, p) ==
  LET start == SkipWhitespace(text, p)
      end == RunEnd(text, start, Solid(text))
  IN  Read(end, SubSeq(text, start, end - 1))

HasExtraText(text, p) == SkipWhitespace(text, p) <= Len(text)

RestOfLine(text, p) == Trim(SubSeq(text, p, Len(text)))

(* The commands of buildRequestFromCommand: the type of the request, its   *)
(* fields, and what follows the first of them.                             *)
Commands ==
  [LOGIN           |-> [type |-> "login", field |-> "username", rest |-> "none"],
   LOGOUT          |-> [type |-> "logout", field |-> "", rest |-> "none"],
   USERS           |-> [type |-> "users", field |-> "", rest |-> "none"],
   PRIVATE         |-> [type |-> "private", field |-> "target",
                        rest |-> "message"],
   CREATE_ROOM     |-> [type |-> "create_room", field |-> "room",
                        rest |-> "none"],
   JOIN            |-> [type |-> "join", field |-> "room", rest |-> "none"],
   LEAVE           |-> [type |-> "leave", field |-> "room", rest |-> "none"],
   ROOM_MSG        |-> [type |-> "room_msg", field |-> "room",
                        rest |-> "message"],
   HISTORY_PRIVATE |-> [type |-> "history_private", field |-> "peer",
                        rest |-> "limit"],
   HISTORY_ROOM    |-> [type |-> "history_room", field |-> "room",
                        rest |-> "limit"]]

(* finishObject                                                            *)
FinishObject(object) == MakeJsonLine(Put(object, <<"sent_at_us">>, <<"7">>))

(* A command with its words, or <<>> where the usage is shown.             *)
BuildRequest(text, command) ==
  LET form == Commands[Upper(command.value[1])]
      first == IF form.field = "" THEN command ELSE ReadToken(text, command.pos)
      limit == ReadToken(text, first.pos)
      message == RestOfLine(text, first.pos)
      base == Put(EmptyMap, <<"type">>, <<form.type>>)
      object == IF form.field = "" THEN base
                ELSE Put(base, <<form.field>>, first.value)
  IN  IF first.value = <<>> THEN <<>>
      ELSE CASE form.rest = "message" ->
                  IF message = <<>> THEN <<>>
                  ELSE FinishObject(Put(object, <<"message">>, message))
             [] form.rest = "limit" /\ limit.value # <<>> ->
                  IF HasExtraText(text, limit.pos) THEN <<>>
                  ELSE FinishObject(Put(object, <<"limit">>, limit.value))
             [] OTHER -> IF HasExtraText(text, first.pos) THEN <<>>
                         ELSE FinishObject(object)

(* buildRequestFromCommand: a line of JSON is sent as it is, if it parses. *)
BuildRequestFromCommand(line) ==
  LET text == Trim(line)
      command == ReadToken(text, 1)
  IN  IF text = <<>> THEN <<>>
      ELSE IF text[1] = "{"
      THEN IF ParseJsonObject(text).ok THEN Append(text, "LF") ELSE <<>>
      ELSE IF Len(command.value) = 1
              /\ Upper(command.value[1]) \in DOMAIN Commands
      THEN BuildRequest(text, command) ELSE <<>>

-----------------------------------------------------------------------------
(* client/main.cc: a line is sent, or refused with an error.               *)
TypeLine ==
  /\ Len(typed) < MaxLines /\ ~forceClosed
  /\ \E t \in Typed :
       LET line == BuildRequestFromCommand(t.line) IN
       /\ typed' = Append(typed, t)
       /\ refused' = IF line = <<>> THEN refused + 1 ELSE refused
       /\ up' = up \o line
  /\ UNCHANGED <<down, inbox, outbox, handled, badLines, printed, forceClosed>>

(* The lines of a buffer up to the last line feed, and what follows it.    *)
(* A carriage return at the end of a line is cut off.                      *)
EndsOf(buffer) == {i \in DOMAIN buffer : buffer[i] = "LF"}

Lines(buffer) ==
  LET ends == SetToSortSeq(EndsOf(buffer), <)
      Start(k) == IF k = 1 THEN 1 ELSE ends[k - 1] + 1
      Raw(k) == SubSeq(buffer, Start(k), ends[k] - 1)
      Cut(line) == IF line # <<>> /\ Last(line) = "CR" THEN Front(line) ELSE line
  IN  [k \in DOMAIN ends |-> Cut(Raw(k))]

(* Mutant: what is left over is thrown away.                               *)
RestThrownAway(buffer) == <<>>

Rest(buffer) ==
  SubSeq(buffer, 1 + SelectLastInSeq(buffer, LAMBDA c : c = "LF"), Len(buffer))

(* ChatServer::onMessage, on a piece of the stream: every complete line is *)
(* parsed and handled; here, a handled request's fields go back to the     *)
(* client in an event.                                                     *)
ServerReadsPiece ==
  /\ up # <<>> /\ ~forceClosed
  /\ \E n \in {1, Len(up)} :
       LET buffer == inbox \o SubSeq(up, 1, n)
           lines == SelectSeq(Lines(buffer), LAMBDA line : line # <<>>)
           good == SelectSeq(lines, LAMBDA line : ParseJsonObject(line).ok)
           objects == [k \in DOMAIN good |-> ParseJsonObject(good[k]).value]
       IN  /\ up' = SubSeq(up, n + 1, Len(up))
           /\ inbox' = Rest(buffer)
           /\ handled' = handled \o objects
           /\ badLines' = badLines + Len(lines) - Len(good)
           /\ down' = FoldLeft(LAMBDA s, o : s \o MakeJsonLine(o), down, objects)
           /\ forceClosed' = (Len(Rest(buffer)) > MaxLineLength)
  /\ UNCHANGED <<typed, refused, outbox, printed>>

(* ChatClient::onMessage                                                   *)
ClientReadsPiece ==
  /\ down # <<>>
  /\ \E n \in {(Len(down) + 1) \div 2, Len(down)} :
       LET buffer == outbox \o SubSeq(down, 1, n)
       IN  /\ down' = SubSeq(down, n + 1, Len(down))
           /\ outbox' = Rest(buffer)
           /\ printed' = printed \o Lines(buffer)
  /\ UNCHANGED <<typed, refused, up, inbox, handled, badLines, forceClosed>>

LineNext == TypeLine \/ ServerReadsPiece \/ ClientReadsPiece

-----------------------------------------------------------------------------
(* README.md:105-137.  Whatever the pieces, the server handles the request *)
(* that the user meant by each line, in order, once; what is no request    *)
(* stays with the client; and an event gets its fields back to the client  *)
(* in one line, whatever characters they hold.                             *)
LinesRoundTrip ==
  LET meant == SelectSeq(typed, LAMBDA t : t.means # NoRequest)
      Fields(o) == [k \in DOMAIN o \ {<<"sent_at_us">>} |-> o[k]]
  IN  /\ Len(handled) <= Len(meant) /\ badLines = 0 /\ ~forceClosed
      /\ \A k \in DOMAIN handled : Fields(handled[k]) = meant[k].means
      /\ refused = Len(typed) - Len(meant)
      /\ up = <<>> => inbox = <<>> /\ Len(handled) = Len(meant)
      /\ Len(printed) <= Len(handled)
      /\ \A k \in DOMAIN printed :
           LET o == ParseJsonObject(printed[k])
           IN  o.ok /\ o.value = handled[k]
      /\ down = <<>> => Len(printed) = Len(handled)
=============================================================================
