------------------------------ MODULE ByteQueue ------------------------------
(***************************************************************************)
(* What a buffer promises: a sequence of bytes that grows at the end,      *)
(* shrinks at both ends, grows at the front by a header, and is searched   *)
(* and read as integers in network order.  "result" is what the last call  *)
(* returned.                                                               *)
(***************************************************************************)
EXTENDS Integers, Sequences

CONSTANTS Base,      \* a byte is one of 0..Base-1
          CR, LF,
          NotFound

VARIABLES content, result

queueVars == <<content, result>>

Bytes == 0..Base - 1

(* The bytes of x in network order, the most significant first, and back.  *)
Digits(x, n) ==
  LET rest[k \in 0..n] == IF k = 0 THEN x ELSE rest[k - 1] \div Base
  IN  [i \in 1..n |-> rest[n - i] % Base]

Number(s) ==
  LET upTo[i \in 0..Len(s)] ==
        IF i = 0 THEN 0 ELSE upTo[i - 1] * Base + s[i]
  IN  upTo[Len(s)]

(* The first position at which p holds, from "from" on, counted from 0.    *)
FirstFrom(from, positions) ==
  LET later == {i \in positions : i >= from} IN
  IF later = {} THEN NotFound ELSE CHOOSE i \in later : \A j \in later : i <= j

EndsOfLine(s) == {i \in 0..Len(s) - 1 : s[i + 1] = LF}
EndsOfHeader(s) ==
  {i \in 0..Len(s) - 2 : s[i + 1] = CR /\ s[i + 2] = LF}

-----------------------------------------------------------------------------
QueueInit == content = <<>> /\ result = <<>>

PutLast(data) == content' = content \o data /\ result' = <<>>
PutFirst(data) == content' = data \o content /\ result' = <<>>
TakeFirst(n) ==
  /\ content' = SubSeq(content, n + 1, Len(content))
  /\ result' = SubSeq(content, 1, n)
DropFirst(n) ==
  content' = SubSeq(content, n + 1, Len(content)) /\ result' = <<>>
DropLast(n) ==
  content' = SubSeq(content, 1, Len(content) - n) /\ result' = <<>>
Peek(n) == UNCHANGED content /\ result' = <<Number(SubSeq(content, 1, n))>>
Search(from) ==
  /\ UNCHANGED content
  /\ \/ result' = <<FirstFrom(from, EndsOfLine(content))>>
     \/ result' = <<FirstFrom(from, EndsOfHeader(content))>>
Keep == UNCHANGED content /\ result' = <<>>

QueueNext(Data) ==
  \/ \E data \in Data : PutLast(data) \/ PutFirst(data)
  \/ \E n \in 0..Len(content) :
       TakeFirst(n) \/ DropFirst(n) \/ DropLast(n) \/ Peek(n) \/ Search(n)
  \/ Keep
=============================================================================
