-------------------------------- MODULE Buffer --------------------------------
(***************************************************************************)
(* muduo's Buffer (net/Buffer.h, Buffer.cc): a vector with a reader and a  *)
(* writer index, and space in front for a header.  It grows, or moves what *)
(* is readable to the front, when an append does not fit.                  *)
(***************************************************************************)
EXTENDS Integers, Sequences

CONSTANTS Base, CR, LF, NotFound,   \* of ByteQueue
          kCheapPrepend, kInitialSize,
          ExtraSize,          \* size of readFd's extrabuf
          MaxData, MaxSize    \* bounds on one append and on the vector

VARIABLES
  buffer,   \* [bytes: the vector, reader: readerIndex_, writer: writerIndex_]
  result    \* what the last call returned

bufferVars == <<buffer, result>>

(* peek up to beginWrite: what a caller can read                           *)
Readable(b) == SubSeq(b.bytes, b.reader + 1, b.writer)

Q == INSTANCE ByteQueue WITH content <- Readable(buffer)

Data == UNION {[1..n -> 0..Base - 1] : n \in 0..MaxData}

New(size) == [bytes |-> [i \in 1..kCheapPrepend + size |-> 0],
              reader |-> kCheapPrepend, writer |-> kCheapPrepend]

readableBytes(b) == b.writer - b.reader
writableBytes(b) == Len(b.bytes) - b.writer
prependableBytes(b) == b.reader

(* std::copy of s to index "at"; what does not fit is lost.                *)
CopyTo(bytes, at, s) ==
  [i \in DOMAIN bytes |->
     IF i - at \in DOMAIN s THEN s[i - at] ELSE bytes[i]]

(* vector::resize                                                          *)
Resize(bytes, size) ==
  [i \in 1..size |-> IF i \in DOMAIN bytes THEN bytes[i] ELSE 0]

-----------------------------------------------------------------------------
(* Mutant: the indices move, the bytes stay.                               *)
makeSpaceIndices(b, len) ==
  IF writableBytes(b) + prependableBytes(b) < len + kCheapPrepend
  THEN [b EXCEPT !.bytes = Resize(@, b.writer + len)]
  ELSE [b EXCEPT !.reader = kCheapPrepend,
                 !.writer = kCheapPrepend + readableBytes(b)]

makeSpace(b, len) ==
  IF writableBytes(b) + prependableBytes(b) < len + kCheapPrepend
  THEN [b EXCEPT !.bytes = Resize(@, b.writer + len)]
  ELSE [bytes |-> CopyTo(b.bytes, kCheapPrepend, Readable(b)),
        reader |-> kCheapPrepend,
        writer |-> kCheapPrepend + readableBytes(b)]

ensureWritableBytes(b, len) ==
  IF writableBytes(b) < len THEN makeSpace(b, len) ELSE b

append(b, data) ==
  LET roomy == ensureWritableBytes(b, Len(data)) IN
  [roomy EXCEPT !.bytes = CopyTo(@, roomy.writer, data),
                !.writer = @ + Len(data)]

retrieve(b, len) ==
  IF len < readableBytes(b) THEN [b EXCEPT !.reader = @ + len]
  ELSE [b EXCEPT !.reader = kCheapPrepend, !.writer = kCheapPrepend]

-----------------------------------------------------------------------------
BufferInit == buffer = New(kInitialSize) /\ result = <<>>

AppendData(data) == buffer' = append(buffer, data) /\ result' = <<>>

(* appendInt8 to appendInt64                                               *)
AppendInt(x, n) == AppendData(Q!Digits(x, n))

Prepend(data) ==
  /\ Len(data) <= prependableBytes(buffer)
  /\ buffer' = [buffer EXCEPT !.reader = @ - Len(data),
                  !.bytes = CopyTo(@, buffer.reader - Len(data), data)]
  /\ result' = <<>>

(* retrieve and retrieveUntil                                              *)
Retrieve(len) ==
  /\ len <= readableBytes(buffer)
  /\ buffer' = retrieve(buffer, len) /\ result' = <<>>

(* retrieveAsString and retrieveAllAsString                                *)
RetrieveAsString(len) ==
  /\ len <= readableBytes(buffer)
  /\ buffer' = retrieve(buffer, len)
  /\ result' = SubSeq(Readable(buffer), 1, len)

(* peekInt8 to peekInt64; readInt retrieves it too.                        *)
PeekInt(n) ==
  /\ n <= readableBytes(buffer)
  /\ result' = <<Q!Number(SubSeq(buffer.bytes, buffer.reader + 1,
                               buffer.reader + n))>>
  /\ UNCHANGED buffer

Unwrite(len) ==
  /\ len <= readableBytes(buffer)
  /\ buffer' = [buffer EXCEPT !.writer = @ - len] /\ result' = <<>>

(* findEOL and findCRLF, from the start or from a later position: they     *)
(* look at the bytes between the two indices only.                         *)
Find(from) ==
  LET b == buffer
      At(i) == b.bytes[b.reader + i + 1]
      size == readableBytes(b) IN
    /\ from <= size
    /\ \/ result' = <<Q!FirstFrom(from, {i \in 0..size - 1 : At(i) = LF})>>
       \/ result' = <<Q!FirstFrom(from, {i \in 0..size - 2 :
                                         At(i) = CR /\ At(i + 1) = LF})>>
    /\ UNCHANGED buffer

(* A new buffer of the default size takes the readable bytes.              *)
Shrink(reserve) ==
  LET other == ensureWritableBytes(New(kInitialSize),
                                   readableBytes(buffer) + reserve) IN
  buffer' = append(other, Readable(buffer)) /\ result' = <<>>

(* readFd: readv fills the writable bytes, then extrabuf, which is only    *)
(* used when the former are fewer than it; an error changes nothing.       *)
ReadFd(data) ==
  LET writable == writableBytes(buffer)
      n == IF Len(data) <= writable THEN Len(data) ELSE writable
      direct == SubSeq(data, 1, n)
      extra == SubSeq(data, n + 1, Len(data))
      filled == [buffer EXCEPT !.bytes = CopyTo(@, buffer.writer, direct),
                               !.writer = @ + Len(direct)] IN
    /\ Len(data) <= IF writable < ExtraSize THEN writable + ExtraSize
                    ELSE writable
    /\ buffer' = IF Len(data) <= writable THEN filled
                 ELSE append(filled, extra)
    /\ result' = <<>>

Bounded == Len(buffer'.bytes) <= MaxSize

BufferNext ==
  \/ \E data \in Data :
       (AppendData(data) \/ Prepend(data) \/ ReadFd(data)) /\ Bounded
  \/ \E n \in 1..2 : \E x \in 0..Base^n - 1 : AppendInt(x, n) /\ Bounded
  \/ \E n \in 0..MaxSize :
       Retrieve(n) \/ RetrieveAsString(n) \/ Unwrite(n) \/ Find(n)
  \/ \E n \in 1..2 : PeekInt(n)
  \/ \E reserve \in {0, 1} : Shrink(reserve) /\ Bounded

-----------------------------------------------------------------------------
(* Buffer.h:48-409, Buffer.cc:25-57: whatever is appended, prepended, read *)
(* from a socket, retrieved and searched in whatever order, the buffer is  *)
(* a queue of bytes: growing and moving lose nothing, shift nothing, and   *)
(* no search or read looks at what is beyond the writer index.             *)
ImplementsQueue == Q!QueueInit /\ [][Q!QueueNext(Data)]_(Q!queueVars)
=============================================================================
