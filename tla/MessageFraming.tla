--------------------------- MODULE MessageFraming ---------------------------
(***************************************************************************)
(* Messages over a stream between two processes:                           *)
(* packages/core/src/node/messaging/binary-message-pipe.ts.                *)
(*                                                                         *)
(* A message is written as a start, which identifies it as one and carries *)
(* its length, and its content.  The stream delivers the bytes in order,   *)
(* in chunks cut anywhere.  A byte is the number of its message and its    *)
(* place in it; the first StartLength places are the message start.        *)
(***************************************************************************)
EXTENDS Integers, Sequences

CONSTANTS
    StartLength,    \* messageStartByteLength
    MaxLength,      \* bound: the bytes in the content of a message
    MaxMessages,    \* bound: the messages sent
    CutStarts       \* a chunk may end within a message start

ASSUME FramingAssumption ==
    StartLength \in Nat \ {0} /\ MaxLength \in Nat /\ MaxMessages \in Nat /\ CutStarts \in BOOLEAN

VARIABLES
    sent,           \* the length of each message sent
    stream,         \* the bytes in the pipe
    rest,           \* what handleNewMessage calls itself with, <<>> for no such call
    received,       \* the byte arrays onMessage was fired with
    partialStart,   \* cachedMessageData: partialMessageStart, <<>> for undefined,
    chunks,         \* what is there of the current message,
    missingBytes    \* and what is missing

vars == <<sent, stream, rest, received, partialStart, chunks, missingBytes>>

\* The bytes that may have been written so far.
Byte == (1 .. Len(sent)) \X (1 .. StartLength + MaxLength)

TypeOK ==
    /\ sent \in Seq(0 .. MaxLength) /\ Len(sent) <= MaxMessages
    /\ stream \in Seq(Byte) /\ rest \in Seq(Byte)
    /\ partialStart \in Seq(Byte) /\ chunks \in Seq(Byte)
    /\ received \in Seq(Seq(Byte))
    /\ missingBytes \in 0 .. MaxLength

Init ==
    /\ sent = <<>> /\ stream = <<>> /\ rest = <<>> /\ received = <<>>
    /\ partialStart = <<>> /\ chunks = <<>> /\ missingBytes = 0

-----------------------------------------------------------------------------
From(s, n) == SubSeq(s, n + 1, Len(s))
First(s, n) == SubSeq(s, 1, n)

\* encodeMessageStart and the message, of n bytes, written after it
Encode(k, n) == [i \in 1 .. StartLength + n |-> <<k, i>>]
Content(k) == From(Encode(k, sent[k]), StartLength)

\* send
Send(n) ==
    /\ Len(sent) < MaxMessages
    /\ sent' = Append(sent, n)
    /\ stream' = stream \o Encode(Len(sent) + 1, n)
    /\ UNCHANGED <<rest, received, partialStart, chunks, missingBytes>>

\* What readMessageStart reads: bytes that are not those of a message start do not
\* hold the identifier.
IsStart(bytes) == Len(bytes) >= StartLength /\ \A i \in 1 .. StartLength : bytes[i] = <<bytes[1][1], i>>

Fire(message) == received' = Append(received, message)

\* A start that cannot be read throws: the rest of the chunk is lost.
Throw == rest' = <<>> /\ UNCHANGED <<received, chunks, missingBytes>>

\* handleNewMessage, up to its call of itself.  The start is read from the partial
\* start and the chunk, the content is cut from the chunk alone.
HandleNewMessage(chunk) ==
    LET data == partialStart \o chunk
        length == sent[data[1][1]]
        here == Len(chunk) - StartLength
    IN \/ /\ here < 0
          /\ partialStart' = chunk /\ rest' = <<>>
          /\ UNCHANGED <<received, chunks, missingBytes>>
       \/ here >= 0 /\ ~ IsStart(data) /\ partialStart' = <<>> /\ Throw
       \/ /\ here >= 0 /\ IsStart(data) /\ here >= length
          /\ Fire(SubSeq(chunk, StartLength + 1, StartLength + length))
          /\ partialStart' = <<>> /\ rest' = From(chunk, StartLength + length)
          /\ UNCHANGED <<chunks, missingBytes>>
       \/ /\ here >= 0 /\ IsStart(data) /\ here < length
          /\ chunks' = From(chunk, StartLength) /\ missingBytes' = length - here
          /\ partialStart' = <<>> /\ rest' = <<>>
          /\ UNCHANGED received

\* The chunk is a part of what the cached message misses.
Cache(chunk) ==
    /\ chunks' = chunks \o chunk /\ missingBytes' = missingBytes - Len(chunk)
    /\ rest' = <<>> /\ UNCHANGED <<received, partialStart>>

\* emitCachedMessage, with the chunk that completes it
EmitCachedMessage(chunk) ==
    /\ Fire(chunks \o chunk)
    /\ chunks' = <<>> /\ missingBytes' = 0 /\ UNCHANGED partialStart

\* Mutant: what follows the end of the message in the chunk is dropped.
DropsRest(chunk) ==
    IF Len(chunk) < missingBytes THEN Cache(chunk)
    ELSE EmitCachedMessage(First(chunk, missingBytes)) /\ rest' = <<>>

\* Mutant: a chunk that holds more than the rest of the message is not expected.
ExpectsNoMore(chunk) ==
    IF Len(chunk) # missingBytes THEN Cache(chunk)
    ELSE EmitCachedMessage(chunk) /\ rest' = <<>>

\* handleMessageContentChunk, up to its call of handleNewMessage
HandleMessageContentChunk(chunk) ==
    IF Len(chunk) < missingBytes THEN Cache(chunk)
    ELSE EmitCachedMessage(First(chunk, missingBytes)) /\ rest' = From(chunk, missingBytes)

\* The chunk of n bytes does not end within a message start.
CutsNoStart(n) == n < Len(stream) => stream[n + 1][2] \notin 2 .. StartLength

\* handleChunk, on a 'data' event
HandleChunk(n) ==
    /\ rest = <<>>
    /\ CutStarts \/ CutsNoStart(n)
    /\ stream' = From(stream, n)
    /\ IF missingBytes = 0 THEN HandleNewMessage(First(stream, n))
         ELSE HandleMessageContentChunk(First(stream, n))
    /\ UNCHANGED sent

\* The listeners of onMessage have run, and handleNewMessage goes on with the rest
\* of the chunk.
HandleRest ==
    /\ rest # <<>>
    /\ HandleNewMessage(rest)
    /\ UNCHANGED <<sent, stream>>

Next ==
    \/ \E n \in 0 .. MaxLength : Send(n)
    \/ \E n \in 1 .. Len(stream) : HandleChunk(n)
    \/ HandleRest

Spec == Init /\ [][Next]_vars

-----------------------------------------------------------------------------
(* Properties *)

IsPrefixOf(s, t) == Len(s) <= Len(t) /\ \A i \in DOMAIN s : s[i] = t[i]

\* "This makes it possible to extract messages from the streamed data": what
\* arrives is what was sent, in its order, however the stream was cut, and all of
\* it once the pipe is empty.
ExtractsMessages ==
    /\ IsPrefixOf(received, [k \in DOMAIN sent |-> Content(k)])
    /\ rest = <<>> /\ stream = <<>> => Len(received) = Len(sent)

\* Why this holds when no start is cut: what is left to read is what was written
\* last, byte for byte, and begins where the reader stands.
Pending == rest \o stream

End(k) == StartLength + sent[k]

\* Byte i of s is followed by the others of its message, and they by the next one.
WrittenInOrder(s) ==
    \A i \in DOMAIN s : LET k == s[i][1]  last == i + End(k) - s[i][2] IN
      /\ s[i][2] <= End(k) /\ last <= Len(s)
      /\ \A j \in i .. last : s[j] = <<k, s[i][2] + j - i>>
      /\ IF last < Len(s) THEN s[last + 1] = <<k + 1, 1>> ELSE k = Len(sent)

Current == Len(received) + 1
Place == IF missingBytes = 0 THEN 1 ELSE End(Current) - missingBytes + 1

FramingInvariant ==
    /\ TypeOK
    /\ partialStart = <<>>
    /\ WrittenInOrder(Pending)
    /\ IF Pending = <<>> THEN Len(received) = Len(sent) ELSE Pending[1] = <<Current, Place>>
    /\ missingBytes # 0 => Pending # <<>> /\ rest = <<>> /\ missingBytes <= sent[Current]
    /\ chunks = IF missingBytes = 0 THEN <<>> ELSE First(Content(Current), sent[Current] - missingBytes)
    /\ \A k \in DOMAIN received : k \in DOMAIN sent /\ received[k] = Content(k)
    /\ stream # <<>> => stream[1][2] \notin 2 .. StartLength
=============================================================================
