-------------------------- MODULE MultiRingBuffer --------------------------
(***************************************************************************)
(* The ring buffer that keeps the last output of a terminal and hands it   *)
(* to the streams of its clients                                           *)
(* (packages/process/src/node/multi-ring-buffer.ts).                       *)
(*                                                                         *)
(* The process writes (enq), which never waits for a reader: the oldest    *)
(* bytes are overwritten, the tail moves on and so do the readers the      *)
(* bytes are taken from.  A reader is the position of the next byte it     *)
(* reads, -1 when it has read all.  A stream that asked for data it could  *)
(* not get, or whose consumer can take more, is given every write at once; *)
(* one whose consumer is full waits for _read, which Node calls with the   *)
(* high water mark of the stream.                                          *)
(*                                                                         *)
(* A byte is its number in the output of the process.  The encodings are   *)
(* not modelled.                                                           *)
(***************************************************************************)
EXTENDS Integers

CONSTANTS
  Size,           \* maxSize: the bytes the buffer holds
  Reader,         \* the streams a client may open
  HighWaterMark,  \* the size Node passes to _read
  MaxEnq,         \* bound: bytes of one write
  MaxWritten      \* bound: bytes the process writes

ASSUME SizeAssumption == Size \in Nat \ {0}
ASSUME MarkAssumption == HighWaterMark \in Nat \ {0}
ASSUME BoundAssumption == MaxEnq \in Nat /\ MaxWritten \in Nat

VARIABLES
  buffer,   \* the bytes, 0 where none was written
  head,     \* index of the newest byte, -1 when nothing was written
  tail,     \* index of the oldest byte, -1 when nothing was written
  streams,  \* the open streams
  pos,      \* readers: the position of each open stream
  more,     \* the open streams that take the next data at once
  written,  \* history: bytes the process has written
  got,      \* history: the last byte each open stream was given
  behind,   \* history: open streams that had data to read at a write, but
            \* for those at the start of a buffer with room for the write
  cut       \* history: open streams that read a part of what was left before
            \* the end of the buffer while their data went past it

vars == <<buffer, head, tail, streams, pos, more, written, got, behind, cut>>

Index == 0 .. Size - 1

----------------------------------------------------------------------------
(* Positions.                                                              *)

inc(p, n) == (p + n) % Size

\* The flag wrap that inc returns.
wraps(p, n) == n # 0 /\ inc(p, n) <= p

isWrapped(from, to) == to < from

sizeFrom(from, to) ==
  IF isWrapped(from, to) THEN to + 1 + Size - from ELSE to - from + 1

\* Mutant: the tail is left where the last byte of the write went.
PassesOnly(p, end, n) ==
  IF isWrapped(p, end)
  THEN wraps(end, n) \/ inc(end, n) > p
  ELSE wraps(end, n) /\ inc(end, n) > p

shouldIncPos(p, end, n) ==
  IF isWrapped(p, end)
  THEN wraps(end, n) \/ inc(end, n) >= p
  ELSE wraps(end, n) /\ inc(end, n) >= p

----------------------------------------------------------------------------
(* What a write of len bytes, at most the size of the buffer, makes of it. *)

\* Where the write starts: startHead, and 0 in an empty buffer.
Start == IF head = -1 THEN 0 ELSE inc(head, 1)

HeadAfter(len) == IF head = -1 THEN len - 1 ELSE inc(head, len)

\* incTail: one past the new head, when the head reaches the tail.
TailAfter(len) ==
  IF head = -1 THEN 0
  ELSE IF shouldIncPos(tail, head, len) THEN inc(inc(head, len), 1)
  ELSE tail

\* The write copied over the end of the buffer; last is its last byte.
BufferAfter(last, len) ==
  LET offset(i) == IF i >= Start THEN i - Start ELSE i + Size - Start
  IN  [i \in Index |-> IF offset(i) < len THEN last - len + 1 + offset(i) ELSE buffer[i]]

\* Mutant: a stream that has read all goes back to the oldest byte.
Rewinds(p, len) ==
  IF p = -1 THEN TailAfter(len)
  ELSE IF shouldIncPos(p, TailAfter(len), len) THEN TailAfter(len)
  ELSE p

\* incTails moves a reader by the tail it has just moved; onData sends one
\* that has read all to the start of the write.
ReaderAfter(p, len) ==
  IF p = -1 THEN Start
  ELSE IF shouldIncPos(p, TailAfter(len), len) THEN TailAfter(len)
  ELSE p

----------------------------------------------------------------------------
(* The state and its steps.                                                *)

Init ==
  /\ buffer = [i \in Index |-> 0]
  /\ head = -1 /\ tail = -1
  /\ streams = {}
  /\ pos = [r \in Reader |-> -1]
  /\ more = {}
  /\ written = 0
  /\ got = [r \in Reader |-> 0]
  /\ behind = {} /\ cut = {}

\* Room for n more bytes behind the head.
Room(n) == tail <= 0 /\ head + n < Size

\* The last byte deq returns for n bytes from p: past the end of the buffer
\* it concatenates all that is left before it with as much of the start as
\* is left of n, which is nothing when n is less.
LastDequeued(buf, p, to, n) ==
  IF isWrapped(p, to)
  THEN IF n > Size - p THEN buf[n - (Size - p) - 1] ELSE buf[Size - 1]
  ELSE buf[p + n - 1]

\* Where deq leaves the reader.
AfterDeq(p, to, n) == IF inc(p, n - 1) = to THEN -1 ELSE inc(p, n)

\* enq of n bytes, of which the last fit, with incTails and onData: the
\* streams that take more are given all they have not read, and take more or
\* not as push returns.
Enq(n) ==
  LET len == IF n > Size THEN Size ELSE n
      all(r) == sizeFrom(ReaderAfter(pos[r], len), HeadAfter(len))
  IN  /\ written + n <= MaxWritten
      /\ written' = written + n
      /\ buffer' = BufferAfter(written + n, len)
      /\ head' = HeadAfter(len)
      /\ tail' = TailAfter(len)
      /\ pos' = [r \in Reader |->
                   IF r \notin streams THEN -1
                   ELSE IF r \in more
                   THEN AfterDeq(ReaderAfter(pos[r], len), HeadAfter(len), all(r))
                   ELSE ReaderAfter(pos[r], len)]
      /\ got' = [r \in Reader |->
                   IF r \in more
                   THEN LastDequeued(BufferAfter(written + n, len),
                                     ReaderAfter(pos[r], len), HeadAfter(len), all(r))
                   ELSE got[r]]
      /\ more' \in SUBSET more
      /\ behind' = behind \cup
                   {r \in streams : pos[r] # -1 /\ ~(pos[r] = 0 /\ Room(len))}
      /\ UNCHANGED <<streams, cut>>

\* getStream with getReader.
GetStream(r) ==
  /\ r \notin streams
  /\ streams' = streams \cup {r}
  /\ pos' = [pos EXCEPT ![r] = tail]
  /\ got' = [got EXCEPT ![r] = 0]
  /\ UNCHANGED <<buffer, head, tail, more, written, behind, cut>>

\* _read with nothing to read: the next write is given to the stream.
ReadNothing(r) ==
  /\ r \in streams /\ pos[r] = -1
  /\ more' = more \cup {r}
  /\ UNCHANGED <<buffer, head, tail, streams, pos, written, got, behind, cut>>

\* _read with data to read.  The loop of deq in the stream goes on while push
\* takes more: a step is one round of it, the last one when data is left.
Read(r) ==
  /\ r \in streams /\ pos[r] # -1
  /\ LET p == pos[r]
         left == sizeFrom(p, head)
         n == IF HighWaterMark < left THEN HighWaterMark ELSE left
     IN  /\ pos' = [pos EXCEPT ![r] = AfterDeq(p, head, n)]
         /\ got' = [got EXCEPT ![r] = LastDequeued(buffer, p, head, n)]
         /\ more' \in IF n = left THEN {more, more \cup {r}} ELSE {more}
         /\ cut' = IF isWrapped(p, head) /\ n < Size - p THEN cut \cup {r} ELSE cut
  /\ UNCHANGED <<buffer, head, tail, streams, written, behind>>

\* dispose of the stream: _destroy with closeStream and closeReader.
Dispose(r) ==
  /\ r \in streams
  /\ streams' = streams \ {r}
  /\ pos' = [pos EXCEPT ![r] = -1]
  /\ got' = [got EXCEPT ![r] = 0]
  /\ more' = more \ {r}
  /\ behind' = behind \ {r}
  /\ cut' = cut \ {r}
  /\ UNCHANGED <<buffer, head, tail, written>>

\* dispose of the buffer: every stream is disposed.
DisposeAll ==
  /\ streams # {}
  /\ streams' = {} /\ more' = {} /\ behind' = {} /\ cut' = {}
  /\ pos' = [r \in Reader |-> -1]
  /\ got' = [r \in Reader |-> 0]
  /\ UNCHANGED <<buffer, head, tail, written>>

Next ==
  \/ \E n \in 1 .. MaxEnq : Enq(n)
  \/ \E r \in Reader : GetStream(r) \/ ReadNothing(r) \/ Read(r) \/ Dispose(r)
  \/ DisposeAll

Spec == Init /\ [][Next]_vars

----------------------------------------------------------------------------
(* Properties.                                                             *)

TypeOK ==
  /\ buffer \in [Index -> 0 .. written]
  /\ head \in -1 .. Size - 1 /\ tail \in -1 .. Size - 1
  /\ streams \subseteq Reader /\ more \subseteq streams
  /\ pos \in [Reader -> -1 .. Size - 1]
  /\ written \in Nat
  /\ got \in [Reader -> 0 .. written]
  /\ behind \subseteq streams /\ cut \subseteq streams

\* The number of the oldest byte the buffer holds.
Oldest == IF tail = -1 THEN 1 ELSE buffer[tail]

\* The bytes from the tail to the head are the last ones the process wrote,
\* one after the other, and as many as fit.
HoldsLatest ==
  IF head = -1
  THEN tail = -1 /\ written = 0
  ELSE /\ tail = 0 \/ tail = head + 1
       /\ \A i \in 0 .. head : buffer[i] = written - (head - i)
       /\ tail # 0 => \A i \in tail .. Size - 1 : buffer[i] = written - (head + Size - i)
       /\ tail = 0 /\ head < Size - 1 => written = head + 1
       /\ written > head /\ (tail # 0 => written >= Size)

\* A reader stands at a byte between the tail and the head, never at one
\* that was not written, and one that reads all has read the last byte. Only
\* such a stream is handed the next write at once.
ReadersInside ==
  \A r \in Reader :
    /\ pos[r] # -1 => r \in streams /\ head # -1 /\ (tail = 0 => pos[r] <= head)
    /\ pos[r] = -1 /\ r \in streams => got[r] = written
    /\ r \in more => pos[r] = -1

\* The buffer keeps the last output: what it holds from the tail to the head
\* is the last of what the process wrote, without a gap, however the writes
\* wrapped; every reader is inside that range, and one marked as having read
\* all was given the last byte (enq, incTails, deq).
RingInvariant == TypeOK /\ HoldsLatest /\ ReadersInside

\* What a stream is owed next.
NextOwed(r) == IF got[r] + 1 > Oldest THEN got[r] + 1 ELSE Oldest

\* The next byte of a stream is the one after the last it was given, or the
\* oldest when that one is overwritten: nothing is lost that the buffer still
\* has, nothing is given twice (deq, onData, getReader).  It does not hold of
\* streams that were behind at a write, which incTails compares with the tail
\* it has moved instead of the head, nor of those that cut a read short, which
\* deq gives more than it moves them by.
UnreadIsNext ==
  \A r \in streams \ (behind \cup cut) :
    pos[r] # -1 => buffer[pos[r]] = NextOwed(r)
=============================================================================
