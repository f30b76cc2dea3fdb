----------------------- MODULE MultiRingBufferProofs -----------------------
(***************************************************************************)
(* The ring buffer keeps the last output, and a stream that keeps up reads *)
(* all of it in order: for every size of the buffer, every high water mark *)
(* and every number of streams.                                            *)
(*                                                                         *)
(* The arithmetic on positions is brought to sums by Inc; what a write     *)
(* makes of the head, the tail, the bytes and a reader is stated by one    *)
(* lemma each.                                                             *)
(***************************************************************************)
EXTENDS MultiRingBuffer, TLAPS

USE SizeAssumption, MarkAssumption, BoundAssumption DEF Index

(* A sum less than twice the size is reduced by one subtraction. *)
LEMMA Reduced ==
  ASSUME NEW a \in Nat, a < 2 * Size
  PROVE  a % Size = IF a < Size THEN a ELSE a - Size
  <1>1. CASE a < Size
    BY <1>1
  <1>2. CASE a >= Size
    BY <1>2
  <1> QED
    BY <1>1, <1>2

(* inc goes round the end of the buffer once (inc). *)
LEMMA Inc ==
  ASSUME NEW p \in Index, NEW n \in 0 .. Size
  PROVE  /\ inc(p, n) = IF p + n < Size THEN p + n ELSE p + n - Size
         /\ inc(p, n) \in Index
         /\ wraps(p, n) <=> p + n >= Size
  BY Reduced DEF inc, wraps

(* The next position (inc). *)
LEMMA Inc1 ==
  \A p \in Index : inc(p, 1) = IF p = Size - 1 THEN 0 ELSE p + 1
  BY Inc

-----------------------------------------------------------------------------
(* A write.                                                                *)

(* Where a write starts and where it leaves the head and the tail (enq,     *)
(* incTail).                                                               *)
LEMMA WriteMoves ==
  ASSUME TypeOK, HoldsLatest, NEW len \in 1 .. Size
  PROVE  /\ Start = IF head = Size - 1 THEN 0 ELSE head + 1
         /\ HeadAfter(len) = IF head + len < Size THEN head + len ELSE head + len - Size
         /\ TailAfter(len) = IF Room(len) \/ HeadAfter(len) = Size - 1
                             THEN 0 ELSE HeadAfter(len) + 1
  <1>1. CASE head = -1
    BY <1>1 DEF TypeOK, HoldsLatest, Start, HeadAfter, TailAfter, Room
  <1>2. CASE head # -1
    <2>1. head \in Index /\ tail \in Index /\ (tail = 0 \/ tail = head + 1)
      BY <1>2 DEF TypeOK, HoldsLatest
    <2>2. Start = IF head = Size - 1 THEN 0 ELSE head + 1
      BY <1>2, <2>1, Inc DEF Start
    <2>3. /\ HeadAfter(len) = inc(head, len)
          /\ inc(head, len) = IF head + len < Size THEN head + len ELSE head + len - Size
          /\ inc(head, len) \in Index
          /\ wraps(head, len) <=> head + len >= Size
      BY <1>2, <2>1, Inc DEF HeadAfter
    <2>4. inc(inc(head, len), 1) = IF inc(head, len) = Size - 1 THEN 0 ELSE inc(head, len) + 1
      BY <2>3, Inc1
    <2>5. shouldIncPos(tail, head, len) <=> ~Room(len)
      BY <1>2, <2>1, <2>3 DEF shouldIncPos, isWrapped, Room
    <2>6. Room(len) => tail = 0
      BY <2>1 DEF Room
    <2> QED
      BY <1>2, <2>2, <2>3, <2>4, <2>5, <2>6 DEF TailAfter
  <1> QED
    BY <1>1, <1>2

(* The bytes of a write that leaves none out, or of the last ones of one    *)
(* that is larger than the buffer: the buffer still holds the latest (enq). *)
LEMMA WriteKeepsLatest ==
  ASSUME TypeOK, HoldsLatest, NEW n \in Nat \ {0}, Enq(n)
  PROVE  /\ buffer' \in [Index -> 0 .. written']
         /\ head' \in Index /\ tail' \in Index /\ written' \in Nat
         /\ HoldsLatest'
  <1> DEFINE len == IF n > Size THEN Size ELSE n
             offset(i) == IF i >= Start THEN i - Start ELSE i + Size - Start
  <1>1. len \in 1 .. Size
    OBVIOUS
  <1> HIDE DEF len
  <1>2. /\ written' = written + n /\ written \in Nat
        /\ buffer' = BufferAfter(written + n, len)
        /\ head' = HeadAfter(len) /\ tail' = TailAfter(len)
    BY DEF Enq, len, TypeOK
  <1>3. n >= len /\ (n # len => len = Size)
    BY DEF len
  <1>4. /\ Start = IF head = Size - 1 THEN 0 ELSE head + 1
        /\ head' = IF head + len < Size THEN head + len ELSE head + len - Size
        /\ tail' = IF Room(len) \/ head' = Size - 1 THEN 0 ELSE head' + 1
    BY <1>1, <1>2, WriteMoves
  <1>5. head \in -1 .. Size - 1 /\ tail \in -1 .. Size - 1
    BY DEF TypeOK
  <1>6. head' \in Index /\ tail' \in Index /\ Start \in Index
    BY <1>1, <1>4, <1>5
  <1>7. ASSUME NEW i \in Index
        PROVE  /\ offset(i) \in 0 .. Size - 1
               /\ buffer'[i] = IF offset(i) < len THEN written' - len + 1 + offset(i)
                              ELSE buffer[i]
    BY <1>2, <1>6 DEF BufferAfter
  <1>8. ASSUME NEW i \in Index
        PROVE  buffer'[i] \in 0 .. written'
    <2>1. buffer[i] \in 0 .. written
      BY <1>2 DEF TypeOK
    <2> QED
      BY <1>1, <1>2, <1>3, <1>7, <2>1
  <1>9. buffer' \in [Index -> 0 .. written']
    BY <1>2, <1>8 DEF BufferAfter
  <1>10. ASSUME NEW i \in 0 .. head'
         PROVE  buffer'[i] = written' - (head' - i)
    <2>1. i \in Index
      BY <1>6
    <2>2. CASE offset(i) < len
      BY <1>1, <1>2, <1>4, <1>5, <1>7, <2>1, <2>2
    <2>3. CASE ~(offset(i) < len)
      <3>1. i < Start /\ n = len /\ i \in 0 .. head /\ head # -1 /\ head' = head + len
        BY <1>1, <1>3, <1>4, <1>5, <1>7, <2>1, <2>3
      <3>2. buffer[i] = written - (head - i)
        BY <3>1 DEF HoldsLatest
      <3> QED
        BY <1>1, <1>2, <1>5, <1>7, <2>1, <2>3, <3>1, <3>2
    <2> QED
      BY <2>2, <2>3
  <1>11. ASSUME tail' # 0, NEW i \in tail' .. Size - 1
         PROVE  buffer'[i] = written' - (head' + Size - i)
    <2>1. i \in Index /\ i > head'
      BY <1>4, <1>6, <1>11
    <2>2. CASE offset(i) < len
      BY <1>1, <1>2, <1>4, <1>5, <1>7, <2>1, <2>2
    <2>3. CASE ~(offset(i) < len)
      <3>1. n = len
        BY <1>1, <1>3, <1>7, <2>1, <2>3
      <3>2. CASE head + len >= Size
        <4>1. i \in 0 .. head /\ head # -1
          BY <1>1, <1>4, <1>5, <2>1, <2>3, <3>2
        <4>2. buffer[i] = written - (head - i)
          BY <4>1 DEF HoldsLatest
        <4> QED
          BY <1>1, <1>2, <1>4, <1>5, <1>7, <2>1, <2>3, <3>1, <3>2, <4>2
      <3>3. CASE head + len < Size
        <4>1. head # -1 /\ tail # 0 /\ i \in tail .. Size - 1
          BY <1>1, <1>4, <1>5, <1>11, <2>1, <2>3, <3>3 DEF HoldsLatest, Room
        <4>2. buffer[i] = written - (head + Size - i)
          BY <4>1 DEF HoldsLatest
        <4> QED
          BY <1>1, <1>2, <1>4, <1>5, <1>7, <2>1, <2>3, <3>1, <3>3, <4>2
      <3> QED
        BY <1>1, <1>5, <3>2, <3>3
    <2> QED
      BY <2>2, <2>3
  <1>12. tail' = 0 \/ tail' = head' + 1
    BY <1>4
  <1>13. tail' = 0 /\ head' < Size - 1 => written' = head' + 1
    <2> SUFFICES ASSUME tail' = 0, head' < Size - 1
                 PROVE  written' = head' + 1
      OBVIOUS
    <2>1. Room(len) /\ tail <= 0 /\ head + len < Size
      BY <1>4, <1>6 DEF Room
    <2>2. n = len /\ head' = head + len
      BY <1>1, <1>3, <1>4, <1>5, <2>1
    <2>3. written = head + 1
      BY <1>1, <1>5, <2>1 DEF HoldsLatest
    <2> QED
      BY <1>1, <1>2, <1>5, <2>2, <2>3
  <1>14. written' > head' /\ (tail' # 0 => written' >= Size)
    <2>1. written > head /\ (tail > 0 => written >= Size)
      BY <1>2, <1>5 DEF HoldsLatest
    <2> QED
      BY <1>1, <1>2, <1>3, <1>4, <1>5, <2>1 DEF Room
  <1> QED
    BY <1>2, <1>6, <1>9, <1>10, <1>11, <1>12, <1>13, <1>14 DEF HoldsLatest

-----------------------------------------------------------------------------
(* Reads.                                                                  *)

(* deq leaves a reader that read all at -1, another one n bytes on and still *)
(* before the head (deq, sizeFrom, isWrapped).                             *)
LEMMA DeqMoves ==
  ASSUME NEW p \in Index, NEW to \in Index, NEW n \in 1 .. sizeFrom(p, to)
  PROVE  /\ sizeFrom(p, to) \in 1 .. Size
         /\ n = sizeFrom(p, to) => AfterDeq(p, to, n) = -1
         /\ n # sizeFrom(p, to) =>
              /\ AfterDeq(p, to, n) = IF p + n < Size THEN p + n ELSE p + n - Size
              /\ AfterDeq(p, to, n) \in Index
              /\ p <= to => AfterDeq(p, to, n) <= to
  <1>1. sizeFrom(p, to) \in 1 .. Size
    BY DEF sizeFrom, isWrapped
  <1>2. n \in 0 .. Size /\ n - 1 \in 0 .. Size
    BY <1>1
  <1>3. /\ inc(p, n) = IF p + n < Size THEN p + n ELSE p + n - Size
        /\ inc(p, n - 1) = IF p + (n - 1) < Size THEN p + (n - 1) ELSE p + (n - 1) - Size
    BY <1>2, Inc
  <1>4. inc(p, n - 1) = to <=> n = sizeFrom(p, to)
    BY <1>1, <1>3 DEF sizeFrom, isWrapped
  <1> QED
    BY <1>1, <1>3, <1>4 DEF AfterDeq, sizeFrom, isWrapped

(* A read of all that is left ends with the newest byte; one that is not cut *)
(* ends with the byte before the reader's next one (deq).                  *)
LEMMA DeqReturns ==
  ASSUME NEW p \in Index, NEW to \in Index, NEW n \in 1 .. sizeFrom(p, to), NEW buf
  PROVE  /\ n = sizeFrom(p, to) => LastDequeued(buf, p, to, n) = buf[to]
         /\ ~(isWrapped(p, to) /\ n < Size - p) =>
              LastDequeued(buf, p, to, n) =
                buf[IF p + n - 1 < Size THEN p + n - 1 ELSE p + n - 1 - Size]
         /\ \E i \in Index : LastDequeued(buf, p, to, n) = buf[i]
  <1>1. sizeFrom(p, to) \in 1 .. Size
    BY DEF sizeFrom, isWrapped
  <1>2. CASE ~isWrapped(p, to)
    <2>1. LastDequeued(buf, p, to, n) = buf[p + n - 1]
      BY <1>2 DEF LastDequeued
    <2>2. p + n - 1 \in Index /\ (n = sizeFrom(p, to) => p + n - 1 = to)
      BY <1>2 DEF sizeFrom, isWrapped
    <2> QED
      BY <1>2, <2>1, <2>2
  <1>3. CASE isWrapped(p, to) /\ n > Size - p
    <2>1. LastDequeued(buf, p, to, n) = buf[n - (Size - p) - 1]
      BY <1>3 DEF LastDequeued
    <2>2. /\ n - (Size - p) - 1 = p + n - 1 - Size
          /\ n - (Size - p) - 1 \in Index
          /\ n = sizeFrom(p, to) => n - (Size - p) - 1 = to
          /\ ~(p + n - 1 < Size)
      BY <1>1, <1>3 DEF sizeFrom, isWrapped
    <2> QED
      BY <2>1, <2>2
  <1>4. CASE isWrapped(p, to) /\ ~(n > Size - p)
    <2>1. LastDequeued(buf, p, to, n) = buf[Size - 1]
      BY <1>4 DEF LastDequeued
    <2>2. /\ n # sizeFrom(p, to) /\ Size - 1 \in Index
          /\ ~(n < Size - p) => p + n - 1 = Size - 1
      BY <1>1, <1>4 DEF sizeFrom, isWrapped
    <2> QED
      BY <1>4, <2>1, <2>2
  <1> QED
    BY <1>2, <1>3, <1>4

(* A write leaves every reader at a byte of the buffer (incTails, onData).   *)
LEMMA ReaderStaysInside ==
  ASSUME TypeOK, HoldsLatest, NEW len \in 1 .. Size, NEW p \in -1 .. Size - 1,
         p # -1 => head # -1 /\ (tail = 0 => p <= head)
  PROVE  /\ ReaderAfter(p, len) \in Index
         /\ TailAfter(len) = 0 => ReaderAfter(p, len) <= HeadAfter(len)
  <1>1. /\ Start = IF head = Size - 1 THEN 0 ELSE head + 1
        /\ HeadAfter(len) = IF head + len < Size THEN head + len ELSE head + len - Size
        /\ TailAfter(len) = IF Room(len) \/ HeadAfter(len) = Size - 1
                            THEN 0 ELSE HeadAfter(len) + 1
    BY WriteMoves
  <1>2. head \in -1 .. Size - 1 /\ tail \in -1 .. Size - 1
    BY DEF TypeOK
  <1>3. Start \in Index /\ HeadAfter(len) \in Index /\ TailAfter(len) \in Index
    BY <1>1, <1>2
  <1>4. TailAfter(len) = 0 => Start <= HeadAfter(len) 
    BY <1>1, <1>2 DEF Room
  <1>5. p # -1 /\ TailAfter(len) = 0 => p <= HeadAfter(len)
    <2> SUFFICES ASSUME p # -1, TailAfter(len) = 0
                 PROVE  p <= HeadAfter(len)
      OBVIOUS
    <2>1. CASE Room(len)
      <3>1. tail = 0
        BY <1>2, <2>1 DEF Room, HoldsLatest
      <3> QED
        BY <1>1, <1>2, <2>1, <3>1 DEF Room
    <2>2. CASE ~Room(len)
      BY <1>1, <1>3, <2>2
    <2> QED
      BY <2>1, <2>2
  <1>6. ReaderAfter(p, len) \in {Start, TailAfter(len), p} /\ (ReaderAfter(p, len) = p => p # -1 \/ p = Start)
    BY DEF ReaderAfter
  <1> QED
    BY <1>3, <1>4, <1>5, <1>6

-----------------------------------------------------------------------------
(* The invariant.                                                          *)

Inv == RingInvariant /\ UnreadIsNext

(* The number of the oldest byte (enq).                                    *)
LEMMA OldestIs ==
  ASSUME TypeOK, HoldsLatest, head # -1
  PROVE  /\ head \in Index /\ tail \in Index
         /\ Oldest = buffer[tail]
         /\ Oldest = IF tail = 0 THEN written - head ELSE written - Size + 1
         /\ Oldest >= 1
  <1>1. head \in Index /\ tail \in Index /\ written \in Nat
    BY DEF TypeOK, HoldsLatest
  <1>2. Oldest = buffer[tail]
    BY <1>1 DEF Oldest
  <1>3. tail = 0 => buffer[tail] = written - head
    BY <1>1 DEF HoldsLatest
  <1>4. tail # 0 => buffer[tail] = written - (head + Size - tail) /\ tail = head + 1
    BY <1>1 DEF HoldsLatest
  <1>5. written > head /\ (tail # 0 => written >= Size)
    BY DEF HoldsLatest
  <1> QED
    BY <1>1, <1>2, <1>3, <1>4, <1>5

(* A new stream starts at the oldest byte (getReader). *)
LEMMA GetStreamKeeps ==
  ASSUME Inv, NEW s \in Reader, GetStream(s)
  PROVE  Inv'
  <1>1. /\ TypeOK /\ HoldsLatest /\ ReadersInside /\ UnreadIsNext
        /\ UNCHANGED <<buffer, head, tail, more, written, behind, cut>>
        /\ streams' = streams \cup {s} /\ s \notin streams
        /\ pos' = [pos EXCEPT ![s] = tail] /\ got' = [got EXCEPT ![s] = 0]
    BY DEF Inv, RingInvariant, GetStream
  <1>2. TypeOK'
    BY <1>1 DEF TypeOK
  <1>3. HoldsLatest'
    BY <1>1 DEF HoldsLatest
  <1>4. Oldest' = Oldest
    BY <1>1 DEF Oldest
  <1>5. ASSUME NEW r \in Reader
        PROVE  /\ pos'[r] # -1 => r \in streams' /\ head' # -1 /\ (tail' = 0 => pos'[r] <= head')
               /\ pos'[r] = -1 /\ r \in streams' => got'[r] = written'
               /\ r \in more' => pos'[r] = -1
    <2>1. CASE r = s
      BY <1>1, <2>1 DEF TypeOK, HoldsLatest
    <2>2. CASE r # s
      BY <1>1, <2>2 DEF TypeOK, ReadersInside
    <2> QED
      BY <2>1, <2>2
  <1>6. ASSUME NEW r \in streams' \ (behind \cup cut)', pos'[r] # -1
        PROVE  buffer'[pos'[r]] = NextOwed(r)'
    <2>1. CASE r = s
      <3>1. head # -1 /\ pos'[r] = tail /\ got'[r] = 0
        BY <1>1, <1>6, <2>1 DEF TypeOK, HoldsLatest
      <3>2. Oldest = buffer[tail] /\ Oldest >= 1 /\ Oldest \in Int
        BY <1>1, <3>1, OldestIs DEF TypeOK
      <3> QED
        BY <1>1, <1>4, <3>1, <3>2 DEF NextOwed
    <2>2. CASE r # s
      BY <1>1, <1>4, <1>6, <2>2 DEF TypeOK, UnreadIsNext, NextOwed
    <2> QED
      BY <2>1, <2>2
  <1> QED
    BY <1>2, <1>3, <1>5, <1>6 DEF Inv, RingInvariant, ReadersInside, UnreadIsNext

(* A stream that finds nothing to read has read all (_read). *)
LEMMA ReadNothingKeeps ==
  ASSUME Inv, NEW s \in Reader, ReadNothing(s)
  PROVE  Inv'
  BY DEF Inv, RingInvariant, TypeOK, HoldsLatest, ReadersInside, UnreadIsNext,
         NextOwed, Oldest, ReadNothing

(* A read moves its stream on by what it was given, or cuts it (_read, deq). *)
LEMMA ReadKeeps ==
  ASSUME Inv, NEW s \in Reader, Read(s)
  PROVE  Inv'
  <1> DEFINE p == pos[s]
             left == sizeFrom(p, head)
             n == IF HighWaterMark < left THEN HighWaterMark ELSE left
  <1>1. /\ TypeOK /\ HoldsLatest /\ ReadersInside /\ UnreadIsNext
        /\ UNCHANGED <<buffer, head, tail, streams, written, behind>>
        /\ s \in streams /\ p # -1
        /\ pos' = [pos EXCEPT ![s] = AfterDeq(p, head, n)]
        /\ got' = [got EXCEPT ![s] = LastDequeued(buffer, p, head, n)]
        /\ more' \in IF n = left THEN {more, more \cup {s}} ELSE {more}
        /\ cut' = IF isWrapped(p, head) /\ n < Size - p THEN cut \cup {s} ELSE cut
    BY DEF Inv, RingInvariant, Read
  <1>2. /\ p \in Index /\ head \in Index /\ head # -1 /\ written \in Nat
        /\ tail = 0 => p <= head
        /\ s \notin more
    BY <1>1 DEF TypeOK, HoldsLatest, ReadersInside
  <1>3. left \in 1 .. Size
    BY <1>2 DEF sizeFrom, isWrapped
  <1> HIDE DEF left
  <1>4. n \in 1 .. left
    BY <1>3
  <1> HIDE DEF n
  <1>5. /\ n = left => AfterDeq(p, head, n) = -1
        /\ n # left =>
             /\ AfterDeq(p, head, n) = IF p + n < Size THEN p + n ELSE p + n - Size
             /\ AfterDeq(p, head, n) \in Index
             /\ p <= head => AfterDeq(p, head, n) <= head
    BY <1>2, <1>4, DeqMoves DEF left
  <1>6. /\ n = left => LastDequeued(buffer, p, head, n) = buffer[head]
        /\ ~(isWrapped(p, head) /\ n < Size - p) =>
             LastDequeued(buffer, p, head, n) =
               buffer[IF p + n - 1 < Size THEN p + n - 1 ELSE p + n - 1 - Size]
        /\ \E i \in Index : LastDequeued(buffer, p, head, n) = buffer[i]
    BY <1>2, <1>4, DeqReturns DEF left
  <1> HIDE DEF p
  <1> DEFINE newPos == AfterDeq(p, head, n)
             newGot == LastDequeued(buffer, p, head, n)
  <1>7. newPos \in -1 .. Size - 1
    BY <1>2, <1>3, <1>4, <1>5 DEF newPos
  <1>8. newGot \in 0 .. written
    BY <1>1, <1>6 DEF TypeOK, newGot
  <1>9. pos' = [pos EXCEPT ![s] = newPos] /\ got' = [got EXCEPT ![s] = newGot]
    BY <1>1 DEF newPos, newGot
  <1>10. /\ n = left => newPos = -1 /\ newGot = buffer[head]
         /\ n # left => newPos # -1 /\ (p <= head => newPos <= head)
    BY <1>2, <1>3, <1>4, <1>5, <1>6 DEF newPos, newGot
  <1>11. n # left => newPos = IF p + n < Size THEN p + n ELSE p + n - Size
    BY <1>2, <1>3, <1>4, <1>5 DEF newPos
  <1>12. ~(isWrapped(p, head) /\ n < Size - p) =>
          newGot = buffer[IF p + n - 1 < Size THEN p + n - 1 ELSE p + n - 1 - Size]
    BY <1>6 DEF newGot
  <1>13. pos'[s] = newPos /\ got'[s] = newGot
    BY <1>1, <1>9 DEF TypeOK
  <1>14. TypeOK'
    BY <1>1, <1>9, <1>7, <1>8 DEF TypeOK
  <1>15. HoldsLatest' /\ Oldest' = Oldest
    BY <1>1 DEF HoldsLatest, Oldest
  <1>16. buffer[head] = written
    BY <1>2, <1>1 DEF HoldsLatest
  <1>17. ASSUME NEW r \in Reader
         PROVE  /\ pos'[r] # -1 => r \in streams' /\ head' # -1 /\ (tail' = 0 => pos'[r] <= head')
                /\ pos'[r] = -1 /\ r \in streams' => got'[r] = written'
                /\ r \in more' => pos'[r] = -1
    <2>1. CASE r = s
      BY <1>1, <1>2, <1>16, <1>10, <1>13, <2>1
    <2>2. CASE r # s
      BY <1>1, <2>2 DEF TypeOK, ReadersInside
    <2> QED
      BY <2>1, <2>2
  <1>18. ASSUME NEW r \in streams' \ (behind \cup cut)', pos'[r] # -1
         PROVE  buffer'[pos'[r]] = NextOwed(r)'
    <2>1. CASE r = s
      <3> DEFINE last == IF p + n - 1 < Size THEN p + n - 1 ELSE p + n - 1 - Size
                 next == IF p + n < Size THEN p + n ELSE p + n - Size
      <3>1. /\ n # left /\ ~(isWrapped(p, head) /\ n < Size - p)
            /\ pos'[r] = next /\ got'[r] = buffer[last]
        BY <1>1, <1>18, <1>10, <1>11, <1>12, <1>13, <2>1
      <3>2. n < left /\ left = sizeFrom(p, head) /\ n >= 1 /\ n \in Nat
        BY <1>3, <1>4, <3>1 DEF left
      <3>3. head # -1 /\ head \in Index /\ tail \in Index /\ (tail = 0 \/ tail = head + 1)
        BY <1>1, <1>2 DEF HoldsLatest, TypeOK
      <3>4. CASE p <= head
        <4>1. last \in 0 .. head /\ next \in 0 .. head /\ next = last + 1
          BY <1>2, <3>2, <3>3, <3>4 DEF sizeFrom, isWrapped
        <4>2. buffer[last] = written - (head - last) /\ buffer[next] = written - (head - next)
          BY <1>1, <3>3, <4>1 DEF HoldsLatest
        <4>3. buffer[next] = buffer[last] + 1
          BY <1>2, <3>3, <4>1, <4>2
        <4>4. buffer[next] >= Oldest
          BY <1>1, <1>2, <3>3, <4>1, <4>2, OldestIs
        <4> QED
          BY <1>1, <1>2, <1>15, <3>1, <3>3, <4>1, <4>2, <4>3, <4>4, OldestIs DEF NextOwed
      <3>5. CASE p > head
        <4>1. tail # 0 /\ tail = head + 1
          BY <1>2, <3>3, <3>5
        <4>2. /\ last \in Index /\ next \in Index
              /\ last >= tail \/ last <= head
              /\ next <= head /\ ((last = Size - 1 /\ next = 0) \/ next = last + 1)
          BY <1>2, <3>1, <3>2, <3>3, <3>5, <4>1 DEF sizeFrom, isWrapped
        <4>3. buffer[next] = written - (head - next)
          BY <1>1, <3>3, <4>2 DEF HoldsLatest
        <4>4. buffer[last] = IF last <= head THEN written - (head - last) ELSE written - (head + Size - last)
          BY <1>1, <3>3, <4>1, <4>2 DEF HoldsLatest
        <4>5. buffer[next] = buffer[last] + 1
          BY <1>2, <3>3, <4>1, <4>2, <4>3, <4>4
        <4>6. buffer[next] >= Oldest /\ Oldest \in Int
          BY <1>1, <1>2, <3>3, <4>1, <4>2, <4>3, OldestIs
        <4> QED
          BY <1>1, <1>2, <1>15, <3>1, <3>3, <4>2, <4>3, <4>5, <4>6 DEF NextOwed
      <3> QED
        BY <1>2, <3>3, <3>4, <3>5
    <2>2. CASE r # s
      BY <1>1, <1>15, <1>18, <2>2 DEF TypeOK, UnreadIsNext, NextOwed
    <2> QED
      BY <2>1, <2>2
  <1> QED
    BY <1>14, <1>15, <1>17, <1>18 DEF Inv, RingInvariant, ReadersInside, UnreadIsNext

(* A stream that is disposed leaves nothing behind (closeReader, closeStream). *)
LEMMA DisposeKeeps ==
  ASSUME Inv, (\E s \in Reader : Dispose(s)) \/ DisposeAll
  PROVE  Inv'
  <1>1. /\ TypeOK /\ HoldsLatest /\ ReadersInside /\ UnreadIsNext
        /\ UNCHANGED <<buffer, head, tail, written>>
    BY DEF Inv, RingInvariant, Dispose, DisposeAll
  <1>2. HoldsLatest' /\ Oldest' = Oldest
    BY <1>1 DEF HoldsLatest, Oldest
  <1>3. ASSUME NEW s \in Reader, Dispose(s)
        PROVE  TypeOK' /\ ReadersInside' /\ UnreadIsNext'
    BY <1>1, <1>2, <1>3 DEF Dispose, TypeOK, ReadersInside, UnreadIsNext, NextOwed
  <1>4. ASSUME DisposeAll
        PROVE  TypeOK' /\ ReadersInside' /\ UnreadIsNext'
    BY <1>1, <1>2, <1>4 DEF DisposeAll, TypeOK, ReadersInside, UnreadIsNext, NextOwed
  <1> QED
    BY <1>2, <1>3, <1>4 DEF Inv, RingInvariant

(* A write leaves the streams that asked for data with nothing to read, and  *)
(* the others, if they were not behind, at their next byte (enq, onData).    *)
LEMMA EnqKeeps ==
  ASSUME Inv, NEW n \in Nat \ {0}, Enq(n)
  PROVE  Inv'
  <1> DEFINE len == IF n > Size THEN Size ELSE n
             at(r) == ReaderAfter(pos[r], len)
             all(r) == sizeFrom(at(r), head')
  <1>1. TypeOK /\ HoldsLatest /\ ReadersInside /\ UnreadIsNext
    BY DEF Inv, RingInvariant
  <1>2. len \in 1 .. Size /\ n >= len /\ (n # len => len = Size)
    OBVIOUS
  <1>3. /\ written' = written + n
        /\ buffer' = BufferAfter(written', len)
        /\ head' = HeadAfter(len) /\ tail' = TailAfter(len)
        /\ pos' = [r \in Reader |-> IF r \notin streams THEN -1
                                   ELSE IF r \in more THEN AfterDeq(at(r), head', all(r))
                                   ELSE at(r)]
        /\ got' = [r \in Reader |-> IF r \in more
                                   THEN LastDequeued(buffer', at(r), head', all(r))
                                   ELSE got[r]]
        /\ more' \in SUBSET more
        /\ behind' = behind \cup {r \in streams : pos[r] # -1 /\ ~(pos[r] = 0 /\ Room(len))}
        /\ streams' = streams /\ cut' = cut
    BY DEF Enq
  <1> HIDE DEF len
  <1>4. /\ buffer' \in [Index -> 0 .. written']
        /\ head' \in Index /\ tail' \in Index /\ written' \in Nat
        /\ HoldsLatest'
    BY <1>1, WriteKeepsLatest
  <1>5. written \in Nat /\ head \in -1 .. Size - 1 /\ tail \in -1 .. Size - 1
    BY <1>1 DEF TypeOK
  <1>6. buffer'[head'] = written'
    <2>1. head' \in 0 .. head' /\ head' # -1
      BY <1>4
    <2>2. \A i \in 0 .. head' : buffer'[i] = written' - (head' - i)
      BY <1>4, <2>1 DEF HoldsLatest
    <2> QED
      BY <1>4, <2>1, <2>2
  <1>7. ASSUME NEW r \in Reader
        PROVE  at(r) \in Index /\ (tail' = 0 => at(r) <= head')
    <2>1. pos[r] \in -1 .. Size - 1 /\ (pos[r] # -1 => head # -1 /\ (tail = 0 => pos[r] <= head))
      BY <1>1 DEF TypeOK, ReadersInside
    <2> QED
      BY <1>1, <1>2, <1>3, <2>1, ReaderStaysInside
  <1>8. ASSUME NEW r \in Reader
        PROVE  /\ all(r) \in 1 .. Size
               /\ AfterDeq(at(r), head', all(r)) = -1
               /\ LastDequeued(buffer', at(r), head', all(r)) = written'
    <2>1. all(r) \in 1 .. Size
      <3>1. at(r) \in Index /\ head' \in Index
        BY <1>4, <1>7
      <3> HIDE DEF at
      <3> QED
        BY <3>1 DEF sizeFrom, isWrapped
    <2>2. all(r) \in 1 .. sizeFrom(at(r), head')
      BY <2>1
    <2>3. AfterDeq(at(r), head', all(r)) = -1
      BY <1>4, <1>7, <2>2, DeqMoves
    <2>4. LastDequeued(buffer', at(r), head', all(r)) = buffer'[head']
      BY <1>4, <1>7, <2>2, DeqReturns
    <2> QED
      BY <1>6, <2>1, <2>3, <2>4
  <1> HIDE DEF all
  <1>9. ASSUME NEW r \in Reader
        PROVE  /\ pos'[r] = IF r \notin streams \/ r \in more THEN -1 ELSE at(r)
               /\ got'[r] = IF r \in more THEN written' ELSE got[r]
    BY <1>3, <1>8
  <1> HIDE DEF at
  <1>10. pos' \in [Reader -> -1 .. Size - 1] /\ got' \in [Reader -> 0 .. written']
    <2>1. ASSUME NEW r \in Reader
          PROVE  pos'[r] \in -1 .. Size - 1 /\ got'[r] \in 0 .. written'
      <3>1. got[r] \in 0 .. written
        BY <1>1 DEF TypeOK
      <3> QED
        BY <1>3, <1>4, <1>5, <1>7, <1>9, <3>1
    <2>2. pos' = [r \in Reader |-> pos'[r]] /\ got' = [r \in Reader |-> got'[r]]
      BY <1>3
    <2> QED
      BY <2>1, <2>2
  <1>11. TypeOK'
    <2>1. /\ streams' \subseteq Reader /\ more' \subseteq streams'
          /\ behind' \subseteq streams' /\ cut' \subseteq streams'
      BY <1>1, <1>3 DEF TypeOK
    <2> QED
      BY <1>4, <1>10, <2>1 DEF TypeOK
  <1>12. ReadersInside'
    <2>1. ASSUME NEW r \in Reader
          PROVE  /\ pos'[r] # -1 => r \in streams' /\ head' # -1 /\ (tail' = 0 => pos'[r] <= head')
                 /\ pos'[r] = -1 /\ r \in streams' => got'[r] = written'
                 /\ r \in more' => pos'[r] = -1
      BY <1>3, <1>4, <1>7, <1>9
    <2> QED
      BY <2>1 DEF ReadersInside
  <1>13. ASSUME NEW r \in streams' \ (behind \cup cut)', pos'[r] # -1
         PROVE  buffer'[pos'[r]] = NextOwed(r)'
    <2>1. /\ r \in streams \ (behind \cup cut) /\ r \in Reader /\ r \notin more
          /\ pos'[r] = at(r) /\ got'[r] = got[r] /\ got[r] \in 0 .. written
          /\ pos[r] = -1 \/ (pos[r] = 0 /\ Room(len))
      BY <1>1, <1>3, <1>9, <1>13 DEF TypeOK
    <2>2. /\ Start = IF head = Size - 1 THEN 0 ELSE head + 1
          /\ head' = IF head + len < Size THEN head + len ELSE head + len - Size
          /\ tail' = IF Room(len) \/ head' = Size - 1 THEN 0 ELSE head' + 1
      BY <1>1, <1>2, <1>3, WriteMoves
    <2>3. /\ Oldest' = buffer'[tail']
          /\ Oldest' = IF tail' = 0 THEN written' - head' ELSE written' - Size + 1
      <3>1. Oldest' = buffer'[tail']
        BY <1>4 DEF Oldest
      <3>2. tail' = 0 => buffer'[tail'] = written' - head'
        <4>1. 0 \in 0 .. head' /\ head' # -1
          BY <1>4
        <4>2. \A i \in 0 .. head' : buffer'[i] = written' - (head' - i)
          BY <1>4, <4>1 DEF HoldsLatest
        <4> QED
          BY <1>4, <4>1, <4>2
      <3>3. tail' # 0 => buffer'[tail'] = written' - Size + 1
        <4> SUFFICES ASSUME tail' # 0
                     PROVE  buffer'[tail'] = written' - Size + 1
          OBVIOUS
        <4>1. tail' \in tail' .. Size - 1 /\ head' # -1 /\ tail' = head' + 1
          BY <1>4, <2>2
        <4>2. \A i \in tail' .. Size - 1 : buffer'[i] = written' - (head' + Size - i)
          BY <1>4, <4>1 DEF HoldsLatest
        <4>3. buffer'[tail'] = written' - (head' + Size - tail')
          BY <4>1, <4>2
        <4>4. written' \in Int /\ head' \in Int
          BY <1>4
        <4>5. tail' = head' + 1
          BY <4>1
        <4> QED
          BY <4>3, <4>4, <4>5
      <3> QED
        BY <3>1, <3>2, <3>3
    <2>4. CASE pos[r] = -1
      <3>1. at(r) = Start /\ got[r] = written
        BY <1>1, <2>1, <2>4 DEF at, ReaderAfter, ReadersInside
      <3>2. Start \in Index
        BY <1>5, <2>2
      <3>3. buffer'[Start] = written' - len + 1
        <4>1. buffer'[Start] = IF Start - Start < len THEN written' - len + 1 + (Start - Start)
                               ELSE buffer[Start]
          BY <1>3, <3>2 DEF BufferAfter
        <4> QED
          BY <1>2, <1>4, <3>2, <4>1
      <3>4. /\ tail' = 0 => head' >= len - 1
            /\ tail' = 0 /\ len = Size => head' = Size - 1
        BY <1>2, <1>4, <1>5, <2>2 DEF Room
      <3>5. /\ written' \in Nat /\ head' \in 0 .. Size - 1 /\ len \in 1 .. Size
            /\ n # len => len = Size
        BY <1>2, <1>4
      <3>6. /\ tail' = 0 => buffer'[tail'] = written' - head'
            /\ tail' # 0 => buffer'[tail'] = written' - Size + 1
        BY <2>3
      <3>7. buffer'[tail'] <= written' - len + 1
        BY <3>4, <3>5, <3>6
      <3>8. n # len => buffer'[tail'] = written' - len + 1
        BY <3>4, <3>5, <3>6
      <3>9. n = len => written' - len + 1 = written + 1
        BY <1>2, <1>3, <1>5
      <3>10. written + 1 <= written' - len + 1 /\ tail' # -1
        BY <1>2, <1>3, <1>4, <1>5
      <3>11. NextOwed(r)' = IF written + 1 > buffer'[tail'] THEN written + 1 ELSE buffer'[tail']
        BY <2>1, <3>1, <3>10 DEF NextOwed, Oldest
      <3>12. buffer'[tail'] \in Int
        BY <1>4
      <3>13. buffer'[pos'[r]] = written' - len + 1
        BY <2>1, <3>1, <3>3
      <3>14. buffer'[pos'[r]] = IF written + 1 > buffer'[tail'] THEN written + 1 ELSE buffer'[tail']
        <4>1. CASE n = len
          BY <1>5, <3>7, <3>9, <3>12, <3>13, <4>1
        <4>2. CASE n # len
          BY <1>5, <3>8, <3>10, <3>12, <3>13, <4>2
        <4> QED
          BY <4>1, <4>2
      <3> QED
        BY <3>11, <3>14
    <2>5. CASE pos[r] = 0 /\ Room(len)
      <3>1. head # -1 /\ tail = 0 /\ head + len < Size
        BY <1>1, <1>5, <2>1, <2>5 DEF ReadersInside, HoldsLatest, Room
      <3>2. tail' = 0 /\ at(r) = 0
        BY <1>3, <2>2, <2>5 DEF at, ReaderAfter
      <3>3. Start = head + 1 /\ Start \in Index
        BY <1>2, <1>5, <2>2, <3>1
      <3>4. 0 \in Index /\ ~(0 >= Start) /\ ~(0 + Size - Start < len)
        BY <1>2, <1>5, <3>1, <3>3
      <3>5. buffer'[0] = buffer[0]
        BY <1>3, <3>4 DEF BufferAfter
      <3>6. buffer[0] = NextOwed(r) /\ Oldest = buffer[0]
        BY <1>1, <2>1, <2>5, <3>1 DEF UnreadIsNext, Oldest
      <3> QED
        BY <2>1, <2>3, <3>2, <3>5, <3>6 DEF NextOwed
    <2> QED
      BY <2>1, <2>4, <2>5
  <1> QED
    BY <1>4, <1>11, <1>12, <1>13 DEF Inv, RingInvariant, UnreadIsNext

LEMMA InvHolds == Spec => []Inv
  <1>1. Init => Inv
    BY DEF Init, Inv, RingInvariant, TypeOK, HoldsLatest, ReadersInside, UnreadIsNext
  <1>2. Inv /\ [Next]_vars => Inv'
    <2> SUFFICES ASSUME Inv, [Next]_vars
                 PROVE  Inv'
      OBVIOUS
    <2>1. ASSUME NEW n \in 1 .. MaxEnq, Enq(n)
          PROVE  Inv'
      <3>1. n \in Nat \ {0}
        OBVIOUS
      <3> QED
        BY <2>1, <3>1, EnqKeeps
    <2>2. ASSUME NEW r \in Reader, GetStream(r)
          PROVE  Inv'
      BY <2>2, GetStreamKeeps
    <2>3. ASSUME NEW r \in Reader, ReadNothing(r)
          PROVE  Inv'
      BY <2>3, ReadNothingKeeps
    <2>4. ASSUME NEW r \in Reader, Read(r)
          PROVE  Inv'
      BY <2>4, ReadKeeps
    <2>5. CASE (\E r \in Reader : Dispose(r)) \/ DisposeAll
      BY <2>5, DisposeKeeps
    <2>6. CASE UNCHANGED vars
      BY <2>6 DEF vars, Inv, RingInvariant, TypeOK, HoldsLatest, ReadersInside,
                  UnreadIsNext, NextOwed, Oldest
    <2> QED
      BY <2>1, <2>2, <2>3, <2>4, <2>5, <2>6 DEF Next
  <1> QED
    BY <1>1, <1>2, PTL DEF Spec

(* The buffer holds the latest output, as much as fits, and its readers      *)
(* stand inside it, for every size of the buffer (enq, incTails, deq).       *)
THEOREM LatestIsHeld == Spec => []RingInvariant
  <1>1. Inv => RingInvariant
    BY DEF Inv
  <1> QED
    BY <1>1, InvHolds, PTL

(* A stream that keeps up and cuts no read is given every byte that is still *)
(* there, once and in order, for every size and high water mark (deq).       *)
THEOREM KeepsUpReadsAll == Spec => []UnreadIsNext
  <1>1. Inv => UnreadIsNext
    BY DEF Inv
  <1> QED
    BY <1>1, InvHolds, PTL
=============================================================================
