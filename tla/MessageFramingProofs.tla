------------------------ MODULE MessageFramingProofs ------------------------
(***************************************************************************)
(* Theorems about MessageFraming, for any length of a message start, any   *)
(* messages and any way to cut the stream into chunks.                     *)
(***************************************************************************)
EXTENDS MessageFraming, SequenceTheorems, TLAPS

-----------------------------------------------------------------------------
(* Sequences cut and joined *)

LEMMA SameSequence ==
    ASSUME NEW S, NEW s \in Seq(S), NEW t \in Seq(S), Len(s) = Len(t),
           \A i \in 1 .. Len(s) : s[i] = t[i]
    PROVE  s = t
  OBVIOUS

LEMMA ElementIn ==
    ASSUME NEW S, NEW s \in Seq(S), NEW i \in 1 .. Len(s) PROVE s[i] \in S
  OBVIOUS

LEMMA FromFacts ==
    ASSUME NEW S, NEW s \in Seq(S), NEW n \in 0 .. Len(s)
    PROVE  /\ From(s, n) \in Seq(S) /\ Len(From(s, n)) = Len(s) - n
           /\ \A i \in 1 .. Len(s) - n : From(s, n)[i] = s[n + i]
  BY DEF From

LEMMA FirstFacts ==
    ASSUME NEW S, NEW s \in Seq(S), NEW n \in 0 .. Len(s)
    PROVE  /\ First(s, n) \in Seq(S) /\ Len(First(s, n)) = n
           /\ \A i \in 1 .. n : First(s, n)[i] = s[i]
  BY DEF First

LEMMA JoinFacts ==
    ASSUME NEW S, NEW s \in Seq(S), NEW t \in Seq(S)
    PROVE  /\ s \o t \in Seq(S) /\ Len(s \o t) = Len(s) + Len(t)
           /\ \A i \in 1 .. Len(s) : (s \o t)[i] = s[i]
           /\ \A i \in 1 .. Len(t) : (s \o t)[Len(s) + i] = t[i]
  OBVIOUS

\* A chunk and what is left of it make the sequence it was cut from.
LEMMA Rejoined ==
    ASSUME NEW S, NEW s \in Seq(S), NEW t \in Seq(S), NEW n \in 0 .. Len(s)
    PROVE  From(s, n) \o t = From(s \o t, n)
  <1> DEFINE f == From(s, n)  st == s \o t
  <1>0. Len(s) \in Nat /\ Len(t) \in Nat /\ n \in Nat OBVIOUS
  <1>1. /\ f \in Seq(S) /\ Len(f) = Len(s) - n
        /\ \A i \in 1 .. Len(s) - n : f[i] = s[n + i]
    BY FromFacts
  <1>2. /\ st \in Seq(S) /\ Len(st) = Len(s) + Len(t)
        /\ \A i \in 1 .. Len(s) : st[i] = s[i]
        /\ \A i \in 1 .. Len(t) : st[Len(s) + i] = t[i]
    BY JoinFacts
  <1> HIDE DEF f, st
  <1> DEFINE u == f \o t  v == From(st, n)
  <1>3. n \in 0 .. Len(st) BY <1>0, <1>2
  <1>4. v \in Seq(S) /\ Len(v) = Len(st) - n /\ \A i \in 1 .. Len(st) - n : v[i] = st[n + i]
    BY <1>2, <1>3, FromFacts
  <1>5. /\ u \in Seq(S) /\ Len(u) = Len(f) + Len(t)
        /\ \A i \in 1 .. Len(f) : u[i] = f[i]
        /\ \A i \in 1 .. Len(t) : u[Len(f) + i] = t[i]
    <2>1. f \in Seq(S) BY <1>1
    <2> QED BY <2>1, JoinFacts
  <1> HIDE DEF u, v
  <1>6. ASSUME NEW i \in 1 .. Len(s) + Len(t) - n PROVE u[i] = v[i]
    <2>1. CASE i <= Len(s) - n
      <3>1. i \in 1 .. Len(s) - n /\ n + i \in 1 .. Len(s) BY <1>0, <2>1
      <3> QED BY <1>1, <1>2, <1>4, <1>5, <3>1
    <2>2. CASE i > Len(s) - n
      <3> DEFINE j == i - (Len(s) - n)
      <3>1. j \in 1 .. Len(t) /\ i = Len(s) - n + j /\ n + i = Len(s) + j BY <1>0, <2>2
      <3> HIDE DEF j
      <3>2. i = Len(f) + j BY <1>1, <3>1
      <3>3. u[i] = t[j] BY <1>5, <3>1, <3>2
      <3>4. i \in 1 .. Len(st) - n BY <1>2
      <3>5. v[i] = st[n + i] BY <1>4, <3>4
      <3>6. v[i] = st[Len(s) + j] BY <3>1, <3>5
      <3> QED BY <1>2, <3>1, <3>3, <3>6
    <2> QED BY <1>0, <2>1, <2>2
  <1>7. Len(u) = Len(s) + Len(t) - n /\ Len(v) = Len(u) BY <1>0, <1>1, <1>2, <1>4, <1>5
  <1>8. u = v BY <1>4, <1>5, <1>6, <1>7, SameSequence
  <1> QED BY <1>8 DEF u, v, f, st

LEMMA CutAndJoined ==
    ASSUME NEW S, NEW s \in Seq(S), NEW n \in 0 .. Len(s)
    PROVE  First(s, n) \o From(s, n) = s
  <1> DEFINE a == First(s, n)  b == From(s, n)  u == a \o b
  <1>0. Len(s) \in Nat /\ n \in Nat OBVIOUS
  <1>1. a \in Seq(S) /\ Len(a) = n /\ \A i \in 1 .. n : a[i] = s[i] BY FirstFacts
  <1>2. b \in Seq(S) /\ Len(b) = Len(s) - n /\ \A i \in 1 .. Len(s) - n : b[i] = s[n + i]
    BY FromFacts
  <1> HIDE DEF a, b
  <1>3. /\ u \in Seq(S) /\ Len(u) = Len(s)
        /\ \A i \in 1 .. n : u[i] = a[i]
        /\ \A i \in 1 .. Len(s) - n : u[n + i] = b[i]
    BY <1>0, <1>1, <1>2, JoinFacts
  <1> HIDE DEF u
  <1>4. ASSUME NEW i \in 1 .. Len(s) PROVE u[i] = s[i]
    <2>1. CASE i <= n
      <3>1. i \in 1 .. n BY <2>1, <1>0
      <3> QED BY <3>1, <1>1, <1>3
    <2>2. CASE i > n
      <3>1. i - n \in 1 .. Len(s) - n /\ i = n + (i - n) BY <2>2, <1>0
      <3> QED BY <1>2, <1>3, <3>1
    <2> QED BY <1>0, <2>1, <2>2
  <1>5. u = s BY <1>3, <1>4, SameSequence
  <1> QED BY <1>5 DEF u, a, b

LEMMA LargerSeq == ASSUME NEW S, NEW T, S \subseteq T PROVE Seq(S) \subseteq Seq(T)
  OBVIOUS

-----------------------------------------------------------------------------
(* What is written *)

LEMMA EncodeFacts ==
    ASSUME NEW k \in Nat, NEW n \in Nat
    PROVE  /\ Encode(k, n) \in Seq({k} \X (1 .. StartLength + n))
           /\ Len(Encode(k, n)) = StartLength + n
           /\ \A i \in 1 .. StartLength + n : Encode(k, n)[i] = <<k, i>>
  BY FramingAssumption DEF Encode

LEMMA ContentFacts ==
    ASSUME TypeOK, NEW k \in 1 .. Len(sent)
    PROVE  /\ sent[k] \in 0 .. MaxLength
           /\ Content(k) \in Seq(Byte) /\ Len(Content(k)) = sent[k]
           /\ \A i \in 1 .. sent[k] : Content(k)[i] = <<k, StartLength + i>>
  <1> DEFINE n == sent[k]  e == Encode(k, n)
  <1>0. sent \in Seq(0 .. MaxLength) BY DEF TypeOK
  <1>1. n \in 0 .. MaxLength BY <1>0, ElementIn
  <1>2. StartLength \in Nat /\ MaxLength \in Nat /\ n \in Nat /\ k \in Nat
    BY <1>0, <1>1, FramingAssumption
  <1> HIDE DEF n
  <1>3. {k} \X (1 .. StartLength + n) \subseteq Byte BY <1>1, <1>2 DEF Byte
  <1>4. /\ e \in Seq({k} \X (1 .. StartLength + n)) /\ Len(e) = StartLength + n
        /\ \A i \in 1 .. StartLength + n : e[i] = <<k, i>>
    BY <1>2, EncodeFacts
  <1>5. e \in Seq(Byte) BY <1>3, <1>4, LargerSeq
  <1> HIDE DEF e
  <1>6. StartLength \in 0 .. Len(e) BY <1>2, <1>4
  <1>7. /\ From(e, StartLength) \in Seq(Byte) /\ Len(From(e, StartLength)) = Len(e) - StartLength
        /\ \A i \in 1 .. Len(e) - StartLength : From(e, StartLength)[i] = e[StartLength + i]
    BY <1>5, <1>6, FromFacts
  <1>8. Content(k) = From(e, StartLength) BY DEF Content, e, n
  <1>9. Len(e) - StartLength = n BY <1>2, <1>4
  <1>10. \A i \in 1 .. n : StartLength + i \in 1 .. StartLength + n BY <1>2
  <1>11. \A i \in 1 .. n : Content(k)[i] = <<k, StartLength + i>>
    BY <1>4, <1>7, <1>8, <1>9, <1>10
  <1> QED BY <1>1, <1>7, <1>8, <1>9, <1>11 DEF n

-----------------------------------------------------------------------------
(* Types *)

LEMMA SendTypes == ASSUME TypeOK, NEW n \in 0 .. MaxLength, Send(n) PROVE TypeOK'
  <1> DEFINE k == Len(sent) + 1
  <1>1. /\ sent' = Append(sent, n) /\ Len(sent) < MaxMessages
        /\ stream' = stream \o Encode(k, n)
        /\ UNCHANGED <<rest, received, partialStart, chunks, missingBytes>>
    BY DEF Send
  <1>2. sent \in Seq(0 .. MaxLength) /\ Len(sent) \in Nat BY DEF TypeOK
  <1>3. sent' \in Seq(0 .. MaxLength) /\ Len(sent') = k /\ Len(sent') <= MaxMessages
    BY <1>1, <1>2, FramingAssumption
  <1>4. n \in Nat /\ k \in Nat \ {0} /\ StartLength \in Nat /\ MaxLength \in Nat
    BY <1>2, FramingAssumption
  <1>5. Byte \subseteq Byte' /\ {k} \X (1 .. StartLength + n) \subseteq Byte'
    <2>1. 1 .. Len(sent) \subseteq 1 .. k /\ k \in 1 .. k BY <1>2
    <2>2. 1 .. StartLength + n \subseteq 1 .. StartLength + MaxLength BY <1>4
    <2>3. Byte' = (1 .. k) \X (1 .. StartLength + MaxLength) BY <1>3 DEF Byte
    <2> HIDE DEF k
    <2> QED BY <2>1, <2>2, <2>3 DEF Byte
  <1>6. Seq(Byte) \subseteq Seq(Byte') BY <1>5, LargerSeq
  <1>7. Seq(Seq(Byte)) \subseteq Seq(Seq(Byte')) BY <1>6, LargerSeq
  <1>8. Encode(k, n) \in Seq({k} \X (1 .. StartLength + n)) BY <1>4, EncodeFacts
  <1>9. Encode(k, n) \in Seq(Byte') BY <1>5, <1>8, LargerSeq
  <1>10. stream \in Seq(Byte') BY <1>6 DEF TypeOK
  <1>11. stream' \in Seq(Byte') BY <1>1, <1>9, <1>10
  <1>12. /\ rest' \in Seq(Byte') /\ partialStart' \in Seq(Byte') /\ chunks' \in Seq(Byte')
         /\ received' \in Seq(Seq(Byte')) /\ missingBytes' \in 0 .. MaxLength
    BY <1>1, <1>6, <1>7 DEF TypeOK
  <1> QED BY <1>3, <1>11, <1>12 DEF TypeOK

\* What the reader keeps.
ReaderOK ==
    /\ rest \in Seq(Byte) /\ partialStart \in Seq(Byte) /\ chunks \in Seq(Byte)
    /\ received \in Seq(Seq(Byte)) /\ missingBytes \in 0 .. MaxLength

LEMMA NewMessageTypes ==
    ASSUME TypeOK, NEW chunk \in Seq(Byte), HandleNewMessage(chunk), sent' = sent
    PROVE  ReaderOK'
  <1> DEFINE data == partialStart \o chunk
             length == sent[data[1][1]]
             here == Len(chunk) - StartLength
  <1>0. Byte' = Byte /\ <<>> \in Seq(Byte) BY DEF Byte
  <1>1. partialStart \in Seq(Byte) /\ rest \in Seq(Byte) /\ chunks \in Seq(Byte)
        /\ received \in Seq(Seq(Byte)) /\ missingBytes \in 0 .. MaxLength
    BY DEF TypeOK
  <1>2. CASE here < 0 /\ partialStart' = chunk /\ rest' = <<>>
             /\ UNCHANGED <<received, chunks, missingBytes>>
    BY <1>0, <1>1, <1>2 DEF ReaderOK
  <1>3. CASE partialStart' = <<>> /\ Throw BY <1>0, <1>1, <1>3 DEF ReaderOK, Throw
  <1>4. ASSUME here >= 0 PROVE length \in 0 .. MaxLength
    <2>1. Len(chunk) > 0 BY <1>4, FramingAssumption
    <2>2. data \in Seq(Byte) /\ Len(data) > 0 BY <1>1, <2>1
    <2>3. data[1] \in Byte BY <2>2
    <2>4. data[1][1] \in 1 .. Len(sent) BY <2>3 DEF Byte
    <2>5. sent \in Seq(0 .. MaxLength) BY DEF TypeOK
    <2> QED BY <2>4, <2>5, ElementIn
  <1> HIDE DEF data, length
  <1>5. CASE /\ here >= 0 /\ here >= length
             /\ Fire(SubSeq(chunk, StartLength + 1, StartLength + length))
             /\ partialStart' = <<>> /\ rest' = From(chunk, StartLength + length)
             /\ UNCHANGED <<chunks, missingBytes>>
    <2>1. StartLength + length \in 0 .. Len(chunk) /\ length \in 0 .. MaxLength
      BY <1>4, <1>5, FramingAssumption
    <2>2. From(chunk, StartLength + length) \in Seq(Byte) BY <2>1, FromFacts
    <2>3. SubSeq(chunk, StartLength + 1, StartLength + length) \in Seq(Byte)
      BY <2>1, FramingAssumption
    <2>4. received' \in Seq(Seq(Byte)) BY <1>1, <1>5, <2>3 DEF Fire
    <2> QED BY <1>0, <1>1, <1>5, <2>2, <2>4 DEF ReaderOK
  <1>6. CASE /\ here >= 0 /\ here < length
             /\ chunks' = From(chunk, StartLength) /\ missingBytes' = length - here
             /\ partialStart' = <<>> /\ rest' = <<>>
             /\ UNCHANGED received
    <2>1. StartLength \in 0 .. Len(chunk) /\ length - here \in 0 .. MaxLength
      BY <1>4, <1>6, FramingAssumption
    <2>2. chunks' \in Seq(Byte) BY <1>6, <2>1, FromFacts
    <2> QED BY <1>0, <1>1, <1>6, <2>1, <2>2 DEF ReaderOK
  <1> QED BY <1>2, <1>3, <1>5, <1>6 DEF HandleNewMessage, data, length

LEMMA MessageContentTypes ==
    ASSUME TypeOK, NEW chunk \in Seq(Byte), HandleMessageContentChunk(chunk), sent' = sent
    PROVE  ReaderOK'
  <1>0. Byte' = Byte /\ <<>> \in Seq(Byte) /\ Len(chunk) \in Nat /\ 0 \in 0 .. MaxLength
    BY FramingAssumption DEF Byte
  <1>1. partialStart \in Seq(Byte) /\ rest \in Seq(Byte) /\ chunks \in Seq(Byte)
        /\ received \in Seq(Seq(Byte)) /\ missingBytes \in 0 .. MaxLength
    BY DEF TypeOK
  <1>2. CASE Len(chunk) < missingBytes
    <2>1. /\ chunks' = chunks \o chunk /\ missingBytes' = missingBytes - Len(chunk)
          /\ rest' = <<>> /\ UNCHANGED <<received, partialStart>>
      BY <1>2 DEF HandleMessageContentChunk, Cache
    <2>2. chunks' \in Seq(Byte) BY <1>1, <2>1
    <2>3. missingBytes \in Nat /\ missingBytes <= MaxLength BY <1>1
    <2>4. missingBytes' \in 0 .. MaxLength BY <1>0, <1>2, <2>1, <2>3, FramingAssumption
    <2> QED BY <1>0, <1>1, <2>1, <2>2, <2>4 DEF ReaderOK
  <1>3. CASE ~ (Len(chunk) < missingBytes)
    <2>1. /\ received' = Append(received, chunks \o First(chunk, missingBytes))
          /\ chunks' = <<>> /\ missingBytes' = 0 /\ UNCHANGED partialStart
          /\ rest' = From(chunk, missingBytes)
      BY <1>3 DEF HandleMessageContentChunk, EmitCachedMessage, Fire
    <2>2. missingBytes \in 0 .. Len(chunk) BY <1>0, <1>1, <1>3
    <2>3. First(chunk, missingBytes) \in Seq(Byte) /\ From(chunk, missingBytes) \in Seq(Byte)
      BY <2>2, FirstFacts, FromFacts
    <2>4. chunks \o First(chunk, missingBytes) \in Seq(Byte) BY <1>1, <2>3
    <2>5. received' \in Seq(Seq(Byte)) BY <1>1, <2>1, <2>4
    <2> QED BY <1>0, <1>1, <2>1, <2>3, <2>5 DEF ReaderOK
  <1> QED BY <1>2, <1>3

LEMMA ChunkTypes == ASSUME TypeOK, NEW n \in 1 .. Len(stream), HandleChunk(n) PROVE TypeOK'
  <1>1. stream \in Seq(Byte) /\ n \in 0 .. Len(stream) BY DEF TypeOK
  <1>2. First(stream, n) \in Seq(Byte) /\ From(stream, n) \in Seq(Byte)
    BY <1>1, FirstFacts, FromFacts
  <1>3. sent' = sent /\ stream' = From(stream, n) BY DEF HandleChunk
  <1>4. ReaderOK' BY <1>2, <1>3, NewMessageTypes, MessageContentTypes DEF HandleChunk
  <1>5. Byte' = Byte BY <1>3 DEF Byte
  <1> QED BY <1>2, <1>3, <1>4, <1>5 DEF TypeOK, ReaderOK

LEMMA RestTypes == ASSUME TypeOK, HandleRest PROVE TypeOK'
  <1>1. rest \in Seq(Byte) BY DEF TypeOK
  <1>2. sent' = sent /\ stream' = stream BY DEF HandleRest
  <1>3. ReaderOK' BY <1>1, <1>2, NewMessageTypes DEF HandleRest
  <1>4. Byte' = Byte BY <1>2 DEF Byte
  <1> QED BY <1>2, <1>3, <1>4 DEF TypeOK, ReaderOK

\* Whatever is sent and however the stream is cut, the reader reads no length of a
\* message that was not sent, and what it misses stays within one message.
THEOREM FramingTypeCorrect == Spec => []TypeOK
  <1>1. Init => TypeOK
    <2> SUFFICES ASSUME Init PROVE TypeOK OBVIOUS
    <2> USE FramingAssumption DEF Init
    <2>1. sent \in Seq(0 .. MaxLength) /\ Len(sent) <= MaxMessages OBVIOUS
    <2>2. <<>> \in Seq(Byte) /\ <<>> \in Seq(Seq(Byte)) OBVIOUS
    <2> QED BY <2>1, <2>2 DEF TypeOK
  <1>2. TypeOK /\ [Next]_vars => TypeOK'
    <2> SUFFICES ASSUME TypeOK, [Next]_vars PROVE TypeOK' OBVIOUS
    <2>1. CASE Next BY <2>1, SendTypes, ChunkTypes, RestTypes DEF Next
    <2>2. CASE UNCHANGED vars BY <2>2 DEF vars, TypeOK, Byte
    <2> QED BY <2>1, <2>2
  <1> QED BY <1>1, <1>2, PTL DEF Spec

-----------------------------------------------------------------------------
(* The order of the bytes *)

\* The message whose bytes come first is all there, and the next one follows it.
LEMMA MessageAhead ==
    ASSUME TypeOK, NEW s \in Seq(Byte), s # <<>>, WrittenInOrder(s), NEW k, NEW p, s[1] = <<k, p>>
    PROVE  LET last == 1 + End(k) - p IN
           /\ k \in 1 .. Len(sent) /\ sent[k] \in 0 .. MaxLength
           /\ p \in Nat \ {0} /\ p <= End(k) /\ last <= Len(s)
           /\ \A j \in 1 .. last : s[j] = <<k, p + j - 1>>
           /\ last < Len(s) => s[last + 1] = <<k + 1, 1>>
           /\ last >= Len(s) => k = Len(sent)
  <1> DEFINE last == 1 + End(k) - p
  <1>1. 1 \in DOMAIN s /\ Len(s) \in Nat OBVIOUS
  <1>2. s[1] \in Byte BY <1>1, ElementIn
  <1>3. k \in 1 .. Len(sent) /\ p \in 1 .. StartLength + MaxLength BY <1>2 DEF Byte
  <1>4. sent[k] \in 0 .. MaxLength BY <1>3, ElementIn DEF TypeOK
  <1>5. End(k) \in Nat /\ p \in Nat \ {0} BY <1>3, <1>4, FramingAssumption DEF End
  <1>6. s[1][1] = k /\ s[1][2] = p OBVIOUS
  <1>7. /\ p <= End(k) /\ last <= Len(s)
        /\ \A j \in 1 .. last : s[j] = <<k, p + j - 1>>
        /\ IF last < Len(s) THEN s[last + 1] = <<k + 1, 1>> ELSE k = Len(sent)
    BY <1>1, <1>6 DEF WrittenInOrder
  <1>8. /\ last < Len(s) => s[last + 1] = <<k + 1, 1>>
        /\ last >= Len(s) => k = Len(sent)
    BY <1>1, <1>3, <1>5, <1>7
  <1> QED BY <1>3, <1>4, <1>5, <1>7, <1>8

\* Reading takes the first bytes and leaves the order of the others.
LEMMA OrderRead ==
    ASSUME TypeOK, NEW s \in Seq(Byte), WrittenInOrder(s), NEW m \in 0 .. Len(s), sent' = sent
    PROVE  /\ From(s, m) \in Seq(Byte) /\ Len(From(s, m)) = Len(s) - m
           /\ \A i \in DOMAIN From(s, m) : LET b == From(s, m)[i]  last == i + End(b[1])' - b[2] IN
                /\ b[2] <= End(b[1])' /\ last <= Len(From(s, m))
                /\ \A j \in i .. last : From(s, m)[j] = <<b[1], b[2] + j - i>>
                /\ IF last < Len(From(s, m)) THEN From(s, m)[last + 1] = <<b[1] + 1, 1>>
                   ELSE b[1] = Len(sent)
  <1> DEFINE r == From(s, m)
  <1>1. /\ r \in Seq(Byte) /\ Len(r) = Len(s) - m /\ \A i \in 1 .. Len(s) - m : r[i] = s[m + i]
    BY FromFacts
  <1> HIDE DEF r
  <1>2. Len(s) \in Nat /\ m \in Nat /\ m <= Len(s) OBVIOUS
  <1> SUFFICES ASSUME NEW i \in DOMAIN r
               PROVE  LET b == r[i]  last == i + End(b[1])' - b[2] IN
                 /\ b[2] <= End(b[1])' /\ last <= Len(r)
                 /\ \A j \in i .. last : r[j] = <<b[1], b[2] + j - i>>
                 /\ IF last < Len(r) THEN r[last + 1] = <<b[1] + 1, 1>> ELSE b[1] = Len(sent)
    BY <1>1 DEF r
  <1> DEFINE k == r[i][1]  p == r[i][2]  last == i + End(k) - p
  <1>3. i \in 1 .. Len(s) - m BY <1>1
  <1>4. m + i \in DOMAIN s /\ r[i] = s[m + i] BY <1>1, <1>2, <1>3
  <1>5. r[i] \in Byte BY <1>1, <1>3, ElementIn
  <1>6. k \in 1 .. Len(sent) /\ p \in 1 .. StartLength + MaxLength BY <1>5 DEF Byte
  <1>7. sent[k] \in 0 .. MaxLength BY <1>6, ElementIn DEF TypeOK
  <1>8. End(k) \in Nat /\ p \in Nat /\ End(k)' = End(k)
    BY <1>6, <1>7, FramingAssumption DEF End
  <1>9. /\ p <= End(k) /\ m + last <= Len(s)
        /\ \A j \in m + i .. m + last : s[j] = <<k, p + j - (m + i)>>
        /\ IF m + last < Len(s) THEN s[m + last + 1] = <<k + 1, 1>> ELSE k = Len(sent)
    <2>1. s[m + i][1] = k /\ s[m + i][2] = p /\ m + i + End(k) - p = m + last
      BY <1>2, <1>3, <1>4, <1>8
    <2> HIDE DEF k, p, last
    <2> QED BY <1>4, <2>1 DEF WrittenInOrder
  <1> HIDE DEF k, p
  <1>10. i \in Nat /\ last \in Int BY <1>3, <1>8
  <1> HIDE DEF last
  <1>11. last <= Len(r) BY <1>1, <1>2, <1>9, <1>10
  <1>12. ASSUME NEW j \in i .. last PROVE r[j] = <<k, p + j - i>>
    <2>1. j \in 1 .. Len(s) - m /\ m + j \in m + i .. m + last
      BY <1>1, <1>2, <1>3, <1>9, <1>10
    <2>2. s[m + j] = <<k, p + (m + j) - (m + i)>> BY <1>9, <2>1
    <2>3. p + (m + j) - (m + i) = p + j - i BY <1>2, <1>8, <1>10, <2>1
    <2> QED BY <1>1, <2>1, <2>2, <2>3
  <1>13. IF last < Len(r) THEN r[last + 1] = <<k + 1, 1>> ELSE k = Len(sent)
    <2>1. CASE last < Len(r)
      <3>1. i <= last + 1 BY <1>8, <1>9, <1>10 DEF last
      <3>2. last + 1 \in 1 .. Len(s) - m BY <1>1, <1>2, <1>3, <1>10, <2>1, <3>1
      <3>3. r[last + 1] = s[m + (last + 1)] BY <1>1, <3>2
      <3>4. m + (last + 1) = m + last + 1 /\ m + last < Len(s) BY <1>1, <1>2, <1>10, <2>1
      <3> QED BY <1>9, <2>1, <3>3, <3>4
    <2>2. CASE ~ (last < Len(r))
      <3>1. ~ (m + last < Len(s)) BY <1>1, <1>2, <1>10, <2>2
      <3> QED BY <1>9, <2>2, <3>1
    <2> QED BY <2>1, <2>2
  <1>14. p <= End(k)' BY <1>8, <1>9
  <1>15. last = i + End(k)' - p BY <1>8 DEF last
  <1> QED BY <1>11, <1>12, <1>13, <1>14, <1>15 DEF k, p

\* A message that is sent goes behind all others.
LEMMA OrderSent ==
    ASSUME FramingInvariant, TypeOK', NEW n \in 0 .. MaxLength, Send(n)
    PROVE  WrittenInOrder(Pending)'
  <1>0. Len(sent) + 1 \in Nat BY DEF FramingInvariant, TypeOK
  <1> PICK k \in Nat : k = Len(sent) + 1 BY <1>0
  <1> DEFINE e == Encode(k, n)  s == Pending  L == Len(s)
  <1>1. /\ sent' = Append(sent, n) /\ rest' = rest /\ stream' = stream \o e
        /\ sent \in Seq(0 .. MaxLength) /\ stream \in Seq(Byte) /\ rest \in Seq(Byte)
    BY DEF Send, FramingInvariant, TypeOK
  <1>2. /\ n \in Nat /\ k \in Nat /\ StartLength \in Nat /\ MaxLength \in Nat
        /\ s \in Seq(Byte) /\ L \in Nat
    BY <1>1, FramingAssumption DEF Pending
  <1>3. /\ e \in Seq({k} \X (1 .. StartLength + n)) /\ Len(e) = StartLength + n
        /\ \A i \in 1 .. StartLength + n : e[i] = <<k, i>>
    BY <1>2, EncodeFacts
  <1>4. sent'[k] = n /\ Len(sent') = k /\ \A i \in 1 .. Len(sent) : sent'[i] = sent[i] BY <1>1
  <1>5. Pending' = s \o e
    <2> DEFINE T == Nat \X Nat
    <2>1. e \in Seq(T) /\ stream \in Seq(T) /\ rest \in Seq(T)
      <3>1. Byte \subseteq T /\ {k} \X (1 .. StartLength + n) \subseteq T BY <1>2 DEF Byte
      <3> QED BY <1>1, <1>3, <3>1, LargerSeq
    <2> HIDE DEF e, T
    <2>2. rest \o (stream \o e) = (rest \o stream) \o e BY <2>1, ConcatAssociative
    <2> QED BY <1>1, <2>2 DEF Pending
  <1>6. /\ Len(s \o e) = L + StartLength + n /\ DOMAIN (s \o e) = 1 .. L + StartLength + n
        /\ \A i \in 1 .. L : (s \o e)[i] = s[i]
        /\ \A i \in 1 .. StartLength + n : (s \o e)[L + i] = e[i]
    <2> DEFINE T == Nat \X Nat
    <2>1. e \in Seq(T) /\ s \in Seq(T)
      <3>1. Byte \subseteq T /\ {k} \X (1 .. StartLength + n) \subseteq T BY <1>2 DEF Byte
      <3> QED BY <1>2, <1>3, <3>1, LargerSeq
    <2> HIDE DEF s, e, T
    <2>2. /\ s \o e \in Seq(T) /\ Len(s \o e) = Len(s) + Len(e)
          /\ \A i \in 1 .. Len(s) : (s \o e)[i] = s[i]
          /\ \A i \in 1 .. Len(e) : (s \o e)[Len(s) + i] = e[i]
      BY <2>1, JoinFacts
    <2>3. Len(e) = StartLength + n /\ Len(s) = L BY <1>3
    <2>4. Len(s \o e) = L + StartLength + n BY <1>2, <2>2, <2>3
    <2>5. DOMAIN (s \o e) = 1 .. L + StartLength + n BY <2>2, <2>4
    <2> QED BY <2>2, <2>3, <2>4, <2>5
  <1>7. \A i \in 1 .. L : (s \o e)[i] = s[i] BY <1>6
  <1>8. \A i \in 1 .. StartLength + n : (s \o e)[L + i] = <<k, i>> BY <1>3, <1>6
  <1>9. StartLength + sent'[k] = StartLength + n BY <1>4
  <1> SUFFICES ASSUME NEW i \in 1 .. L + StartLength + n
               PROVE  LET b == (s \o e)[i]  last == i + (StartLength + sent'[b[1]]) - b[2] IN
                 /\ b[2] <= (StartLength + sent'[b[1]]) /\ last <= Len(s \o e)
                 /\ \A j \in i .. last : (s \o e)[j] = <<b[1], b[2] + j - i>>
                 /\ IF last < Len(s \o e) THEN (s \o e)[last + 1] = <<b[1] + 1, 1>>
                    ELSE b[1] = Len(sent')
    BY <1>5, <1>6 DEF WrittenInOrder, End
  <1> HIDE DEF s, L, e
  <1>10. CASE i <= L
    <2> DEFINE h == s[i][1]  p == s[i][2]  last == i + End(h) - p
    <2>1. i \in 1 .. L /\ i \in DOMAIN s /\ s[i] \in Byte BY <1>2, <1>10, ElementIn DEF L
    <2>2. h \in 1 .. Len(sent) /\ p \in 1 .. StartLength + MaxLength BY <2>1 DEF Byte
    <2>3. sent[h] \in 0 .. MaxLength BY <1>1, <2>2, ElementIn
    <2>4. End(h) \in Nat /\ p \in Nat /\ (StartLength + sent'[h]) = End(h)
      <3>1. sent'[h] = sent[h] /\ sent[h] \in Nat /\ p \in Nat BY <1>2, <1>4, <2>2, <2>3
      <3> QED BY <1>2, <3>1 DEF End
    <2>5. /\ p <= End(h) /\ last <= L
          /\ \A j \in i .. last : s[j] = <<h, p + j - i>>
          /\ IF last < L THEN s[last + 1] = <<h + 1, 1>> ELSE h = Len(sent)
      BY <2>1 DEF FramingInvariant, WrittenInOrder, s, L
    <2>6. (s \o e)[i] = s[i] BY <1>7, <2>1
    <2> HIDE DEF h, p
    <2>7. last \in Nat /\ i <= last BY <2>1, <2>4, <2>5
    <2> HIDE DEF last
    <2>8. \A j \in i .. last : (s \o e)[j] = <<h, p + j - i>>
      <3>1. \A j \in i .. last : j \in 1 .. L BY <1>2, <2>1, <2>5, <2>7
      <3> QED BY <1>7, <2>5, <3>1
    <2>9. last < Len(s \o e) BY <1>2, <1>6, <2>5, <2>7, FramingAssumption
    <2>10. (s \o e)[last + 1] = <<h + 1, 1>>
      <3>1. CASE last < L
        <4>1. last + 1 \in 1 .. L BY <1>2, <2>7, <3>1
        <4> QED BY <1>7, <2>5, <3>1, <4>1
      <3>2. CASE ~ (last < L)
        <4>1. last = L /\ h = Len(sent) BY <1>2, <2>5, <2>7, <3>2
        <4>2. 1 \in 1 .. StartLength + n BY <1>2, FramingAssumption
        <4> QED BY <1>8, <4>1, <4>2
      <3> QED BY <3>1, <3>2
    <2>11. p <= (StartLength + sent'[h]) /\ last = i + (StartLength + sent'[h]) - p BY <2>4, <2>5 DEF last
    <2>12. last <= Len(s \o e) BY <1>6, <2>7, <2>9
    <2> QED BY <2>6, <2>8, <2>9, <2>10, <2>11, <2>12 DEF h, p
  <1>11. CASE i > L
    <2> DEFINE p == i - L  last == L + StartLength + n
    <2>1. p \in 1 .. StartLength + n /\ i = L + p BY <1>2, <1>11
    <2>2. (s \o e)[i] = <<k, p>> BY <1>8, <2>1
    <2>3. i + (StartLength + sent'[k]) - p = last BY <1>2, <1>9, <2>1
    <2>4. \A j \in i .. last : (s \o e)[j] = <<k, p + j - i>>
      <3> SUFFICES ASSUME NEW j \in i .. last PROVE (s \o e)[j] = <<k, p + j - i>> OBVIOUS
      <3>1. j - L \in 1 .. StartLength + n /\ j = L + (j - L) /\ p + j - i = j - L
        BY <1>2, <2>1
      <3> HIDE DEF p
      <3> QED BY <1>8, <3>1
    <2>5. p <= (StartLength + sent'[k]) /\ last <= Len(s \o e) /\ ~ (last < Len(s \o e))
      BY <1>2, <1>6, <1>9, <2>1
    <2>6. (s \o e)[i][1] = k /\ (s \o e)[i][2] = p BY <2>2
    <2> HIDE DEF p, last
    <2> QED BY <1>4, <2>3, <2>4, <2>5, <2>6
  <1>12. i <= L \/ i > L BY <1>2
  <1> QED BY <1>10, <1>11, <1>12

-----------------------------------------------------------------------------
(* What is read *)

\* The reader took the next n bytes that were written.
Took(n) ==
    /\ n \in 1 .. Len(Pending) /\ Pending' = From(Pending, n) /\ sent' = sent
    /\ partialStart' = <<>> /\ TypeOK'
    /\ stream' # <<>> => stream'[1][2] \notin 2 .. StartLength

\* The bytes of the current message that are there.
Remaining == End(Current) - Place + 1

LEMMA PendingTypes == TypeOK => Pending \in Seq(Byte) /\ Len(Pending) \in Nat
  BY DEF TypeOK, Pending

LEMMA CurrentAhead ==
    ASSUME FramingInvariant, Pending # <<>>
    PROVE  /\ Current \in 1 .. Len(sent) /\ sent[Current] \in 0 .. MaxLength
           /\ Place \in Nat \ {0} /\ Place <= End(Current) /\ Remaining \in Nat \ {0}
           /\ missingBytes # 0 => Remaining = missingBytes
           /\ Remaining <= Len(Pending)
           /\ \A j \in 1 .. Remaining : Pending[j] = <<Current, Place + j - 1>>
           /\ Remaining < Len(Pending) => Pending[Remaining + 1] = <<Current + 1, 1>>
           /\ Remaining >= Len(Pending) => Current = Len(sent)
  <1>1. TypeOK /\ WrittenInOrder(Pending) /\ Pending[1] = <<Current, Place>>
    BY DEF FramingInvariant
  <1>2. Pending \in Seq(Byte) BY <1>1, PendingTypes
  <1> DEFINE last == 1 + End(Current) - Place
  <1>3. /\ Current \in 1 .. Len(sent) /\ sent[Current] \in 0 .. MaxLength
        /\ Place \in Nat \ {0} /\ Place <= End(Current) /\ last <= Len(Pending)
        /\ \A j \in 1 .. last : Pending[j] = <<Current, Place + j - 1>>
        /\ last < Len(Pending) => Pending[last + 1] = <<Current + 1, 1>>
        /\ last >= Len(Pending) => Current = Len(sent)
    <2> DEFINE c == Current  p == Place  s == Pending
    <2>1. TypeOK /\ s \in Seq(Byte) /\ s # <<>> /\ WrittenInOrder(s) /\ s[1] = <<c, p>>
      BY <1>1, <1>2
    <2> HIDE DEF c, p, s
    <2>2. /\ c \in 1 .. Len(sent) /\ sent[c] \in 0 .. MaxLength
          /\ p \in Nat \ {0} /\ p <= End(c) /\ 1 + End(c) - p <= Len(s)
          /\ \A j \in 1 .. 1 + End(c) - p : s[j] = <<c, p + j - 1>>
          /\ 1 + End(c) - p < Len(s) => s[1 + End(c) - p + 1] = <<c + 1, 1>>
          /\ 1 + End(c) - p >= Len(s) => c = Len(sent)
      BY <2>1, MessageAhead
    <2> QED BY <2>2 DEF c, p, s
  <1>4. End(Current) \in Nat BY <1>3, FramingAssumption DEF End
  <1>5. Remaining = last /\ Remaining \in Nat \ {0} BY <1>3, <1>4 DEF Remaining
  <1>6. missingBytes # 0 => Remaining = missingBytes
    <2>1. missingBytes \in Nat BY <1>1 DEF TypeOK
    <2> QED BY <1>4, <2>1 DEF Remaining, Place
  <1> HIDE DEF last
  <1> QED BY <1>3, <1>5, <1>6

\* The message is complete and given to the listeners.
LEMMA MessageRead ==
    ASSUME FramingInvariant, Pending # <<>>, Took(Remaining),
           received' = Append(received, Content(Current)), chunks' = <<>>, missingBytes' = 0
    PROVE  FramingInvariant'
  <1> DEFINE c == Current  n == Remaining
  <1>1. TypeOK /\ Pending \in Seq(Byte) /\ WrittenInOrder(Pending)
    BY PendingTypes DEF FramingInvariant
  <1>2. /\ c \in 1 .. Len(sent) /\ n \in Nat \ {0} /\ n <= Len(Pending)
        /\ n < Len(Pending) => Pending[n + 1] = <<c + 1, 1>>
        /\ n >= Len(Pending) => c = Len(sent)
    BY CurrentAhead
  <1>3. /\ received \in Seq(Seq(Byte)) /\ Content(c) \in Seq(Byte) /\ c = Len(received) + 1
        /\ received' = Append(received, Content(c))
    BY <1>1, <1>2, ContentFacts DEF TypeOK, Current
  <1>4. Current' = c + 1 /\ Place' = 1 /\ Len(received') = c
    BY <1>3 DEF Current, Place
  <1>5. n \in 0 .. Len(Pending) /\ Len(Pending) \in Nat BY <1>1, <1>2
  <1>6. Pending' = From(Pending, n) /\ sent' = sent /\ TypeOK' BY DEF Took
  <1> HIDE DEF c, n
  <1>7. /\ Pending' \in Seq(Byte) /\ Len(Pending') = Len(Pending) - n
        /\ \A i \in 1 .. Len(Pending) - n : Pending'[i] = Pending[n + i]
    BY <1>1, <1>5, <1>6, FromFacts
  <1>8. WrittenInOrder(Pending)' BY <1>1, <1>5, <1>6, OrderRead DEF WrittenInOrder
  <1>9. IF Pending' = <<>> THEN Len(received') = Len(sent') ELSE Pending'[1] = <<Current', Place'>>
    <2>1. CASE n < Len(Pending)
      <3>1. 1 \in 1 .. Len(Pending) - n BY <1>2, <1>5, <2>1
      <3>2. Pending'[1] = Pending[n + 1] /\ Pending' # <<>> BY <1>7, <3>1
      <3> QED BY <1>2, <1>4, <2>1, <3>2
    <2>2. CASE ~ (n < Len(Pending))
      <3>1. Len(Pending') = 0 BY <1>2, <1>5, <1>7, <2>2
      <3>2. Pending' = <<>> BY <1>7, <3>1
      <3> QED BY <1>2, <1>4, <1>6, <2>2, <3>2
    <2> QED BY <2>1, <2>2
  <1>10. \A k \in DOMAIN received' : k \in DOMAIN sent' /\ received'[k] = Content(k)'
    <2> SUFFICES ASSUME NEW k \in 1 .. c PROVE k \in DOMAIN sent' /\ received'[k] = Content(k)'
      BY <1>3, <1>4
    <2>1. k \in 1 .. Len(sent) /\ DOMAIN sent' = 1 .. Len(sent)
      BY <1>1, <1>2, <1>6 DEF TypeOK
    <2>2. Content(k)' = Content(k) BY <1>6 DEF Content
    <2>3. CASE k = c
      <3>1. received'[c] = Content(c) BY <1>3
      <3> QED BY <2>1, <2>2, <2>3, <3>1
    <2>4. CASE k # c
      <3>1. k \in DOMAIN received /\ received'[k] = received[k] BY <1>3, <2>4
      <3> QED BY <2>1, <2>2, <3>1 DEF FramingInvariant
    <2> QED BY <2>3, <2>4
  <1> QED BY <1>6, <1>8, <1>9, <1>10 DEF FramingInvariant, Took

\* A part of the message is there and cached.
LEMMA MessageCached ==
    ASSUME FramingInvariant, Pending # <<>>, NEW n \in Nat, Took(n), n < Remaining,
           received' = received, rest' = <<>>,
           missingBytes' = Remaining - n, missingBytes' <= sent[Current],
           chunks' = First(Content(Current), sent[Current] - missingBytes')
    PROVE  FramingInvariant'
  <1> DEFINE c == Current  r == Remaining  p == Place
  <1>1. TypeOK /\ Pending \in Seq(Byte) /\ WrittenInOrder(Pending)
    BY PendingTypes DEF FramingInvariant
  <1>2. /\ c \in 1 .. Len(sent) /\ r \in Nat \ {0} /\ r <= Len(Pending)
        /\ p \in Nat \ {0} /\ r = End(c) - p + 1 /\ End(c) \in Nat
        /\ \A j \in 1 .. r : Pending[j] = <<c, p + j - 1>>
    <2>1. sent[c] \in 0 .. MaxLength BY CurrentAhead
    <2>2. End(c) \in Nat BY <2>1, FramingAssumption DEF End
    <2> QED BY <2>2, CurrentAhead DEF Remaining
  <1>3. Current' = c /\ sent' = sent /\ Pending' = From(Pending, n) /\ TypeOK'
    BY DEF Took, Current
  <1>4. n \in Nat /\ n < r /\ n \in 0 .. Len(Pending) /\ Len(Pending) \in Nat BY <1>1, <1>2
  <1>5. missingBytes' = r - n /\ missingBytes' # 0 BY <1>2, <1>4
  <1>6. Place' = p + n
    <2>1. End(Current)' = End(c) BY <1>3 DEF End
    <2>2. Place' = End(c) - (r - n) + 1 BY <1>5, <2>1 DEF Place
    <2>3. r = End(c) - p + 1 /\ r \in Nat /\ p \in Nat /\ End(c) \in Nat BY <1>2
    <2> HIDE DEF c, r, p
    <2> QED BY <1>4, <2>2, <2>3
  <1> HIDE DEF c, r, p
  <1>7. /\ Pending' \in Seq(Byte) /\ Len(Pending') = Len(Pending) - n
        /\ \A i \in 1 .. Len(Pending) - n : Pending'[i] = Pending[n + i]
    BY <1>1, <1>3, <1>4, FromFacts
  <1>8. WrittenInOrder(Pending)' BY <1>1, <1>3, <1>4, OrderRead DEF WrittenInOrder
  <1>9. Pending' # <<>> /\ Pending'[1] = <<Current', Place'>>
    <2>1. 1 \in 1 .. Len(Pending) - n /\ n + 1 \in 1 .. r BY <1>2, <1>4
    <2>2. Pending'[1] = Pending[n + 1] /\ Pending' # <<>> BY <1>7, <2>1
    <2>3. Pending[n + 1] = <<c, p + (n + 1) - 1>> BY <1>2, <2>1
    <2>4. p + (n + 1) - 1 = p + n BY <1>2, <1>4
    <2> QED BY <1>3, <1>6, <2>2, <2>3, <2>4
  <1>10. \A k \in DOMAIN received' : k \in DOMAIN sent' /\ received'[k] = Content(k)'
    <2>1. \A k : Content(k)' = Content(k) BY <1>3 DEF Content
    <2> QED BY <1>3, <2>1 DEF FramingInvariant
  <1>11. sent[Current] = sent'[Current'] /\ Content(Current)' = Content(Current)
    BY <1>3 DEF c, Content
  <1>12. missingBytes' # 0 => Pending' # <<>> /\ rest' = <<>> /\ missingBytes' <= sent'[Current']
    BY <1>9, <1>11
  <1>13. chunks' = First(Content(Current)', sent'[Current'] - missingBytes') BY <1>11
  <1> QED BY <1>3, <1>5, <1>8, <1>9, <1>10, <1>12, <1>13 DEF FramingInvariant, Took

\* What is left when a whole chunk is taken.
LEMMA WholeTaken ==
    ASSUME NEW S, NEW s \in Seq(S), NEW t \in Seq(S) PROVE t = From(s \o t, Len(s)) /\ <<>> \o t = t
  <1>1. Len(s) \in 0 .. Len(s) OBVIOUS
  <1>2. From(s, Len(s)) \o t = From(s \o t, Len(s)) BY <1>1, Rejoined
  <1>3. From(s, Len(s)) = <<>> BY DEF From
  <1>4. <<>> \o t = t OBVIOUS
  <1> QED BY <1>2, <1>3, <1>4

\* A chunk that begins with a message holds its start, as no start is cut.
LEMMA ChunkHoldsStart ==
    ASSUME FramingInvariant, missingBytes = 0,
           NEW chunk \in Seq(Byte), chunk # <<>>, NEW str \in Seq(Byte), Pending = chunk \o str,
           str # <<>> => str[1][2] \notin 2 .. StartLength
    PROVE  /\ Len(chunk) >= StartLength /\ IsStart(chunk) /\ chunk[1][1] = Current
           /\ partialStart \o chunk = chunk
  <1> DEFINE c == Current  r == Remaining  L == Len(chunk)
  <1>1. /\ L \in Nat \ {0} /\ Len(str) \in Nat /\ Len(Pending) = L + Len(str) /\ Pending # <<>>
        /\ \A i \in 1 .. L : Pending[i] = chunk[i]
        /\ \A i \in 1 .. Len(str) : Pending[L + i] = str[i]
    OBVIOUS
  <1>2. /\ sent[c] \in Nat /\ r = StartLength + sent[c] /\ r <= Len(Pending)
        /\ \A j \in 1 .. r : Pending[j] = <<c, j>>
    <2>1. /\ sent[c] \in 0 .. MaxLength /\ Place = 1 /\ r \in Nat \ {0} /\ r <= Len(Pending)
          /\ \A j \in 1 .. r : Pending[j] = <<c, Place + j - 1>>
      BY <1>1, CurrentAhead DEF Place
    <2>2. r = StartLength + sent[c] BY <2>1, FramingAssumption DEF Remaining, End
    <2>3. \A j \in 1 .. r : Place + j - 1 = j BY <2>1
    <2> QED BY <2>1, <2>2, <2>3
  <1>3. StartLength \in Nat \ {0} BY FramingAssumption
  <1> HIDE DEF c, r, L
  <1>4. L >= StartLength
    <2> SUFFICES ASSUME L < StartLength PROVE FALSE BY <1>1, <1>3
    <2>1. L + 1 \in 1 .. r /\ 1 \in 1 .. Len(str) /\ L + 1 \in 2 .. StartLength
      BY <1>1, <1>2, <1>3
    <2>2. str[1] = <<c, L + 1>> BY <1>1, <1>2, <2>1
    <2>3. str # <<>> /\ str[1][2] = L + 1 BY <2>1, <2>2
    <2> QED BY <2>1, <2>3
  <1>5. \A i \in 1 .. StartLength : chunk[i] = <<c, i>>
    <2>1. \A i \in 1 .. StartLength : i \in 1 .. L /\ i \in 1 .. r BY <1>1, <1>2, <1>3, <1>4
    <2> QED BY <1>1, <1>2, <2>1
  <1>6. chunk[1] = <<c, 1>> BY <1>3, <1>5
  <1>7. chunk[1][1] = c BY <1>6
  <1>8. IsStart(chunk) BY <1>4, <1>5, <1>7 DEF IsStart, L
  <1>9. partialStart \o chunk = chunk BY DEF FramingInvariant
  <1> QED BY <1>4, <1>7, <1>8, <1>9 DEF L, c

LEMMA NewMessageRead ==
    ASSUME FramingInvariant, missingBytes = 0,
           NEW chunk \in Seq(Byte), chunk # <<>>, NEW str \in Seq(Byte), Pending = chunk \o str,
           str # <<>> => str[1][2] \notin 2 .. StartLength,
           stream' = str, sent' = sent, TypeOK', HandleNewMessage(chunk)
    PROVE  FramingInvariant'
  <1> DEFINE c == Current  r == Remaining  L == Len(chunk)  len == sent[Current]  here == L - StartLength
  <1>1. /\ L \in Nat \ {0} /\ Len(str) \in Nat /\ Len(Pending) = L + Len(str) /\ Pending # <<>>
        /\ \A i \in 1 .. L : Pending[i] = chunk[i]
    OBVIOUS
  <1>2. /\ c \in 1 .. Len(sent) /\ len \in Nat /\ r = StartLength + len /\ r <= Len(Pending)
        /\ r \in Nat \ {0} /\ \A j \in 1 .. r : Pending[j] = <<c, j>>
    <2>1. /\ c \in 1 .. Len(sent) /\ len \in 0 .. MaxLength
          /\ Place = 1 /\ r \in Nat \ {0} /\ r <= Len(Pending)
          /\ \A j \in 1 .. r : Pending[j] = <<c, Place + j - 1>>
      BY <1>1, CurrentAhead DEF Place
    <2>2. r = StartLength + len BY <2>1, FramingAssumption DEF Remaining, End
    <2>3. \A j \in 1 .. r : Place + j - 1 = j BY <2>1
    <2> QED BY <2>1, <2>2, <2>3
  <1>3. StartLength \in Nat \ {0} /\ TypeOK BY FramingAssumption DEF FramingInvariant
  <1>4. /\ L >= StartLength /\ IsStart(chunk) /\ chunk[1][1] = c /\ partialStart \o chunk = chunk
    BY ChunkHoldsStart
  <1>5. here \in Nat /\ ~ (L < StartLength) BY <1>1, <1>3, <1>4
  <1>6. /\ partialStart' = <<>>
        /\ \/ /\ here >= len
              /\ received' = Append(received, SubSeq(chunk, StartLength + 1, StartLength + len))
              /\ rest' = From(chunk, StartLength + len)
              /\ UNCHANGED <<chunks, missingBytes>>
           \/ /\ here < len
              /\ chunks' = From(chunk, StartLength) /\ missingBytes' = len - here
              /\ rest' = <<>> /\ received' = received
    BY <1>3, <1>4, <1>5 DEF HandleNewMessage, Fire
  <1>7. chunks = <<>> BY DEF FramingInvariant
  <1>8. /\ Content(c) \in Seq(Byte) /\ Len(Content(c)) = len
        /\ \A i \in 1 .. len : Content(c)[i] = <<c, StartLength + i>>
    BY <1>2, <1>3, ContentFacts
  <1> HIDE DEF c, r, L, len, here
  <1>9. CASE /\ here >= len
             /\ received' = Append(received, SubSeq(chunk, StartLength + 1, StartLength + len))
             /\ rest' = From(chunk, StartLength + len)
             /\ UNCHANGED <<chunks, missingBytes>>
    <2>1. StartLength + len \in 0 .. L /\ r \in 1 .. Len(Pending) /\ r \in 0 .. L
      BY <1>1, <1>2, <1>3, <1>5, <1>9 DEF here
    <2> DEFINE m == SubSeq(chunk, StartLength + 1, StartLength + len)
    <2>2. /\ m \in Seq(Byte) /\ Len(m) = len /\ \A i \in 1 .. len : m[i] = chunk[StartLength + i]
      BY <1>2, <1>3, <2>1 DEF L
    <2> HIDE DEF m
    <2>3. \A i \in 1 .. len : m[i] = Content(c)[i]
      <3>1. \A i \in 1 .. len : StartLength + i \in 1 .. L /\ StartLength + i \in 1 .. r
        BY <1>1, <1>2, <1>3, <2>1
      <3> QED BY <1>1, <1>2, <1>8, <2>2, <3>1
    <2>4. m = Content(c) BY <1>8, <2>2, <2>3, SameSequence
    <2>5. Pending' = From(Pending, r)
      <3>1. Pending' = From(chunk, r) \o str BY <1>2, <1>9 DEF Pending
      <3> QED BY <2>1, <3>1, Rejoined DEF L
    <2>6. Took(r) BY <1>6, <2>1, <2>5 DEF Took
    <2>7. received' = Append(received, Content(c)) BY <1>9, <2>4 DEF m
    <2> QED BY <1>1, <1>7, <1>9, <2>6, <2>7, MessageRead DEF c, r
  <1>10. CASE /\ here < len
              /\ chunks' = From(chunk, StartLength) /\ missingBytes' = len - here
              /\ rest' = <<>> /\ received' = received
    <2>1. L < r /\ L \in 1 .. Len(Pending) /\ r - L = len - here /\ len - here <= len
      BY <1>1, <1>2, <1>3, <1>5, <1>10 DEF here
    <2>2. Pending' = From(Pending, L) BY <1>10, WholeTaken DEF Pending, L
    <2>3. Took(L) BY <1>6, <2>1, <2>2 DEF Took
    <2>4. chunks' = First(Content(c), len - missingBytes')
      <3>1. len - missingBytes' = here /\ here \in 0 .. len BY <1>2, <1>5, <1>10
      <3>2. StartLength \in 0 .. Len(chunk) /\ Len(chunk) - StartLength = here
        BY <1>1, <1>3, <1>4 DEF here, L
      <3>3. /\ chunks' \in Seq(Byte) /\ Len(chunks') = here
            /\ \A i \in 1 .. here : chunks'[i] = chunk[StartLength + i]
        BY <1>10, <3>2, FromFacts
      <3>4. /\ First(Content(c), here) \in Seq(Byte) /\ Len(First(Content(c), here)) = here
            /\ \A i \in 1 .. here : First(Content(c), here)[i] = Content(c)[i]
        BY <1>8, <3>1, FirstFacts
      <3>5. \A i \in 1 .. here :
              i \in 1 .. len /\ StartLength + i \in 1 .. L /\ StartLength + i \in 1 .. r
        BY <1>1, <1>2, <1>3, <3>1, <3>2 DEF L
      <3>6. \A i \in 1 .. here : chunks'[i] = First(Content(c), here)[i]
        <4> SUFFICES ASSUME NEW i \in 1 .. here PROVE chunks'[i] = First(Content(c), here)[i] OBVIOUS
        <4>1. chunks'[i] = chunk[StartLength + i] BY <3>3
        <4>2. chunk[StartLength + i] = <<c, StartLength + i>> BY <1>1, <1>2, <3>5
        <4>3. First(Content(c), here)[i] = <<c, StartLength + i>> BY <1>8, <3>4, <3>5
        <4> QED BY <4>1, <4>2, <4>3
      <3> QED BY <3>1, <3>3, <3>4, <3>6, SameSequence
    <2>5. missingBytes' = r - L /\ missingBytes' <= len /\ L \in Nat BY <1>1, <1>10, <2>1
    <2> QED BY <1>1, <1>10, <2>1, <2>3, <2>4, <2>5, MessageCached DEF c, r, len
  <1> QED BY <1>6, <1>9, <1>10

LEMMA MessageContentRead ==
    ASSUME FramingInvariant, missingBytes # 0, NEW n \in 1 .. Len(stream),
           HandleMessageContentChunk(First(stream, n)), stream' = From(stream, n), sent' = sent,
           stream' # <<>> => stream'[1][2] \notin 2 .. StartLength, TypeOK'
    PROVE  FramingInvariant'
  <1> DEFINE c == Current  m == missingBytes  len == sent[Current]  chunk == First(stream, n)
             p == len - m
  <1>1. TypeOK /\ stream \in Seq(Byte) /\ rest = <<>> /\ m \in Nat \ {0} /\ m <= len
        /\ Pending # <<>> /\ partialStart = <<>> /\ chunks = First(Content(c), p)
    BY DEF FramingInvariant, TypeOK
  <1>2. Pending = stream /\ n \in Nat /\ Len(stream) \in Nat BY <1>1, WholeTaken DEF Pending
  <1>3. /\ c \in 1 .. Len(sent) /\ len \in Nat /\ Remaining = m /\ m <= Len(stream)
        /\ \A j \in 1 .. m : stream[j] = <<c, Place + j - 1>>
        /\ Place = StartLength + len - m + 1
    <2>1. /\ c \in 1 .. Len(sent) /\ len \in 0 .. MaxLength /\ Remaining = m /\ m <= Len(stream)
          /\ \A j \in 1 .. m : stream[j] = <<c, Place + j - 1>>
      BY <1>1, <1>2, CurrentAhead
    <2>2. Place = StartLength + len - m + 1
      <3>1. m \in Nat \ {0} /\ len \in Nat /\ StartLength \in Nat BY <1>1, <2>1, FramingAssumption
      <3> QED BY <3>1 DEF Place, End
    <2> QED BY <2>1, <2>2
  <1>5. /\ Content(c) \in Seq(Byte) /\ Len(Content(c)) = len
        /\ \A i \in 1 .. len : Content(c)[i] = <<c, StartLength + i>>
    BY <1>1, <1>3, ContentFacts
  <1> HIDE DEF c, m, len
  <1>4. StartLength \in Nat /\ p \in Nat /\ p \in 0 .. len BY <1>1, <1>3, FramingAssumption
  <1>6. \A j \in 1 .. m : p + j \in 1 .. len /\ stream[j] = Content(c)[p + j]
    <2> SUFFICES ASSUME NEW j \in 1 .. m
                 PROVE  p + j \in 1 .. len /\ stream[j] = Content(c)[p + j]
      OBVIOUS
    <2>1. p + j \in 1 .. len /\ Place + j - 1 = StartLength + (p + j) BY <1>1, <1>3, <1>4
    <2> QED BY <1>3, <1>5, <2>1
  <1>7. /\ chunks \in Seq(Byte) /\ Len(chunks) = p /\ \A i \in 1 .. p : chunks[i] = Content(c)[i]
    BY <1>1, <1>4, <1>5, FirstFacts
  <1>8. /\ chunk \in Seq(Byte) /\ Len(chunk) = n /\ \A i \in 1 .. n : chunk[i] = stream[i]
    BY <1>1, <1>2, FirstFacts
  <1> HIDE DEF p, chunk
  \* The cached bytes and the next k of the stream are the first of the content.
  <1>9. ASSUME NEW q \in Seq(Byte), NEW k \in 0 .. m, Len(q) = k,
               \A i \in 1 .. k : q[i] = stream[i]
        PROVE  chunks \o q = First(Content(c), p + k)
    <2>1. p + k \in 0 .. len /\ k \in Nat BY <1>1, <1>3, <1>4 DEF p
    <2>2. /\ First(Content(c), p + k) \in Seq(Byte) /\ Len(First(Content(c), p + k)) = p + k
          /\ \A i \in 1 .. p + k : First(Content(c), p + k)[i] = Content(c)[i]
      BY <1>5, <2>1, FirstFacts
    <2>3. /\ chunks \o q \in Seq(Byte) /\ Len(chunks \o q) = p + k
          /\ \A i \in 1 .. p : (chunks \o q)[i] = chunks[i]
          /\ \A i \in 1 .. k : (chunks \o q)[p + i] = q[i]
      <3>1. chunks \in Seq(Byte) /\ Len(chunks) = p /\ Len(q) = k BY <1>7, <1>9
      <3>2. /\ chunks \o q \in Seq(Byte) /\ Len(chunks \o q) = Len(chunks) + Len(q)
            /\ \A i \in 1 .. Len(chunks) : (chunks \o q)[i] = chunks[i]
            /\ \A i \in 1 .. Len(q) : (chunks \o q)[Len(chunks) + i] = q[i]
        <4>1. chunks \in Seq(Byte) /\ q \in Seq(Byte) BY <1>7
        <4> QED BY <4>1, JoinFacts
      <3> QED BY <3>1, <3>2
    <2>4. ASSUME NEW i \in 1 .. p + k PROVE (chunks \o q)[i] = First(Content(c), p + k)[i]
      <3>1. CASE i <= p
        <4>1. i \in 1 .. p BY <1>4, <2>1, <3>1
        <4> QED BY <1>7, <2>2, <2>3, <4>1
      <3>2. CASE i > p
        <4>1. i - p \in 1 .. k /\ i - p \in 1 .. m /\ i = p + (i - p) BY <1>1, <1>4, <2>1, <3>2
        <4>2. (chunks \o q)[i] = stream[i - p] BY <1>9, <2>3, <4>1
        <4>3. stream[i - p] = Content(c)[i] BY <1>6, <4>1
        <4> QED BY <2>2, <4>2, <4>3
      <3>3. i <= p \/ i > p BY <1>4, <2>1
      <3> QED BY <3>1, <3>2, <3>3
    <2> QED BY <2>2, <2>3, <2>4, SameSequence
  <1>10. CASE n < m
    <2>1. /\ chunks' = chunks \o chunk /\ missingBytes' = m - n
          /\ rest' = <<>> /\ UNCHANGED <<received, partialStart>>
      BY <1>8, <1>10 DEF HandleMessageContentChunk, Cache, m, chunk
    <2>2. n \in 0 .. m /\ p + n = len - missingBytes' /\ missingBytes' <= len
      <3>1. m \in Nat /\ len \in Nat /\ n \in Nat /\ m <= len /\ missingBytes' = m - n
        BY <1>1, <1>2, <1>3, <2>1
      <3> QED BY <1>10, <3>1 DEF p
    <2>3. chunks' = First(Content(c), len - missingBytes') BY <1>8, <1>9, <2>1, <2>2
    <2>4. Took(n)
      <3>1. Pending' = From(Pending, n) BY <1>2, <2>1, WholeTaken, FromFacts, <1>1 DEF Pending
      <3> QED BY <1>1, <1>2, <2>1, <3>1 DEF Took
    <2> QED BY <1>1, <1>2, <1>3, <1>10, <2>1, <2>2, <2>3, <2>4, MessageCached DEF c, m, len
  <1>11. CASE ~ (n < m)
    <2>1. /\ received' = Append(received, chunks \o First(chunk, m))
          /\ chunks' = <<>> /\ missingBytes' = 0 /\ UNCHANGED partialStart
          /\ rest' = From(chunk, m)
      BY <1>8, <1>11 DEF HandleMessageContentChunk, EmitCachedMessage, Fire, m, chunk
    <2>2. m \in 0 .. n /\ m \in 0 .. m /\ p + m = len BY <1>1, <1>2, <1>3, <1>11 DEF p
    <2>3. /\ First(chunk, m) \in Seq(Byte) /\ Len(First(chunk, m)) = m
          /\ \A i \in 1 .. m : First(chunk, m)[i] = stream[i]
      <3>1. /\ First(chunk, m) \in Seq(Byte) /\ Len(First(chunk, m)) = m
            /\ \A i \in 1 .. m : First(chunk, m)[i] = chunk[i]
        BY <1>8, <2>2, FirstFacts
      <3>2. \A i \in 1 .. m : i \in 1 .. n BY <2>2
      <3> QED BY <1>8, <3>1, <3>2
    <2>4. chunks \o First(chunk, m) = First(Content(c), len) BY <1>9, <2>2, <2>3
    <2>5. First(Content(c), len) = Content(c)
      <3>1. len \in 0 .. Len(Content(c)) BY <1>3, <1>5
      <3>2. /\ First(Content(c), len) \in Seq(Byte) /\ Len(First(Content(c), len)) = len
            /\ \A i \in 1 .. len : First(Content(c), len)[i] = Content(c)[i]
        BY <1>5, <3>1, FirstFacts
      <3> QED BY <1>5, <3>2, SameSequence
    <2>6. Pending' = From(Pending, m)
      <3>1. Pending' = From(chunk, m) \o From(stream, n) BY <2>1 DEF Pending
      <3>2. /\ From(stream, n) \in Seq(Byte) /\ chunk \o From(stream, n) = stream
        <4>1. n \in 0 .. Len(stream) BY <1>2
        <4> QED BY <1>1, <4>1, FromFacts, CutAndJoined DEF chunk
      <3>3. From(chunk, m) \o From(stream, n) = From(chunk \o From(stream, n), m)
        BY <1>8, <2>2, <3>2, Rejoined
      <3> QED BY <1>2, <3>1, <3>2, <3>3
    <2>7. Took(m) BY <1>1, <1>2, <1>3, <2>1, <2>6 DEF Took
    <2> QED BY <1>1, <1>3, <2>1, <2>4, <2>5, <2>7, MessageRead DEF c, m
  <1> QED BY <1>10, <1>11

-----------------------------------------------------------------------------
(* The theorems *)

LEMMA FramingInit == Init => FramingInvariant
  <1> SUFFICES ASSUME Init PROVE FramingInvariant OBVIOUS
  <1>1. TypeOK
    <2>1. sent \in Seq(0 .. MaxLength) /\ Len(sent) <= MaxMessages BY FramingAssumption DEF Init
    <2>2. <<>> \in Seq(Byte) /\ <<>> \in Seq(Seq(Byte)) OBVIOUS
    <2> QED BY <2>1, <2>2, FramingAssumption DEF Init, TypeOK
  <1>2. Pending = <<>> BY DEF Init, Pending
  <1>3. WrittenInOrder(Pending) BY <1>2 DEF WrittenInOrder
  <1> QED BY <1>1, <1>2, <1>3 DEF Init, FramingInvariant

LEMMA FramingSend ==
    ASSUME FramingInvariant, NEW n \in 0 .. MaxLength, Send(n) PROVE FramingInvariant'
  <1> DEFINE e == Encode(Len(sent) + 1, n)
  <1>1. TypeOK /\ TypeOK' BY SendTypes DEF FramingInvariant
  <1>2. WrittenInOrder(Pending)' BY <1>1, OrderSent
  <1>3. /\ sent' = Append(sent, n) /\ stream' = stream \o e
        /\ UNCHANGED <<rest, received, partialStart, chunks, missingBytes>>
    BY DEF Send
  <1>4. /\ sent \in Seq(0 .. MaxLength) /\ stream \in Seq(Byte) /\ rest \in Seq(Byte)
        /\ n \in Nat /\ StartLength \in Nat \ {0} /\ Pending \in Seq(Byte)
        /\ received \in Seq(Seq(Byte))
    BY <1>1, PendingTypes, FramingAssumption DEF TypeOK
  <1>5. /\ e \in Seq({Len(sent) + 1} \X (1 .. StartLength + n)) /\ Len(e) = StartLength + n
        /\ \A i \in 1 .. StartLength + n : e[i] = <<Len(sent) + 1, i>>
    <2>1. Len(sent) + 1 \in Nat BY <1>4
    <2> QED BY <1>4, <2>1, EncodeFacts
  <1>6. e[1] = <<Len(sent) + 1, 1>> /\ Len(e) \in Nat \ {0}
    <2>1. 1 \in 1 .. StartLength + n BY <1>4
    <2> QED BY <1>4, <1>5, <2>1
  <1> HIDE DEF e
  <1>7. /\ \A k \in 1 .. Len(sent) : sent'[k] = sent[k] /\ Content(k)' = Content(k) /\ End(k)' = End(k)
        /\ DOMAIN sent' = 1 .. Len(sent) + 1
    BY <1>3, <1>4 DEF Content, End
  <1>8. Current' = Current BY <1>3 DEF Current
  <1>9. \A k \in DOMAIN received' : k \in DOMAIN sent' /\ received'[k] = Content(k)'
    <2>0. DOMAIN sent = 1 .. Len(sent) BY <1>4
    <2>1. \A k \in DOMAIN received : k \in 1 .. Len(sent) /\ received[k] = Content(k)
      BY <2>0 DEF FramingInvariant
    <2> QED BY <1>3, <1>4, <1>7, <2>1
  <1>10. stream' # <<>> /\ stream'[1][2] \notin 2 .. StartLength
    <2>1. CASE stream = <<>>
      <3>1. stream' = e BY <1>3, <1>5, <2>1
      <3> QED BY <1>6, <3>1
    <2>2. CASE stream # <<>>
      <3>1. stream'[1] = stream[1] /\ stream' # <<>> BY <1>3, <1>4, <1>5, <2>2
      <3> QED BY <2>2, <3>1 DEF FramingInvariant
    <2> QED BY <2>1, <2>2
  <1>11. CASE Pending = <<>>
    <2>1. rest = <<>> /\ stream = <<>> BY <1>4, <1>11 DEF Pending
    <2>2. Pending' = e BY <1>3, <1>5, <2>1, WholeTaken DEF Pending
    <2>3. missingBytes = 0 /\ Len(received) = Len(sent) /\ chunks = <<>> /\ partialStart = <<>>
      BY <1>11 DEF FramingInvariant
    <2>4. Place' = 1 /\ Current' = Len(sent) + 1 BY <1>3, <2>3 DEF Place, Current
    <2>5. Pending' # <<>> /\ Pending'[1] = <<Current', Place'>> BY <1>6, <2>2, <2>4
    <2> QED BY <1>1, <1>2, <1>3, <1>9, <1>10, <2>3, <2>5 DEF FramingInvariant
  <1>12. CASE Pending # <<>>
    <2>1. Current \in 1 .. Len(sent) BY <1>12, CurrentAhead
    <2>2. Place' = Place /\ sent'[Current] = sent[Current] /\ Content(Current)' = Content(Current)
      BY <1>3, <1>7, <1>8, <2>1 DEF Place, Content
    <2>3. Pending' # <<>> /\ Pending'[1] = Pending[1]
      <3>1. CASE rest = <<>>
        <4>1. Pending = stream /\ Pending' = stream' BY <1>3, <1>4, <1>5, <3>1, WholeTaken DEF Pending
        <4> QED BY <1>3, <1>4, <1>5, <1>12, <4>1
      <3>2. CASE rest # <<>>
        <4>1. Pending'[1] = rest[1] /\ Pending[1] = rest[1] /\ Pending' # <<>>
          BY <1>3, <1>4, <1>5, <3>2 DEF Pending
        <4> QED BY <4>1
      <3> QED BY <3>1, <3>2
    <2>4. Pending'[1] = <<Current', Place'>> BY <1>8, <1>12, <2>2, <2>3 DEF FramingInvariant
    <2>5. missingBytes' # 0 => rest' = <<>> /\ missingBytes' <= sent'[Current']
      BY <1>3, <1>8, <2>2 DEF FramingInvariant
    <2>6. chunks' = IF missingBytes' = 0 THEN <<>>
                    ELSE First(Content(Current)', sent'[Current'] - missingBytes')
      BY <1>3, <1>8, <2>2 DEF FramingInvariant
    <2>7. partialStart' = <<>> BY <1>3 DEF FramingInvariant
    <2> QED BY <1>1, <1>2, <1>9, <1>10, <2>3, <2>4, <2>5, <2>6, <2>7 DEF FramingInvariant
  <1> QED BY <1>11, <1>12

LEMMA FramingChunk ==
    ASSUME ~ CutStarts, FramingInvariant, NEW n \in 1 .. Len(stream), HandleChunk(n)
    PROVE  FramingInvariant'
  <1>1. TypeOK /\ TypeOK' /\ rest = <<>> /\ stream \in Seq(Byte)
    BY ChunkTypes DEF FramingInvariant, HandleChunk, TypeOK
  <1>2. n \in 0 .. Len(stream) /\ n # 0 /\ Len(stream) \in Nat BY <1>1
  <1> DEFINE chunk == First(stream, n)  str == From(stream, n)
  <1>3. /\ chunk \in Seq(Byte) /\ Len(chunk) = n /\ str \in Seq(Byte) /\ Len(str) = Len(stream) - n
        /\ \A i \in 1 .. Len(stream) - n : str[i] = stream[n + i]
        /\ chunk \o str = stream
    BY <1>1, <1>2, FirstFacts, FromFacts, CutAndJoined
  <1>4. sent' = sent /\ stream' = str /\ CutsNoStart(n) BY DEF HandleChunk
  <1>5. str # <<>> => str[1][2] \notin 2 .. StartLength
    <2> SUFFICES ASSUME str # <<>> PROVE str[1][2] \notin 2 .. StartLength OBVIOUS
    <2> HIDE DEF str
    <2>1. 1 \in 1 .. Len(stream) - n BY <1>2, <1>3
    <2>2. str[1] = stream[n + 1] /\ n < Len(stream) BY <1>2, <1>3, <2>1
    <2> QED BY <1>4, <2>2 DEF CutsNoStart
  <1>6. Pending = stream BY <1>1, WholeTaken DEF Pending
  <1>7. CASE missingBytes = 0
    <2>1. HandleNewMessage(chunk) BY <1>7 DEF HandleChunk
    <2>2. chunk # <<>> /\ Pending = chunk \o str BY <1>2, <1>3, <1>6
    <2> HIDE DEF chunk, str
    <2> QED BY <1>1, <1>3, <1>4, <1>5, <1>7, <2>1, <2>2, NewMessageRead
  <1>8. CASE missingBytes # 0
    <2>1. HandleMessageContentChunk(chunk) BY <1>8 DEF HandleChunk
    <2> QED BY <1>1, <1>4, <1>5, <1>8, <2>1, MessageContentRead
  <1> QED BY <1>7, <1>8

LEMMA FramingRest == ASSUME FramingInvariant, HandleRest PROVE FramingInvariant'
  <1>1. /\ TypeOK /\ TypeOK' /\ rest \in Seq(Byte) /\ stream \in Seq(Byte) /\ rest # <<>>
        /\ missingBytes = 0 /\ (stream # <<>> => stream[1][2] \notin 2 .. StartLength)
    BY RestTypes DEF FramingInvariant, HandleRest, TypeOK
  <1>2. sent' = sent /\ stream' = stream /\ HandleNewMessage(rest) BY DEF HandleRest
  <1>3. Pending = rest \o stream BY DEF Pending
  <1> QED BY <1>1, <1>2, <1>3, NewMessageRead

\* When no message start is cut, the reader stands where the bytes it has not read
\* begin, and what it keeps is the part of the current message before them.
THEOREM FramingInvariantHolds == ASSUME ~ CutStarts PROVE Spec => []FramingInvariant
  <1>1. Init => FramingInvariant BY FramingInit
  <1>2. FramingInvariant /\ [Next]_vars => FramingInvariant'
    <2> SUFFICES ASSUME FramingInvariant, [Next]_vars PROVE FramingInvariant' OBVIOUS
    <2>1. CASE Next BY <2>1, FramingSend, FramingChunk, FramingRest DEF Next
    <2>2. CASE UNCHANGED vars
      <3>1. TypeOK' BY <2>2 DEF vars, FramingInvariant, TypeOK, Byte
      <3>2. Pending' = Pending /\ Current' = Current /\ Place' = Place
        BY <2>2 DEF vars, Pending, Current, Place, End
      <3>3. WrittenInOrder(Pending)'
        <4>1. WrittenInOrder(Pending) BY DEF FramingInvariant
        <4> QED BY <2>2, <3>2, <4>1 DEF vars, WrittenInOrder, End
      <3>4. \A k : Content(k)' = Content(k) BY <2>2 DEF vars, Content
      <3> QED BY <2>2, <3>1, <3>2, <3>3, <3>4 DEF vars, FramingInvariant
    <2> QED BY <2>1, <2>2
  <1> QED BY <1>1, <1>2, PTL DEF Spec

\* What onMessage is fired with is then what was sent, in its order and unchanged,
\* for any messages, any length of a start and any cuts outside of the starts.
THEOREM MessagesAreExtracted == ASSUME ~ CutStarts PROVE Spec => []ExtractsMessages
  <1>1. FramingInvariant => ExtractsMessages
    <2> SUFFICES ASSUME FramingInvariant PROVE ExtractsMessages OBVIOUS
    <2>1. sent \in Seq(0 .. MaxLength) /\ received \in Seq(Seq(Byte)) BY DEF FramingInvariant, TypeOK
    <2>2. Len(received) <= Len(sent)
      <3>1. CASE Pending = <<>> BY <2>1, <3>1 DEF FramingInvariant
      <3>2. CASE Pending # <<>>
        <4>1. Len(received) + 1 \in 1 .. Len(sent) BY <3>2, CurrentAhead DEF Current
        <4> QED BY <2>1, <4>1
      <3> QED BY <3>1, <3>2
    <2> DEFINE all == [k \in DOMAIN sent |-> Content(k)]
    <2>3. Len(all) = Len(sent) BY <2>1
    <2>4. \A k \in DOMAIN received : received[k] = all[k] BY DEF FramingInvariant
    <2>5. rest = <<>> /\ stream = <<>> => Len(received) = Len(sent)
      BY DEF FramingInvariant, Pending
    <2> QED BY <2>2, <2>3, <2>4, <2>5 DEF ExtractsMessages, IsPrefixOf
  <1> QED BY <1>1, FramingInvariantHolds, PTL
=============================================================================
