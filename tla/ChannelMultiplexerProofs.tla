---------------------- MODULE ChannelMultiplexerProofs ----------------------
(***************************************************************************)
(* The safety of ChannelMultiplexer for any ids and any number of open()   *)
(* calls, when each id is opened by one end only: MultiplexerInvariant is  *)
(* inductive, the properties follow from it, and so does the refinement of *)
(* ChannelPair.                                                            *)
(***************************************************************************)
EXTENDS ChannelMultiplexer, TLAPS

LEMMA EndFacts ==
    /\ End = {"frontend", "backend"}
    /\ \A e \in End : Other(e) \in End /\ Other(e) # e /\ Other(Other(e)) = e
    /\ \A e, f \in End : e = f \/ e = Other(f)
    /\ BothAlive <=> \A e \in End : alive[e]
    /\ \A e \in End : BothAlive <=> alive[e] /\ alive[Other(e)]
  BY DEF End, Other, BothAlive

LEMMA NumberFacts ==
    /\ MaxOpens \in Nat /\ Number \subseteq Nat /\ 0 .. MaxOpens = Number \union {None}
    /\ None \notin Number
    /\ \A n \in 0 .. MaxOpens : n # None => n \in Number
    /\ 0 .. MaxOpens \subseteq Nat /\ None \in 0 .. MaxOpens
  BY MultiplexerAssumption DEF Number, None

-----------------------------------------------------------------------------
(* What a step does to a link *)

Kept(e) == link'[e] = link[e]
Dropped(e) == link'[e] = <<>>
Took(e) == link[e] # <<>> /\ link'[e] = Tail(link[e])
Wrote(e, m) == link'[e] = Append(link[e], m)

LEMMA WroteFacts ==
    ASSUME TypeOK, NEW e \in End, NEW m \in Message, Wrote(e, m)
    PROVE  /\ link'[e] \in Seq(Message) /\ Len(link'[e]) = Len(link[e]) + 1
           /\ \A i \in 1 .. Len(link[e]) : link'[e][i] = link[e][i]
           /\ link'[e][Len(link[e]) + 1] = m
           /\ Len(link[e]) \in Nat
  BY DEF TypeOK, Wrote

LEMMA TookFacts ==
    ASSUME TypeOK, NEW e \in End, Took(e)
    PROVE  /\ link'[e] \in Seq(Message) /\ Len(link'[e]) = Len(link[e]) - 1
           /\ Head(link[e]) = link[e][1] /\ Head(link[e]) \in Message
           /\ Len(link[e]) \in Nat /\ 1 \in 1 .. Len(link[e])
           /\ \A i \in 1 .. Len(link'[e]) :
                i + 1 \in 1 .. Len(link[e]) /\ link'[e][i] = link[e][i + 1]
           /\ \A j \in 1 .. Len(link[e]) :
                j # 1 => j - 1 \in 1 .. Len(link'[e]) /\ link'[e][j - 1] = link[e][j]
  BY DEF TypeOK, Took

LEMMA LinkTyped ==
    ASSUME TypeOK
    PROVE  \A e \in End : /\ link[e] \in Seq(Message) /\ Len(link[e]) \in Nat
                          /\ \A i \in 1 .. Len(link[e]) : link[e][i] \in Message
  BY DEF TypeOK
LEMMA MessageTyped ==
    \A m \in Message : m.type \in MessageType /\ m.id \in Id /\ m.n \in Number
  BY DEF Message

\* A Close that is on the way to the end e stays where it is, or moves down by one.
LEMMA ClosesWhenWrote ==
    ASSUME TypeOK, NEW e \in End, NEW m \in Message, Wrote(e, m),
           NEW n, NEW i \in Nat, NEW k \in 0 .. Len(link[e]), Closes(link[e], n, i, k), i > 0
    PROVE  Closes(link'[e], n, i, k) /\ Closes(link'[e], n, i, k + 1)
  BY WroteFacts DEF Closes

LEMMA ClosesWhenTook ==
    ASSUME TypeOK, NEW e \in End, Took(e),
           NEW n, NEW i \in Nat, NEW k \in 0 .. Len(link[e]), Closes(link[e], n, i, k), i > 0,
           i > 1
    PROVE  Closes(link'[e], n, i - 1, k - 1)
  <1>1. PICK j \in i .. k : link[e][j].type = "Close" /\ link[e][j].n = n
    BY DEF Closes
  <1>2. j # 1 /\ j \in 1 .. Len(link[e])
    BY <1>1
  <1>3. j - 1 \in 1 .. Len(link'[e]) /\ link'[e][j - 1] = link[e][j]
    BY <1>2, TookFacts
  <1>4. j - 1 \in i - 1 .. k - 1
    BY <1>1, <1>2
  <1> QED BY <1>1, <1>3, <1>4 DEF Closes

LEMMA FirstClosesWhenWrote ==
    ASSUME TypeOK, NEW e \in End, NEW m \in Message, Wrote(e, m),
           NEW n, NEW k \in 0 .. Len(link[e]), Closes(link[e], n, 1, k)
    PROVE  Closes(link'[e], n, 1, k)
  BY WroteFacts DEF Closes

LEMMA FirstClosesWhenTook ==
    ASSUME TypeOK, NEW e \in End, Took(e),
           NEW n, NEW k \in 0 .. Len(link[e]), Closes(link[e], n, 1, k),
           link[e][1].type # "Close" \/ link[e][1].n # n
    PROVE  Closes(link'[e], n, 1, k - 1)
  <1>1. PICK j \in 1 .. k : link[e][j].type = "Close" /\ link[e][j].n = n
    BY DEF Closes
  <1>2. j # 1 /\ j \in 1 .. Len(link[e]) /\ j - 1 \in 1 .. k - 1
    BY <1>1
  <1>3. link'[e][j - 1] = link[e][j]
    BY <1>2, TookFacts
  <1> QED BY <1>1, <1>2, <1>3 DEF Closes

-----------------------------------------------------------------------------
(* The order of what is in flight *)

RequestGrows == \A n \in DOMAIN request : n \in DOMAIN request' /\ request'[n] = request[n]
OverStays == \A e \in End, n \in Number : Over(channel[e], n) => Over(channel'[e], n)

Ordered(e) == \A i, k \in 1 .. Len(link[e]) : i < k => ComesBefore(e, i, link[e][k], k - 1)

LEMMA OrderedWhenWrote ==
    ASSUME TypeOK, LinkMatches, RequestGrows, OverStays,
           NEW e \in End, NEW m \in Message, Wrote(e, m), Ordered(e),
           \A i \in 1 .. Len(link[e]) : ComesBefore(e, i, m, Len(link[e]))
    PROVE  Ordered(e)'
  <1> SUFFICES ASSUME NEW i \in 1 .. Len(link'[e]), NEW k \in 1 .. Len(link'[e]), i < k,
                      link'[e][i].id = link'[e][k].id
               PROVE  /\ link'[e][i].n <= link'[e][k].n
                      /\ link'[e][k].type \in {"Open", "AckOpen"} => link'[e][i].n # link'[e][k].n
                      /\ request'[link'[e][i].n].end = Other(e) /\ link'[e][i].n # link'[e][k].n =>
                           Over(channel'[e], link'[e][i].n) \/ Closes(link'[e], link'[e][i].n, i, k - 1)
    BY DEF Ordered, ComesBefore
  <1>1. /\ i \in 1 .. Len(link[e]) /\ link'[e][i] = link[e][i] /\ link[e][i] \in Message
        /\ k - 1 \in 0 .. Len(link[e])
    BY WroteFacts, LinkTyped
  <1>2. ComesBefore(e, i, link'[e][k], k - 1)
    <2>1. CASE k \in 1 .. Len(link[e])
      BY <2>1, WroteFacts, <1>1 DEF Ordered
    <2>2. CASE k = Len(link[e]) + 1
      BY <2>2, WroteFacts, <1>1
    <2> QED BY <2>1, <2>2, WroteFacts
  <1>3. /\ link[e][i].n \in Number
        /\ request'[link[e][i].n] = request[link[e][i].n]
    BY <1>1, MessageTyped DEF LinkMatches, MessageMatches, RequestGrows
  <1>4. Closes(link[e], link[e][i].n, i, k - 1) => Closes(link'[e], link[e][i].n, i, k - 1)
    <2> DEFINE j == k - 1
    <2>1. j \in 0 .. Len(link[e]) /\ i \in Nat /\ i > 0
      BY <1>1
    <2> HIDE DEF j
    <2>2. Closes(link[e], link[e][i].n, i, j) => Closes(link'[e], link[e][i].n, i, j)
      BY <2>1, ClosesWhenWrote
    <2> QED BY <2>2 DEF j
  <1> QED BY <1>1, <1>2, <1>3, <1>4 DEF ComesBefore, OverStays

LEMMA OrderedWhenTook ==
    ASSUME TypeOK, LinkMatches, RequestGrows, OverStays, NEW e \in End, Took(e), Ordered(e)
    PROVE  Ordered(e)'
  <1> SUFFICES ASSUME NEW i \in 1 .. Len(link'[e]), NEW k \in 1 .. Len(link'[e]), i < k,
                      link'[e][i].id = link'[e][k].id
               PROVE  /\ link'[e][i].n <= link'[e][k].n
                      /\ link'[e][k].type \in {"Open", "AckOpen"} => link'[e][i].n # link'[e][k].n
                      /\ request'[link'[e][i].n].end = Other(e) /\ link'[e][i].n # link'[e][k].n =>
                           Over(channel'[e], link'[e][i].n) \/ Closes(link'[e], link'[e][i].n, i, k - 1)
    BY DEF Ordered, ComesBefore
  <1>1. /\ i + 1 \in 1 .. Len(link[e]) /\ link'[e][i] = link[e][i + 1] /\ link[e][i + 1] \in Message
        /\ k + 1 \in 1 .. Len(link[e]) /\ link'[e][k] = link[e][k + 1]
    BY TookFacts, LinkTyped
  <1>2. ComesBefore(e, i + 1, link[e][k + 1], k)
    BY <1>1 DEF Ordered
  <1>3. /\ link[e][i + 1].n \in Number
        /\ request'[link[e][i + 1].n] = request[link[e][i + 1].n]
    BY <1>1, MessageTyped DEF LinkMatches, MessageMatches, RequestGrows
  <1>4. Closes(link[e], link[e][i + 1].n, i + 1, k) => Closes(link'[e], link[e][i + 1].n, i, k - 1)
    <2>1. i + 1 > 1 /\ i + 1 \in Nat /\ k \in 0 .. Len(link[e]) /\ (i + 1) - 1 = i /\ i + 1 # 1
      BY <1>1, LinkTyped
    <2> DEFINE p == i + 1
    <2>2. p > 1 /\ p \in Nat /\ k \in 0 .. Len(link[e]) /\ p - 1 = i /\ p # 1 /\ p > 0
      BY <2>1
    <2> HIDE DEF p
    <2>3. Closes(link[e], link[e][p].n, p, k) => Closes(link'[e], link[e][p].n, p - 1, k - 1)
      BY <2>2, ClosesWhenTook
    <2> QED BY <2>2, <2>3 DEF p
  <1> QED BY <1>1, <1>2, <1>3, <1>4 DEF ComesBefore, OverStays

LEMMA OrderedWhenKept ==
    ASSUME TypeOK, LinkMatches, RequestGrows, OverStays, NEW e \in End,
           Kept(e) \/ Dropped(e), Ordered(e)
    PROVE  Ordered(e)'
  <1>1. CASE Kept(e)
    <2> SUFFICES ASSUME NEW i \in 1 .. Len(link[e]), NEW k \in 1 .. Len(link[e]), i < k,
                        ComesBefore(e, i, link[e][k], k - 1)
                 PROVE  ComesBefore(e, i, link[e][k], k - 1)'
      BY <1>1 DEF Ordered, Kept, ComesBefore
    <2>1. /\ link[e][i].n \in Number
          /\ request'[link[e][i].n] = request[link[e][i].n]
      BY LinkTyped, MessageTyped DEF LinkMatches, MessageMatches, RequestGrows
    <2> QED BY <1>1, <2>1 DEF ComesBefore, Kept, OverStays
  <1>2. CASE Dropped(e)
    BY <1>2 DEF Ordered, Dropped
  <1> QED BY <1>1, <1>2

-----------------------------------------------------------------------------
(* What is in flight and what its receiver has open *)

\* No channel opens.
LessOpenOf(id) == \A e \in End : openChannels'[e][id] \in {openChannels[e][id], None}
LessOpen == \A id \in Id : LessOpenOf(id)

Ahead(e) == \A k \in 1 .. Len(link[e]) : ComesAfterOpen(e, link[e][k], k - 1)

LEMMA OpenTyped ==
    ASSUME TypeOK
    PROVE  \A e \in End, id \in Id : openChannels[e][id] \in 0 .. MaxOpens /\ openChannels[e][id] \in Nat
  BY NumberFacts DEF TypeOK

LEMMA AheadAtWhenWrote ==
    ASSUME TypeOK, LinkMatches, RequestGrows, NEW e \in End, NEW m \in Message, Wrote(e, m), Ahead(e),
           NEW k \in 1 .. Len(link'[e]), LessOpenOf(link'[e][k].id),
           m.n >= openChannels[e][m.id],
           openChannels[Other(e)][m.id] # None => m.n <= openChannels[Other(e)][m.id],
           openChannels[e][m.id] \notin {None, m.n} /\ request'[m.n].end = Other(e) =>
             Closes(link[e], openChannels[e][m.id], 1, Len(link[e]))
    PROVE  ComesAfterOpen(e, link[e][k], k - 1)'
  <1> DEFINE x == link'[e][k]
             j == k - 1
  <1>1. /\ x \in Message /\ x.id \in Id /\ x.n \in Number /\ x.n \in Nat
        /\ j \in 0 .. Len(link[e])
    BY WroteFacts, MessageTyped, NumberFacts, LinkTyped
  <1>2. /\ x.n >= openChannels[e][x.id]
        /\ openChannels[Other(e)][x.id] # None => x.n <= openChannels[Other(e)][x.id]
        /\ openChannels[e][x.id] \notin {None, x.n} /\ request'[x.n].end = Other(e) =>
             Closes(link[e], openChannels[e][x.id], 1, j)
    <2>1. CASE k \in 1 .. Len(link[e])
      <3>1. x = link[e][k]
        BY <2>1, WroteFacts
      <3>2. request'[x.n] = request[x.n]
        BY <2>1, <3>1 DEF LinkMatches, MessageMatches, RequestGrows
      <3> QED BY <2>1, <3>1, <3>2 DEF Ahead, ComesAfterOpen
    <2>2. CASE k = Len(link[e]) + 1
      <3>1. x = m /\ j = Len(link[e])
        BY <2>2, WroteFacts, LinkTyped
      <3> QED BY <3>1
    <2> QED BY <2>1, <2>2, WroteFacts
  <1> HIDE DEF x, j
  <1>3. /\ openChannels'[e][x.id] \in {openChannels[e][x.id], None}
        /\ openChannels'[Other(e)][x.id] \in {openChannels[Other(e)][x.id], None}
        /\ openChannels[e][x.id] \in Nat
    BY <1>1, EndFacts, OpenTyped DEF LessOpenOf, x
  <1>4. Closes(link[e], openChannels[e][x.id], 1, j) => Closes(link'[e], openChannels[e][x.id], 1, j)
    BY <1>1, FirstClosesWhenWrote
  <1>5. /\ x.n >= openChannels'[e][x.id]
        /\ openChannels'[Other(e)][x.id] # None => x.n <= openChannels'[Other(e)][x.id]
        /\ openChannels'[e][x.id] \notin {None, x.n} /\ request'[x.n].end = Other(e) =>
             Closes(link'[e], openChannels'[e][x.id], 1, j)
    BY <1>1, <1>2, <1>3, <1>4 DEF None
  <1> QED BY <1>5 DEF ComesAfterOpen, x, j

LEMMA AheadAtWhenTook ==
    ASSUME TypeOK, LinkMatches, EntriesMatch, RequestGrows, NEW e \in End, Took(e), Ahead(e),
           Head(link[e]).type = "Close" => openChannels'[e][Head(link[e]).id] = None,
           NEW k \in 1 .. Len(link'[e]), LessOpenOf(link'[e][k].id)
    PROVE  ComesAfterOpen(e, link[e][k], k - 1)'
  <1> DEFINE x == link'[e][k]
             h == Head(link[e])
             j == k - 1
  <1>1. /\ x \in Message /\ x.id \in Id /\ x.n \in Number /\ x.n \in Nat
        /\ h \in Message /\ h.id \in Id /\ h = link[e][1] /\ 1 \in 1 .. Len(link[e])
        /\ k + 1 \in 1 .. Len(link[e]) /\ x = link[e][k + 1] /\ k \in 0 .. Len(link[e])
        /\ k = (k + 1) - 1
    <2>1. /\ h \in Message /\ h = link[e][1] /\ 1 \in 1 .. Len(link[e])
          /\ k + 1 \in 1 .. Len(link[e]) /\ x = link[e][k + 1]
      BY TookFacts
    <2>2. x \in Message
      BY <2>1, LinkTyped
    <2>3. k \in 0 .. Len(link[e]) /\ k = (k + 1) - 1
      BY <2>1, LinkTyped
    <2> HIDE DEF x, h
    <2> QED BY <2>1, <2>2, <2>3, MessageTyped, NumberFacts
  <1>2. /\ x.n >= openChannels[e][x.id]
        /\ openChannels[Other(e)][x.id] # None => x.n <= openChannels[Other(e)][x.id]
        /\ openChannels[e][x.id] \notin {None, x.n} /\ request[x.n].end = Other(e) =>
             Closes(link[e], openChannels[e][x.id], 1, k)
    BY <1>1 DEF Ahead, ComesAfterOpen
  <1>3. request'[x.n] = request[x.n]
    BY <1>1 DEF LinkMatches, MessageMatches, RequestGrows
  <1>4. request[h.n].id = h.id
    BY <1>1 DEF LinkMatches, MessageMatches
  <1> HIDE DEF x, j, h
  <1>5. /\ openChannels'[e][x.id] \in {openChannels[e][x.id], None}
        /\ openChannels'[Other(e)][x.id] \in {openChannels[Other(e)][x.id], None}
        /\ openChannels[e][x.id] \in Nat
    BY <1>1, EndFacts, OpenTyped DEF LessOpenOf, x
  <1>6. ASSUME openChannels'[e][x.id] # None, Closes(link[e], openChannels[e][x.id], 1, k)
        PROVE  Closes(link'[e], openChannels[e][x.id], 1, j)
    <2>1. openChannels[e][x.id] # None /\ request[openChannels[e][x.id]].id = x.id
      BY <1>1, <1>5, <1>6 DEF EntriesMatch, OpenHasChannel
    <2>2. link[e][1].type # "Close" \/ link[e][1].n # openChannels[e][x.id]
      BY <1>1, <1>4, <1>6, <2>1 DEF h
    <2> QED BY <1>1, <1>6, <2>2, FirstClosesWhenTook DEF j
  <1>7. /\ x.n >= openChannels'[e][x.id]
        /\ openChannels'[Other(e)][x.id] # None => x.n <= openChannels'[Other(e)][x.id]
        /\ openChannels'[e][x.id] \notin {None, x.n} /\ request'[x.n].end = Other(e) =>
             Closes(link'[e], openChannels'[e][x.id], 1, j)
    BY <1>1, <1>2, <1>3, <1>5, <1>6 DEF None
  <1> QED BY <1>7 DEF ComesAfterOpen, x, j

LEMMA AheadAtWhenKept ==
    ASSUME TypeOK, LinkMatches, RequestGrows, NEW e \in End, Kept(e), Ahead(e),
           NEW k \in 1 .. Len(link[e]), LessOpenOf(link[e][k].id)
    PROVE  ComesAfterOpen(e, link[e][k], k - 1)'
  <1> DEFINE x == link[e][k]
  <1>1. /\ x.id \in Id /\ x.n \in Nat
        /\ request'[x.n] = request[x.n]
    BY LinkTyped, MessageTyped, NumberFacts DEF LinkMatches, MessageMatches, RequestGrows
  <1>2. /\ openChannels'[e][x.id] \in {openChannels[e][x.id], None}
        /\ openChannels'[Other(e)][x.id] \in {openChannels[Other(e)][x.id], None}
    BY <1>1, EndFacts DEF LessOpenOf
  <1>3. ComesAfterOpen(e, link[e][k], k - 1)
    BY DEF Ahead
  <1> QED BY <1>1, <1>2, <1>3 DEF ComesAfterOpen, Kept, None

LEMMA AheadWhenWrote ==
    ASSUME TypeOK, LinkMatches, RequestGrows, LessOpen,
           NEW e \in End, NEW m \in Message, Wrote(e, m), Ahead(e),
           m.n >= openChannels[e][m.id],
           openChannels[Other(e)][m.id] # None => m.n <= openChannels[Other(e)][m.id],
           openChannels[e][m.id] \notin {None, m.n} /\ request'[m.n].end = Other(e) =>
             Closes(link[e], openChannels[e][m.id], 1, Len(link[e]))
    PROVE  Ahead(e)'
  <1>1. \A k \in 1 .. Len(link'[e]) : LessOpenOf(link'[e][k].id)
    <2>1. \A k \in 1 .. Len(link'[e]) : link'[e][k] \in Message
      BY WroteFacts
    <2> QED BY <2>1, MessageTyped DEF LessOpen
  <1>2. \A k \in 1 .. Len(link'[e]) : ComesAfterOpen(e, link[e][k], k - 1)'
    BY <1>1, AheadAtWhenWrote
  <1> QED BY <1>2 DEF Ahead

LEMMA AheadWhenTook ==
    ASSUME TypeOK, LinkMatches, EntriesMatch, RequestGrows, LessOpen,
           NEW e \in End, Took(e), Ahead(e),
           Head(link[e]).type = "Close" => openChannels'[e][Head(link[e]).id] = None
    PROVE  Ahead(e)'
  <1>1. \A k \in 1 .. Len(link'[e]) : LessOpenOf(link'[e][k].id)
    BY TookFacts, LinkTyped, MessageTyped DEF LessOpen
  <1>2. \A k \in 1 .. Len(link'[e]) : ComesAfterOpen(e, link[e][k], k - 1)'
    BY <1>1, AheadAtWhenTook
  <1> QED BY <1>2 DEF Ahead

LEMMA AheadWhenKept ==
    ASSUME TypeOK, LinkMatches, RequestGrows, LessOpen,
           NEW e \in End, Kept(e) \/ Dropped(e), Ahead(e)
    PROVE  Ahead(e)'
  <1>1. CASE Kept(e)
    <2>1. \A k \in 1 .. Len(link[e]) : LessOpenOf(link[e][k].id)
      BY LinkTyped, MessageTyped DEF LessOpen
    <2>2. \A k \in 1 .. Len(link[e]) : ComesAfterOpen(e, link[e][k], k - 1)'
      BY <1>1, <2>1, AheadAtWhenKept
    <2> QED BY <1>1, <2>2 DEF Ahead, Kept
  <1>2. CASE Dropped(e)
    BY <1>2 DEF Ahead, Dropped
  <1> QED BY <1>1, <1>2

-----------------------------------------------------------------------------
(* What the end that opens an id no longer has *)

\* OldAreClosed of the link l to an end with channels ch, which has o open for the
\* id, when the other end has c.
OldExcept(l, ch, o, id, c) ==
    /\ \A i \in 1 .. Len(l) : l[i].id = id /\ l[i].n # c =>
         Over(ch, l[i].n) \/ Closes(l, l[i].n, i, Len(l))
    /\ o \notin {None, c} => Closes(l, o, 1, Len(l))

LEMMA OldAreClosedAt ==
    OldAreClosed <=> (BothAlive => \A e \in End, id \in Id : <<Other(e), id>> \in MayOpen =>
      OldExcept(link[e], channel[e], openChannels[e][id], id, Current(Other(e), id)))
  BY DEF OldAreClosed, OldExcept

LEMMA OldWhenWrote ==
    ASSUME TypeOK, LinkMatches, OverStays, NEW e \in End, NEW id \in Id, NEW m \in Message, Wrote(e, m),
           NEW c, NEW d, OldExcept(link[e], channel[e], openChannels[e][id], id, c),
           openChannels'[e][id] \in {openChannels[e][id], None},
           m.id = id => m.n = d \/ m.type = "Close",
           d = c \/ c = None \/ (m.type = "Close" /\ m.n = c)
    PROVE  OldExcept(link'[e], channel'[e], openChannels'[e][id], id, d)
  <1>1. /\ Len(link'[e]) = Len(link[e]) + 1 /\ Len(link[e]) \in Nat /\ Len(link[e]) \in 0 .. Len(link[e])
        /\ \A i \in 1 .. Len(link[e]) : link'[e][i] = link[e][i] /\ i \in Nat /\ i > 0
        /\ link'[e][Len(link[e]) + 1] = m
    BY WroteFacts
  <1>2. ASSUME m.type = "Close", NEW i \in 1 .. Len(link[e]) + 1
        PROVE  Closes(link'[e], m.n, i, Len(link'[e]))
    BY <1>1, <1>2 DEF Closes
  <1>3. ASSUME NEW n, NEW i \in 1 .. Len(link[e]) + 1, Closes(link[e], n, i, Len(link[e]))
        PROVE  Closes(link'[e], n, i, Len(link'[e]))
    <2>1. PICK j \in i .. Len(link[e]) : link[e][j].type = "Close" /\ link[e][j].n = n
      BY <1>3 DEF Closes
    <2>2. j \in 1 .. Len(link[e]) /\ j \in i .. Len(link'[e])
      BY <1>1
    <2> QED BY <1>1, <2>1, <2>2 DEF Closes
  <1>4. ASSUME NEW i \in 1 .. Len(link'[e]), link'[e][i].id = id, link'[e][i].n # d
        PROVE  Over(channel'[e], link'[e][i].n) \/ Closes(link'[e], link'[e][i].n, i, Len(link'[e]))
    <2>1. CASE i = Len(link[e]) + 1
      BY <1>1, <1>2, <1>4, <2>1
    <2>2. CASE i \in 1 .. Len(link[e])
      <3>1. /\ link'[e][i] = link[e][i] /\ link[e][i].n \in Number /\ link[e][i].n # None
            /\ i \in 1 .. Len(link[e]) + 1
        BY <1>1, <2>2, LinkTyped, MessageTyped, NumberFacts
      <3>2. CASE link[e][i].n # c
        <4>1. Over(channel[e], link[e][i].n) \/ Closes(link[e], link[e][i].n, i, Len(link[e]))
          BY <1>4, <2>2, <3>1, <3>2 DEF OldExcept
        <4> QED BY <4>1, <1>3, <3>1 DEF OverStays
      <3>3. CASE link[e][i].n = c
        BY <1>2, <1>4, <3>1, <3>3
      <3> QED BY <3>2, <3>3
    <2> QED BY <1>1, <2>1, <2>2
  <1>5. ASSUME openChannels'[e][id] \notin {None, d}
        PROVE  Closes(link'[e], openChannels'[e][id], 1, Len(link'[e]))
    <2>1. openChannels'[e][id] = openChannels[e][id] /\ openChannels[e][id] # None /\ 1 \in 1 .. Len(link[e]) + 1
      BY <1>5, <1>1
    <2>2. CASE openChannels[e][id] # c
      BY <2>1, <2>2, <1>3 DEF OldExcept
    <2>3. CASE openChannels[e][id] = c
      BY <1>2, <1>5, <2>1, <2>3
    <2> QED BY <2>2, <2>3
  <1> QED BY <1>4, <1>5 DEF OldExcept

LEMMA OldWhenTook ==
    ASSUME TypeOK, OverStays, NEW e \in End, NEW id \in Id, Took(e),
           NEW c, OldExcept(link[e], channel[e], openChannels[e][id], id, c),
           openChannels'[e][id] \in {openChannels[e][id], None, c},
           openChannels'[e][id] # None => Head(link[e]).type # "Close" \/ Head(link[e]).n # openChannels[e][id]
    PROVE  OldExcept(link'[e], channel'[e], openChannels'[e][id], id, c)
  <1>1. /\ Len(link'[e]) = Len(link[e]) - 1 /\ Len(link[e]) \in Nat /\ Len(link[e]) \in 0 .. Len(link[e])
        /\ \A i \in 1 .. Len(link'[e]) :
             i + 1 \in 1 .. Len(link[e]) /\ link'[e][i] = link[e][i + 1] /\ i + 1 \in Nat
        /\ Head(link[e]) = link[e][1]
    BY TookFacts
  <1>2. ASSUME NEW i \in 1 .. Len(link'[e]), link'[e][i].id = id, link'[e][i].n # c
        PROVE  Over(channel'[e], link'[e][i].n) \/ Closes(link'[e], link'[e][i].n, i, Len(link'[e]))
    <2> DEFINE p == i + 1
    <2>1. /\ p \in 1 .. Len(link[e]) /\ link'[e][i] = link[e][p] /\ link[e][p].n \in Number
          /\ p \in Nat /\ p > 0 /\ p > 1 /\ p # 1 /\ p - 1 = i
      BY <1>1, LinkTyped, MessageTyped
    <2> HIDE DEF p
    <2>2. Over(channel[e], link[e][p].n) \/ Closes(link[e], link[e][p].n, p, Len(link[e]))
      BY <1>2, <2>1 DEF OldExcept
    <2>3. Closes(link[e], link[e][p].n, p, Len(link[e])) => Closes(link'[e], link[e][p].n, i, Len(link'[e]))
      BY <1>1, <2>1, ClosesWhenTook
    <2> QED BY <2>1, <2>2, <2>3 DEF OverStays
  <1>3. ASSUME openChannels'[e][id] \notin {None, c}
        PROVE  Closes(link'[e], openChannels'[e][id], 1, Len(link'[e]))
    <2>1. openChannels'[e][id] = openChannels[e][id] /\ openChannels[e][id] \notin {None, c}
      BY <1>3
    <2>2. Closes(link[e], openChannels[e][id], 1, Len(link[e]))
      BY <2>1 DEF OldExcept
    <2> QED BY <1>1, <1>3, <2>1, <2>2, FirstClosesWhenTook
  <1> QED BY <1>2, <1>3 DEF OldExcept

LEMMA OldWhenKept ==
    ASSUME TypeOK, OverStays, NEW e \in End, NEW id \in Id, Kept(e),
           NEW c, NEW d, OldExcept(link[e], channel[e], openChannels[e][id], id, c),
           openChannels'[e][id] \in {openChannels[e][id], None},
           c = d \/ (Over(channel'[e], c) /\ openChannels'[e][id] # c)
    PROVE  OldExcept(link'[e], channel'[e], openChannels'[e][id], id, d)
  BY LinkTyped, MessageTyped DEF OldExcept, OverStays, Kept
-----------------------------------------------------------------------------
(* Single messages in flight *)

Matching(e) ==
    /\ ~ alive[e] => link[e] = <<>>
    /\ \A i \in 1 .. Len(link[e]) : MessageMatches(e, link[e][i])

LEMMA MatchesWhenWrote ==
    ASSUME TypeOK, NEW e \in End, NEW m \in Message, Wrote(e, m), Matching(e), alive'[e],
           \A x \in Message : MessageMatches(e, x) => MessageMatches(e, x)', MessageMatches(e, m)'
    PROVE  Matching(e)'
  <1> SUFFICES ASSUME NEW i \in 1 .. Len(link'[e]), NEW x, x = link'[e][i]
               PROVE  MessageMatches(e, x)'
    BY DEF Matching
  <1>1. i \in 1 .. Len(link[e]) \/ i = Len(link[e]) + 1
    BY WroteFacts
  <1>2. CASE i \in 1 .. Len(link[e])
    BY <1>2, WroteFacts, LinkTyped DEF Matching
  <1>3. CASE i = Len(link[e]) + 1
    BY <1>3, WroteFacts
  <1> QED BY <1>1, <1>2, <1>3

LEMMA MatchesWhenTook ==
    ASSUME TypeOK, NEW e \in End, Took(e), Matching(e), alive'[e],
           \A x \in Message : \A i \in 1 .. Len(link[e]) :
             i # 1 /\ x = link[e][i] /\ MessageMatches(e, x) => MessageMatches(e, x)'
    PROVE  Matching(e)'
  <1> SUFFICES ASSUME NEW i \in 1 .. Len(link'[e]), NEW x, x = link'[e][i]
               PROVE  MessageMatches(e, x)'
    BY DEF Matching
  <1>1. i + 1 \in 1 .. Len(link[e]) /\ x = link[e][i + 1] /\ i + 1 # 1
    BY TookFacts
  <1>2. x \in Message /\ MessageMatches(e, x)
    BY <1>1, LinkTyped DEF Matching
  <1> QED BY <1>1, <1>2

LEMMA MatchesWhenKept ==
    ASSUME TypeOK, NEW e \in End, (Kept(e) /\ alive'[e] = alive[e]) \/ Dropped(e), Matching(e),
           \A x \in Message : MessageMatches(e, x) => MessageMatches(e, x)'
    PROVE  Matching(e)'
  <1>1. CASE Kept(e) /\ alive'[e] = alive[e]
    <2> SUFFICES ASSUME NEW i \in 1 .. Len(link[e]), NEW x, x = link[e][i]
                 PROVE  MessageMatches(e, x)'
      BY <1>1 DEF Matching, Kept
    <2> QED BY LinkTyped DEF Matching
  <1>2. CASE Dropped(e)
    BY <1>2 DEF Matching, Dropped
  <1> QED BY <1>1, <1>2

\* What a message says stays true while its open() is pending, its channel does
\* not appear where it is to be created, and stays where it is.
LEMMA StillMatches ==
    ASSUME NEW e \in End, NEW m \in Message, MessageMatches(e, m), request' = request,
           alive'[Other(e)] => alive[Other(e)],
           m.type = "Open" /\ alive'[Other(e)] =>
             pendingOpen'[Other(e)][m.id] = pendingOpen[Other(e)][m.id],
           m.type = "Open" => \A k \in DOMAIN request : request[k].id = m.id /\ k >= m.n =>
             channel'[e][k] = channel[e][k],
           m.type = "AckOpen" => pendingOpen'[e][m.id] = pendingOpen[e][m.id],
           channel[Other(e)][m.n] # "none" => channel'[Other(e)][m.n] # "none",
           channel[Other(e)][m.n] = "closed" => channel'[Other(e)][m.n] = "closed"
    PROVE  MessageMatches(e, m)'
  BY DEF MessageMatches

LEMMA InFlightWhenWrote ==
    ASSUME TypeOK, NEW e \in End, NEW m \in Message, Wrote(e, m)
    PROVE  /\ \A type, n : InFlight(link[e], type, n) => InFlight(link'[e], type, n)
           /\ InFlight(link'[e], m.type, m.n)
  BY WroteFacts DEF InFlight

LEMMA InFlightWhenTook ==
    ASSUME TypeOK, NEW e \in End, Took(e), NEW type, NEW n, InFlight(link[e], type, n),
           Head(link[e]).type # type \/ Head(link[e]).n # n
    PROVE  InFlight(link'[e], type, n)
  <1>1. PICK i \in 1 .. Len(link[e]) : link[e][i].type = type /\ link[e][i].n = n
    BY DEF InFlight
  <1>2. i # 1
    BY <1>1, TookFacts
  <1>3. i - 1 \in 1 .. Len(link'[e]) /\ link'[e][i - 1] = link[e][i]
    BY <1>2, TookFacts
  <1> QED BY <1>1, <1>3 DEF InFlight

LEMMA InFlightWhenKept ==
    ASSUME NEW e \in End, Kept(e)
    PROVE  \A type, n : InFlight(link[e], type, n) => InFlight(link'[e], type, n)
  BY DEF InFlight, Kept

-----------------------------------------------------------------------------
(* Sending and receiving *)

LEMMA SendFacts ==
    ASSUME TypeOK, NEW e \in End, NEW m \in Message, link' = Send(link, e, m)
    PROVE  /\ link' \in [End -> Seq(Message)]
           /\ Kept(e)
           /\ BothAlive => Wrote(Other(e), m)
           /\ ~ BothAlive => Kept(Other(e))
  <1>1. CASE BothAlive
    <2>1. link' = [link EXCEPT ![Other(e)] = Append(@, m)]
      BY <1>1 DEF Send, BothAlive
    <2>2. Append(link[Other(e)], m) \in Seq(Message) /\ Other(e) \in End /\ Other(e) # e
      BY LinkTyped, EndFacts
    <2> QED BY <1>1, <2>1, <2>2 DEF TypeOK, Wrote, Kept
  <1>2. CASE ~ BothAlive
    BY <1>2, EndFacts DEF Send, BothAlive, Kept, TypeOK
  <1> QED BY <1>1, <1>2

LEMMA TakenFacts ==
    ASSUME TypeOK, NEW e \in End, link[e] # <<>>, link' = Taken(e)
    PROVE  /\ link' \in [End -> Seq(Message)]
           /\ Took(e) /\ Kept(Other(e))
  <1>1. Tail(link[e]) \in Seq(Message) /\ Other(e) \in End /\ Other(e) # e
    BY EndFacts DEF TypeOK
  <1> QED BY <1>1 DEF TypeOK, Taken, Took, Kept

LEMMA RequestFacts ==
    ASSUME TypeOK
    PROVE  /\ DOMAIN request = 1 .. Len(request) /\ Len(request) \in Nat
           /\ DOMAIN request \subseteq Number /\ None \notin DOMAIN request
           /\ \A n \in DOMAIN request : request[n] \in [end : End, id : Id] /\ n \in Nat
  <1>1. request \in Seq([end : End, id : Id]) /\ Len(request) <= MaxOpens
    BY DEF TypeOK
  <1>2. /\ DOMAIN request = 1 .. Len(request) /\ Len(request) \in Nat
        /\ \A n \in DOMAIN request : request[n] \in [end : End, id : Id]
    <2> DEFINE S == [end : End, id : Id]
    <2> HIDE DEF S
    <2>1. request \in Seq(S)
      BY <1>1 DEF S
    <2>2. /\ DOMAIN request = 1 .. Len(request) /\ Len(request) \in Nat
          /\ \A n \in DOMAIN request : request[n] \in S
      BY <2>1
    <2> QED BY <2>2 DEF S
  <1>3. \A n \in 1 .. Len(request) : n \in Nat /\ n \in 1 .. MaxOpens /\ n # 0
    BY <1>1, <1>2, NumberFacts
  <1> QED BY <1>2, <1>3 DEF Number, None

LEMMA EntryFacts ==
    ASSUME EntriesMatch, NEW e \in End, NEW id \in Id
    PROVE  /\ pendingOpen[e][id] # None =>
                /\ openChannels[e][id] = None
                /\ pendingOpen[e][id] \in DOMAIN request
                /\ request[pendingOpen[e][id]].end = e /\ request[pendingOpen[e][id]].id = id
                /\ channel[e][pendingOpen[e][id]] = "none"
           /\ openChannels[e][id] # None =>
                /\ openChannels[e][id] \in DOMAIN request
                /\ request[openChannels[e][id]].id = id
                /\ channel[e][openChannels[e][id]] = "open"
  <1>1. PendingHasNone /\ OpenHasChannel
    BY DEF EntriesMatch
  <1> QED BY <1>1 DEF PendingHasNone, OpenHasChannel

\* The end that called open() with number n is the one that may.
LEMMA OpenerFacts ==
    ASSUME OneOpens, EntriesMatch, TypeOK, NEW e \in End, NEW n \in DOMAIN request
    PROVE  /\ request[n].end \in End /\ request[n].id \in Id
           /\ <<e, request[n].id>> \in MayOpen <=> request[n].end = e
           /\ <<e, request[n].id>> \in MayOpen \/ <<Other(e), request[n].id>> \in MayOpen
  <1>1. request[n] \in [end : End, id : Id] /\ <<request[n].end, request[n].id>> \in MayOpen
    BY RequestFacts DEF EntriesMatch, ChannelsAreRequested
  <1> QED BY <1>1, EndFacts DEF OneOpens

\* What the owner of an open channel sends comes in its place.
LEMMA SentInItsPlace ==
    ASSUME OneOpens, RoutingInvariant, BothAlive, NEW f \in End, NEW n \in Number,
           channel[f][n] = "open", NEW m \in Message, m.n = n, m.id = request[n].id,
           m.type \in {"Data", "Close"}
    PROVE  /\ \A i \in 1 .. Len(link[Other(f)]) : ComesBefore(Other(f), i, m, Len(link[Other(f)]))
           /\ ComesAfterOpen(Other(f), m, Len(link[Other(f)]))
           /\ n \in DOMAIN request /\ openChannels[f][m.id] = n /\ m.id \in Id
           /\ <<f, m.id>> \in MayOpen => Current(f, m.id) = n
  <1> DEFINE e == Other(f)
             id == m.id
  <1> USE DEF RoutingInvariant
  <1>1. /\ n \in DOMAIN request /\ id \in Id /\ request[n].id = id
        /\ e \in End /\ Other(e) = f /\ Other(f) = e
    <2>1. n \in DOMAIN request
      BY DEF EntriesMatch, ChannelsAreRequested
    <2>2. id \in Id /\ request[n].id = id
      BY MessageTyped
    <2>3. e \in End /\ Other(e) = f /\ Other(f) = e
      BY EndFacts
    <2> QED BY <2>1, <2>2, <2>3
  <1>2. openChannels[f][id] = n /\ n # None /\ n \in Nat
    BY <1>1, NumberFacts DEF OpenChannelIsRouted
  <1>3. <<f, id>> \in MayOpen => Current(f, id) = n
    <2>1. pendingOpen[f][id] = None
      BY <1>1, <1>2, EntryFacts
    <2> QED BY <1>2, <2>1 DEF Current
  <1>4. request[n].end = f <=> <<f, id>> \in MayOpen
    BY <1>1, OpenerFacts
  <1> HIDE DEF RoutingInvariant, e, id
  <1>5. ASSUME NEW i \in 1 .. Len(link[e]), link[e][i].id = id
        PROVE  /\ link[e][i].n <= n
               /\ request[link[e][i].n].end = f /\ link[e][i].n # n =>
                    Over(channel[e], link[e][i].n) \/ Closes(link[e], link[e][i].n, i, Len(link[e]))
    <2>1. ComesAfterOpen(e, link[e][i], i - 1)
      BY <1>1 DEF LinkAhead, RoutingInvariant
    <2>2. link[e][i].n <= n
      BY <1>1, <1>2, <1>5, <2>1 DEF ComesAfterOpen
    <2>3. link[e][i].n \in DOMAIN request /\ request[link[e][i].n].id = id
      BY <1>1, <1>5 DEF LinkMatches, MessageMatches, RoutingInvariant
    <2>4. request[link[e][i].n].end = f => <<f, id>> \in MayOpen
      BY <2>3, OpenerFacts DEF RoutingInvariant
    <2> QED BY <1>1, <1>3, <1>5, <2>2, <2>4 DEF OldAreClosed, RoutingInvariant
  <1>6. \A i \in 1 .. Len(link[e]) : ComesBefore(e, i, m, Len(link[e]))
    BY <1>1, <1>5 DEF ComesBefore, id
  <1> DEFINE o == openChannels[e][id]
  <1>7. o # None => o \in DOMAIN request /\ request[o].id = id /\ channel[e][o] = "open" /\ o \in Nat
    BY <1>1, RequestFacts, EntryFacts DEF RoutingInvariant
  <1>8. n >= o
    <2>1. CASE o = None
      BY <1>2, <2>1 DEF None
    <2>2. CASE o # None /\ <<f, id>> \in MayOpen
      BY <1>1, <1>2, <1>3, <1>7, <2>2 DEF OpenerHasYoungest, RoutingInvariant
    <2>3. CASE o # None /\ <<f, id>> \notin MayOpen
      <3>1. request[o].end = e /\ <<e, id>> \in MayOpen
        BY <1>1, <1>7, <2>3, OpenerFacts DEF RoutingInvariant
      <3>2. channel[f][o] # "none"
        <4>1. channel[e][o] # "none" /\ o \in DOMAIN request
          BY <1>7, <2>3
        <4> HIDE DEF o
        <4>2. channel[Other(e)][o] # "none"
          BY <1>1, <3>1, <4>1 DEF OtherHasIt, RoutingInvariant
        <4> QED BY <1>1, <4>2
      <3>3. ~ (o > n)
        <4>1. o \in DOMAIN request /\ request[o].id = id
          BY <1>7, <2>3
        <4> HIDE DEF o
        <4>2. o > openChannels[f][id] => channel[f][o] = "none"
          BY <1>1, <1>2, <3>1, <4>1 DEF OtherHasYoungest, RoutingInvariant
        <4> QED BY <1>2, <3>2, <4>2
      <3> QED BY <1>2, <1>7, <2>3, <3>3
    <2> QED BY <2>1, <2>2, <2>3
  <1>9. o \notin {None, n} /\ request[n].end = f => Closes(link[e], o, 1, Len(link[e]))
    BY <1>1, <1>3, <1>4 DEF OldAreClosed, RoutingInvariant
  <1>10. ComesAfterOpen(e, m, Len(link[e]))
    BY <1>1, <1>2, <1>8, <1>9 DEF ComesAfterOpen, id
  <1> QED BY <1>1, <1>2, <1>3, <1>6, <1>10 DEF e, id
LEMMA MsgFacts ==
    ASSUME NEW type \in MessageType, NEW id \in Id, NEW n \in Number
    PROVE  /\ Msg(type, id, n) \in Message
           /\ Msg(type, id, n).type = type /\ Msg(type, id, n).id = id /\ Msg(type, id, n).n = n
  BY DEF Msg, Message

\* The invariant in terms of each end's link.
LEMMA LinkParts ==
    /\ LinkMatches <=> \A e \in End : Matching(e)
    /\ LinkOrdered <=> \A e \in End : Ordered(e)
    /\ LinkAhead <=> \A e \in End : Ahead(e)
  BY DEF LinkMatches, Matching, LinkOrdered, Ordered, LinkAhead, Ahead

LEMMA LinksAfterSend ==
    ASSUME OneOpens, RoutingInvariant, BothAlive, NEW f \in End, NEW n \in Number,
           channel[f][n] = "open", NEW m \in Message, m.n = n, m.id = request[n].id,
           m.type \in {"Data", "Close"}, Wrote(Other(f), m), Kept(f),
           request' = request, LessOpen, OverStays
    PROVE  LinkOrdered' /\ LinkAhead'
  <1> DEFINE e == Other(f)
  <1>1. /\ \A i \in 1 .. Len(link[e]) : ComesBefore(e, i, m, Len(link[e]))
        /\ ComesAfterOpen(e, m, Len(link[e]))
    BY SentInItsPlace
  <1>2. /\ e \in End /\ \A x \in End : x = e \/ x = f
        /\ RequestGrows
    BY EndFacts DEF RequestGrows
  <1>3. TypeOK /\ LinkMatches /\ Ordered(e) /\ Ordered(f) /\ Ahead(e) /\ Ahead(f)
    BY <1>2, LinkParts DEF RoutingInvariant
  <1>4. Ordered(e)'
    BY <1>1, <1>2, <1>3, OrderedWhenWrote
  <1>5. Ordered(f)'
    BY <1>2, <1>3, OrderedWhenKept
  <1>6. Ahead(e)'
    <2>1. /\ m.n >= openChannels[e][m.id]
          /\ openChannels[Other(e)][m.id] # None => m.n <= openChannels[Other(e)][m.id]
          /\ openChannels[e][m.id] \notin {None, m.n} /\ request'[m.n].end = Other(e) =>
               Closes(link[e], openChannels[e][m.id], 1, Len(link[e]))
      BY <1>1 DEF ComesAfterOpen
    <2> HIDE DEF e
    <2> QED BY <1>2, <1>3, <2>1, AheadWhenWrote DEF e
  <1>7. Ahead(f)'
    BY <1>2, <1>3, AheadWhenKept
  <1>8. \A x \in End : Ordered(x)' /\ Ahead(x)'
    BY <1>2, <1>4, <1>5, <1>6, <1>7
  <1> QED BY <1>8 DEF LinkOrdered, Ordered, LinkAhead, Ahead

LEMMA LinksAfterTake ==
    ASSUME RoutingInvariant, NEW e \in End, Took(e), Kept(Other(e)),
           request' = request, LessOpen, OverStays,
           Head(link[e]).type = "Close" => openChannels'[e][Head(link[e]).id] = None
    PROVE  LinkOrdered' /\ LinkAhead'
  <1> DEFINE f == Other(e)
  <1>1. /\ f \in End /\ \A x \in End : x = e \/ x = f
        /\ RequestGrows
    BY EndFacts DEF RequestGrows
  <1>2. /\ TypeOK /\ LinkMatches /\ EntriesMatch
        /\ Ordered(e) /\ Ordered(f) /\ Ahead(e) /\ Ahead(f)
    BY <1>1, LinkParts DEF RoutingInvariant
  <1>3. Ordered(e)' /\ Ordered(f)'
    BY <1>1, <1>2, OrderedWhenTook, OrderedWhenKept
  <1>4. Ahead(e)' /\ Ahead(f)'
    BY <1>1, <1>2, AheadWhenTook, AheadWhenKept
  <1>5. \A x \in End : Ordered(x)' /\ Ahead(x)'
    BY <1>1, <1>3, <1>4
  <1> QED BY <1>5 DEF LinkOrdered, Ordered, LinkAhead, Ahead

-----------------------------------------------------------------------------
(* One lemma per action *)

\* A step that changes the links only.
LEMMA SameEntries ==
    ASSUME RoutingInvariant,
           UNCHANGED <<alive, pendingOpen, openChannels, channel, request, resolvedTo>>,
           link' \in [End -> Seq(Message)]
    PROVE  /\ TypeOK' /\ OpenChannelIsRouted' /\ EntriesMatch'
           /\ OpenerHasYoungest' /\ OtherHasYoungest' /\ OtherHasIt'
           /\ RequestGrows /\ LessOpen /\ OverStays
           /\ \A e \in End, m \in Message : MessageMatches(e, m) => MessageMatches(e, m)'
  <1>1. TypeOK' /\ OpenChannelIsRouted'
    BY DEF RoutingInvariant, TypeOK, OpenChannelIsRouted
  <1>2. EntriesMatch'
    BY DEF RoutingInvariant, EntriesMatch, ChannelsAreRequested, PendingHasNone, OpenHasChannel
  <1>3. OpenerHasYoungest' /\ OtherHasYoungest' /\ OtherHasIt'
    BY DEF RoutingInvariant, OpenerHasYoungest, Current, OtherHasYoungest, OtherHasIt
  <1>4. RequestGrows /\ LessOpen /\ OverStays
    BY DEF RequestGrows, LessOpen, LessOpenOf, OverStays
  <1>5. \A e \in End, m \in Message : MessageMatches(e, m) => MessageMatches(e, m)'
    BY DEF MessageMatches
  <1> QED BY <1>1, <1>2, <1>3, <1>4, <1>5

LEMMA StutterStep ==
    ASSUME RoutingInvariant, UNCHANGED vars
    PROVE  RoutingInvariant'
  <1>1. /\ TypeOK' /\ OpenChannelIsRouted' /\ EntriesMatch'
        /\ OpenerHasYoungest' /\ OtherHasYoungest' /\ OtherHasIt'
    BY SameEntries DEF RoutingInvariant, TypeOK, vars
  <1>2. LinkMatches'
    BY DEF RoutingInvariant, vars, LinkMatches, MessageMatches
  <1>3. LinkOrdered' /\ LinkAhead'
    BY DEF RoutingInvariant, vars, LinkOrdered, ComesBefore, LinkAhead, ComesAfterOpen
  <1>4. OldAreClosed' /\ HandshakeGoesOn'
    BY DEF RoutingInvariant, vars, OldAreClosed, HandshakeGoesOn, BothAlive, Current,
           Shared, InFlight
  <1> QED BY <1>1, <1>2, <1>3, <1>4 DEF RoutingInvariant

LEMMA SameOldWhenKept ==
    ASSUME TypeOK, OverStays, NEW e \in End, NEW id \in Id, Kept(e),
           NEW c, OldExcept(link[e], channel[e], openChannels[e][id], id, c),
           openChannels'[e][id] \in {openChannels[e][id], None}
    PROVE  OldExcept(link'[e], channel'[e], openChannels'[e][id], id, c)
  <1>1. c = c \/ (Over(channel'[e], c) /\ openChannels'[e][id] # c)
    OBVIOUS
  <1> QED BY <1>1, OldWhenKept

LEMMA SameOldWhenWrote ==
    ASSUME TypeOK, LinkMatches, OverStays, NEW e \in End, NEW id \in Id, NEW m \in Message, Wrote(e, m),
           NEW c, OldExcept(link[e], channel[e], openChannels[e][id], id, c),
           openChannels'[e][id] \in {openChannels[e][id], None},
           m.id = id => m.n = c
    PROVE  OldExcept(link'[e], channel'[e], openChannels'[e][id], id, c)
  <1>1. m.id = id => m.n = c \/ m.type = "Close"
    OBVIOUS
  <1>2. c = c \/ c = None \/ (m.type = "Close" /\ m.n = c)
    OBVIOUS
  <1> QED BY <1>1, <1>2, OldWhenWrote

\* What is no longer had, from one end's link and the other's.
LEMMA OldParts ==
    ASSUME NEW e \in End, NEW f \in End, \A x \in End : x = e \/ x = f,
           \A id \in Id : <<f, id>> \in MayOpen =>
             OldExcept(link'[e], channel'[e], openChannels'[e][id], id, Current(f, id)'),
           \A id \in Id : <<e, id>> \in MayOpen =>
             OldExcept(link'[f], channel'[f], openChannels'[f][id], id, Current(e, id)'),
           Other(e) = f, Other(f) = e
    PROVE  OldAreClosed'
  BY DEF OldAreClosed, OldExcept

\* A step after which everything in flight still is.
LEMMA SameHandshake ==
    ASSUME HandshakeGoesOn, UNCHANGED <<alive, pendingOpen, openChannels>>,
           \A x \in End : \A type, k : InFlight(link[x], type, k) => InFlight(link'[x], type, k)
    PROVE  HandshakeGoesOn'
  <1> SUFFICES ASSUME BothAlive, NEW e \in End, NEW id \in Id, <<e, id>> \in MayOpen
               PROVE  /\ pendingOpen[e][id] # None =>
                           \/ InFlight(link'[Other(e)], "Open", pendingOpen[e][id])
                           \/ /\ InFlight(link'[e], "AckOpen", pendingOpen[e][id])
                              /\ Shared(link'[e], openChannels[Other(e)][id], pendingOpen[e][id])
                      /\ openChannels[e][id] # None =>
                           Shared(link'[e], openChannels[Other(e)][id], openChannels[e][id])
    BY DEF HandshakeGoesOn, BothAlive, Shared
  <1>1. Other(e) \in End
    BY EndFacts
  <1> QED BY <1>1 DEF HandshakeGoesOn, Shared

LEMMA WriteDataStep ==
    ASSUME OneOpens, RoutingInvariant, NEW f \in End, NEW n \in Number, WriteData(f, n)
    PROVE  RoutingInvariant'
  <1>1. /\ channel[f][n] = "open"
        /\ UNCHANGED <<alive, pendingOpen, openChannels, channel, request, resolvedTo>>
    BY DEF WriteData
  <1>2. TypeOK /\ LinkMatches /\ n \in DOMAIN request /\ request[n].id \in Id
    BY <1>1, RequestFacts DEF RoutingInvariant, EntriesMatch, ChannelsAreRequested
  <1>3. PICK e \in End : e = Other(f) /\ Other(e) = f /\ e # f /\ \A x \in End : x = e \/ x = f
    BY EndFacts
  <1>4. PICK m \in Message :
          m.type = "Data" /\ m.id = request[n].id /\ m.n = n /\ link' = Send(link, f, m)
    BY <1>2, MsgFacts DEF MessageType, WriteData
  <1>5. CASE ~ BothAlive
    <2>1. Kept(e) /\ Kept(f) /\ link' \in [End -> Seq(Message)]
      BY <1>1, <1>2, <1>3, <1>4, <1>5, SendFacts
    <2>2. \A x \in End : link'[x] = link[x]
      BY <1>3, <2>1 DEF Kept
    <2>3. link' = link
      BY <1>2, <2>1, <2>2 DEF TypeOK
    <2> QED BY <1>1, <2>3, StutterStep DEF vars
  <1>6. CASE BothAlive
    <2>1. Wrote(e, m) /\ Kept(f) /\ link' \in [End -> Seq(Message)]
      BY <1>1, <1>2, <1>3, <1>4, <1>6, SendFacts
    <2>2. /\ TypeOK' /\ OpenChannelIsRouted' /\ EntriesMatch'
          /\ OpenerHasYoungest' /\ OtherHasYoungest' /\ OtherHasIt'
          /\ RequestGrows /\ LessOpen /\ OverStays
      BY <1>1, <2>1, SameEntries
    <2>3. \A x \in End, y \in Message : MessageMatches(x, y) => MessageMatches(x, y)'
      BY <1>1, <2>1, SameEntries
    <2>4. LinkOrdered' /\ LinkAhead'
      <3>1. m.type \in {"Data", "Close"} /\ Wrote(Other(f), m) /\ request' = request
        BY <1>1, <1>3, <1>4, <2>1
      <3> QED BY <1>1, <1>4, <1>6, <2>1, <2>2, <3>1, LinksAfterSend
    <2>5. LinkMatches'
      <3>1. /\ LinkMatches /\ Matching(e) /\ Matching(f) /\ alive'[e] /\ alive'[f] = alive[f]
            /\ channel[Other(e)][n] # "none"
        BY <1>1, <1>2, <1>3, <1>6, LinkParts, EndFacts
      <3>2. MessageMatches(e, m)'
        BY <1>1, <1>2, <1>4, <3>1 DEF MessageMatches
      <3>3. Matching(e)'
        BY <1>2, <1>3, <1>4, <2>1, <2>3, <3>1, <3>2, MatchesWhenWrote
      <3>4. Matching(f)'
        BY <1>2, <2>1, <2>3, <3>1, MatchesWhenKept
      <3> QED BY <1>3, <3>3, <3>4 DEF LinkMatches, Matching
    <2>6. OldAreClosed'
      <3>1. ASSUME NEW x \in End, NEW id \in Id, <<Other(x), id>> \in MayOpen
            PROVE  OldExcept(link[x], channel[x], openChannels[x][id], id, Current(Other(x), id))
        BY <1>6, <3>1, OldAreClosedAt DEF RoutingInvariant
      <3>2. \A x \in End, id \in Id :
              Current(x, id)' = Current(x, id) /\ openChannels'[x][id] = openChannels[x][id]
        BY <1>1 DEF Current
      <3>3. ASSUME NEW id \in Id, <<f, id>> \in MayOpen, NEW c, c = Current(f, id)
            PROVE  OldExcept(link'[e], channel'[e], openChannels'[e][id], id, c)
        <4>1. m.id = id => m.n = c
          <5>1. m.type \in {"Data", "Close"}
            BY <1>4
          <5>2. <<f, m.id>> \in MayOpen => Current(f, m.id) = n
            BY <1>1, <1>4, <1>6, <5>1, SentInItsPlace
          <5> QED BY <1>4, <3>3, <5>2
        <4>2. OldExcept(link[e], channel[e], openChannels[e][id], id, c)
          BY <1>3, <3>1, <3>3
        <4>3. openChannels'[e][id] \in {openChannels[e][id], None}
          BY <3>2
        <4> QED BY <1>2, <2>1, <2>2, <4>1, <4>2, <4>3, SameOldWhenWrote
      <3>4. ASSUME NEW id \in Id, <<e, id>> \in MayOpen, NEW c, c = Current(e, id)
            PROVE  OldExcept(link'[f], channel'[f], openChannels'[f][id], id, c)
        <4>1. OldExcept(link[f], channel[f], openChannels[f][id], id, c)
          BY <1>3, <3>1, <3>4
        <4>2. openChannels'[f][id] \in {openChannels[f][id], None}
          BY <3>2
        <4> QED BY <1>2, <2>1, <2>2, <4>1, <4>2, SameOldWhenKept
      <3> QED BY <1>3, <3>2, <3>3, <3>4, OldParts
    <2>7. HandshakeGoesOn'
      <3>1. \A x \in End : \A type, k : InFlight(link[x], type, k) => InFlight(link'[x], type, k)
        <4>1. \A type, k : InFlight(link[e], type, k) => InFlight(link'[e], type, k)
          BY <1>2, <1>3, <1>4, <2>1, InFlightWhenWrote
        <4>2. \A type, k : InFlight(link[f], type, k) => InFlight(link'[f], type, k)
          BY <2>1, InFlightWhenKept
        <4> QED BY <1>3, <4>1, <4>2
      <3> QED BY <1>1, <1>6, <3>1, SameHandshake DEF RoutingInvariant
    <2> QED BY <2>2, <2>4, <2>5, <2>6, <2>7 DEF RoutingInvariant
  <1> QED BY <1>5, <1>6
-----------------------------------------------------------------------------
(* What the message an end is about to handle may be *)

LEMMA HeadExpected ==
    ASSUME OneOpens, RoutingInvariant, NEW e \in End, link[e] # <<>>,
           NEW m \in Message, m = Head(link[e])
    PROVE  /\ m = link[e][1] /\ 1 \in 1 .. Len(link[e])
           /\ MessageMatches(e, m) /\ alive[e]
           /\ m.type = "Open" => openChannels[e][m.id] = None
           /\ m.type = "AckOpen" => pendingOpen[e][m.id] = m.n
           /\ m.type \in {"Data", "Close"} => openChannels[e][m.id] \in {None, m.n}
  <1>1. /\ m = link[e][1] /\ 1 \in 1 .. Len(link[e]) /\ TypeOK /\ EntriesMatch
        /\ m.id \in Id /\ m.n \in Number /\ m.n \in Nat
    BY MessageTyped, NumberFacts DEF RoutingInvariant, TypeOK
  <1>2. MessageMatches(e, m) /\ alive[e]
    <2>1. Matching(e)
      BY LinkParts DEF RoutingInvariant
    <2> QED BY <1>1, <2>1 DEF Matching, TypeOK
  <1>3. ComesAfterOpen(e, m, 0)
    BY <1>1 DEF RoutingInvariant, LinkAhead
  <1>4. \A n : ~ Closes(link[e], n, 1, 0)
    BY DEF Closes
  <1>5. /\ m.n >= openChannels[e][m.id]
        /\ request[m.n].end = Other(e) => openChannels[e][m.id] \in {None, m.n}
    BY <1>3, <1>4 DEF ComesAfterOpen
  <1>6. openChannels[e][m.id] \in Nat
    BY <1>1, OpenTyped
  <1>7. ASSUME m.type = "Open"
        PROVE  openChannels[e][m.id] = None
    <2>1. request[m.n].end = Other(e) /\ channel[e][m.n] = "none"
      BY <1>1, <1>2, <1>7 DEF MessageMatches
    <2>2. openChannels[e][m.id] = m.n => channel[e][m.n] = "open"
      BY <1>1, NumberFacts, EntryFacts
    <2> QED BY <1>5, <2>1, <2>2
  <1>8. m.type = "AckOpen" => pendingOpen[e][m.id] = m.n
    BY <1>2 DEF MessageMatches
  <1>9. openChannels[e][m.id] \in {None, m.n}
    <2>1. m.n \in DOMAIN request /\ request[m.n].id = m.id
      BY <1>2 DEF MessageMatches
    <2>2. CASE request[m.n].end = Other(e)
      BY <1>5, <2>2
    <2>3. CASE request[m.n].end = e /\ openChannels[e][m.id] # None
      <3>1. <<e, m.id>> \in MayOpen
        BY <1>1, <2>1, <2>3, OpenerFacts
      <3>2. Current(e, m.id) = openChannels[e][m.id]
        BY <1>1, <2>3, EntryFacts DEF Current
      <3>3. m.n <= openChannels[e][m.id]
        BY <1>1, <2>1, <2>3, <3>1, <3>2 DEF RoutingInvariant, OpenerHasYoungest
      <3> QED BY <1>1, <1>5, <1>6, <3>3
    <2>4. request[m.n].end = e \/ request[m.n].end = Other(e)
      BY <1>1, <2>1, OpenerFacts, EndFacts
    <2> QED BY <2>2, <2>3, <2>4
  <1> QED BY <1>1, <1>2, <1>7, <1>8, <1>9

LEMMA OldWhileSame ==
    ASSUME RoutingInvariant, NEW f \in End, NEW id \in Id, <<f, id>> \in MayOpen, BothAlive,
           NEW c, c = Current(f, id)
    PROVE  OldExcept(link[Other(f)], channel[Other(f)], openChannels[Other(f)][id], id, c)
  BY EndFacts, OldAreClosedAt DEF RoutingInvariant

\* Data, and a Close that finds nothing, only leave the link.
LEMMA TakeWithoutEffect ==
    ASSUME OneOpens, RoutingInvariant, NEW e \in End, link[e] # <<>>, link' = Taken(e),
           UNCHANGED <<alive, pendingOpen, openChannels, channel, request, resolvedTo>>,
           Head(link[e]).type \in {"Data", "Close"},
           Head(link[e]).type = "Close" => openChannels[e][Head(link[e]).id] = None
    PROVE  RoutingInvariant'
  <1>1. TypeOK /\ LinkMatches /\ LinkOrdered /\ HandshakeGoesOn
    BY DEF RoutingInvariant
  <1>2. PICK f \in End : f = Other(e) /\ Other(f) = e /\ e # f /\ \A x \in End : x = e \/ x = f
    BY EndFacts
  <1>3. Took(e) /\ Kept(f) /\ link' \in [End -> Seq(Message)]
    BY <1>1, <1>2, TakenFacts
  <1>4. PICK m \in Message : m = Head(link[e]) /\ m.id \in Id
    BY <1>1, <1>3, TookFacts, MessageTyped
  <1>5. m = link[e][1] /\ MessageMatches(e, m) /\ alive[e]
    BY <1>4, HeadExpected
  <1>6. /\ TypeOK' /\ OpenChannelIsRouted' /\ EntriesMatch'
        /\ OpenerHasYoungest' /\ OtherHasYoungest' /\ OtherHasIt'
        /\ RequestGrows /\ LessOpen /\ OverStays
    BY <1>3, SameEntries
  <1>7. \A x \in End, y \in Message : MessageMatches(x, y) => MessageMatches(x, y)'
    BY <1>3, SameEntries
  <1>8. LinkOrdered' /\ LinkAhead'
    BY <1>2, <1>3, <1>4, <1>6, LinksAfterTake
  <1>9. LinkMatches'
    <2>1. Matching(e) /\ Matching(f) /\ alive'[e] /\ alive'[f] = alive[f]
      BY <1>1, <1>2, <1>5, LinkParts
    <2>2. Matching(e)'
      BY <1>1, <1>3, <1>7, <2>1, MatchesWhenTook
    <2>3. Matching(f)'
      BY <1>1, <1>3, <1>7, <2>1, MatchesWhenKept
    <2> QED BY <1>2, <2>2, <2>3 DEF LinkMatches, Matching
  <1>10. OldAreClosed'
    <2>1. CASE ~ BothAlive
      BY <2>1 DEF OldAreClosed, BothAlive
    <2>2. CASE BothAlive
      <3>2. \A x \in End, id \in Id :
              Current(x, id)' = Current(x, id) /\ openChannels'[x][id] \in {openChannels[x][id], None}
        BY DEF Current
      <3>3. ASSUME NEW id \in Id, <<f, id>> \in MayOpen, NEW c, c = Current(f, id)
            PROVE  OldExcept(link'[e], channel'[e], openChannels'[e][id], id, c)
        <4>1. OldExcept(link[e], channel[e], openChannels[e][id], id, c)
          BY <1>2, <2>2, <3>3, OldWhileSame
        <4>2. openChannels'[e][id] # None =>
                Head(link[e]).type # "Close" \/ Head(link[e]).n # openChannels[e][id]
          <5>1. ASSUME openChannels[e][id] # None, m.n = openChannels[e][id]
                PROVE  m.type # "Close"
            <6>1. request[m.n].id = id
              BY <5>1, EntryFacts DEF RoutingInvariant
            <6>2. m.id = id
              BY <1>5, <6>1 DEF MessageMatches
            <6> QED BY <1>4, <5>1, <6>2
          <5> QED BY <1>4, <3>2, <5>1
        <4>3. openChannels'[e][id] \in {openChannels[e][id], None}
          BY <3>2
        <4> QED BY <1>1, <1>3, <1>6, <4>1, <4>2, <4>3, OldWhenTook
      <3>4. ASSUME NEW id \in Id, <<e, id>> \in MayOpen, NEW c, c = Current(e, id)
            PROVE  OldExcept(link'[f], channel'[f], openChannels'[f][id], id, c)
        <4>1. OldExcept(link[f], channel[f], openChannels[f][id], id, c)
          BY <1>2, <2>2, <3>4, OldWhileSame
        <4>2. openChannels'[f][id] \in {openChannels[f][id], None}
          BY <1>2, <3>2
        <4> QED BY <1>1, <1>3, <1>6, <4>1, <4>2, SameOldWhenKept
      <3> QED BY <1>2, <3>2, <3>3, <3>4, OldParts
    <2> QED BY <2>1, <2>2
  <1>11. HandshakeGoesOn'
    <2>1. \A type, k : InFlight(link[f], type, k) => InFlight(link'[f], type, k)
      BY <1>3, InFlightWhenKept
    <2>2. \A type, k : InFlight(link[e], type, k) =>
            InFlight(link'[e], type, k) \/ (type = m.type /\ k = m.n)
      BY <1>1, <1>3, <1>4, InFlightWhenTook
    <2> SUFFICES ASSUME BothAlive, NEW x \in End, NEW id \in Id, <<x, id>> \in MayOpen
                 PROVE  /\ pendingOpen[x][id] # None =>
                             \/ InFlight(link'[Other(x)], "Open", pendingOpen[x][id])
                             \/ /\ InFlight(link'[x], "AckOpen", pendingOpen[x][id])
                                /\ Shared(link'[x], openChannels[Other(x)][id], pendingOpen[x][id])
                        /\ openChannels[x][id] # None =>
                             Shared(link'[x], openChannels[Other(x)][id], openChannels[x][id])
      BY DEF HandshakeGoesOn, BothAlive, Shared
    <2>3. /\ pendingOpen[x][id] # None =>
               \/ InFlight(link[Other(x)], "Open", pendingOpen[x][id])
               \/ /\ InFlight(link[x], "AckOpen", pendingOpen[x][id])
                  /\ Shared(link[x], openChannels[Other(x)][id], pendingOpen[x][id])
          /\ openChannels[x][id] # None =>
               Shared(link[x], openChannels[Other(x)][id], openChannels[x][id])
      BY <1>1 DEF HandshakeGoesOn
    <2>4. CASE x = f
      BY <1>2, <1>4, <2>1, <2>2, <2>3, <2>4 DEF Shared
    <2>5. CASE x = e
      <3>1. ASSUME openChannels[e][id] # None, m.n = openChannels[e][id]
            PROVE  m.type # "Close"
        <4>1. m.id = id
          BY <1>5, <3>1, EntryFacts DEF RoutingInvariant, MessageMatches
        <4> QED BY <1>4, <3>1, <4>1
      <3>2. ASSUME pendingOpen[e][id] # None, m.n = pendingOpen[e][id],
                   InFlight(link[e], "AckOpen", pendingOpen[e][id])
            PROVE  FALSE
        <4>1. PICK i \in 1 .. Len(link[e]) : link[e][i].type = "AckOpen" /\ link[e][i].n = m.n
          BY <3>2 DEF InFlight
        <4>2. i # 1 /\ 1 \in 1 .. Len(link[e]) /\ 1 < i
          BY <1>1, <1>4, <1>5, <4>1, LinkTyped
        <4>3. link[e][i].id = m.id
          BY <1>1, <1>5, <4>1 DEF LinkMatches, MessageMatches
        <4>4. ComesBefore(e, 1, link[e][i], i - 1)
          BY <1>1, <4>2 DEF LinkOrdered
        <4> QED BY <1>5, <4>1, <4>3, <4>4 DEF ComesBefore
      <3> QED BY <1>2, <1>4, <2>1, <2>2, <2>3, <2>5, <3>1, <3>2 DEF Shared
    <2> QED BY <1>2, <2>4, <2>5
  <1> QED BY <1>6, <1>8, <1>9, <1>10, <1>11 DEF RoutingInvariant

LEMMA HandleDataStep ==
    ASSUME OneOpens, RoutingInvariant, NEW e \in End, HandleData(e)
    PROVE  RoutingInvariant'
  BY TakeWithoutEffect DEF HandleData, Receives

\* Channel n of f comes to s, and nothing else is touched but the links.
Ends(f, n, s) ==
    /\ channel[f][n] = "open" /\ s \in {"told", "closed"}
    /\ channel' = [channel EXCEPT ![f][n] = s]
    /\ openChannels' = [openChannels EXCEPT ![f][request[n].id] = None]
    /\ UNCHANGED <<alive, pendingOpen, request, resolvedTo>>
    /\ link' \in [End -> Seq(Message)]

\* What holds of the entries alone, and what the links need of them.
EntriesHold ==
    /\ TypeOK' /\ OpenChannelIsRouted' /\ EntriesMatch'
    /\ OpenerHasYoungest' /\ OtherHasYoungest' /\ OtherHasIt'
    /\ RequestGrows /\ LessOpen /\ OverStays
StaysMatched == \A e \in End, m \in Message : MessageMatches(e, m) => MessageMatches(e, m)'

\* An end no longer has channel n: its own close(), or one it is told of.
LEMMA ChannelEnds ==
    ASSUME RoutingInvariant, NEW f \in End, NEW n \in Number, NEW s, Ends(f, n, s),
           NEW id, id = request[n].id
    PROVE  /\ EntriesHold /\ StaysMatched
           /\ openChannels[f][id] = n
           /\ \A x \in End, i \in Id : openChannels'[x][i] =
                IF x = f /\ i = id THEN None ELSE openChannels[x][i]
           /\ \A x \in End, k \in Number : channel'[x][k] =
                IF x = f /\ k = n THEN s ELSE channel[x][k]
  <1>0. /\ channel[f][n] = "open" /\ s \in {"told", "closed"}
        /\ channel' = [channel EXCEPT ![f][n] = s]
        /\ openChannels' = [openChannels EXCEPT ![f][id] = None]
        /\ UNCHANGED <<alive, pendingOpen, request, resolvedTo>>
        /\ link' \in [End -> Seq(Message)]
    BY DEF Ends
  <1>1. TypeOK /\ n \in DOMAIN request /\ id \in Id
    BY <1>0, RequestFacts DEF RoutingInvariant, EntriesMatch, ChannelsAreRequested
  <1>2. id \in Id /\ id = request[n].id
    BY <1>0, <1>1
  <1>3. \A x \in End, k \in Number : channel'[x][k] = IF x = f /\ k = n THEN s ELSE channel[x][k]
    BY <1>0, <1>1 DEF TypeOK
  <1>4. \A x \in End, i \in Id : openChannels'[x][i] =
          IF x = f /\ i = id THEN None ELSE openChannels[x][i]
    BY <1>0, <1>1, <1>2 DEF TypeOK
  <1>5. openChannels[f][id] = n /\ n # None
    BY <1>0, <1>1, <1>2, NumberFacts DEF RoutingInvariant, OpenChannelIsRouted
  <1>6. TypeOK'
    <2>1. openChannels' \in [End -> [Id -> 0 .. MaxOpens]]
      BY <1>0, <1>1, NumberFacts DEF TypeOK
    <2>2. channel' \in [End -> [Number -> {"none", "open", "told", "closed"}]]
      BY <1>0, <1>1 DEF TypeOK
    <2> QED BY <1>0, <1>1, <2>1, <2>2 DEF TypeOK
  <1>7. \A k \in DOMAIN request : k \in Number /\ k # None /\ request[k].id \in Id
    BY <1>1, RequestFacts
  <1>8. OpenChannelIsRouted'
    <2> SUFFICES ASSUME NEW x \in End, NEW k \in Number, channel'[x][k] = "open"
                 PROVE  openChannels'[x][request[k].id] = k
      BY <1>0 DEF OpenChannelIsRouted
    <2>1. channel[x][k] = "open" /\ ~ (x = f /\ k = n)
      BY <1>0, <1>3
    <2>2. openChannels[x][request[k].id] = k /\ request[k].id \in Id
      BY <1>0, <1>7, <2>1 DEF RoutingInvariant, OpenChannelIsRouted, EntriesMatch, ChannelsAreRequested
    <2> QED BY <1>4, <1>5, <2>1, <2>2
  <1>9. EntriesMatch'
    <2>1. ChannelsAreRequested'
      BY <1>0, <1>1, <1>3 DEF RoutingInvariant, EntriesMatch, ChannelsAreRequested
    <2>2. PendingHasNone'
      BY <1>0, <1>3, <1>4, <1>7 DEF RoutingInvariant, EntriesMatch, PendingHasNone
    <2>3. OpenHasChannel'
      BY <1>0, <1>2, <1>3, <1>4, <1>7 DEF RoutingInvariant, EntriesMatch, OpenHasChannel
    <2> QED BY <2>1, <2>2, <2>3 DEF EntriesMatch
  <1>10. OpenerHasYoungest'
    BY <1>0, <1>4 DEF RoutingInvariant, OpenerHasYoungest, Current
  <1>11. OtherHasYoungest'
    BY <1>0, <1>3, <1>4, <1>7 DEF RoutingInvariant, OtherHasYoungest
  <1>12. OtherHasIt'
    BY <1>0, <1>3, <1>7, EndFacts DEF RoutingInvariant, OtherHasIt
  <1>13. RequestGrows /\ LessOpen /\ OverStays
    BY <1>0, <1>3, <1>4 DEF RequestGrows, LessOpen, LessOpenOf, OverStays, Over
  <1>14. ASSUME NEW e \in End, NEW m \in Message, MessageMatches(e, m)
         PROVE  MessageMatches(e, m)'
    <2>1. m.n \in Number /\ Other(e) \in End
      BY MessageTyped, EndFacts
    <2>2. \A k \in DOMAIN request : channel[e][k] = "none" => channel'[e][k] = "none"
      BY <1>0, <1>3, <1>7
    <2>3. /\ channel[Other(e)][m.n] # "none" => channel'[Other(e)][m.n] # "none"
          /\ channel[Other(e)][m.n] = "closed" => channel'[Other(e)][m.n] = "closed"
      BY <1>0, <1>3, <2>1
    <2> QED BY <1>0, <1>14, <2>2, <2>3 DEF MessageMatches
  <1>15. EntriesHold
    BY <1>6, <1>8, <1>9, <1>10, <1>11, <1>12, <1>13 DEF EntriesHold
  <1>16. StaysMatched
    BY <1>14 DEF StaysMatched
  <1> QED BY <1>3, <1>4, <1>5, <1>15, <1>16

\* A step after which the links are as they were, or empty.
LEMMA LinksAfterKeep ==
    ASSUME RoutingInvariant, \A x \in End : Kept(x) \/ Dropped(x), RequestGrows, LessOpen, OverStays
    PROVE  LinkOrdered' /\ LinkAhead'
  <1>1. TypeOK /\ LinkMatches /\ \A x \in End : Ordered(x) /\ Ahead(x)
    BY LinkParts DEF RoutingInvariant
  <1>2. ASSUME NEW x \in End
        PROVE  Ordered(x)' /\ Ahead(x)'
    BY <1>1, OrderedWhenKept, AheadWhenKept
  <1> QED BY <1>2 DEF LinkOrdered, Ordered, LinkAhead, Ahead

LEMMA CloseStep ==
    ASSUME OneOpens, RoutingInvariant, NEW f \in End, NEW n \in Number, Close(f, n)
    PROVE  RoutingInvariant'
  <1>1. /\ channel[f][n] = "open"
        /\ channel' = [channel EXCEPT ![f][n] = "closed"]
        /\ openChannels' = [openChannels EXCEPT ![f][request[n].id] = None]
        /\ UNCHANGED <<alive, pendingOpen, request, resolvedTo>>
    BY DEF Close
  <1>2. TypeOK /\ LinkMatches /\ n \in DOMAIN request /\ request[n].id \in Id
    BY <1>1, RequestFacts DEF RoutingInvariant, EntriesMatch, ChannelsAreRequested
  <1>3. PICK e \in End : e = Other(f) /\ Other(e) = f /\ e # f /\ \A x \in End : x = e \/ x = f
    BY EndFacts
  <1>4. PICK m \in Message :
          m.type = "Close" /\ m.id = request[n].id /\ m.n = n /\ link' = Send(link, f, m)
    BY <1>2, MsgFacts DEF MessageType, Close
  <1>5. /\ link' \in [End -> Seq(Message)] /\ Kept(f)
        /\ BothAlive => Wrote(e, m)
        /\ ~ BothAlive => Kept(e)
    BY <1>2, <1>3, <1>4, SendFacts
  <1>6. Ends(f, n, "closed")
    BY <1>1, <1>5 DEF Ends
  <1>7. /\ EntriesHold /\ StaysMatched
        /\ openChannels[f][m.id] = n
        /\ \A x \in End, i \in Id : openChannels'[x][i] =
             IF x = f /\ i = m.id THEN None ELSE openChannels[x][i]
        /\ \A x \in End, k \in Number : channel'[x][k] =
             IF x = f /\ k = n THEN "closed" ELSE channel[x][k]
    BY <1>4, <1>6, ChannelEnds
  <1>7a. /\ TypeOK' /\ OpenChannelIsRouted' /\ EntriesMatch'
         /\ OpenerHasYoungest' /\ OtherHasYoungest' /\ OtherHasIt'
         /\ RequestGrows /\ LessOpen /\ OverStays
    BY <1>7 DEF EntriesHold
  <1>7b. \A x \in End, y \in Message : MessageMatches(x, y) => MessageMatches(x, y)'
    BY <1>7 DEF StaysMatched
  <1>8. Matching(e) /\ Matching(f) /\ alive'[e] = alive[e] /\ alive'[f] = alive[f]
    BY <1>1, <1>2, LinkParts
  <1>9. CASE ~ BothAlive
    <2>1. \A x \in End : Kept(x) \/ Dropped(x)
      BY <1>3, <1>5, <1>9
    <2>2. LinkOrdered' /\ LinkAhead'
      BY <1>7, <1>7a, <2>1, LinksAfterKeep
    <2>3. Matching(e)' /\ Matching(f)'
      BY <1>2, <1>5, <1>7b, <1>8, <1>9, MatchesWhenKept
    <2>4. LinkMatches'
      BY <1>3, <2>3 DEF LinkMatches, Matching
    <2>5. OldAreClosed' /\ HandshakeGoesOn'
      BY <1>1, <1>9 DEF OldAreClosed, HandshakeGoesOn, BothAlive
    <2> QED BY <1>7, <1>7a, <2>2, <2>4, <2>5 DEF RoutingInvariant
  <1>10. CASE BothAlive
    <2>1. Wrote(e, m) /\ Kept(f)
      BY <1>5, <1>10
    <2>2. LinkOrdered' /\ LinkAhead'
      <3>1. m.type \in {"Data", "Close"} /\ Wrote(Other(f), m) /\ request' = request
        BY <1>1, <1>3, <1>4, <2>1
      <3> QED BY <1>1, <1>4, <1>7, <1>7a, <1>10, <2>1, <3>1, LinksAfterSend
    <2>3. LinkMatches'
      <3>1. MessageMatches(e, m)'
        BY <1>1, <1>2, <1>3, <1>4, <1>7 DEF MessageMatches
      <3>2. alive'[e]
        BY <1>8, <1>10, EndFacts
      <3>3. Matching(e)'
        BY <1>2, <1>4, <1>7b, <1>8, <2>1, <3>1, <3>2, MatchesWhenWrote
      <3>4. Matching(f)'
        BY <1>2, <1>7b, <1>8, <2>1, MatchesWhenKept
      <3> QED BY <1>3, <3>3, <3>4 DEF LinkMatches, Matching
    <2>4. OldAreClosed'
      <3>1. ASSUME NEW id \in Id, <<f, id>> \in MayOpen, NEW d, d = Current(f, id)'
            PROVE  OldExcept(link'[e], channel'[e], openChannels'[e][id], id, d)
        <4>1. PICK c : c = Current(f, id)
          OBVIOUS
        <4>2. OldExcept(link[e], channel[e], openChannels[e][id], id, c)
          BY <1>3, <1>10, <3>1, <4>1, OldWhileSame
        <4>3. d = c \/ (m.type = "Close" /\ m.n = c)
          <5>1. CASE id = m.id
            <6>1. m.type \in {"Data", "Close"}
              BY <1>4
            <6>2. Current(f, id) = n
              BY <1>1, <1>4, <1>10, <3>1, <5>1, <6>1, SentInItsPlace
            <6> QED BY <1>4, <4>1, <6>2
          <5>2. CASE id # m.id
            BY <1>1, <1>7, <3>1, <4>1, <5>2 DEF Current
          <5> QED BY <5>1, <5>2
        <4>4. openChannels'[e][id] \in {openChannels[e][id], None}
          BY <1>7
        <4>5. m.id = id => m.n = d \/ m.type = "Close"
          BY <1>4
        <4> QED BY <1>2, <1>7a, <2>1, <4>2, <4>3, <4>4, <4>5, OldWhenWrote
      <3>2. ASSUME NEW id \in Id, <<e, id>> \in MayOpen, NEW c, c = Current(e, id)'
            PROVE  OldExcept(link'[f], channel'[f], openChannels'[f][id], id, c)
        <4>1. c = Current(e, id)
          BY <1>1, <1>3, <1>7, <3>2 DEF Current
        <4>2. OldExcept(link[f], channel[f], openChannels[f][id], id, c)
          BY <1>3, <1>10, <3>2, <4>1, OldWhileSame
        <4>3. openChannels'[f][id] \in {openChannels[f][id], None}
          BY <1>7
        <4> QED BY <1>2, <1>7a, <2>1, <4>2, <4>3, SameOldWhenKept
      <3> QED BY <1>3, <3>1, <3>2, OldParts
    <2>5. HandshakeGoesOn'
      <3>1. /\ \A type, k : InFlight(link[e], type, k) => InFlight(link'[e], type, k)
            /\ InFlight(link'[e], "Close", n)
        BY <1>2, <1>4, <2>1, InFlightWhenWrote
      <3>2. \A type, k : InFlight(link[f], type, k) => InFlight(link'[f], type, k)
        BY <2>1, InFlightWhenKept
      <3> SUFFICES ASSUME NEW x \in End, NEW id \in Id, <<x, id>> \in MayOpen
                   PROVE  /\ pendingOpen[x][id] # None =>
                               \/ InFlight(link'[Other(x)], "Open", pendingOpen[x][id])
                               \/ /\ InFlight(link'[x], "AckOpen", pendingOpen[x][id])
                                  /\ Shared(link'[x], openChannels'[Other(x)][id], pendingOpen[x][id])
                          /\ openChannels'[x][id] # None =>
                               Shared(link'[x], openChannels'[Other(x)][id], openChannels'[x][id])
        BY <1>1 DEF HandshakeGoesOn, Shared
      <3>3. /\ pendingOpen[x][id] # None =>
                 \/ InFlight(link[Other(x)], "Open", pendingOpen[x][id])
                 \/ /\ InFlight(link[x], "AckOpen", pendingOpen[x][id])
                    /\ Shared(link[x], openChannels[Other(x)][id], pendingOpen[x][id])
            /\ openChannels[x][id] # None =>
                 Shared(link[x], openChannels[Other(x)][id], openChannels[x][id])
        BY <1>10 DEF HandshakeGoesOn, RoutingInvariant
      <3>4. CASE x = f
        BY <1>3, <1>7, <3>1, <3>2, <3>3, <3>4 DEF Shared
      <3>5. CASE x = e
        BY <1>3, <1>7, <3>1, <3>2, <3>3, <3>5 DEF Shared
      <3> QED BY <1>3, <3>4, <3>5
    <2> QED BY <1>7, <1>7a, <2>2, <2>3, <2>4, <2>5 DEF RoutingInvariant
  <1> QED BY <1>9, <1>10

LEMMA HandleCloseStep ==
    ASSUME OneOpens, RoutingInvariant, NEW e \in End, HandleClose(e)
    PROVE  RoutingInvariant'
  <1>1. /\ link[e] # <<>> /\ Head(link[e]).type = "Close" /\ link' = Taken(e)
        /\ UNCHANGED <<alive, pendingOpen, request, resolvedTo>>
    BY DEF HandleClose, Receives
  <1>2. TypeOK /\ LinkMatches /\ HandshakeGoesOn
    BY DEF RoutingInvariant
  <1>3. PICK f \in End : f = Other(e) /\ Other(f) = e /\ e # f /\ \A x \in End : x = e \/ x = f
    BY EndFacts
  <1>4. Took(e) /\ Kept(f) /\ link' \in [End -> Seq(Message)]
    BY <1>1, <1>2, <1>3, TakenFacts
  <1>5. PICK m \in Message : m = Head(link[e]) /\ m.type = "Close" /\ m.id \in Id /\ m.n \in Number
    BY <1>1, <1>2, <1>4, TookFacts, MessageTyped
  <1>6. CASE openChannels[e][m.id] = None
    <2>1. UNCHANGED <<openChannels, channel>>
      BY <1>5, <1>6 DEF HandleClose
    <2> QED BY <1>1, <1>5, <1>6, <2>1, TakeWithoutEffect
  <1>7. CASE openChannels[e][m.id] # None
    <2>1. /\ openChannels[e][m.id] = m.n /\ MessageMatches(e, m) /\ alive[e]
          /\ m.n \in DOMAIN request /\ request[m.n].id = m.id
          /\ channel[f][m.n] = "closed"
      <3>1. /\ MessageMatches(e, m) /\ alive[e]
            /\ m.type \in {"Data", "Close"} => openChannels[e][m.id] \in {None, m.n}
        BY <1>1, <1>5, HeadExpected
      <3> QED BY <1>3, <1>5, <1>7, <3>1 DEF MessageMatches
    <2>2. channel[e][m.n] = "open" /\ pendingOpen[e][m.id] = None
      BY <1>5, <1>7, <2>1, EntryFacts DEF RoutingInvariant
    <2>3. Ends(e, m.n, "told")
      <3>1. Told(e, m.n) /\ openChannels' = [openChannels EXCEPT ![e][m.id] = None]
        BY <1>5, <1>7, <2>1 DEF HandleClose
      <3> QED BY <1>1, <1>4, <2>1, <2>2, <3>1 DEF Ends, Told
    <2>4. /\ EntriesHold /\ StaysMatched
          /\ \A x \in End, i \in Id : openChannels'[x][i] =
               IF x = e /\ i = m.id THEN None ELSE openChannels[x][i]
          /\ \A x \in End, k \in Number : channel'[x][k] =
               IF x = e /\ k = m.n THEN "told" ELSE channel[x][k]
      BY <1>5, <2>1, <2>3, ChannelEnds
    <2>5. /\ TypeOK' /\ OpenChannelIsRouted' /\ EntriesMatch'
          /\ OpenerHasYoungest' /\ OtherHasYoungest' /\ OtherHasIt'
          /\ RequestGrows /\ LessOpen /\ OverStays
      BY <2>4 DEF EntriesHold
    <2>6. \A x \in End, y \in Message : MessageMatches(x, y) => MessageMatches(x, y)'
      BY <2>4 DEF StaysMatched
    <2>7. LinkOrdered' /\ LinkAhead'
      <3>1. Head(link[e]).type = "Close" => openChannels'[e][Head(link[e]).id] = None
        BY <1>5, <2>4
      <3> QED BY <1>1, <1>3, <1>4, <2>5, <3>1, LinksAfterTake
    <2>8. LinkMatches'
      <3>1. Matching(e) /\ Matching(f) /\ alive'[e] /\ alive'[f] = alive[f]
        BY <1>1, <1>2, <2>1, LinkParts
      <3>2. Matching(e)'
        BY <1>2, <1>4, <2>6, <3>1, MatchesWhenTook
      <3>3. Matching(f)'
        BY <1>2, <1>4, <2>6, <3>1, MatchesWhenKept
      <3> QED BY <1>3, <3>2, <3>3 DEF LinkMatches, Matching
    <2>9. \A i \in Id : openChannels[e][i] = m.n => i = m.id
      BY <1>5, <2>1, NumberFacts, EntryFacts DEF RoutingInvariant
    <2>10. \A i \in Id : openChannels[f][i] # m.n /\ pendingOpen[f][i] # m.n
      BY <1>5, <2>1, NumberFacts, EntryFacts DEF RoutingInvariant
    <2>11. \A i \in Id : pendingOpen[e][i] # m.n
      BY <1>5, <2>2, NumberFacts, EntryFacts DEF RoutingInvariant
    <2>12. CASE ~ BothAlive
      <3>1. OldAreClosed' /\ HandshakeGoesOn'
        BY <1>1, <2>12 DEF OldAreClosed, HandshakeGoesOn, BothAlive
      <3> QED BY <2>5, <2>7, <2>8, <3>1 DEF RoutingInvariant
    <2>13. CASE BothAlive
      <3>1. OldAreClosed'
        <4>1. ASSUME NEW id \in Id, <<f, id>> \in MayOpen, NEW c, c = Current(f, id)'
              PROVE  OldExcept(link'[e], channel'[e], openChannels'[e][id], id, c)
          <5>1. c = Current(f, id)
            BY <1>1, <1>3, <2>4, <4>1 DEF Current
          <5>2. OldExcept(link[e], channel[e], openChannels[e][id], id, c)
            BY <1>3, <2>13, <4>1, <5>1, OldWhileSame
          <5>3. openChannels'[e][id] \in {openChannels[e][id], None, c}
            BY <2>4
          <5>4. openChannels'[e][id] # None =>
                  Head(link[e]).type # "Close" \/ Head(link[e]).n # openChannels[e][id]
            BY <1>5, <2>4, <2>9
          <5> QED BY <1>2, <1>4, <2>5, <5>2, <5>3, <5>4, OldWhenTook
        <4>2. ASSUME NEW id \in Id, <<e, id>> \in MayOpen, NEW d, d = Current(e, id)'
              PROVE  OldExcept(link'[f], channel'[f], openChannels'[f][id], id, d)
          <5>1. PICK c : c = Current(e, id)
            OBVIOUS
          <5>2. OldExcept(link[f], channel[f], openChannels[f][id], id, c)
            BY <1>3, <2>13, <4>2, <5>1, OldWhileSame
          <5>3. openChannels'[f][id] \in {openChannels[f][id], None}
            BY <2>4
          <5>4. c = d \/ (Over(channel'[f], c) /\ openChannels'[f][id] # c)
            <6>1. CASE id = m.id
              <7>1. c = m.n
                BY <2>1, <2>2, <5>1, <6>1 DEF Current
              <7>2. channel'[f][m.n] = "closed" /\ openChannels'[f][id] # m.n
                BY <1>3, <1>5, <2>1, <2>4, <2>10
              <7> QED BY <7>1, <7>2 DEF Over
            <6>2. CASE id # m.id
              BY <1>1, <2>4, <4>2, <5>1, <6>2 DEF Current
            <6> QED BY <6>1, <6>2
          <5> QED BY <1>2, <1>4, <2>5, <5>2, <5>3, <5>4, OldWhenKept
        <4> QED BY <1>3, <4>1, <4>2, OldParts
      <3>2. HandshakeGoesOn'
        <4>1. \A type, k : InFlight(link[f], type, k) => InFlight(link'[f], type, k)
          BY <1>4, InFlightWhenKept
        <4>2. \A type, k : InFlight(link[e], type, k) =>
                InFlight(link'[e], type, k) \/ (type = "Close" /\ k = m.n)
          BY <1>2, <1>4, <1>5, InFlightWhenTook
        <4> SUFFICES ASSUME NEW x \in End, NEW id \in Id, <<x, id>> \in MayOpen
                     PROVE  /\ pendingOpen[x][id] # None =>
                                 \/ InFlight(link'[Other(x)], "Open", pendingOpen[x][id])
                                 \/ /\ InFlight(link'[x], "AckOpen", pendingOpen[x][id])
                                    /\ Shared(link'[x], openChannels'[Other(x)][id], pendingOpen[x][id])
                            /\ openChannels'[x][id] # None =>
                                 Shared(link'[x], openChannels'[Other(x)][id], openChannels'[x][id])
          BY <1>1 DEF HandshakeGoesOn, Shared
        <4>3. /\ pendingOpen[x][id] # None =>
                   \/ InFlight(link[Other(x)], "Open", pendingOpen[x][id])
                   \/ /\ InFlight(link[x], "AckOpen", pendingOpen[x][id])
                      /\ Shared(link[x], openChannels[Other(x)][id], pendingOpen[x][id])
              /\ openChannels[x][id] # None =>
                   Shared(link[x], openChannels[Other(x)][id], openChannels[x][id])
          BY <1>2, <2>13 DEF HandshakeGoesOn
        <4>4. CASE x = f
          BY <1>3, <2>1, <2>4, <2>10, <4>1, <4>2, <4>3, <4>4 DEF Shared
        <4>5. CASE x = e
          BY <1>3, <2>4, <2>9, <2>11, <4>1, <4>2, <4>3, <4>5 DEF Shared
        <4> QED BY <1>3, <4>4, <4>5
      <3> QED BY <2>5, <2>7, <2>8, <3>1, <3>2 DEF RoutingInvariant
    <2> QED BY <2>12, <2>13
  <1> QED BY <1>6, <1>7

\* The end e gets channel n, of id, and nothing of another id is touched but the links.
Opens(e, n, id) ==
    /\ channel[e][n] = "none" /\ n \in DOMAIN request /\ request[n].id = id
    /\ openChannels[e][id] = None /\ pendingOpen[e][id] \in {None, n}
    /\ channel' = [channel EXCEPT ![e][n] = "open"]
    /\ openChannels' = [openChannels EXCEPT ![e][id] = n]
    /\ pendingOpen' = [pendingOpen EXCEPT ![e][id] = None]
    /\ UNCHANGED <<alive, request>>
    /\ resolvedTo' \in [Number -> 0 .. MaxOpens] /\ link' \in [End -> Seq(Message)]

LEMMA ChannelOpens ==
    ASSUME OneOpens, RoutingInvariant, NEW e \in End, NEW n \in Number, NEW id \in Id, Opens(e, n, id),
           <<e, id>> \in MayOpen => pendingOpen[e][id] = n /\ channel[Other(e)][n] # "none",
           <<Other(e), id>> \in MayOpen =>
             \A k \in DOMAIN request : request[k].id = id /\ k > n => channel[e][k] = "none"
    PROVE  /\ TypeOK' /\ OpenChannelIsRouted' /\ EntriesMatch'
           /\ OpenerHasYoungest' /\ OtherHasYoungest' /\ OtherHasIt'
           /\ RequestGrows /\ OverStays
           /\ \A x \in End, i \in Id : openChannels'[x][i] =
                IF x = e /\ i = id THEN n ELSE openChannels[x][i]
           /\ \A x \in End, i \in Id : pendingOpen'[x][i] =
                IF x = e /\ i = id THEN None ELSE pendingOpen[x][i]
           /\ \A x \in End, k \in Number : channel'[x][k] =
                IF x = e /\ k = n THEN "open" ELSE channel[x][k]
  <1>1. TypeOK
    BY DEF RoutingInvariant
  <1>2. /\ channel[e][n] = "none" /\ n \in DOMAIN request /\ request[n].id = id /\ request' = request
        /\ openChannels[e][id] = None /\ pendingOpen[e][id] \in {None, n} /\ n # None /\ n \in Nat
    BY NumberFacts DEF Opens
  <1>3. \A x \in End, k \in Number : channel'[x][k] = IF x = e /\ k = n THEN "open" ELSE channel[x][k]
    BY <1>1 DEF TypeOK, Opens
  <1>4. \A x \in End, i \in Id : openChannels'[x][i] =
          IF x = e /\ i = id THEN n ELSE openChannels[x][i]
    BY <1>1 DEF TypeOK, Opens
  <1>5. \A x \in End, i \in Id : pendingOpen'[x][i] =
          IF x = e /\ i = id THEN None ELSE pendingOpen[x][i]
    BY <1>1 DEF TypeOK, Opens
  <1>6. TypeOK'
    <2>1. /\ openChannels' \in [End -> [Id -> 0 .. MaxOpens]]
          /\ pendingOpen' \in [End -> [Id -> 0 .. MaxOpens]]
      BY <1>1, NumberFacts DEF TypeOK, Opens
    <2>2. channel' \in [End -> [Number -> {"none", "open", "told", "closed"}]]
      BY <1>1 DEF TypeOK, Opens
    <2> QED BY <1>1, <2>1, <2>2 DEF TypeOK, Opens
  <1>7. \A k \in DOMAIN request : k \in Number /\ k # None /\ request[k].id \in Id
    BY <1>1, RequestFacts
  <1>8. OpenChannelIsRouted'
    <2> SUFFICES ASSUME NEW x \in End, NEW k \in Number, channel'[x][k] = "open"
                 PROVE  openChannels'[x][request[k].id] = k
      BY <1>2 DEF OpenChannelIsRouted
    <2>1. CASE x = e /\ k = n
      BY <1>2, <1>4, <2>1
    <2>2. CASE ~ (x = e /\ k = n)
      <3>1. channel[x][k] = "open"
        BY <1>3, <2>2
      <3>2. openChannels[x][request[k].id] = k /\ request[k].id \in Id /\ k # None
        BY <1>7, <3>1 DEF RoutingInvariant, OpenChannelIsRouted, EntriesMatch, ChannelsAreRequested
      <3> QED BY <1>2, <1>4, <3>2
    <2> QED BY <2>1, <2>2
  <1>9. EntriesMatch'
    <2>1. ChannelsAreRequested'
      BY <1>2, <1>3 DEF RoutingInvariant, EntriesMatch, ChannelsAreRequested
    <2>2. PendingHasNone'
      BY <1>2, <1>3, <1>4, <1>5, <1>7 DEF RoutingInvariant, EntriesMatch, PendingHasNone
    <2>3. OpenHasChannel'
      BY <1>2, <1>3, <1>4, <1>7 DEF RoutingInvariant, EntriesMatch, OpenHasChannel
    <2> QED BY <2>1, <2>2, <2>3 DEF EntriesMatch
  <1>10. OpenerHasYoungest'
    <2> SUFFICES ASSUME NEW x \in End, NEW i \in Id, <<x, i>> \in MayOpen, Current(x, i)' # None,
                        NEW k \in DOMAIN request, request[k].id = i
                 PROVE  k <= Current(x, i)'
      BY <1>2 DEF OpenerHasYoungest
    <2>1. Current(x, i)' = Current(x, i)
      BY <1>2, <1>4, <1>5 DEF Current
    <2> QED BY <2>1 DEF RoutingInvariant, OpenerHasYoungest
  <1>11. OtherHasYoungest'
    <2> SUFFICES ASSUME NEW x \in End, NEW i \in Id, <<Other(x), i>> \in MayOpen,
                        openChannels'[x][i] # None,
                        NEW k \in DOMAIN request, request[k].id = i, k > openChannels'[x][i]
                 PROVE  channel'[x][k] = "none"
      BY <1>2 DEF OtherHasYoungest
    <2>1. CASE x = e /\ i = id
      BY <1>2, <1>3, <1>4, <1>7, <2>1
    <2>2. CASE ~ (x = e /\ i = id)
      BY <1>2, <1>3, <1>4, <1>7, <2>2 DEF RoutingInvariant, OtherHasYoungest
    <2> QED BY <2>1, <2>2
  <1>12. OtherHasIt'
    <2> SUFFICES ASSUME NEW k \in DOMAIN request, NEW x \in End, request[k].end = x,
                        channel'[x][k] # "none"
                 PROVE  channel'[Other(x)][k] # "none"
      BY <1>2 DEF OtherHasIt
    <2>1. CASE x = e /\ k = n
      <3>1. <<e, id>> \in MayOpen
        BY <1>1, <1>2, <2>1, OpenerFacts DEF RoutingInvariant
      <3> QED BY <1>3, <2>1, <3>1, EndFacts
    <2>2. CASE ~ (x = e /\ k = n)
      BY <1>3, <1>7, <2>2, EndFacts DEF RoutingInvariant, OtherHasIt
    <2> QED BY <2>1, <2>2
  <1>13. RequestGrows /\ OverStays
    BY <1>2, <1>3 DEF RequestGrows, OverStays, Over
  <1> QED BY <1>3, <1>4, <1>5, <1>6, <1>8, <1>9, <1>10, <1>11, <1>12, <1>13

LEMMA HandleAckOpenStep ==
    ASSUME OneOpens, RoutingInvariant, NEW e \in End, HandleAckOpen(e)
    PROVE  RoutingInvariant'
  <1>1. /\ link[e] # <<>> /\ Head(link[e]).type = "AckOpen" /\ link' = Taken(e)
        /\ UNCHANGED <<alive, request>>
    BY DEF HandleAckOpen, Receives
  <1>2. TypeOK /\ LinkMatches /\ LinkOrdered /\ LinkAhead /\ HandshakeGoesOn /\ EntriesMatch
    BY DEF RoutingInvariant
  <1>3. PICK f \in End : f = Other(e) /\ Other(f) = e /\ e # f /\ \A x \in End : x = e \/ x = f
    BY EndFacts
  <1>4. Took(e) /\ Kept(f) /\ link' \in [End -> Seq(Message)]
    BY <1>1, <1>2, <1>3, TakenFacts
  <1>5. PICK m \in Message : m = Head(link[e]) /\ m.type = "AckOpen" /\ m.id \in Id /\ m.n \in Number
    BY <1>1, <1>2, <1>4, TookFacts, MessageTyped
  <1>6. PICK n \in Number, id \in Id : n = m.n /\ id = m.id
    BY <1>5
  <1>7. m = link[e][1] /\ 1 \in 1 .. Len(link[e]) /\ MessageMatches(e, m) /\ alive[e]
        /\ pendingOpen[e][id] = n
    BY <1>1, <1>5, <1>6, HeadExpected
  <1>8. /\ n \in DOMAIN request /\ request[n].id = id /\ request[n].end = e
        /\ channel[f][n] # "none" /\ n # None /\ n \in Nat
    BY <1>3, <1>5, <1>6, <1>7, NumberFacts DEF MessageMatches
  <1>9. openChannels[e][id] = None /\ channel[e][n] = "none"
    BY <1>2, <1>7, <1>8, EntryFacts
  <1>10. <<e, id>> \in MayOpen /\ <<f, id>> \notin MayOpen
    BY <1>2, <1>3, <1>8, OpenerFacts DEF OneOpens
  <1>11. Opens(e, n, id)
    <2>1. /\ Create(e, n)
          /\ pendingOpen' = [pendingOpen EXCEPT ![e][id] = None]
          /\ openChannels' = [openChannels EXCEPT ![e][id] = n]
          /\ Resolve(n, n)
      BY <1>5, <1>6, <1>7, <1>8 DEF HandleAckOpen
    <2>2. resolvedTo' \in [Number -> 0 .. MaxOpens]
      BY <1>2, <2>1, NumberFacts DEF Resolve, TypeOK
    <2> QED BY <1>1, <1>4, <1>7, <1>8, <1>9, <2>1, <2>2 DEF Opens, Create
  <1>12. /\ TypeOK' /\ OpenChannelIsRouted' /\ EntriesMatch'
         /\ OpenerHasYoungest' /\ OtherHasYoungest' /\ OtherHasIt'
         /\ RequestGrows /\ OverStays
         /\ \A x \in End, i \in Id : openChannels'[x][i] =
              IF x = e /\ i = id THEN n ELSE openChannels[x][i]
         /\ \A x \in End, i \in Id : pendingOpen'[x][i] =
              IF x = e /\ i = id THEN None ELSE pendingOpen[x][i]
         /\ \A x \in End, k \in Number : channel'[x][k] =
              IF x = e /\ k = n THEN "open" ELSE channel[x][k]
    BY <1>3, <1>7, <1>8, <1>10, <1>11, ChannelOpens
  <1>13. \A k \in DOMAIN request : k \in Number /\ request[k].id \in Id
    BY <1>2, RequestFacts
  \* No other message of the id comes to e that is an Open or an AckOpen.
  <1>14. ASSUME NEW i \in 1 .. Len(link[e]), i # 1, link[e][i].id = id
         PROVE  link[e][i].type \notin {"Open", "AckOpen"} /\ link[e][i].n >= n
    <2>1. ComesBefore(e, 1, link[e][i], i - 1) /\ i \in Nat
      BY <1>2, <1>7, <1>14, LinkTyped DEF LinkOrdered
    <2>2. MessageMatches(e, link[e][i]) /\ link[e][i].n \in Nat
      BY <1>2, LinkTyped, MessageTyped, NumberFacts DEF LinkMatches
    <2>3. link[e][i].n >= n /\ (link[e][i].type = "AckOpen" => link[e][i].n # n)
      BY <1>5, <1>6, <1>7, <1>8, <1>14, <2>1, <2>2 DEF ComesBefore
    <2>4. link[e][i].type # "AckOpen"
      BY <1>7, <1>14, <2>2, <2>3 DEF MessageMatches
    <2>5. link[e][i].type # "Open"
      <3>1. link[e][i].n \in DOMAIN request /\ request[link[e][i].n].id = id
        BY <1>14, <2>2 DEF MessageMatches
      <3>2. request[link[e][i].n].end # f
        BY <1>2, <1>3, <1>10, <3>1, OpenerFacts
      <3> QED BY <1>3, <2>2, <3>2 DEF MessageMatches
    <2> QED BY <2>3, <2>4, <2>5
  <1>15. LinkMatches'
    <2>1. Matching(e) /\ Matching(f) /\ alive'[e] /\ alive'[f] = alive[f]
      BY <1>1, <1>2, <1>7, LinkParts
    <2>2. ASSUME NEW x \in Message, NEW i \in 1 .. Len(link[e]), i # 1, x = link[e][i],
                 MessageMatches(e, x)
          PROVE  MessageMatches(e, x)'
      <3>1. x.n \in Number /\ x.id \in Id /\ x.n \in DOMAIN request
        BY <2>2, MessageTyped DEF MessageMatches
      <3>2. x.type \in {"Open", "AckOpen"} => x.id # id
        BY <1>14, <2>2
      <3>3. x.type = "Open" => \A k \in DOMAIN request : request[k].id = x.id => channel'[e][k] = channel[e][k]
        BY <1>8, <1>12, <1>13, <3>2
      <3>4. x.type = "AckOpen" => pendingOpen'[e][x.id] = pendingOpen[e][x.id]
        BY <1>12, <3>1, <3>2
      <3>5. pendingOpen'[f][x.id] = pendingOpen[f][x.id] /\ channel'[f][x.n] = channel[f][x.n]
        BY <1>3, <1>12, <3>1
      <3> QED BY <1>1, <1>3, <2>2, <3>3, <3>4, <3>5, StillMatches
    <2>3. ASSUME NEW x \in Message, MessageMatches(f, x)
          PROVE  MessageMatches(f, x)'
      <3>1. x.n \in Number /\ x.id \in Id /\ x.n \in DOMAIN request /\ request[x.n].id = x.id
        BY <2>3, MessageTyped DEF MessageMatches
      <3>2. x.type = "Open" => x.id # id
        <4> SUFFICES ASSUME x.type = "Open", x.id = id
                     PROVE  FALSE
          OBVIOUS
        <4>1. pendingOpen[e][x.id] = x.n
          BY <1>3, <1>7, <2>3 DEF MessageMatches
        <4>2. x.n >= x.n
          BY <3>1, NumberFacts
        <4>3. channel[f][x.n] = "none"
          BY <2>3, <3>1, <4>2 DEF MessageMatches
        <4> QED BY <1>7, <1>8, <4>1, <4>3
      <3>3. \A k \in DOMAIN request : channel'[f][k] = channel[f][k]
        BY <1>3, <1>12, <1>13
      <3>4. /\ pendingOpen'[f][x.id] = pendingOpen[f][x.id]
            /\ x.type = "Open" => pendingOpen'[e][x.id] = pendingOpen[e][x.id]
        BY <1>3, <1>12, <3>1, <3>2
      <3>5. /\ channel[e][x.n] # "none" => channel'[e][x.n] # "none"
            /\ channel[e][x.n] = "closed" => channel'[e][x.n] = "closed"
        BY <1>9, <1>12, <3>1
      <3> QED BY <1>1, <1>3, <2>3, <3>3, <3>4, <3>5, StillMatches
    <2>4. Matching(e)'
      BY <1>2, <1>4, <2>1, <2>2, MatchesWhenTook
    <2>5. Matching(f)'
      BY <1>2, <1>4, <2>1, <2>3, MatchesWhenKept
    <2> QED BY <1>3, <2>4, <2>5 DEF LinkMatches, Matching
  <1>16. LinkOrdered'
    <2>1. Ordered(e) /\ Ordered(f)
      BY <1>2, LinkParts
    <2>2. Ordered(e)' /\ Ordered(f)'
      BY <1>2, <1>4, <1>12, <2>1, OrderedWhenTook, OrderedWhenKept
    <2> QED BY <1>3, <2>2 DEF LinkOrdered, Ordered
  <1>17. \A i \in Id : i # id => LessOpenOf(i)
    BY <1>12 DEF LessOpenOf
  <1>18. Ahead(e)'
    <2>1. Ahead(e)
      BY <1>2, LinkParts
    <2>2. ASSUME NEW k \in 1 .. Len(link'[e])
          PROVE  ComesAfterOpen(e, link[e][k], k - 1)'
      <3>1. k + 1 \in 1 .. Len(link[e]) /\ link'[e][k] = link[e][k + 1] /\ k + 1 # 1 /\ k \in Nat
        BY <1>2, <1>4, TookFacts
      <3>2. PICK x \in Message : x = link'[e][k] /\ x = link[e][k + 1] /\ x.id \in Id /\ x.n \in Number
        BY <1>2, <3>1, LinkTyped, MessageTyped
      <3>3. CASE x.id # id
        BY <1>2, <1>4, <1>5, <1>12, <1>17, <2>1, <3>2, <3>3, AheadAtWhenTook
      <3>4. CASE x.id = id
        <4>1. x.n >= n
          BY <1>14, <3>1, <3>2, <3>4
        <4>2. openChannels[f][id] # None => x.n <= openChannels[f][id]
          BY <1>3, <2>1, <3>1, <3>2, <3>4 DEF Ahead, ComesAfterOpen
        <4>3. request'[x.n].end # f
          <5>1. x.n \in DOMAIN request /\ request[x.n].id = id
            BY <1>2, <3>1, <3>2, <3>4 DEF LinkMatches, MessageMatches
          <5> QED BY <1>1, <1>2, <1>3, <1>10, <5>1, OpenerFacts
        <4>4. openChannels'[e][id] = n /\ openChannels'[f][id] = openChannels[f][id]
          BY <1>3, <1>12
        <4> QED BY <1>3, <3>2, <3>4, <4>1, <4>2, <4>3, <4>4 DEF ComesAfterOpen
      <3> QED BY <3>3, <3>4
    <2> QED BY <2>2 DEF Ahead
  <1>19. Ahead(f)'
    <2>1. Ahead(f)
      BY <1>2, LinkParts
    <2>2. ASSUME NEW k \in 1 .. Len(link[f])
          PROVE  ComesAfterOpen(f, link[f][k], k - 1)'
      <3>1. PICK x \in Message : x = link[f][k] /\ x.id \in Id /\ x.n \in Number
        BY <1>2, LinkTyped, MessageTyped
      <3>2. CASE x.id # id
        BY <1>2, <1>4, <1>12, <1>17, <2>1, <3>1, <3>2, AheadAtWhenKept
      <3>3. CASE x.id = id
        <4>1. x.n <= n
          <5>1. x.n \in DOMAIN request /\ request[x.n].id = id
            BY <1>2, <3>1, <3>3 DEF LinkMatches, MessageMatches
          <5>2. Current(e, id) = n
            BY <1>7, <1>8 DEF Current
          <5> QED BY <1>8, <1>10, <5>1, <5>2 DEF RoutingInvariant, OpenerHasYoungest
        <4>2. openChannels'[e][id] = n /\ openChannels'[f][id] = openChannels[f][id]
          BY <1>3, <1>12
        <4>3. /\ x.n >= openChannels[f][id]
              /\ openChannels[f][id] \notin {None, x.n} /\ request[x.n].end = e =>
                   Closes(link[f], openChannels[f][id], 1, k - 1)
          BY <1>3, <2>1, <3>1, <3>3 DEF Ahead, ComesAfterOpen
        <4> QED BY <1>1, <1>3, <1>4, <3>1, <3>3, <4>1, <4>2, <4>3 DEF ComesAfterOpen, Kept
      <3> QED BY <3>2, <3>3
    <2> QED BY <1>4, <2>2 DEF Ahead, Kept
  <1>20. LinkAhead'
    BY <1>3, <1>18, <1>19 DEF LinkAhead, Ahead
  <1>21. CASE ~ BothAlive
    <2>1. OldAreClosed' /\ HandshakeGoesOn'
      BY <1>1, <1>21 DEF OldAreClosed, HandshakeGoesOn, BothAlive
    <2> QED BY <1>12, <1>15, <1>16, <1>20, <2>1 DEF RoutingInvariant
  <1>22. CASE BothAlive
    <2>1. OldAreClosed'
      <3>1. ASSUME NEW i \in Id, <<f, i>> \in MayOpen, NEW c, c = Current(f, i)'
            PROVE  OldExcept(link'[e], channel'[e], openChannels'[e][i], i, c)
        <4>1. c = Current(f, i)
          BY <1>3, <1>12, <3>1 DEF Current
        <4>2. OldExcept(link[e], channel[e], openChannels[e][i], i, c)
          BY <1>3, <1>22, <3>1, <4>1, OldWhileSame
        <4>3. openChannels'[e][i] \in {openChannels[e][i], None, c}
          BY <1>10, <1>12, <3>1
        <4>4. openChannels'[e][i] # None =>
                Head(link[e]).type # "Close" \/ Head(link[e]).n # openChannels[e][i]
          BY <1>1
        <4> QED BY <1>2, <1>4, <1>12, <4>2, <4>3, <4>4, OldWhenTook
      <3>2. ASSUME NEW i \in Id, <<e, i>> \in MayOpen, NEW c, c = Current(e, i)'
            PROVE  OldExcept(link'[f], channel'[f], openChannels'[f][i], i, c)
        <4>1. c = Current(e, i)
          BY <1>7, <1>8, <1>12, <3>2 DEF Current
        <4>2. OldExcept(link[f], channel[f], openChannels[f][i], i, c)
          BY <1>3, <1>22, <3>2, <4>1, OldWhileSame
        <4>3. openChannels'[f][i] \in {openChannels[f][i], None}
          BY <1>3, <1>12
        <4> QED BY <1>2, <1>4, <1>12, <4>2, <4>3, SameOldWhenKept
      <3> QED BY <1>3, <3>1, <3>2, OldParts
    <2>2. HandshakeGoesOn'
      <3>1. \A type, k : InFlight(link[f], type, k) => InFlight(link'[f], type, k)
        BY <1>4, InFlightWhenKept
      <3>2. \A type, k : InFlight(link[e], type, k) =>
              InFlight(link'[e], type, k) \/ (type = "AckOpen" /\ k = n)
        BY <1>2, <1>4, <1>5, <1>6, InFlightWhenTook
      <3>3. ~ InFlight(link[f], "Open", n)
        <4> SUFFICES ASSUME NEW i \in 1 .. Len(link[f]), link[f][i].type = "Open", link[f][i].n = n
                     PROVE  FALSE
          BY DEF InFlight
        <4>1. channel[f][n] = "none"
          BY <1>2, <1>8 DEF LinkMatches, MessageMatches
        <4> QED BY <1>8, <4>1
      <3>4. \A i \in Id : i # id => pendingOpen[e][i] # n /\ pendingOpen[f][i] # n
        BY <1>2, <1>8, EntryFacts
      <3> SUFFICES ASSUME NEW x \in End, NEW i \in Id, <<x, i>> \in MayOpen
                   PROVE  /\ pendingOpen'[x][i] # None =>
                               \/ InFlight(link'[Other(x)], "Open", pendingOpen'[x][i])
                               \/ /\ InFlight(link'[x], "AckOpen", pendingOpen'[x][i])
                                  /\ Shared(link'[x], openChannels'[Other(x)][i], pendingOpen'[x][i])
                          /\ openChannels'[x][i] # None =>
                               Shared(link'[x], openChannels'[Other(x)][i], openChannels'[x][i])
        BY <1>1 DEF HandshakeGoesOn, Shared
      <3>5. /\ pendingOpen[x][i] # None =>
                 \/ InFlight(link[Other(x)], "Open", pendingOpen[x][i])
                 \/ /\ InFlight(link[x], "AckOpen", pendingOpen[x][i])
                    /\ Shared(link[x], openChannels[Other(x)][i], pendingOpen[x][i])
            /\ openChannels[x][i] # None =>
                 Shared(link[x], openChannels[Other(x)][i], openChannels[x][i])
        BY <1>2, <1>22 DEF HandshakeGoesOn
      <3>6. CASE x = f
        <4>1. i # id
          BY <1>10, <3>6
        <4> QED BY <1>3, <1>12, <3>1, <3>2, <3>5, <3>6, <4>1 DEF Shared
      <3>7. CASE x = e /\ i # id
        BY <1>3, <1>12, <3>1, <3>2, <3>4, <3>5, <3>7 DEF Shared
      <3>8. CASE x = e /\ i = id
        BY <1>3, <1>7, <1>8, <1>12, <3>2, <3>3, <3>5, <3>8 DEF Shared
      <3> QED BY <1>3, <3>6, <3>7, <3>8
    <2> QED BY <1>12, <1>15, <1>16, <1>20, <2>1, <2>2 DEF RoutingInvariant
  <1> QED BY <1>21, <1>22

\* The link after a message was taken and answered.
LEMMA AnswerFacts ==
    ASSUME TypeOK, NEW e \in End, link[e] # <<>>, NEW m \in Message, link' = Send(Taken(e), e, m),
           NEW f \in End, f = Other(e)
    PROVE  /\ link' \in [End -> Seq(Message)] /\ Took(e)
           /\ BothAlive => Wrote(f, m)
           /\ ~ BothAlive => Kept(f)
  <1>1. /\ Tail(link[e]) \in Seq(Message) /\ f # e /\ \A x \in End : x = e \/ x = f
        /\ Append(link[f], m) \in Seq(Message) /\ link \in [End -> Seq(Message)]
    BY EndFacts, LinkTyped DEF TypeOK
  <1>2. /\ Taken(e) \in [End -> Seq(Message)]
        /\ Taken(e)[e] = Tail(link[e]) /\ Taken(e)[f] = link[f]
    BY <1>1 DEF Taken
  <1>3. CASE BothAlive
    <2>1. link' = [Taken(e) EXCEPT ![f] = Append(Taken(e)[f], m)]
      BY <1>3 DEF Send, BothAlive
    <2> QED BY <1>1, <1>2, <1>3, <2>1 DEF Took, Wrote
  <1>4. CASE ~ BothAlive
    <2>1. link' = Taken(e)
      BY <1>4 DEF Send, BothAlive
    <2> QED BY <1>1, <1>2, <1>4, <2>1 DEF Took, Kept
  <1> QED BY <1>3, <1>4

LEMMA HandleOpenStep ==
    ASSUME OneOpens, RoutingInvariant, NEW e \in End, HandleOpen(e)
    PROVE  RoutingInvariant'
  <1>1. /\ link[e] # <<>> /\ Head(link[e]).type = "Open"
        /\ UNCHANGED <<alive, pendingOpen, request>>
    BY DEF HandleOpen, Receives
  <1>2. TypeOK /\ LinkMatches /\ LinkOrdered /\ LinkAhead /\ HandshakeGoesOn /\ EntriesMatch
    BY DEF RoutingInvariant
  <1>3. PICK f \in End : f = Other(e) /\ Other(f) = e /\ e # f /\ \A x \in End : x = e \/ x = f
    BY EndFacts
  <1>4. PICK m \in Message : m = Head(link[e]) /\ m.type = "Open" /\ m.id \in Id /\ m.n \in Number
    <2>1. Head(link[e]) \in Message
      BY <1>1, <1>2, LinkTyped
    <2> QED BY <1>1, <2>1, MessageTyped
  <1>5. PICK n \in Number, id \in Id : n = m.n /\ id = m.id
    BY <1>4
  <1>6. m = link[e][1] /\ 1 \in 1 .. Len(link[e]) /\ MessageMatches(e, m) /\ alive[e]
        /\ openChannels[e][id] = None
    BY <1>1, <1>4, <1>5, HeadExpected
  <1>7. /\ n \in DOMAIN request /\ request[n].id = id /\ request[n].end = f
        /\ \A k \in DOMAIN request : request[k].id = id /\ k >= n => channel[e][k] = "none"
        /\ alive[f] => pendingOpen[f][id] = n
        /\ n # None /\ n \in Nat
    BY <1>3, <1>4, <1>5, <1>6, NumberFacts DEF MessageMatches
  <1>8. \A k \in DOMAIN request : k \in Number /\ k \in Nat /\ request[k].id \in Id
    BY <1>2, RequestFacts
  <1>9. channel[e][n] = "none"
    BY <1>7, <1>8
  <1>10. <<f, id>> \in MayOpen /\ <<e, id>> \notin MayOpen
    BY <1>2, <1>3, <1>7, OpenerFacts DEF OneOpens
  <1>11. pendingOpen[e][id] = None
    <2>1. ASSUME NEW p \in DOMAIN request, request[p].id = id
          PROVE  request[p].end # e
      BY <1>2, <1>10, <2>1, OpenerFacts
    <2> QED BY <1>2, <2>1, EntryFacts
  <1>12. PICK a \in Message : /\ a.type = "AckOpen" /\ a.id = id /\ a.n = n
                              /\ link' = Send(Taken(e), e, a)
    <2>1. link' = Send(Taken(e), e, Msg("AckOpen", id, n))
      BY <1>4, <1>5, <1>6 DEF HandleOpen, Ack
    <2> QED BY <2>1, MsgFacts DEF MessageType
  <1>13. /\ link' \in [End -> Seq(Message)] /\ Took(e)
         /\ BothAlive => Wrote(f, a)
         /\ ~ BothAlive => Kept(f)
    BY <1>1, <1>2, <1>3, <1>12, AnswerFacts
  <1>14. Opens(e, n, id)
    <2>1. /\ Create(e, n)
          /\ openChannels' = [openChannels EXCEPT ![e][id] = n]
          /\ UNCHANGED resolvedTo
      BY <1>4, <1>5, <1>6, <1>11 DEF HandleOpen
    <2>2. pendingOpen' = [pendingOpen EXCEPT ![e][id] = None]
      BY <1>1, <1>2, <1>11 DEF TypeOK
    <2>3. resolvedTo' \in [Number -> 0 .. MaxOpens]
      BY <1>2, <2>1 DEF TypeOK
    <2> QED BY <1>1, <1>6, <1>7, <1>9, <1>11, <1>13, <2>1, <2>2, <2>3 DEF Opens, Create
  <1>15. /\ TypeOK' /\ OpenChannelIsRouted' /\ EntriesMatch'
         /\ OpenerHasYoungest' /\ OtherHasYoungest' /\ OtherHasIt'
         /\ RequestGrows /\ OverStays
         /\ \A x \in End, i \in Id : openChannels'[x][i] =
              IF x = e /\ i = id THEN n ELSE openChannels[x][i]
         /\ \A x \in End, k \in Number : channel'[x][k] =
              IF x = e /\ k = n THEN "open" ELSE channel[x][k]
    <2>1. \A k \in DOMAIN request : request[k].id = id /\ k > n => channel[e][k] = "none"
      BY <1>7, <1>8
    <2> QED BY <1>3, <1>10, <1>14, <2>1, ChannelOpens
  \* What follows the Open of the id is of later ones.
  <1>16. ASSUME NEW i \in 1 .. Len(link[e]), i # 1, link[e][i].id = id
         PROVE  /\ link[e][i].n >= n
                /\ link[e][i].type \in {"Open", "AckOpen"} => link[e][i].n > n
                /\ link[e][i].n # n => Closes(link[e], n, 1, i - 1)
    <2>1. ComesBefore(e, 1, link[e][i], i - 1) /\ i \in Nat /\ link[e][i].n \in Nat
      BY <1>2, <1>6, <1>16, LinkTyped, MessageTyped, NumberFacts DEF LinkOrdered
    <2>2. /\ n <= link[e][i].n
          /\ link[e][i].type \in {"Open", "AckOpen"} => n # link[e][i].n
          /\ n # link[e][i].n => Over(channel[e], n) \/ Closes(link[e], n, 1, i - 1)
      BY <1>3, <1>4, <1>5, <1>6, <1>7, <1>16, <2>1 DEF ComesBefore
    <2> QED BY <1>7, <1>9, <2>1, <2>2 DEF Over
  \* What is on the way to f when both are there is of earlier ones.
  <1>17. ASSUME alive[f], NEW i \in 1 .. Len(link[f]), link[f][i].id = id
         PROVE  link[f][i].n <= n /\ link[f][i].n # n /\ request[link[f][i].n].end = f
    <2>1. MessageMatches(f, link[f][i])
      BY <1>2 DEF LinkMatches
    <2>2. link[f][i].n \in DOMAIN request /\ request[link[f][i].n].id = id
      BY <1>17, <2>1 DEF MessageMatches
    <2>3. Current(f, id) = n
      BY <1>7, <1>17 DEF Current
    <2>4. link[f][i].n <= n
      BY <1>7, <1>10, <2>2, <2>3 DEF RoutingInvariant, OpenerHasYoungest
    <2>5. request[link[f][i].n].end = f
      BY <1>2, <1>3, <1>10, <2>2, OpenerFacts
    <2>6. link[f][i].n # n
      BY <1>3, <1>9, <2>1, <2>5 DEF MessageMatches
    <2> QED BY <2>4, <2>5, <2>6
  <1>18. LinkMatches'
    <2>1. Matching(e) /\ Matching(f) /\ alive'[e] /\ alive'[f] = alive[f]
      BY <1>1, <1>2, <1>6, LinkParts
    <2>2. ASSUME NEW x \in Message, NEW i \in 1 .. Len(link[e]), i # 1, x = link[e][i],
                 MessageMatches(e, x)
          PROVE  MessageMatches(e, x)'
      <3>1. x.n \in Number /\ x.id \in Id /\ x.n \in DOMAIN request /\ x.n \in Nat
        BY <2>2, MessageTyped, NumberFacts DEF MessageMatches
      <3>2. x.type = "Open" => \A k \in DOMAIN request :
              request[k].id = x.id /\ k >= x.n => channel'[e][k] = channel[e][k]
        BY <1>7, <1>8, <1>15, <1>16, <2>2, <3>1
      <3>3. channel'[f][x.n] = channel[f][x.n]
        BY <1>3, <1>15, <3>1
      <3> QED BY <1>1, <1>3, <2>2, <3>2, <3>3, StillMatches
    <2>3. ASSUME NEW x \in Message, MessageMatches(f, x)
          PROVE  MessageMatches(f, x)'
      <3>1. x.n \in Number /\ x.n \in DOMAIN request
        BY <2>3, MessageTyped DEF MessageMatches
      <3>2. \A k \in DOMAIN request : channel'[f][k] = channel[f][k]
        BY <1>3, <1>8, <1>15
      <3>3. /\ channel[e][x.n] # "none" => channel'[e][x.n] # "none"
            /\ channel[e][x.n] = "closed" => channel'[e][x.n] = "closed"
        BY <1>9, <1>15, <3>1
      <3> QED BY <1>1, <1>3, <2>3, <3>2, <3>3, StillMatches
    <2>4. Matching(e)'
      BY <1>2, <1>13, <2>1, <2>2, MatchesWhenTook
    <2>5. Matching(f)'
      <3>1. CASE BothAlive
        <4>1. alive[f]
          BY <3>1, EndFacts
        <4>2. MessageMatches(f, a)'
          BY <1>1, <1>3, <1>7, <1>12, <1>15, <4>1 DEF MessageMatches
        <4> QED BY <1>2, <1>12, <1>13, <2>1, <2>3, <3>1, <4>1, <4>2, MatchesWhenWrote
      <3>2. CASE ~ BothAlive
        BY <1>2, <1>13, <2>1, <2>3, <3>2, MatchesWhenKept
      <3> QED BY <3>1, <3>2
    <2> QED BY <1>3, <2>4, <2>5 DEF LinkMatches, Matching
  <1>19. LinkOrdered'
    <2>1. Ordered(e) /\ Ordered(f)
      BY <1>2, LinkParts
    <2>2. Ordered(e)'
      BY <1>2, <1>13, <1>15, <2>1, OrderedWhenTook
    <2>3. Ordered(f)'
      <3>1. CASE BothAlive
        <4>1. alive[f]
          BY <3>1, EndFacts
        <4>2. \A i \in 1 .. Len(link[f]) : ComesBefore(f, i, a, Len(link[f]))
          BY <1>3, <1>12, <1>17, <4>1 DEF ComesBefore
        <4> QED BY <1>2, <1>12, <1>13, <1>15, <2>1, <3>1, <4>2, OrderedWhenWrote
      <3>2. CASE ~ BothAlive
        BY <1>2, <1>13, <1>15, <2>1, <3>2, OrderedWhenKept
      <3> QED BY <3>1, <3>2
    <2> QED BY <1>3, <2>2, <2>3 DEF LinkOrdered, Ordered
  <1>20. \A i \in Id : i # id => LessOpenOf(i)
    BY <1>15 DEF LessOpenOf
  <1>21. openChannels'[e][id] = n /\ openChannels'[f][id] = openChannels[f][id]
    BY <1>3, <1>15
  <1>22. Ahead(e)'
    <2>1. Ahead(e)
      BY <1>2, LinkParts
    <2>2. ASSUME NEW k \in 1 .. Len(link'[e])
          PROVE  ComesAfterOpen(e, link[e][k], k - 1)'
      <3>1. /\ k + 1 \in 1 .. Len(link[e]) /\ link'[e][k] = link[e][k + 1] /\ k + 1 # 1 /\ k \in Nat
            /\ (k + 1) - 1 = k /\ k \in 0 .. Len(link[e])
        BY <1>2, <1>13, TookFacts
      <3>2. PICK x \in Message : x = link'[e][k] /\ x = link[e][k + 1] /\ x.id \in Id /\ x.n \in Number
        BY <1>2, <3>1, LinkTyped, MessageTyped
      <3>3. CASE x.id # id
        BY <1>1, <1>2, <1>13, <1>15, <1>20, <2>1, <3>2, <3>3, AheadAtWhenTook
      <3>4. CASE x.id = id
        <4>1. x.n >= n /\ (x.n # n => Closes(link[e], n, 1, k))
          BY <1>16, <3>1, <3>2, <3>4
        <4>2. openChannels[f][id] # None => x.n <= openChannels[f][id]
          BY <1>3, <2>1, <3>1, <3>2, <3>4 DEF Ahead, ComesAfterOpen
        <4>3. x.n # n => Closes(link'[e], n, 1, k - 1)
          BY <1>2, <1>4, <1>6, <1>13, <3>1, <4>1, FirstClosesWhenTook
        <4> QED BY <1>3, <1>21, <3>2, <3>4, <4>1, <4>2, <4>3 DEF ComesAfterOpen
      <3> QED BY <3>3, <3>4
    <2> QED BY <2>2 DEF Ahead
  <1>23. Ahead(f)'
    <2>1. Ahead(f) /\ Matching(f)
      BY <1>2, LinkParts
    <2>2. CASE ~ BothAlive
      <3>1. link'[f] = <<>>
        BY <1>3, <1>6, <1>13, <2>1, <2>2, EndFacts DEF Matching, Kept
      <3> QED BY <3>1 DEF Ahead
    <2>3. CASE BothAlive
      <3>1. alive[f] /\ Wrote(f, a)
        BY <1>13, <2>3, EndFacts
      <3>2. openChannels[f][id] = None
        BY <1>2, <1>7, <3>1, EntryFacts
      <3>3. ASSUME NEW k \in 1 .. Len(link'[f])
            PROVE  ComesAfterOpen(f, link[f][k], k - 1)'
        <4>1. PICK x \in Message : x = link'[f][k] /\ x.id \in Id /\ x.n \in Number /\ x.n \in Nat
          BY <1>2, <3>1, WroteFacts, MessageTyped, NumberFacts
        <4>2. CASE x.id # id
          <5>1. /\ a.n >= openChannels[f][a.id]
                /\ openChannels[Other(f)][a.id] # None => a.n <= openChannels[Other(f)][a.id]
                /\ openChannels[f][a.id] \notin {None, a.n} /\ request'[a.n].end = Other(f) =>
                     Closes(link[f], openChannels[f][a.id], 1, Len(link[f]))
            BY <1>3, <1>6, <1>7, <1>12, <3>2 DEF None
          <5> QED BY <1>2, <1>15, <1>20, <2>1, <3>1, <4>1, <4>2, <5>1, AheadAtWhenWrote
        <4>3. CASE x.id = id
          <5>1. x.n <= n
            <6>1. CASE k \in 1 .. Len(link[f])
              <7>1. x = link[f][k]
                BY <1>2, <3>1, <4>1, <6>1, WroteFacts
              <7> QED BY <1>17, <3>1, <4>3, <6>1, <7>1
            <6>2. CASE k = Len(link[f]) + 1
              <7>1. x = a
                BY <1>2, <3>1, <4>1, <6>2, WroteFacts
              <7> QED BY <1>7, <1>12, <7>1
            <6> QED BY <1>2, <3>1, <6>1, <6>2, WroteFacts
          <5>2. x.n >= openChannels'[f][id] /\ openChannels'[f][id] = None
            BY <1>21, <3>2, <4>1 DEF None
          <5> QED BY <1>3, <1>21, <4>1, <4>3, <5>1, <5>2 DEF ComesAfterOpen
        <4> QED BY <4>2, <4>3
      <3> QED BY <3>3 DEF Ahead
    <2> QED BY <2>2, <2>3
  <1>24. LinkAhead'
    BY <1>3, <1>22, <1>23 DEF LinkAhead, Ahead
  <1>25. CASE ~ BothAlive
    <2>1. OldAreClosed' /\ HandshakeGoesOn'
      BY <1>1, <1>25 DEF OldAreClosed, HandshakeGoesOn, BothAlive
    <2> QED BY <1>15, <1>18, <1>19, <1>24, <2>1 DEF RoutingInvariant
  <1>26. CASE BothAlive
    <2>1. alive[f] /\ Wrote(f, a) /\ pendingOpen[f][id] = n
      BY <1>7, <1>13, <1>26, EndFacts
    <2>2. OldAreClosed'
      <3>1. ASSUME NEW i \in Id, <<f, i>> \in MayOpen, NEW c, c = Current(f, i)'
            PROVE  OldExcept(link'[e], channel'[e], openChannels'[e][i], i, c)
        <4>1. c = Current(f, i)
          BY <1>1, <1>3, <1>15, <3>1 DEF Current
        <4>2. OldExcept(link[e], channel[e], openChannels[e][i], i, c)
          BY <1>3, <1>26, <3>1, <4>1, OldWhileSame
        <4>3. openChannels'[e][i] \in {openChannels[e][i], None, c}
          BY <1>7, <1>15, <2>1, <4>1 DEF Current
        <4>4. openChannels'[e][i] # None =>
                Head(link[e]).type # "Close" \/ Head(link[e]).n # openChannels[e][i]
          BY <1>1
        <4> QED BY <1>2, <1>13, <1>15, <4>2, <4>3, <4>4, OldWhenTook
      <3>2. ASSUME NEW i \in Id, <<e, i>> \in MayOpen, NEW c, c = Current(e, i)'
            PROVE  OldExcept(link'[f], channel'[f], openChannels'[f][i], i, c)
        <4>1. i # id /\ (a.id = i => a.n = c)
          BY <1>10, <1>12, <3>2
        <4>2. c = Current(e, i)
          BY <1>1, <1>15, <3>2, <4>1 DEF Current
        <4>3. OldExcept(link[f], channel[f], openChannels[f][i], i, c)
          BY <1>3, <1>26, <3>2, <4>2, OldWhileSame
        <4>4. openChannels'[f][i] \in {openChannels[f][i], None}
          BY <1>3, <1>15
        <4> QED BY <1>2, <1>15, <2>1, <4>1, <4>3, <4>4, SameOldWhenWrote
      <3> QED BY <1>3, <3>1, <3>2, OldParts
    <2>3. HandshakeGoesOn'
      <3>1. /\ \A type, k : InFlight(link[f], type, k) => InFlight(link'[f], type, k)
            /\ InFlight(link'[f], "AckOpen", n)
        BY <1>2, <1>12, <2>1, InFlightWhenWrote
      <3>2. \A type, k : InFlight(link[e], type, k) =>
              InFlight(link'[e], type, k) \/ (type = "Open" /\ k = n)
        BY <1>2, <1>4, <1>5, <1>13, InFlightWhenTook
      <3>3. \A i \in Id : i # id => pendingOpen[f][i] # n
        BY <1>2, <1>7, EntryFacts
      <3>4. openChannels[f][id] = None
        BY <1>2, <1>7, <2>1, EntryFacts
      <3> SUFFICES ASSUME NEW x \in End, NEW i \in Id, <<x, i>> \in MayOpen
                   PROVE  /\ pendingOpen[x][i] # None =>
                               \/ InFlight(link'[Other(x)], "Open", pendingOpen[x][i])
                               \/ /\ InFlight(link'[x], "AckOpen", pendingOpen[x][i])
                                  /\ Shared(link'[x], openChannels'[Other(x)][i], pendingOpen[x][i])
                          /\ openChannels'[x][i] # None =>
                               Shared(link'[x], openChannels'[Other(x)][i], openChannels'[x][i])
        BY <1>1 DEF HandshakeGoesOn, Shared
      <3>5. /\ pendingOpen[x][i] # None =>
                 \/ InFlight(link[Other(x)], "Open", pendingOpen[x][i])
                 \/ /\ InFlight(link[x], "AckOpen", pendingOpen[x][i])
                    /\ Shared(link[x], openChannels[Other(x)][i], pendingOpen[x][i])
            /\ openChannels[x][i] # None =>
                 Shared(link[x], openChannels[Other(x)][i], openChannels[x][i])
        BY <1>2, <1>26 DEF HandshakeGoesOn
      <3>6. CASE x = f /\ i = id
        BY <1>3, <1>21, <2>1, <3>1, <3>4, <3>6 DEF Shared
      <3>7. CASE x = f /\ i # id
        BY <1>3, <1>15, <3>1, <3>2, <3>3, <3>5, <3>7 DEF Shared
      <3>8. CASE x = e
        <4>1. i # id
          BY <1>10, <3>8
        <4> QED BY <1>3, <1>15, <3>1, <3>2, <3>5, <3>8, <4>1 DEF Shared
      <3> QED BY <1>3, <3>6, <3>7, <3>8
    <2> QED BY <1>15, <1>18, <1>19, <1>24, <2>2, <2>3 DEF RoutingInvariant
  <1> QED BY <1>25, <1>26

LEMMA OpenStep ==
    ASSUME OneOpens, RoutingInvariant, NEW f \in End, NEW id \in Id, Open(f, id)
    PROVE  RoutingInvariant'
  <1>1. /\ <<f, id>> \in MayOpen /\ openChannels[f][id] = None /\ pendingOpen[f][id] = None
        /\ Len(request) < MaxOpens
        /\ request' = Append(request, [end |-> f, id |-> id])
        /\ pendingOpen' = [pendingOpen EXCEPT ![f][id] = Len(request) + 1]
        /\ link' = Send(link, f, Msg("Open", id, Len(request) + 1))
        /\ UNCHANGED <<alive, openChannels, channel, resolvedTo>>
    BY DEF Open, Free
  <1>2. TypeOK /\ LinkMatches /\ HandshakeGoesOn /\ EntriesMatch
    BY DEF RoutingInvariant
  <1>3. PICK e \in End : e = Other(f) /\ Other(e) = f /\ e # f /\ \A x \in End : x = e \/ x = f
    BY EndFacts
  <1>4. <<e, id>> \notin MayOpen
    BY <1>1, <1>3 DEF OneOpens
  <1>5. PICK n \in Number : n = Len(request) + 1
    BY <1>1, <1>2, RequestFacts, NumberFacts DEF Number
  <1>6. /\ n # None /\ n \in Nat /\ n \notin DOMAIN request
        /\ \A k \in DOMAIN request : k < n /\ k \in Number /\ k \in Nat /\ request[k].id \in Id
    BY <1>2, <1>5, RequestFacts, NumberFacts
  <1>7. /\ DOMAIN request' = DOMAIN request \union {n}
        /\ \A k \in DOMAIN request : request'[k] = request[k]
        /\ request'[n].end = f /\ request'[n].id = id
        /\ request' \in Seq([end : End, id : Id]) /\ Len(request') <= MaxOpens
    <2> DEFINE S == [end : End, id : Id]
               r == [end |-> f, id |-> id]
    <2>1. request \in Seq(S) /\ r \in S /\ r.end = f /\ r.id = id
      BY <1>2 DEF TypeOK
    <2> HIDE DEF S
    <2>2. /\ request' = Append(request, r) /\ Len(request) \in Nat
      BY <1>1, <2>1
    <2> HIDE DEF r
    <2>3. /\ request' \in Seq(S) /\ Len(request') = n /\ request'[n] = r
          /\ DOMAIN request' = 1 .. n /\ DOMAIN request = 1 .. Len(request)
          /\ \A k \in 1 .. Len(request) : request'[k] = request[k]
      BY <1>5, <2>1, <2>2
    <2>4. 1 .. n = (1 .. Len(request)) \union {n}
      BY <1>5, <2>2
    <2> QED BY <1>1, <1>5, <2>1, <2>2, <2>3, <2>4, NumberFacts DEF S
  <1>8. \A x \in End, i \in Id : pendingOpen'[x][i] = IF x = f /\ i = id THEN n ELSE pendingOpen[x][i]
    BY <1>1, <1>2, <1>5 DEF TypeOK
  <1>9. \A x \in End : channel[x][n] = "none"
    BY <1>2, <1>6 DEF EntriesMatch, ChannelsAreRequested
  <1>10. RequestGrows /\ LessOpen /\ OverStays
    BY <1>1, <1>7 DEF RequestGrows, LessOpen, LessOpenOf, OverStays
  <1>11. PICK m \in Message : m.type = "Open" /\ m.id = id /\ m.n = n /\ link' = Send(link, f, m)
    BY <1>1, <1>5, MsgFacts DEF MessageType
  <1>12. /\ link' \in [End -> Seq(Message)] /\ Kept(f)
         /\ BothAlive => Wrote(e, m)
         /\ ~ BothAlive => Kept(e)
    BY <1>2, <1>3, <1>11, SendFacts
  <1>13. TypeOK'
    <2>1. pendingOpen' \in [End -> [Id -> 0 .. MaxOpens]]
      BY <1>1, <1>2, <1>5, NumberFacts DEF TypeOK
    <2> QED BY <1>1, <1>2, <1>7, <1>12, <2>1 DEF TypeOK
  <1>14. OpenChannelIsRouted'
    BY <1>1, <1>2, <1>7 DEF RoutingInvariant, OpenChannelIsRouted, EntriesMatch, ChannelsAreRequested
  <1>15. EntriesMatch'
    <2>1. ChannelsAreRequested'
      BY <1>1, <1>2, <1>7 DEF EntriesMatch, ChannelsAreRequested
    <2>2. PendingHasNone'
      BY <1>1, <1>2, <1>7, <1>8, <1>9 DEF EntriesMatch, PendingHasNone
    <2>3. OpenHasChannel'
      BY <1>1, <1>2, <1>7 DEF EntriesMatch, OpenHasChannel
    <2> QED BY <2>1, <2>2, <2>3 DEF EntriesMatch
  <1>16. OpenerHasYoungest'
    <2> SUFFICES ASSUME NEW x \in End, NEW i \in Id, <<x, i>> \in MayOpen, Current(x, i)' # None,
                        NEW k \in DOMAIN request', request'[k].id = i
                 PROVE  k <= Current(x, i)'
      BY DEF OpenerHasYoungest
    <2>1. CASE i = id
      <3>1. x = f /\ Current(x, i)' = n
        BY <1>3, <1>4, <1>6, <1>8, <2>1 DEF Current
      <3> QED BY <1>6, <1>7, <3>1
    <2>2. CASE i # id
      <3>1. Current(x, i)' = Current(x, i)
        BY <1>1, <1>8, <2>2 DEF Current
      <3>2. k \in DOMAIN request /\ request[k].id = i
        BY <1>7, <2>2
      <3> QED BY <3>1, <3>2 DEF RoutingInvariant, OpenerHasYoungest
    <2> QED BY <2>1, <2>2
  <1>17. OtherHasYoungest' /\ OtherHasIt'
    BY <1>1, <1>7, <1>9 DEF RoutingInvariant, OtherHasYoungest, OtherHasIt
  <1>18. ASSUME NEW x \in End, NEW y \in Message, MessageMatches(x, y)
         PROVE  MessageMatches(x, y)'
    <2>1. y.n \in DOMAIN request /\ request[y.n].id = y.id /\ y.id \in Id /\ y.n # None /\ Other(x) \in End
      BY <1>18, MessageTyped, NumberFacts, EndFacts DEF MessageMatches
    <2>2. \A z \in End : pendingOpen[z][y.id] = y.n => pendingOpen'[z][y.id] = y.n
      BY <1>1, <1>8, <2>1
    <2>3. y.type = "Open" => \A k \in DOMAIN request' :
            request'[k].id = y.id /\ k >= y.n => channel'[x][k] = "none"
      BY <1>1, <1>7, <1>9, <1>18 DEF MessageMatches
    <2> QED BY <1>1, <1>7, <1>18, <2>1, <2>2, <2>3 DEF MessageMatches
  <1>19. Matching(e) /\ Matching(f) /\ alive'[e] = alive[e] /\ alive'[f] = alive[f]
    BY <1>1, <1>2, LinkParts
  <1>20. CASE ~ BothAlive
    <2>1. \A x \in End : Kept(x) \/ Dropped(x)
      BY <1>3, <1>12, <1>20
    <2>2. LinkOrdered' /\ LinkAhead'
      BY <1>10, <2>1, LinksAfterKeep
    <2>3. Matching(e)' /\ Matching(f)'
      BY <1>2, <1>12, <1>18, <1>19, <1>20, MatchesWhenKept
    <2>4. LinkMatches'
      BY <1>3, <2>3 DEF LinkMatches, Matching
    <2>5. OldAreClosed' /\ HandshakeGoesOn'
      BY <1>1, <1>20 DEF OldAreClosed, HandshakeGoesOn, BothAlive
    <2> QED BY <1>13, <1>14, <1>15, <1>16, <1>17, <2>2, <2>4, <2>5 DEF RoutingInvariant
  <1>21. CASE BothAlive
    <2>1. Wrote(e, m) /\ alive'[e]
      BY <1>12, <1>19, <1>21, EndFacts
    <2>2. LinkMatches'
      <3>1. MessageMatches(e, m)'
        <4>1. \A k \in DOMAIN request' : k >= n => k = n
          BY <1>6, <1>7
        <4> QED BY <1>1, <1>3, <1>7, <1>8, <1>9, <1>11, <4>1 DEF MessageMatches
      <3>2. Matching(e)'
        BY <1>2, <1>18, <1>19, <2>1, <3>1, MatchesWhenWrote
      <3>3. Matching(f)'
        BY <1>2, <1>12, <1>18, <1>19, MatchesWhenKept
      <3> QED BY <1>3, <3>2, <3>3 DEF LinkMatches, Matching
    \* The end that opens the id had nothing of it: all that is on the link is closed.
    <2>3. Current(f, id) = None /\ OldExcept(link[e], channel[e], openChannels[e][id], id, None)
      <3>1. Current(f, id) = None
        BY <1>1 DEF Current
      <3>2. PICK c : c = Current(f, id)
        OBVIOUS
      <3>3. OldExcept(link[e], channel[e], openChannels[e][id], id, c)
        BY <1>1, <1>3, <1>21, <3>2, OldWhileSame
      <3> QED BY <3>1, <3>2, <3>3
    <2>4. LinkOrdered'
      <3>1. Ordered(e) /\ Ordered(f)
        BY LinkParts DEF RoutingInvariant
      <3>2. ASSUME NEW i \in 1 .. Len(link[e]), link[e][i].id = id
            PROVE  /\ link[e][i].n < n /\ link[e][i].n \in Nat
                   /\ Over(channel[e], link[e][i].n) \/ Closes(link[e], link[e][i].n, i, Len(link[e]))
        <4>1. link[e][i].n \in DOMAIN request /\ link[e][i].n # None
          BY <1>2, LinkTyped, MessageTyped, NumberFacts DEF LinkMatches, MessageMatches
        <4> QED BY <1>6, <2>3, <3>2, <4>1 DEF OldExcept
      <3>3. \A i \in 1 .. Len(link[e]) : ComesBefore(e, i, m, Len(link[e]))
        BY <1>6, <1>11, <3>2 DEF ComesBefore
      <3>4. Ordered(e)'
        BY <1>2, <1>10, <2>1, <3>1, <3>3, OrderedWhenWrote
      <3>5. Ordered(f)'
        BY <1>2, <1>10, <1>12, <3>1, OrderedWhenKept
      <3> QED BY <1>3, <3>4, <3>5 DEF LinkOrdered, Ordered
    <2>5. LinkAhead'
      <3>1. Ahead(e) /\ Ahead(f)
        BY LinkParts DEF RoutingInvariant
      <3>2. /\ m.n >= openChannels[e][m.id]
            /\ openChannels[Other(e)][m.id] # None => m.n <= openChannels[Other(e)][m.id]
            /\ openChannels[e][m.id] \notin {None, m.n} /\ request'[m.n].end = Other(e) =>
                 Closes(link[e], openChannels[e][m.id], 1, Len(link[e]))
        <4>1. n >= openChannels[e][id]
          <5>1. openChannels[e][id] # None => openChannels[e][id] \in DOMAIN request
            BY <1>2, EntryFacts
          <5> QED BY <1>6, <5>1 DEF None
        <4> QED BY <1>1, <1>3, <1>11, <2>3, <4>1 DEF OldExcept
      <3>3. Ahead(e)'
        BY <1>2, <1>10, <2>1, <3>1, <3>2, AheadWhenWrote
      <3>4. Ahead(f)'
        BY <1>2, <1>10, <1>12, <3>1, AheadWhenKept
      <3> QED BY <1>3, <3>3, <3>4 DEF LinkAhead, Ahead
    <2>6. OldAreClosed'
      <3>1. ASSUME NEW i \in Id, <<f, i>> \in MayOpen, NEW d, d = Current(f, i)'
            PROVE  OldExcept(link'[e], channel'[e], openChannels'[e][i], i, d)
        <4>1. PICK c : c = Current(f, i)
          OBVIOUS
        <4>2. OldExcept(link[e], channel[e], openChannels[e][i], i, c)
          BY <1>3, <1>21, <3>1, <4>1, OldWhileSame
        <4>3. openChannels'[e][i] \in {openChannels[e][i], None}
          BY <1>1
        <4>4. m.id = i => m.n = d \/ m.type = "Close"
          BY <1>6, <1>8, <1>11, <3>1 DEF Current
        <4>5. d = c \/ c = None \/ (m.type = "Close" /\ m.n = c)
          <5>1. CASE i = id
            BY <2>3, <4>1, <5>1
          <5>2. CASE i # id
            BY <1>1, <1>8, <3>1, <4>1, <5>2 DEF Current
          <5> QED BY <5>1, <5>2
        <4> QED BY <1>2, <1>10, <2>1, <4>2, <4>3, <4>4, <4>5, OldWhenWrote
      <3>2. ASSUME NEW i \in Id, <<e, i>> \in MayOpen, NEW c, c = Current(e, i)'
            PROVE  OldExcept(link'[f], channel'[f], openChannels'[f][i], i, c)
        <4>1. c = Current(e, i)
          BY <1>1, <1>3, <1>8, <3>2 DEF Current
        <4>2. OldExcept(link[f], channel[f], openChannels[f][i], i, c)
          BY <1>3, <1>21, <3>2, <4>1, OldWhileSame
        <4>3. openChannels'[f][i] \in {openChannels[f][i], None}
          BY <1>1
        <4> QED BY <1>2, <1>10, <1>12, <4>2, <4>3, SameOldWhenKept
      <3> QED BY <1>3, <3>1, <3>2, OldParts
    <2>7. HandshakeGoesOn'
      <3>1. /\ \A type, k : InFlight(link[e], type, k) => InFlight(link'[e], type, k)
            /\ InFlight(link'[e], "Open", n)
        BY <1>2, <1>11, <2>1, InFlightWhenWrote
      <3>2. \A type, k : InFlight(link[f], type, k) => InFlight(link'[f], type, k)
        BY <1>12, InFlightWhenKept
      <3> SUFFICES ASSUME NEW x \in End, NEW i \in Id, <<x, i>> \in MayOpen
                   PROVE  /\ pendingOpen'[x][i] # None =>
                               \/ InFlight(link'[Other(x)], "Open", pendingOpen'[x][i])
                               \/ /\ InFlight(link'[x], "AckOpen", pendingOpen'[x][i])
                                  /\ Shared(link'[x], openChannels[Other(x)][i], pendingOpen'[x][i])
                          /\ openChannels[x][i] # None =>
                               Shared(link'[x], openChannels[Other(x)][i], openChannels[x][i])
        BY <1>1 DEF HandshakeGoesOn, Shared
      <3>3. /\ pendingOpen[x][i] # None =>
                 \/ InFlight(link[Other(x)], "Open", pendingOpen[x][i])
                 \/ /\ InFlight(link[x], "AckOpen", pendingOpen[x][i])
                    /\ Shared(link[x], openChannels[Other(x)][i], pendingOpen[x][i])
            /\ openChannels[x][i] # None =>
                 Shared(link[x], openChannels[Other(x)][i], openChannels[x][i])
        BY <1>2, <1>21 DEF HandshakeGoesOn
      <3>4. CASE x = f /\ i = id
        BY <1>1, <1>3, <1>8, <3>1, <3>4
      <3>5. CASE ~ (x = f /\ i = id)
        BY <1>3, <1>8, <3>1, <3>2, <3>3, <3>5 DEF Shared
      <3> QED BY <3>4, <3>5
    <2> QED BY <1>13, <1>14, <1>15, <1>16, <1>17, <2>2, <2>4, <2>5, <2>6, <2>7 DEF RoutingInvariant
  <1> QED BY <1>20, <1>21

LEMMA UnderlyingChannelCloseStep ==
    ASSUME OneOpens, RoutingInvariant, NEW e \in End, UnderlyingChannelClose(e)
    PROVE  RoutingInvariant'
  <1>1. TypeOK /\ LinkMatches /\ EntriesMatch
    BY DEF RoutingInvariant
  <1>2. PICK f \in End : f = Other(e) /\ Other(f) = e /\ e # f /\ \A x \in End : x = e \/ x = f
    BY EndFacts
  <1>3. /\ request' = request /\ resolvedTo' = resolvedTo
        /\ ~ alive'[e] /\ alive'[f] = alive[f] /\ ~ BothAlive'
    <2>1. ~ alive'[e] /\ alive'[f] = alive[f]
      BY <1>1, <1>2 DEF UnderlyingChannelClose, TypeOK
    <2> QED BY <2>1 DEF UnderlyingChannelClose, BothAlive, End
  <1>4. Dropped(e) /\ Kept(f) /\ link' \in [End -> Seq(Message)]
    BY <1>1, <1>2 DEF UnderlyingChannelClose, TypeOK, Dropped, Kept
  <1>5. \A x \in End, i \in Id :
          /\ openChannels'[x][i] = IF x = e THEN None ELSE openChannels[x][i]
          /\ pendingOpen'[x][i] = IF x = e THEN None ELSE pendingOpen[x][i]
    BY <1>1 DEF UnderlyingChannelClose, TypeOK, Cleared
  <1>6. \A x \in End, k \in Number : channel'[x][k] =
          IF x = e /\ (\E i \in Id : openChannels[e][i] = k) THEN "told" ELSE channel[x][k]
    BY <1>1 DEF UnderlyingChannelClose, TypeOK
  <1>7. \A k \in DOMAIN request : k \in Number /\ k # None /\ request[k].id \in Id
    BY <1>1, RequestFacts
  <1>8. \A k \in Number : (\E i \in Id : openChannels[e][i] = k) => channel[e][k] = "open"
    BY <1>1, NumberFacts, EntryFacts
  <1>9. \A k \in Number : channel'[e][k] # "open"
    <2> SUFFICES ASSUME NEW k \in Number, channel[e][k] = "open"
                 PROVE  \E i \in Id : openChannels[e][i] = k
      BY <1>6
    <2> QED BY <1>1, <1>7 DEF RoutingInvariant, OpenChannelIsRouted, EntriesMatch, ChannelsAreRequested
  <1>10. \A x \in End, k \in Number :
           /\ channel[x][k] = "none" <=> channel'[x][k] = "none"
           /\ channel[x][k] = "closed" => channel'[x][k] = "closed"
           /\ channel'[x][k] = "open" => x = f /\ channel[f][k] = "open"
    BY <1>2, <1>6, <1>8, <1>9
  <1>11. TypeOK'
    <2>1. /\ openChannels' \in [End -> [Id -> 0 .. MaxOpens]]
          /\ pendingOpen' \in [End -> [Id -> 0 .. MaxOpens]]
      BY <1>1, NumberFacts DEF UnderlyingChannelClose, TypeOK, Cleared
    <2>2. channel' \in [End -> [Number -> {"none", "open", "told", "closed"}]]
      BY <1>1 DEF UnderlyingChannelClose, TypeOK
    <2>3. alive' \in [End -> BOOLEAN]
      BY <1>1 DEF UnderlyingChannelClose, TypeOK
    <2> QED BY <1>1, <1>3, <1>4, <2>1, <2>2, <2>3 DEF TypeOK
  <1>12. OpenChannelIsRouted'
    <2> SUFFICES ASSUME NEW x \in End, NEW k \in Number, channel'[x][k] = "open"
                 PROVE  openChannels'[x][request[k].id] = k
      BY <1>3 DEF OpenChannelIsRouted
    <2>1. x = f /\ channel[f][k] = "open"
      BY <1>10
    <2>2. request[k].id \in Id
      BY <1>1, <1>7, <2>1 DEF EntriesMatch, ChannelsAreRequested
    <2> QED BY <1>2, <1>5, <2>1, <2>2 DEF RoutingInvariant, OpenChannelIsRouted
  <1>13. EntriesMatch'
    <2>1. ChannelsAreRequested'
      BY <1>1, <1>3, <1>10 DEF EntriesMatch, ChannelsAreRequested
    <2>2. PendingHasNone'
      BY <1>1, <1>3, <1>5, <1>7, <1>10 DEF EntriesMatch, PendingHasNone
    <2>3. OpenHasChannel'
      BY <1>1, <1>2, <1>3, <1>5, <1>6, <1>7 DEF EntriesMatch, OpenHasChannel
    <2> QED BY <2>1, <2>2, <2>3 DEF EntriesMatch
  <1>14. OpenerHasYoungest'
    BY <1>3, <1>5 DEF RoutingInvariant, OpenerHasYoungest, Current
  <1>15. OtherHasYoungest' /\ OtherHasIt'
    BY <1>3, <1>5, <1>7, <1>10, EndFacts DEF RoutingInvariant, OtherHasYoungest, OtherHasIt
  <1>16. RequestGrows /\ LessOpen /\ OverStays
    BY <1>3, <1>5, <1>6 DEF RequestGrows, LessOpen, LessOpenOf, OverStays, Over
  <1>17. LinkOrdered' /\ LinkAhead'
    BY <1>2, <1>4, <1>16, LinksAfterKeep
  <1>18. LinkMatches'
    <2>1. ASSUME NEW x \in Message, MessageMatches(f, x)
          PROVE  MessageMatches(f, x)'
      <3>1. x.n \in Number /\ x.id \in Id
        BY MessageTyped
      <3>2. \A k \in DOMAIN request : channel'[f][k] = channel[f][k]
        BY <1>2, <1>6, <1>7
      <3>3. pendingOpen'[f][x.id] = pendingOpen[f][x.id]
        BY <1>2, <1>5, <3>1
      <3>4. /\ channel[e][x.n] # "none" => channel'[e][x.n] # "none"
            /\ channel[e][x.n] = "closed" => channel'[e][x.n] = "closed"
        BY <1>10, <3>1
      <3> QED BY <1>2, <1>3, <2>1, <3>2, <3>3, <3>4, StillMatches
    <2>2. Matching(f)
      BY <1>1, LinkParts
    <2>3. Matching(f)'
      BY <1>1, <1>3, <1>4, <2>1, <2>2, MatchesWhenKept
    <2>4. Matching(e)'
      BY <1>4 DEF Matching, Dropped
    <2> QED BY <1>2, <2>3, <2>4 DEF LinkMatches, Matching
  <1>19. OldAreClosed' /\ HandshakeGoesOn'
    BY <1>3 DEF OldAreClosed, HandshakeGoesOn
  <1> QED BY <1>11, <1>12, <1>13, <1>14, <1>15, <1>17, <1>18, <1>19 DEF RoutingInvariant

LEMMA InitialStep ==
    ASSUME Init
    PROVE  RoutingInvariant
  <1>1. /\ request = <<>> /\ DOMAIN request = {} /\ Len(request) = 0
        /\ \A e \in End : alive[e] /\ link[e] = <<>> /\ Len(link[e]) = 0
        /\ \A e \in End, id \in Id : openChannels[e][id] = None /\ pendingOpen[e][id] = None
        /\ \A e \in End, n \in Number : channel[e][n] = "none"
    BY DEF Init
  <1>2. TypeOK
    <2>1. request \in Seq([end : End, id : Id]) /\ Len(request) <= MaxOpens
      BY <1>1, NumberFacts
    <2>2. link \in [End -> Seq(Message)]
      BY DEF Init
    <2> QED BY <2>1, <2>2, NumberFacts DEF Init, TypeOK
  <1>3. EntriesMatch /\ OpenChannelIsRouted
    BY <1>1 DEF EntriesMatch, ChannelsAreRequested, PendingHasNone, OpenHasChannel, OpenChannelIsRouted
  <1>4. OpenerHasYoungest /\ OtherHasYoungest /\ OtherHasIt
    BY <1>1 DEF OpenerHasYoungest, OtherHasYoungest, OtherHasIt
  <1>5. LinkMatches /\ LinkOrdered /\ LinkAhead
    BY <1>1 DEF LinkMatches, LinkOrdered, LinkAhead
  <1>6. OldAreClosed /\ HandshakeGoesOn
    BY <1>1, EndFacts DEF OldAreClosed, HandshakeGoesOn
  <1> QED BY <1>2, <1>3, <1>4, <1>5, <1>6 DEF RoutingInvariant

-----------------------------------------------------------------------------
(* The theorems *)

\* Every reachable state of the two multiplexers satisfies the invariant, whatever the
\* ids and however many open() calls are made, when no id is opened by both ends.
THEOREM RoutingInvariantHolds ==
    ASSUME OneOpens
    PROVE  Spec => []RoutingInvariant
  <1>1. Init => RoutingInvariant
    BY InitialStep
  <1>2. RoutingInvariant /\ [Next]_vars => RoutingInvariant'
    <2> SUFFICES ASSUME RoutingInvariant, [Next]_vars
                 PROVE  RoutingInvariant'
      OBVIOUS
    <2>1. CASE UNCHANGED vars
      BY <2>1, StutterStep
    <2>2. ASSUME NEW e \in End, NEW id \in Id, Open(e, id)
          PROVE  RoutingInvariant'
      BY <2>2, OpenStep
    <2>3. ASSUME NEW e \in End, NEW n \in Number, Close(e, n) \/ WriteData(e, n)
          PROVE  RoutingInvariant'
      BY <2>3, CloseStep, WriteDataStep
    <2>4. ASSUME NEW e \in End, Receive(e)
          PROVE  RoutingInvariant'
      BY <2>4, HandleAckOpenStep, HandleOpenStep, HandleCloseStep, HandleDataStep DEF Receive
    <2>5. ASSUME NEW e \in End, UnderlyingChannelClose(e)
          PROVE  RoutingInvariant'
      BY <2>5, UnderlyingChannelCloseStep
    <2> QED BY <2>1, <2>2, <2>3, <2>4, <2>5 DEF Next
  <1> QED BY <1>1, <1>2, PTL DEF Spec

\* Type correctness of the multiplexer's maps, promises and messages.
THEOREM MultiplexerTypeCorrect ==
    ASSUME OneOpens
    PROVE  Spec => []TypeOK
  <1>1. RoutingInvariant => TypeOK
    BY DEF RoutingInvariant
  <1> QED BY <1>1, RoutingInvariantHolds, PTL

\* An owner that believes its channel open has the one that messages are routed to.
THEOREM OpenChannelAlwaysRouted ==
    ASSUME OneOpens
    PROVE  Spec => []OpenChannelIsRouted
  <1>1. RoutingInvariant => OpenChannelIsRouted
    BY DEF RoutingInvariant
  <1> QED BY <1>1, RoutingInvariantHolds, PTL

\* Neither console.error branch is reached: an Open finds its id free and an AckOpen
\* finds the open() it answers.
THEOREM OpensAreAlwaysExpected ==
    ASSUME OneOpens
    PROVE  Spec => []OpensAreExpected
  <1>1. RoutingInvariant => OpensAreExpected
    <2> SUFFICES ASSUME RoutingInvariant, NEW e \in End, link[e] # <<>>,
                        NEW m \in Message, m = Head(link[e])
                 PROVE  /\ m.type = "Open" => openChannels[e][m.id] = None
                        /\ m.type = "AckOpen" => pendingOpen[e][m.id] = m.n
      BY LinkTyped DEF OpensAreExpected, RoutingInvariant
    <2> QED BY HeadExpected
  <1> QED BY <1>1, RoutingInvariantHolds, PTL

\* Data and a Close never reach a younger channel of their id.
THEOREM MessagesAlwaysStayInTheirChannel ==
    ASSUME OneOpens
    PROVE  Spec => []MessagesStayInTheirChannel
  <1>1. RoutingInvariant => MessagesStayInTheirChannel
    <2> SUFFICES ASSUME RoutingInvariant, NEW e \in End, link[e] # <<>>,
                        NEW m \in Message, m = Head(link[e]), m.type \in {"Data", "Close"}
                 PROVE  openChannels[e][m.id] \in {None, m.n}
      BY LinkTyped DEF MessagesStayInTheirChannel, RoutingInvariant
    <2> QED BY HeadExpected
  <1> QED BY <1>1, RoutingInvariantHolds, PTL

\* With nothing in flight both ends have the same channels open and no open() waits.
THEOREM EndsAgreeWhenQuiet ==
    ASSUME OneOpens
    PROVE  Spec => []AgreeWhenQuiet
  <1>1. RoutingInvariant => AgreeWhenQuiet
    <2> SUFFICES ASSUME RoutingInvariant, BothAlive, \A e \in End : link[e] = <<>>
                 PROVE  /\ openChannels["frontend"] = openChannels["backend"]
                        /\ \A e \in End, id \in Id : pendingOpen[e][id] = None
      BY DEF AgreeWhenQuiet
    <2>1. TypeOK /\ EntriesMatch /\ OldAreClosed /\ HandshakeGoesOn
      BY DEF RoutingInvariant
    <2>2. \A e \in End : Len(link[e]) = 0
      OBVIOUS
    <2>3. \A e \in End : \A type, n : ~ InFlight(link[e], type, n)
      BY <2>2 DEF InFlight
    <2>4. \A e \in End : \A n : ~ Closes(link[e], n, 1, Len(link[e]))
      BY <2>2 DEF Closes
    <2>5. ASSUME NEW e \in End, NEW id \in Id, <<e, id>> \in MayOpen
          PROVE  /\ openChannels[e][id] = openChannels[Other(e)][id]
                 /\ pendingOpen[e][id] = None
      <3>1. pendingOpen[e][id] = None
        BY <2>1, <2>3, <2>5, EndFacts DEF HandshakeGoesOn
      <3>2. openChannels[e][id] # None => openChannels[Other(e)][id] = openChannels[e][id]
        BY <2>1, <2>3, <2>5 DEF HandshakeGoesOn, Shared
      <3>3. openChannels[Other(e)][id] \in {None, Current(e, id)}
        BY <2>1, <2>4, <2>5, EndFacts DEF OldAreClosed
      <3> QED BY <3>1, <3>2, <3>3 DEF Current
    <2>6. ASSUME NEW e \in End, NEW id \in Id, <<e, id>> \notin MayOpen
          PROVE  /\ pendingOpen[e][id] = None
                 /\ <<Other(e), id>> \notin MayOpen => openChannels[e][id] = None
      <3>1. ASSUME NEW n \in DOMAIN request, request[n].id = id
            PROVE  request[n].end # e /\ <<Other(e), id>> \in MayOpen
        BY <2>1, <2>6, <3>1, OpenerFacts
      <3> QED BY <2>1, <3>1, EntryFacts
    <2>7. \A e \in End, id \in Id : pendingOpen[e][id] = None
      BY <2>5, <2>6
    <2>8. \A e \in End, id \in Id : openChannels[e][id] = openChannels[Other(e)][id]
      <3> SUFFICES ASSUME NEW e \in End, NEW id \in Id
                   PROVE  openChannels[e][id] = openChannels[Other(e)][id]
        OBVIOUS
      <3>0. PICK f \in End : f = Other(e) /\ e = Other(f)
        BY EndFacts
      <3>1. CASE <<e, id>> \in MayOpen \/ <<f, id>> \in MayOpen
        BY <2>5, <3>0, <3>1
      <3>2. CASE <<e, id>> \notin MayOpen /\ <<f, id>> \notin MayOpen
        <4>1. openChannels[e][id] = None
          BY <2>6, <3>0, <3>2
        <4>2. openChannels[f][id] = None
          BY <2>6, <3>0, <3>2
        <4> QED BY <3>0, <4>1, <4>2
      <3> QED BY <3>0, <3>1, <3>2
    <2>9. openChannels["frontend"] = openChannels["backend"]
      <3>1. /\ openChannels["frontend"] \in [Id -> 0 .. MaxOpens]
            /\ openChannels["backend"] \in [Id -> 0 .. MaxOpens]
        BY <2>1 DEF TypeOK, End
      <3>2. \A id \in Id : openChannels["frontend"][id] = openChannels["backend"][id]
        BY <2>8 DEF End, Other
      <3> QED BY <3>1, <3>2
    <2> QED BY <2>7, <2>9
  <1> QED BY <1>1, RoutingInvariantHolds, PTL
-----------------------------------------------------------------------------
(* What the owners of channels are promised *)

Sound == OneOpens /\ RoutingInvariant

\* An Open is handled by an end that has nothing of its id.
LEMMA OpenCreates ==
    ASSUME Sound, NEW e \in End, HandleOpen(e)
    PROVE  \E n \in Number :
             /\ n \in DOMAIN request /\ request[n].end = Other(e) /\ channel[e][n] = "none"
             /\ channel' = [channel EXCEPT ![e][n] = "open"]
             /\ alive[e] /\ UNCHANGED <<alive, pendingOpen, request, resolvedTo>>
  <1>1. OneOpens /\ RoutingInvariant /\ TypeOK /\ EntriesMatch
    BY DEF Sound, RoutingInvariant
  <1>2. /\ link[e] # <<>> /\ Head(link[e]).type = "Open"
        /\ UNCHANGED <<alive, pendingOpen, request>>
    BY DEF HandleOpen, Receives
  <1>3. PICK m \in Message : m = Head(link[e]) /\ m.id \in Id /\ m.n \in Number
    BY <1>1, <1>2, LinkTyped, MessageTyped
  <1>4. PICK n \in Number, id \in Id : n = m.n /\ id = m.id
    BY <1>3
  <1>5. MessageMatches(e, m) /\ alive[e] /\ openChannels[e][id] = None
    BY <1>1, <1>2, <1>3, <1>4, HeadExpected
  <1>6. /\ n \in DOMAIN request /\ request[n].id = id /\ request[n].end = Other(e)
        /\ \A k \in DOMAIN request : request[k].id = m.id /\ k >= m.n => channel[e][k] = "none"
    BY <1>2, <1>3, <1>4, <1>5 DEF MessageMatches
  <1>7. channel[e][n] = "none"
    BY <1>1, <1>4, <1>6, RequestFacts
  <1>8. pendingOpen[e][id] = None
    <2>1. <<e, id>> \notin MayOpen
      BY <1>1, <1>6, OpenerFacts, EndFacts DEF OneOpens
    <2>2. ASSUME NEW p \in DOMAIN request, request[p].id = id
          PROVE  request[p].end # e
      BY <1>1, <2>1, <2>2, OpenerFacts
    <2> QED BY <1>1, <2>2, EntryFacts
  <1>9. channel' = [channel EXCEPT ![e][n] = "open"] /\ resolvedTo' = resolvedTo
    BY <1>3, <1>4, <1>5, <1>8 DEF HandleOpen, Create
  <1> QED BY <1>2, <1>5, <1>6, <1>7, <1>9

\* An AckOpen is handled by an end whose open() of that number is pending, when the
\* other end has the channel.
LEMMA AckOpenCreates ==
    ASSUME Sound, NEW e \in End, HandleAckOpen(e)
    PROVE  \E n \in Number :
             /\ n \in DOMAIN request /\ request[n].end = e /\ channel[e][n] = "none"
             /\ channel[Other(e)][n] # "none"
             /\ channel' = [channel EXCEPT ![e][n] = "open"]
             /\ pendingOpen[e][request[n].id] = n
             /\ pendingOpen' = [pendingOpen EXCEPT ![e][request[n].id] = None]
             /\ Resolve(n, n)
             /\ alive[e] /\ UNCHANGED <<alive, request>>
  <1>1. OneOpens /\ RoutingInvariant /\ TypeOK /\ EntriesMatch
    BY DEF Sound, RoutingInvariant
  <1>2. /\ link[e] # <<>> /\ Head(link[e]).type = "AckOpen"
        /\ UNCHANGED <<alive, request>>
    BY DEF HandleAckOpen, Receives
  <1>3. PICK m \in Message : m = Head(link[e]) /\ m.id \in Id /\ m.n \in Number
    BY <1>1, <1>2, LinkTyped, MessageTyped
  <1>4. PICK n \in Number, id \in Id : n = m.n /\ id = m.id
    BY <1>3
  <1>5. MessageMatches(e, m) /\ alive[e] /\ pendingOpen[e][id] = n /\ n # None
    BY <1>1, <1>2, <1>3, <1>4, HeadExpected, NumberFacts
  <1>6. /\ n \in DOMAIN request /\ request[n].id = id /\ request[n].end = e
        /\ channel[Other(e)][n] # "none"
    BY <1>2, <1>3, <1>4, <1>5 DEF MessageMatches
  <1>7. channel[e][n] = "none"
    BY <1>1, <1>5, EntryFacts
  <1>8. /\ channel' = [channel EXCEPT ![e][n] = "open"]
        /\ pendingOpen' = [pendingOpen EXCEPT ![e][id] = None]
        /\ Resolve(n, n)
    BY <1>3, <1>4, <1>5 DEF HandleAckOpen, Create
  <1> QED BY <1>2, <1>5, <1>6, <1>7, <1>8

\* A Close is for the channel it was written for, if that is still open.
LEMMA CloseTells ==
    ASSUME Sound, NEW e \in End, HandleClose(e)
    PROVE  /\ alive[e] /\ UNCHANGED <<alive, pendingOpen, request, resolvedTo>>
           /\ \/ UNCHANGED channel
              \/ \E n \in Number :
                   /\ channel[e][n] = "open" /\ channel[Other(e)][n] = "closed"
                   /\ channel' = [channel EXCEPT ![e][n] = "told"]
  <1>1. OneOpens /\ RoutingInvariant /\ TypeOK /\ EntriesMatch
    BY DEF Sound, RoutingInvariant
  <1>2. /\ link[e] # <<>> /\ Head(link[e]).type = "Close" /\ alive[e]
        /\ UNCHANGED <<alive, pendingOpen, request, resolvedTo>>
    BY DEF HandleClose, Receives
  <1>3. PICK m \in Message : m = Head(link[e]) /\ m.id \in Id /\ m.n \in Number
    BY <1>1, <1>2, LinkTyped, MessageTyped
  <1>4. PICK n \in Number, id \in Id : n = m.n /\ id = m.id
    BY <1>3
  <1>5. MessageMatches(e, m) /\ openChannels[e][id] \in {None, n}
    BY <1>1, <1>2, <1>3, <1>4, HeadExpected
  <1>6. channel[Other(e)][n] = "closed"
    BY <1>2, <1>3, <1>4, <1>5 DEF MessageMatches
  <1>7. openChannels[e][id] # None => channel[e][n] = "open"
    BY <1>1, <1>5 DEF EntriesMatch, OpenHasChannel
  <1> QED BY <1>2, <1>3, <1>4, <1>5, <1>6, <1>7 DEF HandleClose, Told

\* A step that makes no open() and gives no open() its channel keeps the promises.
LEMMA PromisesStay ==
    ASSUME TypeOK, PromisesMatch, request' = request, resolvedTo' = resolvedTo,
           \A e \in End : alive'[e] => alive[e] /\ pendingOpen'[e] = pendingOpen[e],
           \A n \in DOMAIN request :
             channel'[request[n].end][n] = "none" <=> channel[request[n].end][n] = "none"
    PROVE  PromisesMatch'
  <1>1. \A n \in DOMAIN request : request[n].end \in End
    BY RequestFacts
  <1> QED BY <1>1 DEF PromisesMatch

LEMMA PromisesOfOpen ==
    ASSUME Sound, PromisesMatch, NEW e \in End, NEW id \in Id, Open(e, id)
    PROVE  PromisesMatch'
  <1>1. TypeOK /\ EntriesMatch
    BY DEF Sound, RoutingInvariant
  <1>2. PICK k \in Number : k = Len(request) + 1
    <2>1. Len(request) < MaxOpens /\ Len(request) \in Nat /\ MaxOpens \in Nat
      BY <1>1, RequestFacts, NumberFacts DEF Open
    <2> QED BY <2>1 DEF Number
  <1>3. /\ request' = Append(request, [end |-> e, id |-> id])
        /\ pendingOpen' = [pendingOpen EXCEPT ![e][id] = k]
        /\ UNCHANGED <<alive, channel, resolvedTo>> /\ pendingOpen[e][id] = None
    BY <1>2 DEF Open, Free
  <1>4. /\ DOMAIN request' = DOMAIN request \union {k} /\ k \notin DOMAIN request
        /\ \A n \in DOMAIN request : request'[n] = request[n]
        /\ request'[k].end = e /\ request'[k].id = id
    BY <1>1, <1>2, <1>3, RequestFacts
  <1>5. channel[e][k] = "none"
    BY <1>1, <1>4 DEF EntriesMatch, ChannelsAreRequested
  <1>6. pendingOpen \in [End -> [Id -> 0 .. MaxOpens]]
    BY <1>1 DEF TypeOK
  <1>7. ASSUME NEW n \in Number, n \in DOMAIN request'
        PROVE  LET f == request'[n].end IN
                 /\ channel[f][n] = "none" => resolvedTo[n] = None
                 /\ channel[f][n] # "none" => resolvedTo[n] = n
                 /\ alive[f] /\ channel[f][n] = "none" => pendingOpen'[f][request'[n].id] = n
    <2>1. CASE n = k
      BY <1>3, <1>4, <1>5, <1>6, <2>1 DEF PromisesMatch
    <2>2. CASE n # k
      <3>1. /\ n \in DOMAIN request /\ request'[n] = request[n]
            /\ request[n].end \in End /\ request[n].id \in Id /\ n # None
        BY <1>1, <1>4, <1>7, <2>2, RequestFacts
      <3>2. alive[request[n].end] /\ channel[request[n].end][n] = "none" =>
              pendingOpen[request[n].end][request[n].id] = n
        BY <3>1 DEF PromisesMatch
      <3>3. pendingOpen[request[n].end][request[n].id] = n =>
              pendingOpen'[request[n].end][request[n].id] = n
        BY <1>3, <1>6, <3>1
      <3> QED BY <3>1, <3>2, <3>3 DEF PromisesMatch
    <2> QED BY <2>1, <2>2
  <1>8. \A n \in Number : n \notin DOMAIN request' => resolvedTo[n] = None
    BY <1>4 DEF PromisesMatch
  <1> QED BY <1>3, <1>7, <1>8 DEF PromisesMatch

LEMMA PromisesOfAckOpen ==
    ASSUME Sound, PromisesMatch, NEW e \in End, HandleAckOpen(e)
    PROVE  PromisesMatch' /\ Contract!Next
  <1>1. TypeOK /\ EntriesMatch
    BY DEF Sound, RoutingInvariant
  <1>2. PICK n \in Number :
          /\ n \in DOMAIN request /\ request[n].end = e /\ channel[e][n] = "none"
          /\ channel[Other(e)][n] # "none"
          /\ channel' = [channel EXCEPT ![e][n] = "open"]
          /\ pendingOpen[e][request[n].id] = n
          /\ pendingOpen' = [pendingOpen EXCEPT ![e][request[n].id] = None]
          /\ Resolve(n, n)
          /\ alive[e] /\ UNCHANGED <<alive, request>>
    BY AckOpenCreates
  <1>3. resolvedTo[n] = None /\ resolvedTo' = [resolvedTo EXCEPT ![n] = n]
    BY <1>2 DEF PromisesMatch, Resolve
  <1>4. /\ channel \in [End -> [Number -> {"none", "open", "told", "closed"}]]
        /\ pendingOpen \in [End -> [Id -> 0 .. MaxOpens]] /\ resolvedTo \in [Number -> 0 .. MaxOpens]
    BY <1>1 DEF TypeOK
  <1>5. ASSUME NEW k \in Number, k \in DOMAIN request, k # n
        PROVE  LET f == request[k].end IN
                 /\ channel'[f][k] = channel[f][k] /\ resolvedTo'[k] = resolvedTo[k]
                 /\ pendingOpen[f][request[k].id] = k => pendingOpen'[f][request[k].id] = k
    <2>1. request[k].end \in End /\ request[k].id \in Id /\ request[n].id \in Id
      BY <1>1, <1>2, <1>5, RequestFacts
    <2> QED BY <1>2, <1>3, <1>4, <1>5, <2>1
  <1>6. channel'[e][n] = "open" /\ resolvedTo'[n] = n /\ \A k \in Number \ {n} : resolvedTo'[k] = resolvedTo[k]
    BY <1>2, <1>3, <1>4
  <1>7. ASSUME NEW k \in Number, k \in DOMAIN request
        PROVE  LET f == request[k].end IN
                 /\ channel'[f][k] = "none" => resolvedTo'[k] = None
                 /\ channel'[f][k] # "none" => resolvedTo'[k] = k
                 /\ alive[f] /\ channel'[f][k] = "none" => pendingOpen'[f][request[k].id] = k
    BY <1>2, <1>5, <1>6, <1>7 DEF PromisesMatch
  <1>8. ASSUME NEW k \in Number, k \notin DOMAIN request
        PROVE  resolvedTo'[k] = None
    BY <1>2, <1>6, <1>8 DEF PromisesMatch
  <1>9. PromisesMatch'
    BY <1>2, <1>7, <1>8 DEF PromisesMatch
  <1>10. Contract!Answer(e, n)
    BY <1>2, <1>3, EndFacts DEF Contract!Answer, Contract!Becomes
  <1> QED BY <1>9, <1>10 DEF Contract!Next

\* Each step of the multiplexers keeps the promises, and is one of ChannelPair's or
\* none of its steps.
LEMMA ContractOpen ==
    ASSUME Sound, PromisesMatch, NEW e \in End, NEW id \in Id, Open(e, id)
    PROVE  Contract!Open(e, id)
  <1>1. TypeOK /\ EntriesMatch /\ OpenChannelIsRouted
    BY DEF Sound, RoutingInvariant
  <1>2. /\ openChannels[e][id] = None /\ pendingOpen[e][id] = None
        /\ request' = Append(request, [end |-> e, id |-> id])
        /\ UNCHANGED <<alive, channel, resolvedTo>>
    BY DEF Open, Free
  <1>3. ASSUME NEW n \in DOMAIN request, request[n].id = id
        PROVE  /\ channel[e][n] # "open"
               /\ alive[e] /\ request[n].end = e => channel[e][n] # "none"
    <2>1. n \in Number /\ n # None
      BY <1>1, RequestFacts
    <2> QED BY <1>1, <1>2, <1>3, <2>1 DEF OpenChannelIsRouted, PromisesMatch
  <1> QED BY <1>2, <1>3 DEF Contract!Open

LEMMA ContractUnderlyingClose ==
    ASSUME Sound, PromisesMatch, NEW e \in End, UnderlyingChannelClose(e)
    PROVE  PromisesMatch' /\ Contract!Disconnect(e)
  <1>1. TypeOK /\ EntriesMatch /\ OpenChannelIsRouted
    BY DEF Sound, RoutingInvariant
  <1>2. /\ alive[e] /\ alive' = [alive EXCEPT ![e] = FALSE]
        /\ pendingOpen' = [pendingOpen EXCEPT ![e] = Cleared]
        /\ channel' = [channel EXCEPT ![e] = [n \in Number |->
             IF \E id \in Id : openChannels[e][id] = n THEN "told" ELSE channel[e][n]]]
        /\ UNCHANGED <<request, resolvedTo>>
    BY DEF UnderlyingChannelClose
  <1>3. ASSUME NEW n \in Number
        PROVE  (\E id \in Id : openChannels[e][id] = n) <=> channel[e][n] = "open"
    <2>1. ASSUME NEW id \in Id, openChannels[e][id] = n
          PROVE  channel[e][n] = "open"
      BY <1>1, <2>1, EntryFacts, NumberFacts
    <2>2. ASSUME channel[e][n] = "open"
          PROVE  request[n].id \in Id /\ openChannels[e][request[n].id] = n
      BY <1>1, <2>2, RequestFacts DEF EntriesMatch, ChannelsAreRequested, OpenChannelIsRouted
    <2> QED BY <2>1, <2>2
  <1>4. channel' = [channel EXCEPT ![e] = [n \in Number |->
          IF channel[e][n] = "open" THEN "told" ELSE channel[e][n]]]
    BY <1>2, <1>3
  <1>5. /\ channel \in [End -> [Number -> {"none", "open", "told", "closed"}]]
        /\ pendingOpen \in [End -> [Id -> 0 .. MaxOpens]] /\ alive \in [End -> BOOLEAN]
    BY <1>1 DEF TypeOK
  <1>6. \A f \in End : alive'[f] => alive[f] /\ pendingOpen'[f] = pendingOpen[f]
    BY <1>2, <1>5
  <1>7. ASSUME NEW n \in DOMAIN request
        PROVE  channel'[request[n].end][n] = "none" <=> channel[request[n].end][n] = "none"
    <2>1. n \in Number /\ request[n].end \in End
      BY <1>1, RequestFacts
    <2> QED BY <1>4, <1>5, <2>1
  <1>8. PromisesMatch'
    BY <1>1, <1>2, <1>6, <1>7, PromisesStay
  <1>9. Contract!Disconnect(e)
    BY <1>2, <1>4 DEF Contract!Disconnect
  <1> QED BY <1>8, <1>9

\* An object of an end changes that the end has.
LEMMA ContractOfOne ==
    ASSUME TypeOK, PromisesMatch, NEW e \in End, NEW n \in Number, NEW s,
           channel' = [channel EXCEPT ![e][n] = s], s # "none", channel[e][n] # "none" \/ request[n].end # e,
           UNCHANGED <<alive, pendingOpen, request, resolvedTo>>
    PROVE  PromisesMatch'
  <1>1. channel \in [End -> [Number -> {"none", "open", "told", "closed"}]]
    BY DEF TypeOK
  <1>2. ASSUME NEW k \in DOMAIN request
        PROVE  channel'[request[k].end][k] = "none" <=> channel[request[k].end][k] = "none"
    <2>1. k \in Number /\ request[k].end \in End
      BY RequestFacts
    <2> QED BY <1>1, <2>1
  <1> QED BY <1>2, PromisesStay

LEMMA ContractStep ==
    ASSUME Sound, PromisesMatch, [Next]_vars
    PROVE  PromisesMatch' /\ [Contract!Next]_(Contract!vars)
  <1>1. TypeOK /\ EntriesMatch
    BY DEF Sound, RoutingInvariant
  <1>2. ASSUME NEW e \in End, NEW id \in Id, Open(e, id)
        PROVE  PromisesMatch' /\ Contract!Next
    BY <1>2, ContractOpen, PromisesOfOpen DEF Contract!Next
  <1>3. ASSUME NEW e \in End, NEW n \in Number, Close(e, n)
        PROVE  PromisesMatch' /\ Contract!Next
    <2>1. /\ channel[e][n] = "open" /\ channel' = [channel EXCEPT ![e][n] = "closed"]
          /\ UNCHANGED <<alive, pendingOpen, request, resolvedTo>>
      BY <1>3 DEF Close
    <2>2. Contract!Close(e, n)
      BY <2>1 DEF Contract!Close, Contract!Becomes
    <2> QED BY <1>1, <2>1, <2>2, ContractOfOne DEF Contract!Next
  <1>4. ASSUME UNCHANGED <<alive, pendingOpen, channel, request, resolvedTo>>
        PROVE  PromisesMatch' /\ UNCHANGED Contract!vars
    BY <1>1, <1>4, PromisesStay DEF Contract!vars
  <1>5. ASSUME NEW e \in End, NEW n \in Number, WriteData(e, n)
        PROVE  PromisesMatch' /\ UNCHANGED Contract!vars
    BY <1>4, <1>5 DEF WriteData
  <1>6. ASSUME NEW e \in End, HandleData(e)
        PROVE  PromisesMatch' /\ UNCHANGED Contract!vars
    BY <1>4, <1>6 DEF HandleData
  <1>7. ASSUME NEW e \in End, HandleOpen(e)
        PROVE  PromisesMatch' /\ Contract!Next
    <2>1. PICK n \in Number :
            /\ n \in DOMAIN request /\ request[n].end = Other(e) /\ channel[e][n] = "none"
            /\ channel' = [channel EXCEPT ![e][n] = "open"]
            /\ alive[e] /\ UNCHANGED <<alive, pendingOpen, request, resolvedTo>>
      BY <1>7, OpenCreates
    <2>2. Other(e) # e
      BY EndFacts
    <2>3. Contract!Appear(e, n)
      BY <2>1, <2>2 DEF Contract!Appear, Contract!Becomes
    <2> QED BY <1>1, <2>1, <2>2, <2>3, ContractOfOne DEF Contract!Next
  <1>8. ASSUME NEW e \in End, HandleAckOpen(e)
        PROVE  PromisesMatch' /\ Contract!Next
    BY <1>8, PromisesOfAckOpen
  <1>9. ASSUME NEW e \in End, HandleClose(e)
        PROVE  PromisesMatch' /\ [Contract!Next]_(Contract!vars)
    <2>1. alive[e] /\ UNCHANGED <<alive, pendingOpen, request, resolvedTo>>
      BY <1>9, CloseTells
    <2>2. CASE UNCHANGED channel
      BY <1>4, <2>1, <2>2
    <2>3. ASSUME NEW n \in Number, channel[e][n] = "open", channel[Other(e)][n] = "closed",
                 channel' = [channel EXCEPT ![e][n] = "told"]
          PROVE  PromisesMatch' /\ Contract!Next
      <3>1. Contract!HearOfClose(e, n)
        BY <2>1, <2>3, EndFacts DEF Contract!HearOfClose, Contract!Becomes
      <3> QED BY <1>1, <2>1, <2>3, <3>1, ContractOfOne DEF Contract!Next
    <2> QED BY <1>9, <2>2, <2>3, CloseTells
  <1>10. ASSUME NEW e \in End, UnderlyingChannelClose(e)
         PROVE  PromisesMatch' /\ Contract!Next
    BY <1>10, ContractUnderlyingClose DEF Contract!Next
  <1>11. CASE UNCHANGED vars
    BY <1>4, <1>11 DEF vars
  <1> QED BY <1>2, <1>3, <1>5, <1>6, <1>7, <1>8, <1>9, <1>10, <1>11 DEF Next, Receive

LEMMA ContractInit == Init => PromisesMatch /\ Contract!Init
  <1> SUFFICES ASSUME Init PROVE PromisesMatch /\ Contract!Init
    OBVIOUS
  <1>1. request = <<>> /\ DOMAIN request = {} /\ \A n \in Number : resolvedTo[n] = None
    BY DEF Init
  <1> QED BY <1>1 DEF Init, PromisesMatch, Contract!Init

\* An open() that has resolved has its own channel, and one that has not is pending or
\* its end is gone.
THEOREM PromisesAlwaysMatch ==
    ASSUME OneOpens
    PROVE  Spec => []PromisesMatch
  <1>1. PromisesMatch /\ RoutingInvariant /\ [Next]_vars => PromisesMatch'
    BY ContractStep DEF Sound
  <1> QED BY <1>1, ContractInit, RoutingInvariantHolds, PTL DEF Spec

\* All of the invariant, as the run checks it.
THEOREM MultiplexerInvariantHolds ==
    ASSUME OneOpens
    PROVE  Spec => []MultiplexerInvariant
  <1>1. RoutingInvariant /\ PromisesMatch => MultiplexerInvariant
    BY DEF MultiplexerInvariant
  <1> QED BY <1>1, RoutingInvariantHolds, PromisesAlwaysMatch, PTL

\* The multiplexers implement ChannelPair.
THEOREM MultiplexerImplementsChannelPair ==
    ASSUME OneOpens
    PROVE  Spec => ImplementsChannelPair
  <1>1. PromisesMatch /\ RoutingInvariant /\ [Next]_vars => [Contract!Next]_(Contract!vars)
    BY ContractStep DEF Sound
  <1> QED BY <1>1, ContractInit, RoutingInvariantHolds, PromisesAlwaysMatch, PTL
        DEF Spec, ImplementsChannelPair, Contract!Spec

\* What the edge case of handleOpen is for holds when it is never needed: the channel an
\* open() handed out is the one messages are routed to until it closes.
THEOREM ResolvedAlwaysRouted ==
    ASSUME OneOpens
    PROVE  Spec => []ResolvedChannelIsRouted
  <1>1. PromisesMatch /\ RoutingInvariant => ResolvedChannelIsRouted
    <2> SUFFICES ASSUME PromisesMatch, RoutingInvariant, NEW n \in DOMAIN request,
                        resolvedTo[n] # None, channel[request[n].end][resolvedTo[n]] = "open"
                 PROVE  openChannels[request[n].end][request[n].id] = resolvedTo[n]
      BY DEF ResolvedChannelIsRouted
    <2>1. TypeOK /\ OpenChannelIsRouted
      BY DEF RoutingInvariant
    <2>2. n \in Number /\ request[n].end \in End
      BY <2>1, RequestFacts
    <2>3. resolvedTo[n] = n
      BY <2>2 DEF PromisesMatch
    <2> QED BY <2>1, <2>2, <2>3 DEF OpenChannelIsRouted
  <1> QED BY <1>1, PromisesAlwaysMatch, RoutingInvariantHolds, PTL
=============================================================================
