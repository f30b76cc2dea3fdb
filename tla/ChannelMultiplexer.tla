------------------------- MODULE ChannelMultiplexer -------------------------
(***************************************************************************)
(* Two ChannelMultiplexers on the two ends of one underlying channel:      *)
(* packages/core/src/common/message-rpc/channel.ts.                        *)
(*                                                                         *)
(* The underlying channel delivers in order and loses nothing until one of *)
(* its ends closes; what crosses a reconnect is FrontendConnection's       *)
(* subject.  Every call of open() takes the next number.  The code sends   *)
(* no numbers, only channel ids: here they tell apart the ForwardingChannel*)
(* objects that are created for one id over time, and each message carries *)
(* the number of the open() or of the object that wrote it for the         *)
(* properties to compare.  No guard and no update reads it.                *)
(***************************************************************************)
EXTENDS Naturals, Sequences

CONSTANTS
    Id,             \* channel ids (service paths)
    MayOpen,        \* which end calls open() for which id
    MaxOpens,       \* bound: calls of open()
    MaxLink         \* bound: data is written only to a link shorter than this

End == {"frontend", "backend"}
Other(e) == IF e = "frontend" THEN "backend" ELSE "frontend"

ASSUME MultiplexerAssumption ==
    /\ MayOpen \subseteq End \X Id
    /\ MaxOpens \in Nat /\ MaxLink \in Nat

Number == 1 .. MaxOpens
None == 0

VARIABLES
    alive,          \* the multiplexer of the end is not disposed
    pendingOpen,    \* per end and id, the open() whose promise is unresolved
    openChannels,   \* per end and id, the object messages are routed to
    channel,        \* per end and number, the state of the object
    request,        \* the open() calls so far: which end asked for which id
    resolvedTo,     \* the object the promise of each of them resolved to
    link            \* per end, the messages on their way to it

vars == <<alive, pendingOpen, openChannels, channel, request, resolvedTo, link>>

MessageType == {"Open", "Close", "AckOpen", "Data"}
Message == [type : MessageType, id : Id, n : Number]

TypeOK ==
    /\ alive \in [End -> BOOLEAN]
    /\ pendingOpen \in [End -> [Id -> 0 .. MaxOpens]]
    /\ openChannels \in [End -> [Id -> 0 .. MaxOpens]]
    /\ channel \in [End -> [Number -> {"none", "open", "told", "closed"}]]
    /\ request \in Seq([end : End, id : Id]) /\ Len(request) <= MaxOpens
    /\ resolvedTo \in [Number -> 0 .. MaxOpens]
    /\ link \in [End -> Seq(Message)]

Init ==
    /\ alive = [e \in End |-> TRUE]
    /\ pendingOpen = [e \in End |-> [id \in Id |-> None]]
    /\ openChannels = [e \in End |-> [id \in Id |-> None]]
    /\ channel = [e \in End |-> [n \in Number |-> "none"]]
    /\ request = <<>>
    /\ resolvedTo = [n \in Number |-> None]
    /\ link = [e \in End |-> <<>>]

-----------------------------------------------------------------------------
(* The link.  l is the link after the message being handled was taken.     *)

Msg(type, id, n) == [type |-> type, id |-> id, n |-> n]

Send(l, e, m) ==
    IF alive["frontend"] /\ alive["backend"]
      THEN [l EXCEPT ![Other(e)] = Append(@, m)] ELSE l

Taken(e) == [link EXCEPT ![e] = Tail(@)]

Receives(e, type) == alive[e] /\ link[e] # <<>> /\ Head(link[e]).type = type

-----------------------------------------------------------------------------
(* Calls *)

\* Mutant: open() does not look at the open() calls that are pending.
FreeUnlessOpen(e, id) == openChannels[e][id] = None
Free(e, id) == openChannels[e][id] = None /\ pendingOpen[e][id] = None

\* Mutant: the channel is there before the other side acknowledged it.
OpenAtOnce(e, id) ==
    /\ <<e, id>> \in MayOpen
    /\ Free(e, id)
    /\ Len(request) < MaxOpens
    /\ request' = Append(request, [end |-> e, id |-> id])
    /\ openChannels' = [openChannels EXCEPT ![e][id] = Len(request) + 1]
    /\ channel' = [channel EXCEPT ![e][Len(request) + 1] = "open"]
    /\ link' = Send(link, e, Msg("Open", id, Len(request) + 1))
    /\ UNCHANGED <<alive, pendingOpen, resolvedTo>>

\* open(id): throws, changing nothing, while the id is open or pending.
Open(e, id) ==
    /\ <<e, id>> \in MayOpen
    /\ Free(e, id)
    /\ Len(request) < MaxOpens
    /\ request' = Append(request, [end |-> e, id |-> id])
    /\ pendingOpen' = [pendingOpen EXCEPT ![e][id] = Len(request) + 1]
    /\ link' = Send(link, e, Msg("Open", id, Len(request) + 1))
    /\ UNCHANGED <<alive, openChannels, channel, resolvedTo>>

\* Mutant: close() does not tell the other side.
CloseSilently(e, n) ==
    /\ channel[e][n] = "open"
    /\ channel' = [channel EXCEPT ![e][n] = "closed"]
    /\ openChannels' = [openChannels EXCEPT ![e][request[n].id] = None]
    /\ UNCHANGED <<alive, pendingOpen, request, resolvedTo, link>>

\* ForwardingChannel.close(): its emitters are disposed and closeChannel(id)
\* deletes whatever is open under the id.  Owners do not close a channel they
\* were told is closed.
Close(e, n) ==
    /\ channel[e][n] = "open"
    /\ channel' = [channel EXCEPT ![e][n] = "closed"]
    /\ openChannels' = [openChannels EXCEPT ![e][request[n].id] = None]
    /\ link' = Send(link, e, Msg("Close", request[n].id, n))
    /\ UNCHANGED <<alive, pendingOpen, request, resolvedTo>>

\* The owner of a channel that is open as far as it knows writes to it.
WriteData(e, n) ==
    /\ channel[e][n] = "open"
    /\ Len(link[Other(e)]) < MaxLink
    /\ link' = Send(link, e, Msg("Data", request[n].id, n))
    /\ UNCHANGED <<alive, pendingOpen, openChannels, channel, request, resolvedTo>>

-----------------------------------------------------------------------------
(* Messages *)

Create(e, n) == channel' = [channel EXCEPT ![e][n] = "open"]

\* Resolving a promise a second time has no effect.
Resolve(p, n) ==
    resolvedTo' = IF resolvedTo[p] = None THEN [resolvedTo EXCEPT ![p] = n] ELSE resolvedTo

HandleAckOpen(e) ==
    /\ Receives(e, "AckOpen")
    /\ link' = Taken(e)
    /\ LET id == Head(link[e]).id
           n == Head(link[e]).n IN
         IF pendingOpen[e][id] # None
           THEN /\ Create(e, n)
                /\ pendingOpen' = [pendingOpen EXCEPT ![e][id] = None]
                /\ openChannels' = [openChannels EXCEPT ![e][id] = n]
                /\ Resolve(pendingOpen[e][id], n)
           ELSE UNCHANGED <<channel, pendingOpen, openChannels, resolvedTo>>
    /\ UNCHANGED <<alive, request>>

\* Mutant: an Open is not answered.
NoAck(e, id, n) == link' = Taken(e)
Ack(e, id, n) == link' = Send(Taken(e), e, Msg("AckOpen", id, n))

\* "edge case: both side try to open a channel at the same time": the pending
\* open() is resolved but stays pending.
HandleOpen(e) ==
    /\ Receives(e, "Open")
    /\ LET id == Head(link[e]).id
           n == Head(link[e]).n IN
         IF openChannels[e][id] = None
           THEN /\ Create(e, n)
                /\ openChannels' = [openChannels EXCEPT ![e][id] = n]
                /\ IF pendingOpen[e][id] # None
                     THEN Resolve(pendingOpen[e][id], n) ELSE UNCHANGED resolvedTo
                /\ Ack(e, id, n)
           ELSE link' = Taken(e) /\ UNCHANGED <<channel, openChannels, resolvedTo>>
    /\ UNCHANGED <<alive, pendingOpen, request>>

Told(e, n) == channel' = [channel EXCEPT ![e][n] = "told"]

HandleClose(e) ==
    /\ Receives(e, "Close")
    /\ link' = Taken(e)
    /\ LET id == Head(link[e]).id
           n == openChannels[e][id] IN
         IF n # None
           THEN /\ Told(e, n)
                /\ openChannels' = [openChannels EXCEPT ![e][id] = None]
           ELSE UNCHANGED <<channel, openChannels>>
    /\ UNCHANGED <<alive, pendingOpen, request, resolvedTo>>

\* The open channel of the id fires onMessage; data for no channel is dropped.
HandleData(e) ==
    /\ Receives(e, "Data")
    /\ link' = Taken(e)
    /\ UNCHANGED <<alive, pendingOpen, openChannels, channel, request, resolvedTo>>

\* Mutant: the map is dropped where it should be cleared.
NoMap == <<>>
Cleared == [id \in Id |-> None]

\* onUnderlyingChannelClose: every open channel is told, pending open() calls
\* are forgotten, and the multiplexer stops listening.
UnderlyingChannelClose(e) ==
    /\ alive[e]
    /\ alive' = [alive EXCEPT ![e] = FALSE]
    /\ pendingOpen' = [pendingOpen EXCEPT ![e] = Cleared]
    /\ channel' = [channel EXCEPT ![e] = [n \in Number |->
         IF \E id \in Id : openChannels[e][id] = n THEN "told" ELSE channel[e][n]]]
    /\ openChannels' = [openChannels EXCEPT ![e] = Cleared]
    /\ link' = [link EXCEPT ![e] = <<>>]
    /\ UNCHANGED <<request, resolvedTo>>

Receive(e) == HandleAckOpen(e) \/ HandleOpen(e) \/ HandleClose(e) \/ HandleData(e)

Next ==
    \E e \in End :
      \/ \E id \in Id : Open(e, id)
      \/ \E n \in Number : Close(e, n) \/ WriteData(e, n)
      \/ Receive(e)
      \/ UnderlyingChannelClose(e)

Spec == Init /\ [][Next]_vars

\* Both event loops handle what arrived, and when the underlying channel closes
\* on one end it closes on the other.
FairSpec ==
    /\ Spec
    /\ \A e \in End : WF_vars(Receive(e)) /\ WF_vars(~ alive[Other(e)] /\ UnderlyingChannelClose(e))

-----------------------------------------------------------------------------
(* Properties *)

BothAlive == alive["frontend"] /\ alive["backend"]

\* A channel object whose owner believes it open is the one its id is routed
\* to: messages for it arrive and its close event will reach it.
OpenChannelIsRouted ==
    \A e \in End, n \in Number :
      channel[e][n] = "open" => openChannels[e][request[n].id] = n

\* The two console.error branches are not reached: an Open never finds its id
\* open, which would leave the other side waiting for good, and an AckOpen
\* always finds the open() it answers.
OpensAreExpected ==
    \A e \in End : alive[e] /\ link[e] # <<>> =>
      LET m == Head(link[e]) IN
        /\ m.type = "Open" => openChannels[e][m.id] = None
        /\ m.type = "AckOpen" => pendingOpen[e][m.id] = m.n

\* Data and a Close reach the object that was opened together with the one they
\* were written for, or none: an id that is closed and opened again never hands
\* the new channel what belongs to the old.
MessagesStayInTheirChannel ==
    \A e \in End : alive[e] /\ link[e] # <<>> /\ Head(link[e]).type \in {"Data", "Close"} =>
      openChannels[e][Head(link[e]).id] \in {None, Head(link[e]).n}

\* Once nothing is in flight both ends agree on what is open, and no open() is
\* waiting.
AgreeWhenQuiet ==
    BothAlive /\ (\A e \in End : link[e] = <<>>) =>
      /\ openChannels["frontend"] = openChannels["backend"]
      /\ \A e \in End, id \in Id : pendingOpen[e][id] = None

\* The promise of every open() resolves, unless the channel below closed.
OpenResolves ==
    \A n \in Number :
      Len(request) >= n ~> Len(request) >= n /\ (resolvedTo[n] # None \/ ~ alive[request[n].end])

\* When one side closes a channel the owner of its peer hears of it, or closed
\* it too.
PeerHearsOfClose ==
    \A e \in End, n \in Number :
      channel[e][n] = "open" /\ channel[Other(e)][n] = "closed" ~> channel[e][n] # "open"

\* What the edge case of handleOpen is for: the channel an open() handed out is
\* the one messages are routed to until it closes.
ResolvedChannelIsRouted ==
    \A n \in DOMAIN request :
      LET e == request[n].end
          c == resolvedTo[n]
      IN c # None /\ channel[e][c] = "open" => openChannels[e][request[n].id] = c

\* The multiplexers implement ChannelPair, which has no ids on a link and no tables:
\* every open() makes a pair of channels that belong together, at most one of an id
\* at a time, and the promise resolves to its own.
Contract == INSTANCE ChannelPair
ImplementsChannelPair == Contract!Spec

-----------------------------------------------------------------------------
(* The inductive invariant, when each id is opened by one end only.  An id *)
(* alone tells no older channel from a younger one; what does is the order *)
(* of the messages.                                                        *)

OneOpens == \A e \in End, id \in Id : <<e, id>> \in MayOpen => <<Other(e), id>> \notin MayOpen

\* What the end that opens an id has of it.
Current(e, id) == IF pendingOpen[e][id] # None THEN pendingOpen[e][id] ELSE openChannels[e][id]

\* Channel n of an end is closed.
Over(c, n) == c[n] \in {"told", "closed"}

\* One of the messages i to k of l closes n.
Closes(l, n, i, k) == \E j \in i .. k : l[j].type = "Close" /\ l[j].n = n

ChannelsAreRequested ==
    /\ \A n \in DOMAIN request : <<request[n].end, request[n].id>> \in MayOpen
    /\ \A e \in End, n \in Number : channel[e][n] # "none" => n \in DOMAIN request

\* A pending open() has no channel yet, and its id none either.
PendingHasNone ==
    \A e \in End, id \in Id : pendingOpen[e][id] # None =>
      /\ openChannels[e][id] = None
      /\ pendingOpen[e][id] \in DOMAIN request
      /\ request[pendingOpen[e][id]].end = e /\ request[pendingOpen[e][id]].id = id
      /\ channel[e][pendingOpen[e][id]] = "none"

OpenHasChannel ==
    \A e \in End, id \in Id : openChannels[e][id] # None =>
      /\ openChannels[e][id] \in DOMAIN request
      /\ request[openChannels[e][id]].id = id
      /\ channel[e][openChannels[e][id]] = "open"

EntriesMatch == ChannelsAreRequested /\ PendingHasNone /\ OpenHasChannel

\* What the end that opens an id has is of its youngest open().
OpenerHasYoungest ==
    \A e \in End, id \in Id : <<e, id>> \in MayOpen /\ Current(e, id) # None =>
      \A k \in DOMAIN request : request[k].id = id => k <= Current(e, id)

\* What the other end has is the youngest channel it ever had of the id.
OtherHasYoungest ==
    \A e \in End, id \in Id : <<Other(e), id>> \in MayOpen /\ openChannels[e][id] # None =>
      \A k \in DOMAIN request :
        request[k].id = id /\ k > openChannels[e][id] => channel[e][k] = "none"

\* The end that called open() has its channel after the other one.
OtherHasIt ==
    \A n \in DOMAIN request : \A e \in End :
      request[n].end = e /\ channel[e][n] # "none" => channel[Other(e)][n] # "none"

MessageMatches(e, m) ==
    /\ m.n \in DOMAIN request /\ request[m.n].id = m.id
    /\ m.type = "Open" =>
         /\ request[m.n].end = Other(e)
         /\ \A k \in DOMAIN request : request[k].id = m.id /\ k >= m.n => channel[e][k] = "none"
         /\ alive[Other(e)] => pendingOpen[Other(e)][m.id] = m.n
    /\ m.type = "AckOpen" => request[m.n].end = e /\ pendingOpen[e][m.id] = m.n
    /\ m.type # "Open" => channel[Other(e)][m.n] # "none"
    /\ m.type = "Close" => channel[Other(e)][m.n] = "closed"

\* A message in flight is for an open() of its id, and neither an Open nor an
\* AckOpen is late.
LinkMatches ==
    \A e \in End :
      /\ ~ alive[e] => link[e] = <<>>
      /\ \A i \in 1 .. Len(link[e]) : MessageMatches(e, link[e][i])

\* Message i of a link comes before m: it is of no later open() and, when the end
\* that opens the id sends both, its own channel is over or closed by then.
ComesBefore(e, i, m, k) ==
    link[e][i].id = m.id =>
      /\ link[e][i].n <= m.n
      /\ m.type \in {"Open", "AckOpen"} => link[e][i].n # m.n
      /\ request[link[e][i].n].end = Other(e) /\ link[e][i].n # m.n =>
           Over(channel[e], link[e][i].n) \/ Closes(link[e], link[e][i].n, i, k)

LinkOrdered ==
    \A e \in End : \A i, k \in 1 .. Len(link[e]) :
      i < k => ComesBefore(e, i, link[e][k], k - 1)

\* The same about what the end that receives m has open, and m is of no later
\* open() than what the end that sent it has.
ComesAfterOpen(e, m, k) ==
    /\ m.n >= openChannels[e][m.id]
    /\ openChannels[Other(e)][m.id] # None => m.n <= openChannels[Other(e)][m.id]
    /\ openChannels[e][m.id] \notin {None, m.n} /\ request[m.n].end = Other(e) =>
         Closes(link[e], openChannels[e][m.id], 1, k)

LinkAhead ==
    \A e \in End : \A k \in 1 .. Len(link[e]) : ComesAfterOpen(e, link[e][k], k - 1)

\* What the end that opens an id no longer has, the other has not, or is told to
\* close.
OldAreClosed ==
    BothAlive => \A e \in End, id \in Id : <<Other(e), id>> \in MayOpen =>
      /\ \A i \in 1 .. Len(link[e]) : link[e][i].id = id /\ link[e][i].n # Current(Other(e), id) =>
           Over(channel[e], link[e][i].n) \/ Closes(link[e], link[e][i].n, i, Len(link[e]))
      /\ openChannels[e][id] \notin {None, Current(Other(e), id)} =>
           Closes(link[e], openChannels[e][id], 1, Len(link[e]))

InFlight(l, type, n) == \E i \in 1 .. Len(l) : l[i].type = type /\ l[i].n = n

\* The other end has o of the id; that is channel n, or its Close is on the link l.
Shared(l, o, n) == o = n \/ InFlight(l, "Close", n)

\* An open() that is pending is on its way there or back, and what an end opened
\* is shared.
HandshakeGoesOn ==
    BothAlive => \A e \in End, id \in Id : <<e, id>> \in MayOpen =>
      /\ pendingOpen[e][id] # None =>
           \/ InFlight(link[Other(e)], "Open", pendingOpen[e][id])
           \/ /\ InFlight(link[e], "AckOpen", pendingOpen[e][id])
              /\ Shared(link[e], openChannels[Other(e)][id], pendingOpen[e][id])
      /\ openChannels[e][id] # None =>
           Shared(link[e], openChannels[Other(e)][id], openChannels[e][id])

RoutingInvariant ==
    /\ TypeOK /\ OpenChannelIsRouted
    /\ EntriesMatch /\ OpenerHasYoungest /\ OtherHasYoungest /\ OtherHasIt
    /\ LinkMatches /\ LinkOrdered /\ LinkAhead /\ OldAreClosed /\ HandshakeGoesOn

\* An open() has resolved to its own channel once there is one, and is pending
\* before, while its end lasts.
PromisesMatch ==
    \A n \in Number :
      /\ n \notin DOMAIN request => resolvedTo[n] = None
      /\ n \in DOMAIN request => LET e == request[n].end IN
           /\ channel[e][n] = "none" => resolvedTo[n] = None
           /\ channel[e][n] # "none" => resolvedTo[n] = n
           /\ alive[e] /\ channel[e][n] = "none" => pendingOpen[e][request[n].id] = n

MultiplexerInvariant == RoutingInvariant /\ PromisesMatch
=============================================================================
