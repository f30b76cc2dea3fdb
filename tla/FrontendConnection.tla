------------------------- MODULE FrontendConnection -------------------------
(***************************************************************************)
(* How one front end and the back end keep a channel over web sockets that *)
(* come and go: the front end's WebSocketConnectionSource                  *)
(* (packages/core/src/browser/messaging/ws-connection-source.ts) and the   *)
(* back end's WebsocketFrontendConnectionService and                       *)
(* ReconnectableSocketChannel                                              *)
(* (packages/core/src/node/messaging/websocket-frontend-connection-service.ts).*)
(*                                                                         *)
(* The back end's maps are keyed by front end id, so one id is modelled.   *)
(* The front end has one socket.io Socket object; every connect gives the  *)
(* back end a new socket, numbered here.  The two sides notice the loss of *)
(* a socket independently.  A context of the back end has the number of    *)
(* the socket it was created on.  A front end that reloads its page takes  *)
(* a new id, so reloadOnReconnect = false is the case modelled.            *)
(***************************************************************************)
EXTENDS Naturals, Sequences, FiniteSets

CONSTANTS
    Timeout,            \* frontendConnectionTimeout: "zero", "positive", "never"
    LateDisconnect,     \* the back end may notice a loss after the front end is back
    MaxLosses,          \* bound: sockets the network loses
    MaxChannels,        \* bound: channels of the front end
    MaxData             \* bound: messages written on each side

ASSUME ConnectionAssumption ==
    /\ Timeout \in {"zero", "positive", "never"}
    /\ LateDisconnect \in BOOLEAN
    /\ MaxLosses \in Nat /\ MaxChannels \in Nat /\ MaxData \in Nat

\* A lost socket is replaced by one, and by a second if that reconnect fails.
MaxSockets == 2 * MaxLosses + 1
Socket == 1 .. MaxSockets
Channel == 1 .. MaxChannels
None == 0

VARIABLES
    \* the front end
    socket,                 \* the connected socket
    currentChannel,
    clientState,            \* what the holders of each of its channels know
    contextOf,              \* the context each was opened for (only properties read it)
    reconnectListeners, initialListeners,   \* how many are registered
    queuedEmits,            \* INITIAL_CONNECTs emitted while not connected
    writeBuffer,
    \* the back end
    connection,             \* the entry of connectionsByFrontend
    serverState,
    channelSocket,          \* the socket field of each ReconnectableSocketChannel
    listening,              \* the sockets each of them has a data listener on
    armed,                  \* sockets that still listen for the negotiation
    disconnectListener,     \* the context each socket's disconnect is reported to
    closeTimeouts, timers,  \* the recorded timer and the timers that run
    markedForClose,
    socketBuffer,
    closedNothing,          \* closeConnection ran when there was no connection
    \* the network
    sockets, losses, serverUp, toServer, toClient,
    \* data written and the last item read, per reader
    upSent, downSent, upRead, downRead,
    hasty       \* what the front end wrote between 'connect' and the answer to it

clientVars == <<socket, currentChannel, clientState, contextOf, reconnectListeners,
                initialListeners, queuedEmits, writeBuffer>>
contextVars == <<connection, serverState, channelSocket, listening, socketBuffer>>
timerVars == <<closeTimeouts, timers, markedForClose, closedNothing>>
negotiationVars == <<armed, disconnectListener>>
networkVars == <<sockets, losses, serverUp, toServer, toClient>>
dataVars == <<upSent, downSent, upRead, downRead, hasty>>
vars == <<clientVars, contextVars, timerVars, negotiationVars, networkVars, dataVars>>

\* What a holder of a channel writes in one go, numbered per side; from is the
\* channel or context it was written to and is read by properties only.
Frame == [from : Socket \union Channel, n : 1 .. MaxData]
Control(type) == [type |-> type, frames |-> <<>>]
Data(frames) == [type |-> "DATA", frames |-> frames]
Message == [type : {"INITIAL", "RECONNECT", "RECONNECT_TRUE", "RECONNECT_FALSE"}, frames : {<<>>}]
     \union [type : {"DATA"}, frames : Seq(Frame) \ {<<>>}]

TypeOK ==
    /\ socket \in 0 .. MaxSockets
    /\ currentChannel \in 0 .. MaxChannels
    /\ clientState \in [Channel -> {"none", "open", "told", "dropped"}]
    /\ contextOf \in [Channel -> 0 .. MaxSockets]
    /\ reconnectListeners \in Nat /\ initialListeners \in Nat /\ queuedEmits \in Nat
    /\ writeBuffer \in Seq(Frame)
    /\ connection \in 0 .. MaxSockets
    /\ serverState \in [Socket -> {"none", "open", "closed"}]
    /\ channelSocket \in [Socket -> 0 .. MaxSockets]
    /\ listening \in [Socket -> SUBSET Socket]
    /\ socketBuffer \in [Socket -> Seq(Frame)]
    /\ armed \subseteq Socket
    /\ disconnectListener \in [Socket -> 0 .. MaxSockets]
    /\ closeTimeouts \in 0 .. MaxSockets /\ timers \subseteq Socket
    /\ markedForClose \in BOOLEAN /\ closedNothing \in BOOLEAN
    /\ sockets \in 0 .. MaxSockets /\ losses \in 0 .. MaxLosses
    /\ serverUp \subseteq Socket
    /\ toServer \in [Socket -> Seq(Message)]
    /\ toClient \in [Socket -> Seq(Message)]
    /\ upSent \in 0 .. MaxData /\ downSent \in 0 .. MaxData
    /\ upRead \in [Socket -> 0 .. MaxData] /\ downRead \in [Channel -> 0 .. MaxData]
    /\ hasty \subseteq 1 .. MaxData

Init ==
    /\ socket = None /\ currentChannel = None
    /\ clientState = [c \in Channel |-> "none"]
    /\ contextOf = [c \in Channel |-> None]
    /\ reconnectListeners = 0 /\ initialListeners = 0 /\ queuedEmits = 0
    /\ writeBuffer = <<>>
    /\ connection = None
    /\ serverState = [n \in Socket |-> "none"]
    /\ channelSocket = [n \in Socket |-> None]
    /\ listening = [n \in Socket |-> {}]
    /\ socketBuffer = [n \in Socket |-> <<>>]
    /\ armed = {}
    /\ disconnectListener = [s \in Socket |-> None]
    /\ closeTimeouts = None /\ timers = {}
    /\ markedForClose = FALSE /\ closedNothing = FALSE
    /\ sockets = 0 /\ losses = 0 /\ serverUp = {}
    /\ toServer = [s \in Socket |-> <<>>]
    /\ toClient = [s \in Socket |-> <<>>]
    /\ upSent = 0 /\ downSent = 0
    /\ upRead = [n \in Socket |-> 0] /\ downRead = [c \in Channel |-> 0]
    /\ hasty = {}

-----------------------------------------------------------------------------
(* The network.  A message sent on a socket the other side lost is gone.   *)

Repeat(m, k) == [i \in 1 .. k |-> m]

ToServer(s, ms) == [toServer EXCEPT ![s] = IF s \in serverUp THEN @ \o ms ELSE @]
ToClient(s, ms) == [toClient EXCEPT ![s] = IF s = socket THEN @ \o ms ELSE @]

Loss == losses < MaxLosses /\ losses' = losses + 1

\* Mutant: a buffer nothing was written to is sent as well.
AlwaysFlushed(buffer) == <<Data(buffer)>>

\* Everything a SocketWriteBuffer collected is sent as one socket message.
Flushed(buffer) == IF buffer = <<>> THEN <<>> ELSE <<Data(buffer)>>

-----------------------------------------------------------------------------
(* The front end *)

\* Mutant: what was buffered for the channel before is kept.
KeepBuffer == UNCHANGED writeBuffer
Drain == writeBuffer' = <<>>

\* Mutant: the listener is registered and INITIAL_CONNECT is not emitted.
OnlyListen(k) == initialListeners' = initialListeners + k /\ UNCHANGED queuedEmits

\* k times negotiateInitialConnect on a socket that is not connected.
NegotiateInitialConnect(k) ==
    initialListeners' = initialListeners + k /\ queuedEmits' = queuedEmits + k

\* The socket connects: socket.io sends what was emitted meanwhile and then
\* reports 'connect', on which the connection source negotiates.
SocketConnect ==
    /\ socket = None
    /\ sockets < MaxSockets
    /\ LateDisconnect \/ serverUp = {}
    /\ LET s == sockets + 1
           reconnect == currentChannel # None
           m == Control(IF reconnect THEN "RECONNECT" ELSE "INITIAL")
       IN /\ sockets' = s
          /\ socket' = s
          /\ serverUp' = serverUp \union {s}
          /\ armed' = armed \union {s}
          /\ toServer' = [toServer EXCEPT ![s] = Append(Repeat(Control("INITIAL"), queuedEmits), m)]
          /\ reconnectListeners' = reconnectListeners + IF reconnect THEN 1 ELSE 0
          /\ initialListeners' = initialListeners + IF reconnect THEN 0 ELSE 1
    /\ queuedEmits' = 0
    /\ UNCHANGED <<currentChannel, clientState, contextOf, writeBuffer, contextVars, timerVars,
                   disconnectListener, losses, toClient, dataVars>>

ClientReceives(type) ==
    /\ socket # None
    /\ toClient[socket] # <<>>
    /\ Head(toClient[socket]).type = type

TakenByClient == [toClient EXCEPT ![socket] = Tail(@)]

\* INITIAL_CONNECT runs every registered listener, and each runs
\* connectNewChannel, which closes the channel before it: closed first and
\* fired at after, that channel tells its holders nothing.
HandleInitialConnect ==
    /\ ClientReceives("INITIAL")
    /\ currentChannel + initialListeners <= MaxChannels
    /\ toClient' = TakenByClient
    /\ initialListeners' = 0
    /\ LET last == currentChannel + initialListeners IN
         /\ currentChannel' = last
         /\ clientState' = [c \in Channel |->
              CASE c = last /\ initialListeners > 0 -> "open"
                [] c < last /\ (c > currentChannel \/ clientState[c] = "open") -> "dropped"
                [] OTHER -> clientState[c]]
         /\ contextOf' = [c \in Channel |->
              IF c \in currentChannel + 1 .. last THEN disconnectListener[socket] ELSE contextOf[c]]
    /\ IF initialListeners > 0 THEN Drain ELSE UNCHANGED writeBuffer
    /\ UNCHANGED <<socket, reconnectListeners, queuedEmits, contextVars, timerVars,
                   negotiationVars, sockets, losses, serverUp, toServer, dataVars>>

\* Mutant: flush() sends the buffer and keeps it.
FlushTwice ==
    /\ ClientReceives("RECONNECT_TRUE")
    /\ toClient' = TakenByClient
    /\ reconnectListeners' = 0
    /\ IF reconnectListeners > 0
         THEN toServer' = ToServer(socket, Flushed(writeBuffer)) ELSE UNCHANGED toServer
    /\ UNCHANGED <<socket, currentChannel, clientState, contextOf, initialListeners, queuedEmits,
                   writeBuffer, contextVars, timerVars, negotiationVars, sockets, losses, serverUp,
                   dataVars>>

\* RECONNECT true: the listeners go and the buffer is flushed.
HandleReconnectTrue ==
    /\ ClientReceives("RECONNECT_TRUE")
    /\ toClient' = TakenByClient
    /\ reconnectListeners' = 0
    /\ IF reconnectListeners > 0
         THEN /\ toServer' = ToServer(socket, Flushed(writeBuffer))
              /\ writeBuffer' = <<>>
         ELSE UNCHANGED <<toServer, writeBuffer>>
    /\ UNCHANGED <<socket, currentChannel, clientState, contextOf, initialListeners, queuedEmits,
                   contextVars, timerVars, negotiationVars, sockets, losses, serverUp, dataVars>>

\* RECONNECT false: each listener tells the holders of the channel, drops the
\* socket and emits an INITIAL_CONNECT, which waits for the next one.
HandleReconnectFalse ==
    /\ ClientReceives("RECONNECT_FALSE")
    /\ IF reconnectListeners > 0
         THEN /\ clientState' = [clientState EXCEPT ![currentChannel] =
                   IF @ = "open" THEN "told" ELSE @]
              /\ Drain
              /\ socket' = None
              /\ NegotiateInitialConnect(reconnectListeners)
              /\ toClient' = [toClient EXCEPT ![socket] = <<>>]
         ELSE /\ toClient' = TakenByClient
              /\ UNCHANGED <<clientState, writeBuffer, socket, initialListeners, queuedEmits>>
    /\ reconnectListeners' = 0
    /\ UNCHANGED <<currentChannel, contextOf, contextVars, timerVars, negotiationVars,
                   sockets, losses, serverUp, toServer, dataVars>>

\* A message is read up to the end of its first frame, whatever follows.
HandleClientMessage ==
    /\ ClientReceives("DATA")
    /\ toClient' = TakenByClient
    /\ downRead' = IF currentChannel # None /\ clientState[currentChannel] = "open"
                     THEN [downRead EXCEPT ![currentChannel] = Head(toClient[socket]).frames[1].n]
                     ELSE downRead
    /\ UNCHANGED <<clientVars, contextVars, timerVars, negotiationVars, sockets, losses,
                   serverUp, toServer, upSent, downSent, upRead, hasty>>

\* A holder of a channel writes: to the socket, or to the buffer without one.
ClientWrite(c) ==
    /\ upSent < MaxData
    /\ clientState[c] \in {"open", "dropped"}
    /\ upSent' = upSent + 1
    /\ hasty' = IF socket # None /\ reconnectListeners > 0 THEN hasty \union {upSent + 1} ELSE hasty
    /\ LET frame == [from |-> c, n |-> upSent + 1] IN
         IF socket # None
           THEN toServer' = ToServer(socket, <<Data(<<frame>>)>>) /\ UNCHANGED writeBuffer
           ELSE writeBuffer' = Append(writeBuffer, frame) /\ UNCHANGED toServer
    /\ UNCHANGED <<socket, currentChannel, clientState, contextOf, reconnectListeners,
                   initialListeners, queuedEmits, contextVars, timerVars, negotiationVars,
                   sockets, losses, serverUp, toClient, downSent, upRead, downRead>>

\* The front end's socket reports 'disconnect'.  The first side to do so for a
\* socket counts as one loss of the network.
ClientSocketLost ==
    /\ socket # None
    /\ IF socket \in serverUp THEN Loss ELSE UNCHANGED losses
    /\ toClient' = [toClient EXCEPT ![socket] = <<>>]
    /\ socket' = None
    /\ UNCHANGED <<currentChannel, clientState, contextOf, reconnectListeners, initialListeners,
                   queuedEmits, writeBuffer, contextVars, timerVars, negotiationVars,
                   sockets, serverUp, toServer, dataVars>>

-----------------------------------------------------------------------------
(* The back end *)

ServerReceives(s, type) ==
    /\ s \in serverUp
    /\ toServer[s] # <<>>
    /\ Head(toServer[s]).type = type

TakenByServer(s) == [toServer EXCEPT ![s] = Tail(@)]

\* Mutant: the recorded timer is forgotten and still runs.
ForgetCloseTimeout(running) == closeTimeouts' = None /\ timers' = running
ClearCloseTimeout(running) == closeTimeouts' = None /\ timers' = running \ {closeTimeouts}

\* Mutant: the services of the context are not told.
CloseConnectionSilently(running) ==
    /\ connection' = None
    /\ ClearCloseTimeout(running)
    /\ closedNothing' = (closedNothing \/ connection = None)
    /\ UNCHANGED serverState

\* closeConnection takes the entry out of its maps and clears the recorded
\* timer; without an entry it then fails on the undefined connection.
CloseConnection(running) ==
    /\ connection' = None
    /\ ClearCloseTimeout(running)
    /\ serverState' = [n \in Socket |-> IF n = connection THEN "closed" ELSE serverState[n]]
    /\ closedNothing' = (closedNothing \/ connection = None)

\* initialConnectListener: a context the front end already had is closed and
\* a new one, with the number of the socket, is created.
HandleInitial(s) ==
    /\ ServerReceives(s, "INITIAL")
    /\ toServer' = TakenByServer(s)
    /\ IF s \in armed
         THEN /\ armed' = armed \ {s}
              /\ connection' = s
              /\ serverState' = [n \in Socket |-> IF n = s THEN "open"
                                   ELSE IF n = connection THEN "closed" ELSE serverState[n]]
              /\ IF connection # None
                   THEN ClearCloseTimeout(timers)
                   ELSE UNCHANGED <<closeTimeouts, timers>>
              /\ channelSocket' = [channelSocket EXCEPT ![s] = s]
              /\ listening' = [listening EXCEPT ![s] = {s}]
              /\ disconnectListener' = [disconnectListener EXCEPT ![s] = s]
              /\ toClient' = ToClient(s, <<Control("INITIAL")>>)
         ELSE UNCHANGED <<armed, connection, serverState, closeTimeouts, timers, channelSocket,
                          listening, disconnectListener, toClient>>
    /\ UNCHANGED <<clientVars, socketBuffer, markedForClose, closedNothing, sockets, losses,
                   serverUp, dataVars>>

\* reconnectListener: the context moves to the socket, the data listener on the
\* socket before it is not removed, and what was buffered follows the answer.
HandleReconnect(s) ==
    /\ ServerReceives(s, "RECONNECT")
    /\ toServer' = TakenByServer(s)
    /\ armed' = armed \ {s}
    /\ IF s \notin armed
         THEN UNCHANGED <<contextVars, timerVars, disconnectListener, toClient>>
         ELSE IF connection = None
           THEN /\ toClient' = ToClient(s, <<Control("RECONNECT_FALSE")>>)
                /\ UNCHANGED <<contextVars, timerVars, disconnectListener>>
           ELSE /\ toClient' = ToClient(s, <<Control("RECONNECT_TRUE")>>
                                           \o Flushed(socketBuffer[connection]))
                /\ socketBuffer' = [socketBuffer EXCEPT ![connection] = <<>>]
                /\ channelSocket' = [channelSocket EXCEPT ![connection] = s]
                /\ listening' = [listening EXCEPT ![connection] = @ \union {s}]
                /\ disconnectListener' = [disconnectListener EXCEPT ![s] = connection]
                /\ ClearCloseTimeout(timers)
                /\ UNCHANGED <<connection, serverState, markedForClose, closedNothing>>
    /\ UNCHANGED <<clientVars, sockets, losses, serverUp, dataVars>>

\* The channel listening on the socket reads one frame of the message.
HandleServerMessage(s) ==
    /\ ServerReceives(s, "DATA")
    /\ toServer' = TakenByServer(s)
    /\ upRead' = [n \in Socket |->
         IF s \in listening[n] /\ serverState[n] = "open"
           THEN Head(toServer[s]).frames[1].n ELSE upRead[n]]
    /\ UNCHANGED <<clientVars, contextVars, timerVars, negotiationVars, sockets, losses,
                   serverUp, toClient, upSent, downSent, downRead, hasty>>

\* Services write to their channel: to its socket, or to its buffer without one.
ServerWrite(n) ==
    /\ downSent < MaxData
    /\ serverState[n] = "open"
    /\ downSent' = downSent + 1
    /\ LET frame == [from |-> n, n |-> downSent + 1] IN
         IF channelSocket[n] \in serverUp
           THEN /\ toClient' = ToClient(channelSocket[n], <<Data(<<frame>>)>>)
                /\ UNCHANGED socketBuffer
           ELSE /\ socketBuffer' = [socketBuffer EXCEPT ![n] = Append(@, frame)]
                /\ UNCHANGED toClient
    /\ UNCHANGED <<clientVars, connection, serverState, channelSocket, listening, timerVars,
                   negotiationVars, sockets, losses, serverUp, toServer, upSent, upRead, downRead, hasty>>

\* The service call markForClose of a front end whose window closes.
MarkForClose ==
    /\ ~ markedForClose
    /\ connection # None /\ socket # None /\ channelSocket[connection] = socket
    /\ currentChannel # None /\ clientState[currentChannel] = "open"
    /\ markedForClose' = TRUE
    /\ UNCHANGED <<clientVars, contextVars, closeTimeouts, timers, closedNothing,
                   negotiationVars, networkVars, dataVars>>

\* ReconnectableSocketChannel.disconnect(): whichever socket it was called for,
\* the listeners on the newest one go and the channel has no socket.
Disconnect(n, s) ==
    /\ listening' = [listening EXCEPT ![n] = @ \ {channelSocket[n], s}]
    /\ channelSocket' = [channelSocket EXCEPT ![n] = None]

\* The back end's socket reports 'disconnect' to the context it was bound to.
ServerSocketLost(s) ==
    /\ s \in serverUp
    /\ IF s = socket THEN Loss ELSE UNCHANGED losses
    /\ serverUp' = serverUp \ {s}
    /\ armed' = armed \ {s}
    /\ toServer' = [toServer EXCEPT ![s] = <<>>]
    /\ IF disconnectListener[s] = None
         THEN UNCHANGED <<contextVars, timerVars>>
         ELSE /\ Disconnect(disconnectListener[s], s)
              /\ markedForClose' = FALSE
              /\ IF Timeout = "zero" \/ markedForClose
                   THEN CloseConnection(timers)
                   ELSE /\ IF Timeout = "positive"
                             THEN timers' = timers \union {s} /\ closeTimeouts' = s
                             ELSE UNCHANGED <<timers, closeTimeouts>>
                        /\ UNCHANGED <<connection, serverState, closedNothing>>
              /\ UNCHANGED socketBuffer
    /\ UNCHANGED <<clientVars, disconnectListener, sockets, toClient, dataVars>>

\* The timer set when socket s disconnected runs out.
CloseTimeout(s) ==
    /\ s \in timers
    /\ CloseConnection(timers \ {s})
    /\ UNCHANGED <<clientVars, channelSocket, listening, socketBuffer, markedForClose,
                   negotiationVars, networkVars, dataVars>>

-----------------------------------------------------------------------------
ClientStep == HandleInitialConnect \/ HandleReconnectTrue \/ HandleReconnectFalse \/ HandleClientMessage
ServerStep(s) == HandleInitial(s) \/ HandleReconnect(s) \/ HandleServerMessage(s)

Next ==
    \/ SocketConnect \/ ClientSocketLost
    \/ ClientStep
    \/ \E c \in Channel : ClientWrite(c)
    \/ \E s \in Socket : ServerStep(s) \/ ServerSocketLost(s) \/ CloseTimeout(s)
    \/ \E n \in Socket : ServerWrite(n)
    \/ MarkForClose

Spec == Init /\ [][Next]_vars

\* socket.io retries for ever, messages on a socket that is up arrive, and each
\* side notices what the other lost.  Timers, writes and losses are free.
FairSpec ==
    /\ Spec
    /\ WF_vars(SocketConnect) /\ WF_vars(ClientStep)
    /\ WF_vars(socket \notin serverUp /\ ClientSocketLost)
    /\ \A s \in Socket : WF_vars(ServerStep(s)) /\ WF_vars(s # socket /\ ServerSocketLost(s))

-----------------------------------------------------------------------------
(* Properties *)

ServerHead(s) == Head(toServer[s])
ClientHead == Head(toClient[socket])
ArrivesAt(s, n) == /\ s \in serverUp /\ toServer[s] # <<>> /\ ServerHead(s).type = "DATA"
                   /\ s \in listening[n] /\ serverState[n] = "open"
ArrivesAtClient == /\ socket # None /\ toClient[socket] # <<>> /\ ClientHead.type = "DATA"
                   /\ currentChannel # None /\ clientState[currentChannel] = "open"

\* Whatever is lost and reconnected, a message reaches only the context its
\* channel was opened for, and only the channel opened for its context.  The
\* exception is a dropped channel, whose holders were not told and go on writing.
DataReachesItsContext ==
    /\ \A s \in Socket, n \in Socket :
         ArrivesAt(s, n) => LET c == ServerHead(s).frames[1].from IN
           clientState[c] # "dropped" => contextOf[c] = n
    /\ ArrivesAtClient => contextOf[currentChannel] = ClientHead.frames[1].from

\* Messages arrive in the order they were written, across reconnects, and none
\* arrives twice.  The exception is what the front end writes while it waits for
\* the answer to its RECONNECT, which overtakes what is in the buffer.
DeliveredInOrder ==
    /\ \A s \in Socket, n \in Socket : ArrivesAt(s, n) =>
         ServerHead(s).frames[1].n > upRead[n] \/ upRead[n] \in hasty
    /\ ArrivesAtClient => ClientHead.frames[1].n > downRead[currentChannel]

\* The context of a front end is the only one that is not closed: one that left
\* the map has told its services.
OneContext == {n \in Socket : serverState[n] = "open"} = {connection} \ {None}

\* At most one timer runs, it is the recorded one, and it waits for a context
\* that has no socket: no timer closes a context the front end is back on.
TimerWaitsForDisconnected ==
    timers # {} =>
      /\ timers = {closeTimeouts}
      /\ connection # None /\ channelSocket[connection] = None

\* "not called when no connection is present"
CloseFindsConnection == ~ closedNothing

\* The answer to INITIAL_CONNECT was lost with its socket, and the socket after
\* it was attached to the context that answered, which no channel is open for.
AnswerWasLost ==
    /\ losses > 1 /\ connection # None /\ channelSocket[connection] = socket
    /\ \A c \in Channel : contextOf[c] # connection

\* When losses stop, the front end ends up with a channel that is valid for its
\* holders and connected to its context on the socket in use, unless a second
\* loss took the answer to INITIAL_CONNECT with it.
EventuallyConnected ==
    <>[](\/ /\ socket # None /\ currentChannel # None /\ connection # None
            /\ clientState[currentChannel] = "open"
            /\ channelSocket[connection] = socket
            /\ contextOf[currentChannel] = connection
         \/ AnswerWasLost)

\* A read buffer "is for single message read": every socket message that is
\* read holds one message.
SingleMessageRead ==
    /\ \A s \in Socket, n \in Socket : ArrivesAt(s, n) => Len(ServerHead(s).frames) = 1
    /\ ArrivesAtClient => Len(ClientHead.frames) = 1

\* Why these hold, when the back end notices a loss before the front end is back:
\* one socket at a time is up, and the one that reports its loss to a context
\* reports it to the one in the map, which is on that socket.
SocketsTakeTurns == serverUp \subseteq {sockets}

BoundToConnection ==
    \A s \in Socket :
      /\ s > sockets => disconnectListener[s] = None
      /\ s \in serverUp /\ disconnectListener[s] # None =>
           s \notin armed /\ connection = disconnectListener[s] /\ channelSocket[connection] = s

NegotiationInvariant ==
    SocketsTakeTurns /\ BoundToConnection /\ TimerWaitsForDisconnected /\ CloseFindsConnection

FrontendInvariant ==
    /\ TypeOK /\ OneContext
    /\ LateDisconnect \/ NegotiationInvariant

\* Why data reaches its context.  Only the newest socket and the newest channel are
\* in use, and what was sent on a socket that is gone is gone.
NewestOnly ==
    /\ socket \in {None, sockets} /\ armed \subseteq serverUp
    /\ socket # None => queuedEmits = 0
    /\ \A s \in Socket : s # socket => toClient[s] = <<>>
    /\ \A c \in Channel :
         /\ clientState[c] = "open" => c = currentChannel
         /\ clientState[c] # "none" => c <= currentChannel

Contents(q) == {q[i] : i \in DOMAIN q}

\* A socket reports its loss to the one context that listens and writes on it.
ContextsKeepSockets ==
    \A n \in Socket :
      /\ channelSocket[n] # None => disconnectListener[channelSocket[n]] = n
      /\ \A s \in listening[n] : disconnectListener[s] = n
      /\ \A f \in Contents(socketBuffer[n]) : f.from = n

ChannelIsOpen == currentChannel # None /\ clientState[currentChannel] = "open"

\* An open channel belongs to the context in the map and the one its socket is
\* bound to, and no INITIAL_CONNECT is on its way that could create another.
OpenForConnection ==
    /\ ChannelIsOpen =>
         /\ queuedEmits = 0
         /\ connection # None => contextOf[currentChannel] = connection
         /\ socket # None /\ disconnectListener[socket] # None =>
              contextOf[currentChannel] = disconnectListener[socket]
         /\ \A s \in armed : \A m \in Contents(toServer[s]) : m.type # "INITIAL"
    /\ socket # None /\ disconnectListener[socket] # None =>
         connection \in {None, disconnectListener[socket]}

\* Answers come from a finished negotiation, data from the context of the socket.
DownMatches ==
    socket # None => \A m \in Contents(toClient[socket]) :
      /\ m.type = "RECONNECT_FALSE" => socket \notin armed
      /\ m.type \in {"INITIAL", "DATA"} => disconnectListener[socket] # None
      /\ \A f \in Contents(m.frames) : f.from = disconnectListener[socket]

\* Data of a channel is on a socket that is not negotiated yet or bound to its
\* context, dropped channels excepted.
MayBeOn(s, c) ==
    /\ c \in Channel /\ clientState[c] # "none"
    /\ s \in armed => clientState[c] \in {"open", "dropped"}
    /\ disconnectListener[s] # None /\ clientState[c] # "dropped" =>
         contextOf[c] = disconnectListener[s]

UpMatches ==
    \A s \in serverUp : \A m \in Contents(toServer[s]) : \A f \in Contents(m.frames) : MayBeOn(s, f.from)

BufferMatches ==
    \A f \in Contents(writeBuffer) : f.from \in Channel /\ clientState[f.from] \in {"open", "dropped"}

DataInvariant ==
    /\ NewestOnly /\ ContextsKeepSockets /\ OpenForConnection
    /\ DownMatches /\ UpMatches /\ BufferMatches
\* Why messages arrive in order.  Of the frames read, on the way and buffered, the
\* ones before have smaller numbers than the ones after, those in ahead excepted.
Frames(link) == UNION {Contents(m.frames) : m \in Contents(link)}
Precede(F, G, ahead) == \A f \in F, g \in G : f.n < g.n \/ f.n \in ahead
Ordered(link, ahead) ==
    \A i, j \in DOMAIN link :
      i < j => Precede(Contents(link[i].frames), Contents(link[j].frames), ahead)

InOrder(read, link, buffer, written, ahead) ==
    /\ Ordered(link, ahead) /\ Precede(Frames(link), Contents(buffer), ahead)
    /\ \A f \in Frames(link) \union Contents(buffer) :
         f.n <= written /\ \A k \in read : k < f.n \/ k \in ahead
    /\ \A k \in read : k <= written

UpInOrder ==
    \A s \in Socket : InOrder({upRead[n] : n \in Socket}, toServer[s], writeBuffer, upSent, hasty)

DownBuffer == IF connection = None THEN <<>> ELSE socketBuffer[connection]
DownInOrder ==
    \A s \in Socket : InOrder({downRead[c] : c \in Channel}, toClient[s], DownBuffer, downSent, {})

\* Only a channel without its socket buffers, or the front end's while it waits for
\* the answer to RECONNECT.
BuffersWait ==
    /\ writeBuffer # <<>> /\ socket # None => reconnectListeners > 0
    /\ \A n \in Socket : channelSocket[n] # None => channelSocket[n] \in serverUp /\ socketBuffer[n] = <<>>

\* A context has the number of the socket it was created on.
ContextsHaveSockets ==
    \A n \in Socket : n = connection \/ socketBuffer[n] # <<>> => disconnectListener[n] = n

LostWithSocket == \A s \in Socket : s \notin serverUp => toServer[s] = <<>>

OrderInvariant ==
    /\ UpInOrder /\ DownInOrder
    /\ BuffersWait /\ ContextsHaveSockets /\ LostWithSocket

\* All of it, which the steps of both sides keep.
ConnectionInvariant ==
    /\ FrontendInvariant
    /\ LateDisconnect \/ (DataInvariant /\ OrderInvariant)
=============================================================================
