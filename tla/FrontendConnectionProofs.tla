---------------------- MODULE FrontendConnectionProofs ----------------------
(***************************************************************************)
(* Theorems about FrontendConnection, for any number of losses, channels   *)
(* and messages.                                                           *)
(***************************************************************************)
EXTENDS FrontendConnection, SequenceTheorems, TLAPS

-----------------------------------------------------------------------------
(* Types *)

LEMMA Numbers ==
    /\ MaxSockets \in Nat /\ None \notin Socket /\ Socket \subseteq 0 .. MaxSockets
    /\ None \in 0 .. MaxSockets /\ 0 \in 0 .. MaxChannels /\ 0 \in 0 .. MaxData
    /\ Channel \subseteq 0 .. MaxChannels
  BY ConnectionAssumption DEF MaxSockets, Socket, Channel, None

LEMMA ControlTypes ==
    ASSUME NEW type \in {"INITIAL", "RECONNECT", "RECONNECT_TRUE", "RECONNECT_FALSE"}
    PROVE  Control(type) \in Message
  BY DEF Control, Message

LEMMA DataTypes ==
    ASSUME NEW frames \in Seq(Frame), frames # <<>>
    PROVE  Data(frames) \in Message
  BY DEF Data, Message

LEMMA FlushedTypes ==
    ASSUME NEW buffer \in Seq(Frame) PROVE Flushed(buffer) \in Seq(Message)
  BY DataTypes DEF Flushed

LEMMA RepeatTypes ==
    ASSUME NEW m \in Message, NEW k \in Nat PROVE Repeat(m, k) \in Seq(Message)
  BY DEF Repeat

\* What is sent goes to the end of what is on the way.
LEMMA SentTypes ==
    ASSUME TypeOK, NEW s \in 0 .. MaxSockets, NEW ms \in Seq(Message)
    PROVE  /\ ToServer(s, ms) \in [Socket -> Seq(Message)]
           /\ ToClient(s, ms) \in [Socket -> Seq(Message)]
  <1> USE DEF TypeOK
  <1>1. \A q \in Seq(Message) : q \o ms \in Seq(Message) OBVIOUS
  <1> QED BY <1>1 DEF ToServer, ToClient

\* What is taken was at the head.
LEMMA TakenTypes ==
    ASSUME TypeOK, NEW s \in Socket
    PROVE  /\ toServer[s] # <<>> => TakenByServer(s) \in [Socket -> Seq(Message)]
           /\ [toServer EXCEPT ![s] = <<>>] \in [Socket -> Seq(Message)]
           /\ socket # None /\ toClient[socket] # <<>> => TakenByClient \in [Socket -> Seq(Message)]
           /\ [toClient EXCEPT ![s] = <<>>] \in [Socket -> Seq(Message)]
  <1> USE DEF TypeOK
  <1>1. <<>> \in Seq(Message) OBVIOUS
  <1>2. \A q \in Seq(Message) : q # <<>> => Tail(q) \in Seq(Message) OBVIOUS
  <1>3. socket # None => socket \in Socket BY Numbers DEF Socket, None
  <1> QED BY <1>1, <1>2, <1>3 DEF TakenByServer, TakenByClient

\* A DATA message holds at least one frame.
LEMMA HeadTypes ==
    ASSUME NEW q \in Seq(Message), q # <<>>, Head(q).type = "DATA"
    PROVE  Head(q).frames[1].n \in 0 .. MaxData
  <1>1. Head(q) \in Message OBVIOUS
  <1>2. Head(q).frames \in Seq(Frame) \ {<<>>} BY <1>1 DEF Message
  <1>3. Head(q).frames[1] \in Frame BY <1>2
  <1> QED BY <1>3, ConnectionAssumption DEF Frame

LEMMA InitTypes == Init => TypeOK
  <1> SUFFICES ASSUME Init PROVE TypeOK OBVIOUS
  <1> USE Numbers, ConnectionAssumption DEF Init
  <1>1. <<>> \in Seq(Frame) /\ <<>> \in Seq(Message) OBVIOUS
  <1>2. /\ socket \in 0 .. MaxSockets /\ currentChannel \in 0 .. MaxChannels
        /\ clientState \in [Channel -> {"none", "open", "told", "dropped"}]
        /\ contextOf \in [Channel -> 0 .. MaxSockets]
        /\ reconnectListeners \in Nat /\ initialListeners \in Nat /\ queuedEmits \in Nat
        /\ writeBuffer \in Seq(Frame)
    BY <1>1 DEF None
  <1>3. /\ connection \in 0 .. MaxSockets
        /\ serverState \in [Socket -> {"none", "open", "closed"}]
        /\ channelSocket \in [Socket -> 0 .. MaxSockets]
        /\ listening \in [Socket -> SUBSET Socket]
        /\ socketBuffer \in [Socket -> Seq(Frame)]
    BY <1>1
  <1>4. /\ armed \subseteq Socket /\ disconnectListener \in [Socket -> 0 .. MaxSockets]
        /\ closeTimeouts \in 0 .. MaxSockets /\ timers \subseteq Socket
        /\ markedForClose \in BOOLEAN /\ closedNothing \in BOOLEAN
    OBVIOUS
  <1>5. /\ sockets \in 0 .. MaxSockets /\ losses \in 0 .. MaxLosses /\ serverUp \subseteq Socket
        /\ toServer \in [Socket -> Seq(Message)] /\ toClient \in [Socket -> Seq(Message)]
    BY <1>1
  <1>6. /\ upSent \in 0 .. MaxData /\ downSent \in 0 .. MaxData /\ hasty \subseteq 1 .. MaxData
        /\ upRead \in [Socket -> 0 .. MaxData] /\ downRead \in [Channel -> 0 .. MaxData]
    OBVIOUS
  <1> QED BY <1>2, <1>3, <1>4, <1>5, <1>6 DEF TypeOK

LEMMA SocketConnectTypes == TypeOK /\ SocketConnect => TypeOK'
  <1> SUFFICES ASSUME TypeOK, SocketConnect PROVE TypeOK' OBVIOUS
  <1> USE DEF TypeOK
  <1> DEFINE s == sockets + 1
             m == Control(IF currentChannel # None THEN "RECONNECT" ELSE "INITIAL")
  <1>1. s \in Socket /\ s \in 0 .. MaxSockets BY Numbers DEF SocketConnect, Socket
  <1>2. m \in Message BY ControlTypes
  <1>3. Repeat(Control("INITIAL"), queuedEmits) \in Seq(Message) BY ControlTypes, RepeatTypes
  <1>4. Append(Repeat(Control("INITIAL"), queuedEmits), m) \in Seq(Message) BY <1>2, <1>3
  <1>5. toServer' = [toServer EXCEPT ![s] = Append(Repeat(Control("INITIAL"), queuedEmits), m)]
    BY DEF SocketConnect
  <1>6. toServer' \in [Socket -> Seq(Message)] BY <1>4, <1>5
  <1>7. reconnectListeners' \in Nat /\ initialListeners' \in Nat BY DEF SocketConnect
  <1> QED BY <1>1, <1>6, <1>7 DEF SocketConnect, contextVars, timerVars, dataVars

LEMMA HandleInitialConnectTypes == TypeOK /\ HandleInitialConnect => TypeOK'
  <1> SUFFICES ASSUME TypeOK, HandleInitialConnect PROVE TypeOK' OBVIOUS
  <1> USE DEF TypeOK
  <1>0. socket \in Socket BY Numbers DEF HandleInitialConnect, ClientReceives, Socket, None
  <1>1. toClient' \in [Socket -> Seq(Message)]
    BY <1>0, TakenTypes DEF HandleInitialConnect, ClientReceives
  <1>2. currentChannel' \in 0 .. MaxChannels BY ConnectionAssumption DEF HandleInitialConnect
  <1>3. clientState' \in [Channel -> {"none", "open", "told", "dropped"}] BY DEF HandleInitialConnect
  <1>4. contextOf' \in [Channel -> 0 .. MaxSockets] BY <1>0 DEF HandleInitialConnect
  <1>5. <<>> \in Seq(Frame) OBVIOUS
  <1>6. writeBuffer' \in Seq(Frame) BY <1>5 DEF HandleInitialConnect, Drain
  <1> QED BY <1>1, <1>2, <1>3, <1>4, <1>6
       DEF HandleInitialConnect, contextVars, timerVars, negotiationVars, dataVars

LEMMA HandleReconnectTypes ==
    TypeOK /\ (HandleReconnectTrue \/ HandleReconnectFalse) => TypeOK'
  <1> SUFFICES ASSUME TypeOK, HandleReconnectTrue \/ HandleReconnectFalse PROVE TypeOK' OBVIOUS
  <1> USE DEF TypeOK
  <1>0. <<>> \in Seq(Frame) /\ 0 \in Nat OBVIOUS
  <1>1. socket \in Socket /\ toClient[socket] # <<>>
    BY Numbers DEF HandleReconnectTrue, HandleReconnectFalse, ClientReceives, Socket, None
  <1>2. TakenByClient \in [Socket -> Seq(Message)] BY <1>1, TakenTypes, Numbers
  <1>3. [toClient EXCEPT ![socket] = <<>>] \in [Socket -> Seq(Message)] BY <1>1, TakenTypes
  <1>4. CASE HandleReconnectTrue
    <2>1. ToServer(socket, Flushed(writeBuffer)) \in [Socket -> Seq(Message)]
      BY <1>1, FlushedTypes, SentTypes
    <2>2. toServer' \in [Socket -> Seq(Message)] /\ writeBuffer' \in Seq(Frame)
      BY <1>0, <1>4, <2>1 DEF HandleReconnectTrue
    <2> QED BY <1>0, <1>2, <1>4, <2>2
         DEF HandleReconnectTrue, contextVars, timerVars, negotiationVars, dataVars
  <1>5. CASE HandleReconnectFalse
    <2>1. clientState' \in [Channel -> {"none", "open", "told", "dropped"}]
      BY <1>5 DEF HandleReconnectFalse
    <2>4. writeBuffer' \in Seq(Frame) BY <1>0, <1>5 DEF HandleReconnectFalse, Drain
    <2>5. socket' \in 0 .. MaxSockets BY <1>5, Numbers DEF HandleReconnectFalse
    <2>6. initialListeners' \in Nat /\ queuedEmits' \in Nat /\ reconnectListeners' \in Nat
      BY <1>0, <1>5 DEF HandleReconnectFalse, NegotiateInitialConnect
    <2>2. /\ writeBuffer' \in Seq(Frame) /\ socket' \in 0 .. MaxSockets
          /\ initialListeners' \in Nat /\ queuedEmits' \in Nat /\ reconnectListeners' \in Nat
      BY <2>4, <2>5, <2>6
    <2>3. toClient' \in [Socket -> Seq(Message)] BY <1>2, <1>3, <1>5 DEF HandleReconnectFalse
    <2> QED BY <1>5, <2>1, <2>2, <2>3
         DEF HandleReconnectFalse, contextVars, timerVars, negotiationVars, dataVars
  <1> QED BY <1>4, <1>5

LEMMA ClientDataTypes ==
    TypeOK /\ (HandleClientMessage \/ ClientSocketLost \/ \E c \in Channel : ClientWrite(c)) => TypeOK'
  <1> SUFFICES ASSUME TypeOK, HandleClientMessage \/ ClientSocketLost \/ \E c \in Channel : ClientWrite(c)
               PROVE  TypeOK'
    OBVIOUS
  <1> USE DEF TypeOK
  <1>1. socket # None => socket \in Socket BY Numbers DEF Socket, None
  <1>2. CASE HandleClientMessage
    <2>1. toClient[socket] \in Seq(Message) BY <1>1, <1>2 DEF HandleClientMessage, ClientReceives
    <2>2. Head(toClient[socket]).frames[1].n \in 0 .. MaxData
      BY <1>2, <2>1, HeadTypes DEF HandleClientMessage, ClientReceives
    <2>3. downRead' \in [Channel -> 0 .. MaxData] BY <1>2, <2>2 DEF HandleClientMessage
    <2>4. toClient' \in [Socket -> Seq(Message)]
      BY <1>1, <1>2, TakenTypes DEF HandleClientMessage, ClientReceives
    <2> QED BY <1>2, <2>3, <2>4
         DEF HandleClientMessage, clientVars, contextVars, timerVars, negotiationVars
  <1>3. CASE ClientSocketLost
    <2>1. losses' \in 0 .. MaxLosses BY <1>3, ConnectionAssumption DEF ClientSocketLost, Loss
    <2>2. toClient' \in [Socket -> Seq(Message)] BY <1>1, <1>3, TakenTypes DEF ClientSocketLost
    <2> QED BY <1>3, <2>1, <2>2, Numbers
         DEF ClientSocketLost, contextVars, timerVars, negotiationVars, dataVars
  <1>4. ASSUME NEW c \in Channel, ClientWrite(c) PROVE TypeOK'
    <2> DEFINE frame == [from |-> c, n |-> upSent + 1]
    <2>1. upSent + 1 \in 1 .. MaxData BY <1>4, ConnectionAssumption DEF ClientWrite
    <2>2. frame \in Frame BY <2>1 DEF Frame
    <2>3. <<frame>> \in Seq(Frame) /\ <<frame>> # <<>> /\ Append(writeBuffer, frame) \in Seq(Frame)
      BY <2>2
    <2>0. Data(<<frame>>) \in Message BY <2>3, DataTypes
    <2>4. <<Data(<<frame>>)>> \in Seq(Message) BY <2>0
    <2>5. ToServer(socket, <<Data(<<frame>>)>>) \in [Socket -> Seq(Message)] BY <2>4, SentTypes
    <2>6. toServer' \in [Socket -> Seq(Message)] /\ writeBuffer' \in Seq(Frame)
      BY <1>4, <2>3, <2>5 DEF ClientWrite
    <2>7. upSent' \in 0 .. MaxData /\ hasty' \subseteq 1 .. MaxData BY <1>4, <2>1 DEF ClientWrite
    <2> QED BY <1>4, <2>6, <2>7 DEF ClientWrite, contextVars, timerVars, negotiationVars
  <1> QED BY <1>2, <1>3, <1>4

LEMMA CloseConnectionTypes ==
    ASSUME TypeOK, NEW running \in SUBSET Socket, CloseConnection(running)
    PROVE  /\ connection' \in 0 .. MaxSockets
           /\ closeTimeouts' \in 0 .. MaxSockets /\ timers' \subseteq Socket
           /\ serverState' \in [Socket -> {"none", "open", "closed"}] /\ closedNothing' \in BOOLEAN
  BY Numbers DEF CloseConnection, ClearCloseTimeout, TypeOK

LEMMA ListeningTypes ==
    ASSUME TypeOK, NEW n \in Socket, NEW listened \in SUBSET Socket
    PROVE  [listening EXCEPT ![n] = listened] \in [Socket -> SUBSET Socket]
  BY DEF TypeOK

LEMMA HandleInitialTypes ==
    ASSUME TypeOK, NEW s \in Socket, HandleInitial(s) PROVE TypeOK'
  <1> USE DEF TypeOK
  <1>1. toServer' \in [Socket -> Seq(Message)]
    BY TakenTypes DEF HandleInitial, ServerReceives
  <1>2. <<Control("INITIAL")>> \in Seq(Message) BY ControlTypes
  <1>3. ToClient(s, <<Control("INITIAL")>>) \in [Socket -> Seq(Message)] BY <1>2, SentTypes, Numbers
  <1>4. toClient' \in [Socket -> Seq(Message)] BY <1>3 DEF HandleInitial
  <1>5. closeTimeouts' \in 0 .. MaxSockets /\ timers' \subseteq Socket
    BY Numbers DEF HandleInitial, ClearCloseTimeout
  <1>6. /\ connection' \in 0 .. MaxSockets
        /\ serverState' \in [Socket -> {"none", "open", "closed"}]
        /\ armed' \subseteq Socket
    <2>1. s \in 0 .. MaxSockets /\ armed \ {s} \subseteq Socket BY Numbers
    <2>2. serverState' \in [Socket -> {"none", "open", "closed"}] BY DEF HandleInitial
    <2> QED BY <2>1, <2>2 DEF HandleInitial
  <1>7. /\ channelSocket' \in [Socket -> 0 .. MaxSockets]
        /\ listening' \in [Socket -> SUBSET Socket]
        /\ disconnectListener' \in [Socket -> 0 .. MaxSockets]
    <2>1. s \in 0 .. MaxSockets BY Numbers
    <2>2. channelSocket' \in [Socket -> 0 .. MaxSockets]
      <3>1. channelSocket' = [channelSocket EXCEPT ![s] = s] \/ channelSocket' = channelSocket
        BY DEF HandleInitial
      <3> QED BY <2>1, <3>1
    <2>3. disconnectListener' \in [Socket -> 0 .. MaxSockets]
      <3>1. \/ disconnectListener' = [disconnectListener EXCEPT ![s] = s]
            \/ disconnectListener' = disconnectListener
        BY DEF HandleInitial
      <3> QED BY <2>1, <3>1
    <2>4. listening' = [listening EXCEPT ![s] = {s}] \/ listening' = listening
      BY DEF HandleInitial
    <2>5. {s} \in SUBSET Socket OBVIOUS
    <2>6. [listening EXCEPT ![s] = {s}] \in [Socket -> SUBSET Socket] BY <2>5, ListeningTypes
    <2>7. listening' \in [Socket -> SUBSET Socket] BY <2>4, <2>6
    <2> QED BY <2>2, <2>3, <2>7
  <1> QED BY <1>1, <1>4, <1>5, <1>6, <1>7 DEF HandleInitial, clientVars, dataVars

LEMMA HandleReconnectServerTypes ==
    ASSUME TypeOK, NEW s \in Socket, HandleReconnect(s) PROVE TypeOK'
  <1> USE DEF TypeOK
  <1>1. toServer' \in [Socket -> Seq(Message)]
    BY TakenTypes DEF HandleReconnect, ServerReceives
  <1>2. connection # None => connection \in Socket BY Numbers DEF Socket, None
  <1>3. <<Control("RECONNECT_FALSE")>> \in Seq(Message) /\ <<Control("RECONNECT_TRUE")>> \in Seq(Message)
    BY ControlTypes
  <1>4. ToClient(s, <<Control("RECONNECT_FALSE")>>) \in [Socket -> Seq(Message)]
    BY <1>3, SentTypes, Numbers
  <1>5. connection # None =>
          ToClient(s, <<Control("RECONNECT_TRUE")>> \o Flushed(socketBuffer[connection]))
            \in [Socket -> Seq(Message)]
    <2>1. SUFFICES ASSUME connection # None
                   PROVE  <<Control("RECONNECT_TRUE")>> \o Flushed(socketBuffer[connection]) \in Seq(Message)
      BY SentTypes, Numbers
    <2>2. Flushed(socketBuffer[connection]) \in Seq(Message) BY <1>2, <2>1, FlushedTypes
    <2> QED BY <1>3, <2>2
  <1>6. toClient' \in [Socket -> Seq(Message)] BY <1>4, <1>5 DEF HandleReconnect
  <1>7. closeTimeouts' \in 0 .. MaxSockets /\ timers' \subseteq Socket
    BY Numbers DEF HandleReconnect, ClearCloseTimeout, timerVars
  <1>8. /\ socketBuffer' \in [Socket -> Seq(Frame)]
        /\ channelSocket' \in [Socket -> 0 .. MaxSockets]
        /\ listening' \in [Socket -> SUBSET Socket]
        /\ disconnectListener' \in [Socket -> 0 .. MaxSockets]
    <2>1. <<>> \in Seq(Frame) /\ s \in 0 .. MaxSockets BY Numbers
    <2>2. connection # None => listening[connection] \union {s} \in SUBSET Socket BY <1>2
    <2>3. CASE s \notin armed \/ connection = None BY <2>3 DEF HandleReconnect, contextVars
    <2>4. CASE s \in armed /\ connection # None
      <3>1. listening' = [listening EXCEPT ![connection] = listening[connection] \union {s}]
        BY <1>2, <2>4 DEF HandleReconnect
      <3>2. listening' \in [Socket -> SUBSET Socket] BY <1>2, <2>2, <2>4, <3>1, ListeningTypes
      <3>3. socketBuffer' \in [Socket -> Seq(Frame)] BY <2>1, <2>4 DEF HandleReconnect
      <3>4. channelSocket' \in [Socket -> 0 .. MaxSockets] BY <2>1, <2>4 DEF HandleReconnect
      <3>5. disconnectListener' \in [Socket -> 0 .. MaxSockets] BY <2>1, <2>4 DEF HandleReconnect
      <3> QED BY <3>2, <3>3, <3>4, <3>5
    <2> QED BY <2>3, <2>4
  <1>9. /\ connection' = connection /\ serverState' = serverState /\ armed' \subseteq Socket
        /\ markedForClose' = markedForClose /\ closedNothing' = closedNothing
    BY DEF HandleReconnect, contextVars, timerVars
  <1> QED BY <1>1, <1>6, <1>7, <1>8, <1>9 DEF HandleReconnect, clientVars, dataVars

LEMMA ServerDataTypes ==
    ASSUME TypeOK, NEW s \in Socket, HandleServerMessage(s) \/ ServerWrite(s) PROVE TypeOK'
  <1> USE DEF TypeOK
  <1>1. CASE HandleServerMessage(s)
    <2>1. toServer[s] \in Seq(Message) OBVIOUS
    <2>2. Head(toServer[s]).frames[1].n \in 0 .. MaxData
      BY <1>1, <2>1, HeadTypes DEF HandleServerMessage, ServerReceives
    <2>3. upRead' \in [Socket -> 0 .. MaxData] BY <1>1, <2>2 DEF HandleServerMessage
    <2>4. toServer' \in [Socket -> Seq(Message)]
      BY <1>1, TakenTypes DEF HandleServerMessage, ServerReceives
    <2> QED BY <1>1, <2>3, <2>4
         DEF HandleServerMessage, clientVars, contextVars, timerVars, negotiationVars
  <1>2. CASE ServerWrite(s)
    <2> DEFINE frame == [from |-> s, n |-> downSent + 1]
    <2>1. downSent + 1 \in 1 .. MaxData BY <1>2, ConnectionAssumption DEF ServerWrite
    <2>2. frame \in Frame BY <2>1 DEF Frame
    <2>3. <<frame>> \in Seq(Frame) /\ <<frame>> # <<>> /\ Append(socketBuffer[s], frame) \in Seq(Frame)
      BY <2>2
    <2>0. Data(<<frame>>) \in Message BY <2>3, DataTypes
    <2>4. <<Data(<<frame>>)>> \in Seq(Message) BY <2>0
    <2>5. ToClient(channelSocket[s], <<Data(<<frame>>)>>) \in [Socket -> Seq(Message)]
      BY <2>4, SentTypes
    <2>6. toClient' \in [Socket -> Seq(Message)] /\ socketBuffer' \in [Socket -> Seq(Frame)]
      BY <1>2, <2>3, <2>5 DEF ServerWrite
    <2>7. downSent' \in 0 .. MaxData BY <1>2, <2>1 DEF ServerWrite
    <2> QED BY <1>2, <2>6, <2>7 DEF ServerWrite, clientVars, timerVars, negotiationVars
  <1> QED BY <1>1, <1>2

LEMMA ServerSocketLostTypes ==
    ASSUME TypeOK, NEW s \in Socket, ServerSocketLost(s) PROVE TypeOK'
  <1> USE DEF TypeOK
  <1> DEFINE n == disconnectListener[s]
  <1>1. losses' \in 0 .. MaxLosses BY ConnectionAssumption DEF ServerSocketLost, Loss
  <1>2. toServer' \in [Socket -> Seq(Message)] BY TakenTypes DEF ServerSocketLost
  <1>3. n # None => n \in Socket BY Numbers DEF Socket, None
  <1>4. channelSocket' \in [Socket -> 0 .. MaxSockets] /\ listening' \in [Socket -> SUBSET Socket]
    <2>1. CASE n = None BY <2>1 DEF ServerSocketLost, contextVars
    <2>2. CASE n # None
      <3>1. listening[n] \ {channelSocket[n], s} \in SUBSET Socket BY <1>3, <2>2
      <3>2. listening' = [listening EXCEPT ![n] = listening[n] \ {channelSocket[n], s}]
        BY <1>3, <2>2 DEF ServerSocketLost, Disconnect
      <3>3. listening' \in [Socket -> SUBSET Socket] BY <1>3, <2>2, <3>1, <3>2, ListeningTypes
      <3>4. channelSocket' = [channelSocket EXCEPT ![n] = None]
        BY <2>2 DEF ServerSocketLost, Disconnect
      <3>5. channelSocket' \in [Socket -> 0 .. MaxSockets] BY <3>4, Numbers
      <3> QED BY <3>3, <3>5
    <2> QED BY <2>1, <2>2
  <1>5. /\ connection' \in 0 .. MaxSockets
        /\ closeTimeouts' \in 0 .. MaxSockets /\ timers' \subseteq Socket
        /\ serverState' \in [Socket -> {"none", "open", "closed"}] /\ closedNothing' \in BOOLEAN
    <2>1. CASE n = None BY <2>1 DEF ServerSocketLost, contextVars, timerVars
    <2>2. CASE n # None /\ (Timeout = "zero" \/ markedForClose)
      BY <2>2, CloseConnectionTypes DEF ServerSocketLost
    <2>3. CASE n # None /\ ~ (Timeout = "zero" \/ markedForClose)
      BY <2>3, Numbers DEF ServerSocketLost
    <2> QED BY <2>1, <2>2, <2>3
  <1>6. socketBuffer' = socketBuffer /\ markedForClose' \in BOOLEAN
    BY DEF ServerSocketLost, contextVars, timerVars
  <1> QED BY <1>1, <1>2, <1>4, <1>5, <1>6 DEF ServerSocketLost, clientVars, dataVars

LEMMA TypesKept == TypeOK /\ [Next]_vars => TypeOK'
  <1> SUFFICES ASSUME TypeOK, [Next]_vars PROVE TypeOK' OBVIOUS
  <1>1. CASE SocketConnect \/ ClientSocketLost \/ ClientStep \/ \E c \in Channel : ClientWrite(c)
    BY <1>1, SocketConnectTypes, HandleInitialConnectTypes, HandleReconnectTypes, ClientDataTypes
       DEF ClientStep
  <1>2. ASSUME NEW s \in Socket, ServerStep(s) \/ ServerSocketLost(s) \/ ServerWrite(s) PROVE TypeOK'
    BY <1>2, HandleInitialTypes, HandleReconnectServerTypes, ServerDataTypes, ServerSocketLostTypes
       DEF ServerStep
  <1>3. ASSUME NEW s \in Socket, CloseTimeout(s) PROVE TypeOK'
    <2>1. timers \ {s} \in SUBSET Socket BY DEF TypeOK
    <2> QED BY <1>3, <2>1, CloseConnectionTypes
         DEF CloseTimeout, TypeOK, clientVars, negotiationVars, networkVars, dataVars
  <1>4. CASE MarkForClose
    BY <1>4 DEF MarkForClose, TypeOK, clientVars, contextVars, negotiationVars, networkVars, dataVars
  <1>5. CASE UNCHANGED vars
    BY <1>5 DEF vars, TypeOK, clientVars, contextVars, timerVars, negotiationVars, networkVars, dataVars
  <1> QED BY <1>1, <1>2, <1>3, <1>4, <1>5 DEF Next

-----------------------------------------------------------------------------
(* One context *)

LEMMA OpensOnly ==
    ASSUME OneContext, NEW s \in Socket,
           serverState' = [n \in Socket |-> IF n = s THEN "open"
                             ELSE IF n = connection THEN "closed" ELSE serverState[n]],
           connection' = s
    PROVE  OneContext'
  <1>1. s # None BY Numbers
  <1> QED BY <1>1 DEF OneContext

LEMMA ClosesIt ==
    ASSUME OneContext, NEW running, CloseConnection(running)
    PROVE  OneContext'
  BY DEF OneContext, CloseConnection

\* Every way of creating and closing a context keeps the map and the contexts
\* that are open together.
LEMMA OneContextKept == TypeOK /\ OneContext /\ [Next]_vars => OneContext'
  <1> SUFFICES ASSUME TypeOK, OneContext, [Next]_vars PROVE OneContext' OBVIOUS
  <1>1. CASE UNCHANGED <<connection, serverState>> BY <1>1 DEF OneContext
  <1>2. ASSUME NEW s \in Socket, HandleInitial(s) PROVE OneContext'
    BY <1>1, <1>2, OpensOnly DEF HandleInitial
  <1>3. ASSUME NEW s \in Socket, ServerSocketLost(s) PROVE OneContext'
    BY <1>1, <1>3, ClosesIt DEF ServerSocketLost, contextVars
  <1>4. ASSUME NEW s \in Socket, CloseTimeout(s) PROVE OneContext'
    BY <1>4, ClosesIt DEF CloseTimeout
  <1>5. SocketConnect \/ ClientSocketLost \/ ClientStep \/ MarkForClose
        \/ (\E c \in Channel : ClientWrite(c))
        \/ (\E s \in Socket : HandleReconnect(s) \/ HandleServerMessage(s) \/ ServerWrite(s))
        \/ UNCHANGED vars
          => UNCHANGED <<connection, serverState>>
    BY DEF SocketConnect, ClientSocketLost, ClientStep, HandleInitialConnect, HandleReconnectTrue,
           HandleReconnectFalse, HandleClientMessage, MarkForClose, ClientWrite, HandleReconnect,
           HandleServerMessage, ServerWrite, contextVars, vars
  <1> QED BY <1>1, <1>2, <1>3, <1>4, <1>5 DEF Next, ServerStep

-----------------------------------------------------------------------------
(* Sockets, contexts and timers *)

negotiated == <<sockets, serverUp, armed, disconnectListener, connection, channelSocket,
                closeTimeouts, timers, closedNothing>>

LEMMA UnchangedNegotiation ==
    NegotiationInvariant /\ UNCHANGED negotiated => NegotiationInvariant'
  BY DEF NegotiationInvariant, negotiated, SocketsTakeTurns, BoundToConnection,
         TimerWaitsForDisconnected, CloseFindsConnection

\* Without a timer that is not recorded, clearing the recorded one leaves none.
LEMMA ClearedTimers ==
    ASSUME TimerWaitsForDisconnected, NEW running \in SUBSET timers, ClearCloseTimeout(running)
    PROVE  timers' = {}
  BY DEF TimerWaitsForDisconnected, ClearCloseTimeout

\* A new socket is up alone, and reports its loss to nobody.
LEMMA ConnectNegotiates ==
    TypeOK /\ NegotiationInvariant /\ ~ LateDisconnect /\ SocketConnect => NegotiationInvariant'
  <1> SUFFICES ASSUME TypeOK, NegotiationInvariant, ~ LateDisconnect, SocketConnect
               PROVE  NegotiationInvariant'
    OBVIOUS
  <1> USE DEF NegotiationInvariant
  <1>1. sockets' = sockets + 1 /\ serverUp' = {sockets + 1} BY DEF SocketConnect
  <1>2. UNCHANGED <<disconnectListener, connection, channelSocket, closeTimeouts, timers, closedNothing>>
    BY DEF SocketConnect, contextVars, timerVars
  <1>3. BoundToConnection'
    <2> SUFFICES ASSUME NEW s \in Socket
                 PROVE  /\ s > sockets' => disconnectListener'[s] = None
                        /\ s \in serverUp' /\ disconnectListener'[s] # None => FALSE
      BY DEF BoundToConnection
    <2>1. s \in Nat /\ sockets \in Nat BY Numbers DEF Socket, TypeOK
    <2>2. s > sockets => disconnectListener[s] = None BY DEF BoundToConnection
    <2> QED BY <1>1, <1>2, <2>1, <2>2
  <1> QED BY <1>1, <1>2, <1>3 DEF SocketsTakeTurns, TimerWaitsForDisconnected, CloseFindsConnection

LEMMA InitialNegotiates ==
    ASSUME TypeOK, NegotiationInvariant, NEW s \in Socket, HandleInitial(s)
    PROVE  NegotiationInvariant'
  <1> USE DEF NegotiationInvariant
  <1>0. CASE s \notin armed
    BY <1>0, UnchangedNegotiation DEF HandleInitial, negotiated
  <1>1. CASE s \in armed
    <2>1. serverUp = {s} /\ s = sockets BY DEF HandleInitial, ServerReceives, SocketsTakeTurns
    <2>2. sockets' = sockets /\ serverUp' = serverUp /\ s \notin armed' BY <1>1 DEF HandleInitial
    <2>3. /\ connection' = s /\ channelSocket'[s] = s /\ disconnectListener'[s] = s
          /\ \A t \in Socket : t # s => disconnectListener'[t] = disconnectListener[t]
      BY <1>1 DEF HandleInitial, TypeOK
    <2>4. timers' = {}
      BY <1>1, ClearedTimers DEF HandleInitial, TimerWaitsForDisconnected
    <2>5. BoundToConnection'
      <3> SUFFICES ASSUME NEW t \in Socket
                   PROVE  /\ t > sockets => disconnectListener'[t] = None
                          /\ t \in serverUp /\ disconnectListener'[t] # None =>
                               t \notin armed' /\ connection' = disconnectListener'[t]
                               /\ channelSocket'[connection'] = t
        BY <2>2 DEF BoundToConnection
      <3>1. t > sockets => disconnectListener[t] = None BY DEF BoundToConnection
      <3>2. ~ (s > sockets) BY <2>1 DEF TypeOK
      <3> QED BY <2>1, <2>2, <2>3, <3>1, <3>2
    <2> QED BY <1>1, <2>1, <2>2, <2>4, <2>5
         DEF HandleInitial, SocketsTakeTurns, TimerWaitsForDisconnected, CloseFindsConnection
  <1> QED BY <1>0, <1>1

LEMMA ReconnectNegotiates ==
    ASSUME TypeOK, NegotiationInvariant, NEW s \in Socket, HandleReconnect(s)
    PROVE  NegotiationInvariant'
  <1> USE DEF NegotiationInvariant
  <1>1. /\ serverUp = {s} /\ s = sockets /\ sockets' = sockets /\ serverUp' = serverUp
        /\ s \notin armed' /\ connection' = connection /\ closedNothing' = closedNothing
    BY DEF HandleReconnect, ServerReceives, SocketsTakeTurns, contextVars, timerVars
  <1>2. CASE s \notin armed \/ connection = None
    <2>1. UNCHANGED <<disconnectListener, channelSocket, closeTimeouts, timers>>
      BY <1>2 DEF HandleReconnect, contextVars, timerVars
    <2>2. BoundToConnection' BY <1>1, <2>1 DEF BoundToConnection
    <2> QED BY <1>1, <2>1, <2>2 DEF SocketsTakeTurns, TimerWaitsForDisconnected, CloseFindsConnection
  <1>3. CASE s \in armed /\ connection # None
    <2>1. connection \in Socket BY <1>3 DEF TypeOK, Socket, None
    <2>2. /\ channelSocket'[connection] = s /\ disconnectListener'[s] = connection
          /\ \A t \in Socket : t # s => disconnectListener'[t] = disconnectListener[t]
      BY <1>3, <2>1 DEF HandleReconnect, TypeOK
    <2>3. timers' = {} BY <1>3, ClearedTimers DEF HandleReconnect
    <2>4. BoundToConnection'
      <3> SUFFICES ASSUME NEW t \in Socket
                   PROVE  /\ t > sockets => disconnectListener'[t] = None
                          /\ t \in serverUp /\ disconnectListener'[t] # None =>
                               t \notin armed' /\ connection = disconnectListener'[t]
                               /\ channelSocket'[connection] = t
        BY <1>1 DEF BoundToConnection
      <3>1. t > sockets => disconnectListener[t] = None BY DEF BoundToConnection
      <3>2. ~ (s > sockets) BY <1>1 DEF TypeOK
      <3> QED BY <1>1, <2>2, <3>1, <3>2
    <2> QED BY <1>1, <2>3, <2>4 DEF SocketsTakeTurns, TimerWaitsForDisconnected, CloseFindsConnection
  <1> QED BY <1>2, <1>3

\* The socket that goes was the only one; the context it is bound to is in the map
\* and was on it, so that no timer ran before.
LEMMA LossNegotiates ==
    ASSUME TypeOK, NegotiationInvariant, NEW s \in Socket, ServerSocketLost(s)
    PROVE  NegotiationInvariant'
  <1> USE DEF NegotiationInvariant
  <1> DEFINE n == disconnectListener[s]
  <1>1. /\ serverUp' = {} /\ sockets' = sockets /\ disconnectListener' = disconnectListener
    BY DEF ServerSocketLost, SocketsTakeTurns
  <1>2. BoundToConnection' /\ SocketsTakeTurns' BY <1>1 DEF BoundToConnection, SocketsTakeTurns
  <1>3. CASE n = None
    BY <1>2, <1>3 DEF ServerSocketLost, contextVars, timerVars, TimerWaitsForDisconnected,
                      CloseFindsConnection
  <1>4. CASE n # None
    <2>1. connection = n /\ channelSocket[connection] = s /\ n \in Socket
      BY <1>4 DEF ServerSocketLost, BoundToConnection, TypeOK, Socket, None
    <2>2. timers = {} BY <2>1, Numbers DEF TimerWaitsForDisconnected
    <2>3. CASE Timeout = "zero" \/ markedForClose
      <3>1. CloseConnection(timers) BY <1>4, <2>3 DEF ServerSocketLost
      <3>2. timers' = {} BY <2>2, <3>1 DEF CloseConnection, ClearCloseTimeout
      <3>3. ~ closedNothing' BY <1>4, <2>1, <3>1 DEF CloseConnection, CloseFindsConnection
      <3> QED BY <1>2, <3>2, <3>3 DEF TimerWaitsForDisconnected, CloseFindsConnection
    <2>4. CASE ~ (Timeout = "zero" \/ markedForClose)
      <3>1. connection' = connection /\ closedNothing' = closedNothing
        BY <1>4, <2>4 DEF ServerSocketLost
      <3>2. channelSocket' = [channelSocket EXCEPT ![n] = None]
        BY <1>4 DEF ServerSocketLost, Disconnect
      <3>3. channelSocket'[connection] = None BY <2>1, <3>2 DEF TypeOK
      <3>4. timers' = {} \/ (timers' = {s} /\ closeTimeouts' = s)
        BY <1>4, <2>2, <2>4 DEF ServerSocketLost
      <3> QED BY <1>2, <1>4, <2>1, <3>1, <3>3, <3>4 DEF TimerWaitsForDisconnected, CloseFindsConnection
    <2> QED BY <2>3, <2>4
  <1> QED BY <1>3, <1>4

\* A timer that fires is the recorded one, and its context has no socket that
\* could report a loss to it later.
LEMMA TimeoutNegotiates ==
    ASSUME TypeOK, NegotiationInvariant, NEW s \in Socket, CloseTimeout(s)
    PROVE  NegotiationInvariant'
  <1> USE DEF NegotiationInvariant
  <1>1. s \in timers /\ CloseConnection(timers \ {s}) BY DEF CloseTimeout
  <1>2. connection # None /\ channelSocket[connection] = None BY <1>1 DEF TimerWaitsForDisconnected
  <1>3. timers' = {}
    BY <1>1 DEF CloseConnection, ClearCloseTimeout, TimerWaitsForDisconnected
  <1>4. ~ closedNothing' BY <1>1, <1>2 DEF CloseConnection, CloseFindsConnection
  <1>5. UNCHANGED <<sockets, serverUp, armed, disconnectListener>>
    BY DEF CloseTimeout, networkVars, negotiationVars
  <1>6. \A t \in Socket : t \in serverUp => disconnectListener[t] = None
    BY <1>2, Numbers DEF BoundToConnection
  <1>7. BoundToConnection' BY <1>5, <1>6 DEF BoundToConnection
  <1> QED BY <1>3, <1>4, <1>5, <1>7 DEF SocketsTakeTurns, TimerWaitsForDisconnected, CloseFindsConnection

\* All other steps leave the negotiation alone.
LEMMA NegotiationKept ==
    TypeOK /\ NegotiationInvariant /\ ~ LateDisconnect /\ [Next]_vars => NegotiationInvariant'
  <1> SUFFICES ASSUME TypeOK, NegotiationInvariant, ~ LateDisconnect, [Next]_vars
               PROVE  NegotiationInvariant'
    OBVIOUS
  <1>1. ClientSocketLost \/ ClientStep \/ MarkForClose \/ UNCHANGED vars
        \/ (\E c \in Channel : ClientWrite(c))
        \/ (\E s \in Socket : HandleServerMessage(s) \/ ServerWrite(s))
          => UNCHANGED negotiated
    BY DEF ClientSocketLost, ClientStep, HandleInitialConnect, HandleReconnectTrue,
           HandleReconnectFalse, HandleClientMessage, MarkForClose, ClientWrite,
           HandleServerMessage, ServerWrite, vars, negotiated,
           contextVars, timerVars, negotiationVars, networkVars
  <1> QED BY <1>1, UnchangedNegotiation, ConnectNegotiates, InitialNegotiates, ReconnectNegotiates,
             LossNegotiates, TimeoutNegotiates
       DEF Next, ServerStep

-----------------------------------------------------------------------------
(* The theorems *)

\* Whatever the timeout and however often sockets are lost, one context is open,
\* and, when losses are noticed in time, the sockets, contexts and timers belong
\* together.
THEOREM FrontendInvariantHolds == Spec => []FrontendInvariant
  <1>1. Init => FrontendInvariant
    <2> SUFFICES ASSUME Init PROVE FrontendInvariant OBVIOUS
    <2>1. OneContext BY DEF Init, OneContext
    <2>2. NegotiationInvariant
      BY DEF Init, NegotiationInvariant, SocketsTakeTurns, BoundToConnection,
             TimerWaitsForDisconnected, CloseFindsConnection
    <2> QED BY <2>1, <2>2, InitTypes DEF FrontendInvariant
  <1>2. FrontendInvariant /\ [Next]_vars => FrontendInvariant'
    BY TypesKept, OneContextKept, NegotiationKept DEF FrontendInvariant
  <1> QED BY <1>1, <1>2, PTL DEF Spec

\* Every variable of both sides and of the network stays in its type.
THEOREM FrontendTypeCorrect == Spec => []TypeOK
  <1>1. FrontendInvariant => TypeOK BY DEF FrontendInvariant
  <1> QED BY <1>1, FrontendInvariantHolds, PTL

\* The context in the map of the back end is the only one that is open, also when
\* losses are noticed late: closeConnection and the two connect handlers leave no
\* context behind that was not told.
THEOREM AlwaysOneContext == Spec => []OneContext
  <1>1. FrontendInvariant => OneContext BY DEF FrontendInvariant
  <1> QED BY <1>1, FrontendInvariantHolds, PTL

\* No close timeout runs while its front end is connected, when the back end
\* notices a loss before the front end is back.
THEOREM TimersWait == ASSUME ~ LateDisconnect PROVE Spec => []TimerWaitsForDisconnected
  <1>1. FrontendInvariant => TimerWaitsForDisconnected BY DEF FrontendInvariant, NegotiationInvariant
  <1> QED BY <1>1, FrontendInvariantHolds, PTL

\* closeConnection is then never called without a connection.
THEOREM CloseAlwaysFindsConnection == ASSUME ~ LateDisconnect PROVE Spec => []CloseFindsConnection
  <1>1. FrontendInvariant => CloseFindsConnection BY DEF FrontendInvariant, NegotiationInvariant
  <1> QED BY <1>1, FrontendInvariantHolds, PTL

-----------------------------------------------------------------------------
(* What sequences of messages and frames hold *)

LEMMA EmptyContents == Contents(<<>>) = {}
  BY DEF Contents

LEMMA SingleContents == ASSUME NEW x PROVE Contents(<<x>>) = {x}
  BY DEF Contents

LEMMA JoinedContents ==
    ASSUME NEW S, NEW q \in Seq(S), NEW r \in Seq(S), NEW x \in Contents(q \o r)
    PROVE  x \in Contents(q) \/ x \in Contents(r)
  <1>1. PICK i \in 1 .. Len(q) + Len(r) : x = (q \o r)[i] BY DEF Contents
  <1>2. CASE i <= Len(q) BY <1>1, <1>2 DEF Contents
  <1>3. CASE i > Len(q)
    <2>1. x = r[i - Len(q)] /\ i - Len(q) \in 1 .. Len(r) BY <1>1, <1>3
    <2> QED BY <2>1 DEF Contents
  <1> QED BY <1>1, <1>2, <1>3

LEMMA AppendedContents ==
    ASSUME NEW S, NEW q \in Seq(S), NEW y \in S, NEW x \in Contents(Append(q, y))
    PROVE  x \in Contents(q) \/ x = y
  <1>1. PICK i \in 1 .. Len(q) + 1 : x = Append(q, y)[i] BY DEF Contents
  <1>2. CASE i <= Len(q) BY <1>1, <1>2 DEF Contents
  <1>3. CASE i = Len(q) + 1 BY <1>1, <1>3
  <1> QED BY <1>1, <1>2, <1>3

LEMMA TailContents ==
    ASSUME NEW S, NEW q \in Seq(S), q # <<>>
    PROVE  Contents(Tail(q)) \subseteq Contents(q) /\ Head(q) \in Contents(q)
  <1>1. Len(q) \in Nat \ {0} /\ 1 \in DOMAIN q OBVIOUS
  <1>2. Head(q) \in Contents(q) BY <1>1 DEF Contents
  <1>3. ASSUME NEW x \in Contents(Tail(q)) PROVE x \in Contents(q)
    <2>1. PICK i \in 1 .. Len(q) - 1 : x = Tail(q)[i] BY <1>1, <1>3 DEF Contents
    <2>2. x = q[i + 1] /\ i + 1 \in DOMAIN q BY <1>1, <2>1
    <2> QED BY <2>2 DEF Contents
  <1> QED BY <1>2, <1>3

LEMMA FlushedContents ==
    ASSUME NEW buffer, NEW m \in Contents(Flushed(buffer))
    PROVE  m.type = "DATA" /\ m.frames = buffer
  BY EmptyContents, SingleContents DEF Flushed, Data

LEMMA ControlContents ==
    ASSUME NEW type PROVE Control(type).type = type /\ Contents(Control(type).frames) = {}
  BY EmptyContents DEF Control

LEMMA DataContents ==
    ASSUME NEW frame PROVE Data(<<frame>>).type = "DATA" /\ Contents(Data(<<frame>>).frames) = {frame}
  BY SingleContents DEF Data

\* What is on a link after a send was on it or was sent.
LEMMA SentContents ==
    ASSUME TypeOK, NEW s \in 0 .. MaxSockets, NEW ms \in Seq(Message), NEW t \in Socket, NEW m
    PROVE  /\ m \in Contents(ToServer(s, ms)[t]) =>
                m \in Contents(toServer[t]) \/ (t = s /\ m \in Contents(ms))
           /\ m \in Contents(ToClient(s, ms)[t]) =>
                m \in Contents(toClient[t]) \/ (t = s /\ s = socket /\ m \in Contents(ms))
  <1>1. toServer[t] \in Seq(Message) /\ toClient[t] \in Seq(Message) BY DEF TypeOK
  <1>2. /\ ToServer(s, ms)[t] = toServer[t] \/ (t = s /\ ToServer(s, ms)[t] = toServer[t] \o ms)
        /\ ToClient(s, ms)[t] = toClient[t]
             \/ (t = s /\ s = socket /\ ToClient(s, ms)[t] = toClient[t] \o ms)
    BY DEF TypeOK, ToServer, ToClient
  <1> QED BY <1>1, <1>2, JoinedContents

\* Taking a message or dropping a link adds nothing.
LEMMA TakenContents ==
    ASSUME TypeOK, NEW s \in Socket, NEW t \in Socket
    PROVE  /\ toServer[s] # <<>> =>
                /\ Contents(TakenByServer(s)[t]) \subseteq Contents(toServer[t])
                /\ Head(toServer[s]) \in Contents(toServer[s])
           /\ socket = s /\ toClient[s] # <<>> =>
                /\ Contents(TakenByClient[t]) \subseteq Contents(toClient[t])
                /\ Head(toClient[s]) \in Contents(toClient[s])
  <1>1. toServer[s] \in Seq(Message) /\ toClient[s] \in Seq(Message) BY DEF TypeOK
  <1>2. toServer[s] # <<>> =>
          /\ Contents(Tail(toServer[s])) \subseteq Contents(toServer[s])
          /\ Head(toServer[s]) \in Contents(toServer[s])
    BY <1>1, TailContents
  <1>3. toClient[s] # <<>> =>
          /\ Contents(Tail(toClient[s])) \subseteq Contents(toClient[s])
          /\ Head(toClient[s]) \in Contents(toClient[s])
    BY <1>1, TailContents
  <1>4. TakenByServer(s)[t] = IF t = s THEN Tail(toServer[s]) ELSE toServer[t]
    BY DEF TypeOK, TakenByServer
  <1>5. socket = s => TakenByClient[t] = IF t = s THEN Tail(toClient[s]) ELSE toClient[t]
    BY DEF TypeOK, TakenByClient
  <1> QED BY <1>2, <1>3, <1>4, <1>5

-----------------------------------------------------------------------------
(* Steps that leave the negotiation alone *)

Good == TypeOK /\ NegotiationInvariant /\ DataInvariant /\ ~ LateDisconnect

bound == <<socket, currentChannel, clientState, contextOf, queuedEmits, writeBuffer, connection,
           channelSocket, listening, socketBuffer, armed, disconnectListener, sockets, serverUp>>

\* Nothing depends on a message being there.
LEMMA FewerMessages ==
    ASSUME TypeOK, DataInvariant, UNCHANGED bound,
           \A t \in Socket : /\ Contents(toServer'[t]) \subseteq Contents(toServer[t])
                             /\ Contents(toClient'[t]) \subseteq Contents(toClient[t])
                             /\ t # socket => toClient'[t] = toClient[t]
    PROVE  DataInvariant'
  <1> USE DEF DataInvariant, bound
  <1>1. NewestOnly' BY DEF NewestOnly
  <1>2. ContextsKeepSockets' BY DEF ContextsKeepSockets
  <1>3. OpenForConnection'
    <2>1. \A s \in armed : s \in Socket BY DEF TypeOK
    <2> QED BY <2>1 DEF OpenForConnection, ChannelIsOpen
  <1>4. DownMatches'
    <2>1. socket # None => socket \in Socket BY Numbers DEF TypeOK, Socket, None
    <2> QED BY <2>1 DEF DownMatches
  <1>5. UpMatches'
    <2>1. \A s \in serverUp : s \in Socket BY DEF TypeOK
    <2> QED BY <2>1 DEF UpMatches, MayBeOn
  <1>6. BufferMatches' BY DEF BufferMatches
  <1> QED BY <1>1, <1>2, <1>3, <1>4, <1>5, <1>6

LEMMA MessageTaken ==
    ASSUME Good, HandleClientMessage \/ \E s \in Socket : HandleServerMessage(s)
    PROVE  DataInvariant'
  <1>1. CASE HandleClientMessage
    <2>1. socket \in Socket /\ toClient[socket] # <<>>
      BY <1>1 DEF HandleClientMessage, ClientReceives, Good, TypeOK, Socket, None
    <2>2. UNCHANGED <<bound, toServer>> /\ toClient' = TakenByClient
      BY <1>1 DEF HandleClientMessage, bound, clientVars, contextVars, negotiationVars
    <2>3. \A t \in Socket : Contents(toClient'[t]) \subseteq Contents(toClient[t])
      BY <2>1, <2>2, TakenContents DEF Good
    <2>4. \A t \in Socket : t # socket => toClient'[t] = toClient[t]
      BY <2>2 DEF TakenByClient, Good, TypeOK
    <2> QED BY <2>2, <2>3, <2>4, FewerMessages DEF Good
  <1>2. ASSUME NEW s \in Socket, HandleServerMessage(s) PROVE DataInvariant'
    <2>1. UNCHANGED <<bound, toClient>> /\ toServer' = TakenByServer(s) /\ toServer[s] # <<>>
      BY <1>2 DEF HandleServerMessage, ServerReceives, bound, clientVars, contextVars, negotiationVars
    <2>2. \A t \in Socket : Contents(toServer'[t]) \subseteq Contents(toServer[t])
      BY <2>1, TakenContents DEF Good
    <2> QED BY <2>1, <2>2, FewerMessages DEF Good
  <1> QED BY <1>1, <1>2

\* A front end that is gone reads nothing.
LEMMA ClientLost == ASSUME Good, ClientSocketLost PROVE DataInvariant'
  <1> USE DEF Good, DataInvariant
  <1>1. socket \in Socket BY DEF ClientSocketLost, TypeOK, Socket, None
  <1>2. /\ socket' = None /\ toClient' = [toClient EXCEPT ![socket] = <<>>]
        /\ UNCHANGED <<currentChannel, clientState, contextOf, queuedEmits, writeBuffer, connection,
                       channelSocket, listening, socketBuffer, armed, disconnectListener, sockets,
                       serverUp, toServer>>
    BY DEF ClientSocketLost, contextVars, negotiationVars
  <1>3. NewestOnly' BY <1>1, <1>2 DEF NewestOnly, TypeOK
  <1>4. ContextsKeepSockets' BY <1>2 DEF ContextsKeepSockets
  <1>5. OpenForConnection' BY <1>2 DEF OpenForConnection, ChannelIsOpen
  <1>6. DownMatches' BY <1>2 DEF DownMatches
  <1>7. UpMatches' BY <1>2 DEF UpMatches, MayBeOn
  <1>8. BufferMatches' BY <1>2 DEF BufferMatches
  <1> QED BY <1>3, <1>4, <1>5, <1>6, <1>7, <1>8

\* A context that is closed has left the map; its channel and socket stay.
LEMMA ClosedLater ==
    ASSUME Good, (\E s \in Socket : CloseTimeout(s)) \/ MarkForClose \/ UNCHANGED vars
    PROVE  DataInvariant'
  <1> USE DEF Good, DataInvariant
  <1>1. /\ connection' \in {connection, None}
        /\ UNCHANGED <<socket, currentChannel, clientState, contextOf, queuedEmits, writeBuffer,
                       channelSocket, listening, socketBuffer, armed, disconnectListener, sockets,
                       serverUp, toServer, toClient>>
    BY DEF CloseTimeout, CloseConnection, MarkForClose, vars, clientVars, contextVars,
           negotiationVars, networkVars
  <1>3. NewestOnly' BY <1>1 DEF NewestOnly
  <1>4. ContextsKeepSockets' BY <1>1 DEF ContextsKeepSockets
  <1>5. OpenForConnection' BY <1>1 DEF OpenForConnection, ChannelIsOpen
  <1>6. DownMatches' BY <1>1 DEF DownMatches
  <1>7. UpMatches' BY <1>1 DEF UpMatches, MayBeOn
  <1>8. BufferMatches' BY <1>1 DEF BufferMatches
  <1> QED BY <1>3, <1>4, <1>5, <1>6, <1>7, <1>8

LEMMA ServerLost == ASSUME Good, NEW s \in Socket, ServerSocketLost(s) PROVE DataInvariant'
  <1> USE DEF Good, DataInvariant
  <1>1. /\ serverUp' = serverUp \ {s} /\ armed' = armed \ {s}
        /\ toServer' = [toServer EXCEPT ![s] = <<>>]
        /\ UNCHANGED <<socket, currentChannel, clientState, contextOf, queuedEmits, writeBuffer,
                       socketBuffer, disconnectListener, sockets, toClient>>
    BY DEF ServerSocketLost, contextVars, timerVars, clientVars
  <1>2. connection' \in {connection, None}
    BY DEF ServerSocketLost, contextVars, CloseConnection
  <1>3. \A n \in Socket : /\ channelSocket'[n] \in {channelSocket[n], None}
                          /\ listening'[n] \subseteq listening[n]
    <2> DEFINE b == disconnectListener[s]
    <2>1. CASE b = None BY <2>1 DEF ServerSocketLost, contextVars
    <2>2. CASE b # None
      <3>1. /\ channelSocket' = [channelSocket EXCEPT ![b] = None]
            /\ listening' = [listening EXCEPT ![b] = @ \ {channelSocket[b], s}]
        BY <2>2 DEF ServerSocketLost, Disconnect
      <3>2. listening \in [Socket -> SUBSET Socket] /\ channelSocket \in [Socket -> 0 .. MaxSockets]
        BY DEF TypeOK
      <3> HIDE DEF Good, DataInvariant, b
      <3>3. \A n \in Socket : channelSocket'[n] \in {channelSocket[n], None} BY <3>1, <3>2
      <3>4. \A n \in Socket : listening'[n] \subseteq listening[n] BY <3>1, <3>2
      <3> QED BY <3>3, <3>4
    <2> QED BY <2>1, <2>2
  <1>4. NewestOnly' BY <1>1 DEF NewestOnly
  <1>5. ContextsKeepSockets' BY <1>1, <1>3 DEF ContextsKeepSockets
  <1>6. \A t \in Socket : t # s => toServer'[t] = toServer[t] BY <1>1 DEF TypeOK
  <1>7. OpenForConnection' 
    <2>1. \A t \in armed' : t \in Socket /\ t \in armed /\ t # s BY <1>1 DEF TypeOK
    <2> QED BY <1>1, <1>2, <1>6, <2>1 DEF OpenForConnection, ChannelIsOpen
  <1>8. DownMatches' BY <1>1 DEF DownMatches
  <1>9. UpMatches'
    <2>1. \A t \in serverUp' : t \in Socket /\ t \in serverUp /\ t # s BY <1>1 DEF TypeOK
    <2> QED BY <1>1, <1>6, <2>1 DEF UpMatches, MayBeOn
  <1>10. BufferMatches' BY <1>1 DEF BufferMatches
  <1> QED BY <1>4, <1>5, <1>7, <1>8, <1>9, <1>10

-----------------------------------------------------------------------------
(* A socket comes *)

\* A front end whose channel is open sends RECONNECT and nothing before it.
LEMMA Connected == ASSUME Good, SocketConnect PROVE DataInvariant'
  <1> USE DEF Good, DataInvariant
  <1> DEFINE s == sockets + 1
             m == Control(IF currentChannel # None THEN "RECONNECT" ELSE "INITIAL")
             q == Append(Repeat(Control("INITIAL"), queuedEmits), m)
  <1>1. s \in Socket BY Numbers DEF SocketConnect, Socket, TypeOK
  <1>2. /\ socket = None /\ serverUp = {} /\ armed = {} /\ socket' = s /\ sockets' = s
        /\ serverUp' = {s} /\ armed' = {s} /\ queuedEmits' = 0
        /\ toServer' = [toServer EXCEPT ![s] = q]
        /\ UNCHANGED <<currentChannel, clientState, contextOf, writeBuffer, connection,
                       channelSocket, listening, socketBuffer, disconnectListener, toClient>>
    BY DEF SocketConnect, contextVars, NewestOnly
  <1>3. disconnectListener[s] = None
    BY <1>1 DEF NegotiationInvariant, BoundToConnection, TypeOK
  <1>4. toServer'[s] = q BY <1>1, <1>2 DEF TypeOK
  <1>5. \A x \in Contents(q) : /\ Contents(x.frames) = {}
                               /\ currentChannel # None /\ queuedEmits = 0 => x.type # "INITIAL"
    <2>1. Control("INITIAL") \in Message /\ m \in Message BY ControlTypes
    <2>2. queuedEmits \in Nat BY DEF TypeOK
    <2>3. Repeat(Control("INITIAL"), queuedEmits) \in Seq(Message) BY <2>1, <2>2, RepeatTypes
    <2>4. \A x \in Contents(Repeat(Control("INITIAL"), queuedEmits)) :
            x = Control("INITIAL") /\ queuedEmits # 0
      BY <2>2 DEF Contents, Repeat
    <2>5. \A x \in Contents(q) : \/ x = Control("INITIAL") /\ queuedEmits # 0
                                 \/ x = m
      BY <2>1, <2>3, <2>4, AppendedContents
    <2>6. ASSUME NEW x \in Contents(q)
          PROVE  /\ Contents(x.frames) = {}
                 /\ currentChannel # None /\ queuedEmits = 0 => x.type # "INITIAL"
      BY <2>5, ControlContents
    <2> QED BY <2>6
  <1>6. NewestOnly' BY <1>1, <1>2, Numbers DEF NewestOnly
  <1>7. ContextsKeepSockets' BY <1>2 DEF ContextsKeepSockets
  <1>8. OpenForConnection' BY <1>2, <1>3, <1>4, <1>5 DEF OpenForConnection, ChannelIsOpen
  <1>9. DownMatches'
    <2>1. toClient'[s] = <<>> BY <1>1, <1>2, Numbers DEF NewestOnly
    <2> QED BY <1>2, <2>1, EmptyContents DEF DownMatches
  <1>10. UpMatches' BY <1>2, <1>4, <1>5 DEF UpMatches
  <1>11. BufferMatches' BY <1>2 DEF BufferMatches
  <1> QED BY <1>6, <1>7, <1>8, <1>9, <1>10, <1>11

-----------------------------------------------------------------------------
(* The front end writes *)

\* The newest socket is the only one the back end negotiates on.
LEMMA ArmedIsNewest ==
    ASSUME Good, NEW s \in armed
    PROVE  s = sockets /\ serverUp = {s} /\ disconnectListener[s] = None /\ s \in Socket
  BY DEF Good, DataInvariant, NegotiationInvariant, SocketsTakeTurns, BoundToConnection,
         NewestOnly, TypeOK

\* Data of the open channel and of dropped ones may go to the socket.
LEMMA ClientSends ==
    ASSUME Good, socket # None, NEW ms \in Seq(Message),
           \A m \in Contents(ms) :
             /\ m.type = "DATA"
             /\ \A f \in Contents(m.frames) :
                  f.from \in Channel /\ clientState[f.from] \in {"open", "dropped"},
           toServer' = ToServer(socket, ms),
           \A t \in Socket : /\ Contents(toClient'[t]) \subseteq Contents(toClient[t])
                             /\ t # socket => toClient'[t] = toClient[t],
           UNCHANGED <<socket, currentChannel, clientState, contextOf, queuedEmits, connection,
                       channelSocket, listening, socketBuffer, armed, disconnectListener, sockets,
                       serverUp>>,
           BufferMatches'
    PROVE  DataInvariant'
  <1> USE DEF Good, DataInvariant
  <1>0. socket \in Socket /\ socket \in 0 .. MaxSockets BY DEF TypeOK, Socket, None
  <1>1. \A t \in Socket : \A m \in Contents(toServer'[t]) :
          m \in Contents(toServer[t]) \/ (t = socket /\ m \in Contents(ms))
    BY <1>0, SentContents
  <1>2. NewestOnly' BY DEF NewestOnly
  <1>3. ContextsKeepSockets' BY DEF ContextsKeepSockets
  <1>4. OpenForConnection'
    <2>1. \A t \in armed : t \in Socket BY DEF TypeOK
    <2> QED BY <1>1, <2>1 DEF OpenForConnection, ChannelIsOpen
  <1>5. DownMatches' BY <1>0 DEF DownMatches
  <1>6. UpMatches'
    <2> SUFFICES ASSUME NEW t \in serverUp, NEW m \in Contents(toServer'[t]),
                        NEW f \in Contents(m.frames)
                 PROVE  MayBeOn(t, f.from)
      BY DEF UpMatches, MayBeOn
    <2>1. t \in Socket BY DEF TypeOK
    <2>2. CASE m \in Contents(toServer[t]) BY <2>2 DEF UpMatches
    <2>3. CASE t = socket /\ m \in Contents(ms)
      <3>1. f.from \in Channel /\ clientState[f.from] \in {"open", "dropped"} BY <2>3
      <3>2. CASE clientState[f.from] = "dropped" BY <3>1, <3>2 DEF MayBeOn
      <3>3. CASE clientState[f.from] = "open"
        <4>1. f.from = currentChannel /\ ChannelIsOpen
          BY <3>1, <3>3 DEF NewestOnly, ChannelIsOpen, Channel, None
        <4>2. disconnectListener[t] # None => contextOf[f.from] = disconnectListener[t]
          BY <2>3, <4>1 DEF OpenForConnection
        <4> QED BY <3>1, <3>3, <4>2 DEF MayBeOn
      <3> QED BY <3>1, <3>2, <3>3
    <2> QED BY <1>1, <2>1, <2>2, <2>3
  <1> QED BY <1>2, <1>3, <1>4, <1>5, <1>6

LEMMA ClientWrote == ASSUME Good, NEW c \in Channel, ClientWrite(c) PROVE DataInvariant'
  <1> USE DEF Good, DataInvariant
  <1> DEFINE frame == [from |-> c, n |-> upSent + 1]
  <1>0. /\ clientState[c] \in {"open", "dropped"} /\ frame.from = c /\ frame \in Frame
        /\ UNCHANGED <<socket, currentChannel, clientState, contextOf, queuedEmits, connection,
                       channelSocket, listening, socketBuffer, armed, disconnectListener, sockets,
                       serverUp, toClient>>
    BY ConnectionAssumption DEF ClientWrite, contextVars, negotiationVars, Frame, TypeOK
  <1>1. CASE socket # None
    <2> DEFINE ms == <<Data(<<frame>>)>>
    <2>1. toServer' = ToServer(socket, ms) /\ writeBuffer' = writeBuffer BY <1>1 DEF ClientWrite
    <2>2. <<frame>> \in Seq(Frame) /\ <<frame>> # <<>> BY <1>0
    <2>3. Data(<<frame>>) \in Message BY <2>2, DataTypes
    <2>4. ms \in Seq(Message) BY <2>3
    <2>5. \A m \in Contents(ms) : m.type = "DATA" /\ Contents(m.frames) = {frame}
      BY SingleContents, DataContents
    <2>6. BufferMatches' BY <1>0, <2>1 DEF BufferMatches
    <2> HIDE DEF ms, frame, Good, DataInvariant
    <2> QED BY <1>0, <1>1, <2>1, <2>4, <2>5, <2>6, ClientSends
  <1>2. CASE socket = None
    <2>1. writeBuffer' = Append(writeBuffer, frame) /\ toServer' = toServer BY <1>2 DEF ClientWrite
    <2>2. \A f \in Contents(writeBuffer') : f \in Contents(writeBuffer) \/ f = frame
      BY <1>0, <2>1, AppendedContents DEF TypeOK
    <2>3. BufferMatches' BY <1>0, <2>2 DEF BufferMatches
    <2>4. NewestOnly' BY <1>0 DEF NewestOnly
    <2>5. ContextsKeepSockets' BY <1>0 DEF ContextsKeepSockets
    <2>6. OpenForConnection' BY <1>0, <2>1 DEF OpenForConnection, ChannelIsOpen
    <2>7. DownMatches' BY <1>0 DEF DownMatches
    <2>8. UpMatches' BY <1>0, <2>1 DEF UpMatches, MayBeOn
    <2> QED BY <2>3, <2>4, <2>5, <2>6, <2>7, <2>8
  <1> QED BY <1>1, <1>2

\* What the front end does with the head of its socket.
LEMMA ClientTakes ==
    ASSUME Good, NEW type, ClientReceives(type)
    PROVE  /\ socket \in Socket /\ socket = sockets
           /\ \E m \in Contents(toClient[socket]) : m.type = type
           /\ \A t \in Socket : Contents(TakenByClient[t]) \subseteq Contents(toClient[t])
           /\ \A t \in Socket : t # socket => TakenByClient[t] = toClient[t]
  <1> USE DEF Good, DataInvariant
  <1>1. socket \in Socket /\ socket = sockets /\ toClient[socket] # <<>>
    BY DEF ClientReceives, TypeOK, Socket, None, NewestOnly
  <1>2. Head(toClient[socket]) \in Contents(toClient[socket]) BY <1>1, TakenContents
  <1>3. \A t \in Socket : Contents(TakenByClient[t]) \subseteq Contents(toClient[t])
    BY <1>1, TakenContents
  <1>4. \A t \in Socket : t # socket => TakenByClient[t] = toClient[t]
    BY DEF TakenByClient, TypeOK
  <1> QED BY <1>1, <1>2, <1>3, <1>4 DEF ClientReceives

LEMMA Reconnected == ASSUME Good, HandleReconnectTrue PROVE DataInvariant'
  <1> USE DEF Good
  <1>1. /\ ClientReceives("RECONNECT_TRUE") /\ toClient' = TakenByClient
        /\ UNCHANGED <<socket, currentChannel, clientState, contextOf, queuedEmits, connection,
                       channelSocket, listening, socketBuffer, armed, disconnectListener, sockets,
                       serverUp>>
    BY DEF HandleReconnectTrue, contextVars, negotiationVars
  <1>2. /\ socket \in Socket
        /\ \A t \in Socket : /\ Contents(toClient'[t]) \subseteq Contents(toClient[t])
                             /\ t # socket => toClient'[t] = toClient[t]
    BY <1>1, ClientTakes
  <1>3. CASE reconnectListeners > 0
    <2>1. toServer' = ToServer(socket, Flushed(writeBuffer)) /\ writeBuffer' = <<>>
      BY <1>3 DEF HandleReconnectTrue
    <2>2. Flushed(writeBuffer) \in Seq(Message) BY FlushedTypes DEF TypeOK
    <2>3. \A m \in Contents(Flushed(writeBuffer)) :
             /\ m.type = "DATA"
             /\ \A f \in Contents(m.frames) :
                  f.from \in Channel /\ clientState[f.from] \in {"open", "dropped"}
      BY FlushedContents DEF DataInvariant, BufferMatches
    <2>4. BufferMatches' BY <2>1, EmptyContents DEF BufferMatches
    <2>5. socket # None BY <1>2, Numbers
    <2> HIDE DEF Good
    <2> QED BY <1>1, <1>2, <2>1, <2>2, <2>3, <2>4, <2>5, ClientSends
  <1>4. CASE ~ (reconnectListeners > 0)
    <2>1. UNCHANGED bound /\ toServer' = toServer
      BY <1>1, <1>4 DEF HandleReconnectTrue, bound
    <2> QED BY <1>2, <2>1, FewerMessages
  <1> QED BY <1>3, <1>4

-----------------------------------------------------------------------------
(* The front end opens and loses channels *)

\* The socket's negotiation has finished, and the channel that opens belongs to
\* the context that answered.  The channels before it are dropped.
LEMMA ChannelOpened == ASSUME Good, HandleInitialConnect PROVE DataInvariant'
  <1> USE DEF Good
  <1> DEFINE last == currentChannel + initialListeners
  <1>1. /\ ClientReceives("INITIAL") /\ toClient' = TakenByClient /\ last <= MaxChannels
        /\ currentChannel' = last /\ currentChannel \in Nat /\ initialListeners \in Nat
        /\ UNCHANGED <<socket, queuedEmits, connection, channelSocket, listening, socketBuffer,
                       armed, disconnectListener, sockets, serverUp, toServer>>
    BY DEF HandleInitialConnect, contextVars, negotiationVars, TypeOK
  <1>2. /\ socket \in Socket /\ socket = sockets
        /\ \E m \in Contents(toClient[socket]) : m.type = "INITIAL"
        /\ \A t \in Socket : /\ Contents(toClient'[t]) \subseteq Contents(toClient[t])
                             /\ t # socket => toClient'[t] = toClient[t]
    BY <1>1, ClientTakes
  <1>3. disconnectListener[socket] # None BY <1>2, Numbers DEF DataInvariant, DownMatches
  <1>4. armed = {}
    <2>1. \A s \in armed : FALSE BY <1>2, <1>3, ArmedIsNewest
    <2> QED BY <2>1
  <1>5. \A c \in Channel : /\ clientState[c] = "open" => c = currentChannel
                           /\ clientState[c] # "none" => c <= currentChannel
    BY DEF DataInvariant, NewestOnly
  <1>6. \A c \in Channel :
          /\ clientState'[c] = CASE c = last /\ initialListeners > 0 -> "open"
               [] c < last /\ (c > currentChannel \/ clientState[c] = "open") -> "dropped"
               [] OTHER -> clientState[c]
          /\ contextOf'[c] = IF c \in currentChannel + 1 .. last
                               THEN disconnectListener[socket] ELSE contextOf[c]
    BY DEF HandleInitialConnect
  <1>7. CASE initialListeners = 0
    <2>1. \A c \in Channel : clientState'[c] = clientState[c] /\ contextOf'[c] = contextOf[c]
      BY <1>1, <1>5, <1>6, <1>7 DEF Channel
    <2>2. clientState' = clientState /\ contextOf' = contextOf
      BY <2>1 DEF HandleInitialConnect, TypeOK
    <2>3. currentChannel' = currentChannel /\ writeBuffer' = writeBuffer
      BY <1>1, <1>7 DEF HandleInitialConnect
    <2> QED BY <1>1, <1>2, <2>2, <2>3, FewerMessages DEF bound
  <1>8. CASE initialListeners > 0
    <2>1. last \in Channel /\ clientState'[last] = "open"
          /\ contextOf'[last] = disconnectListener[socket]
      BY <1>1, <1>6, <1>8, ConnectionAssumption DEF Channel
    <2>2. ASSUME NEW c \in Channel, clientState[c] # "none"
          PROVE  /\ contextOf'[c] = contextOf[c] /\ clientState'[c] # "none"
                 /\ clientState'[c] \in {clientState[c], "dropped"}
      BY <1>1, <1>5, <1>6, <1>8, <2>2 DEF Channel
    <2>3. ASSUME NEW c \in Channel
          PROVE  /\ clientState'[c] = "open" => c = last
                 /\ clientState'[c] # "none" => c <= last
      BY <1>1, <1>5, <1>6, <1>8 DEF Channel
    <2>4. NewestOnly' BY <1>1, <1>2, <2>3 DEF DataInvariant, NewestOnly
    <2>5. ContextsKeepSockets' BY <1>1 DEF DataInvariant, ContextsKeepSockets
    <2>6. OpenForConnection'
      <3>1. queuedEmits = 0 BY <1>2, Numbers DEF DataInvariant, NewestOnly
      <3>2. connection \in {None, disconnectListener[socket]}
        BY <1>2, <1>3, Numbers DEF DataInvariant, OpenForConnection
      <3> QED BY <1>1, <1>4, <2>1, <3>1, <3>2 DEF OpenForConnection, ChannelIsOpen
    <2>7. DownMatches' BY <1>1, <1>2 DEF DataInvariant, DownMatches
    <2>8. UpMatches'
      <3> SUFFICES ASSUME NEW t \in serverUp, NEW m \in Contents(toServer[t]),
                          NEW f \in Contents(m.frames)
                   PROVE  MayBeOn(t, f.from)'
        BY <1>1 DEF UpMatches
      <3>1. MayBeOn(t, f.from) BY DEF DataInvariant, UpMatches
      <3> QED BY <1>1, <1>4, <2>2, <3>1 DEF MayBeOn
    <2>9. BufferMatches'
      <3>1. writeBuffer' = <<>> BY <1>8 DEF HandleInitialConnect, Drain
      <3> QED BY <3>1, EmptyContents DEF BufferMatches
    <2> QED BY <2>4, <2>5, <2>6, <2>7, <2>8, <2>9 DEF DataInvariant
  <1> QED BY <1>1, <1>7, <1>8

\* Without a context there is nothing the channel's data could reach.
LEMMA ChannelTold == ASSUME Good, HandleReconnectFalse PROVE DataInvariant'
  <1> USE DEF Good
  <1>1. /\ ClientReceives("RECONNECT_FALSE")
        /\ UNCHANGED <<currentChannel, contextOf, connection, channelSocket, listening, socketBuffer,
                       armed, disconnectListener, sockets, serverUp, toServer>>
    BY DEF HandleReconnectFalse, contextVars, negotiationVars
  <1>2. /\ socket \in Socket /\ socket = sockets
        /\ \E m \in Contents(toClient[socket]) : m.type = "RECONNECT_FALSE"
        /\ \A t \in Socket : /\ Contents(TakenByClient[t]) \subseteq Contents(toClient[t])
                             /\ t # socket => TakenByClient[t] = toClient[t]
    BY <1>1, ClientTakes
  <1>3. CASE ~ (reconnectListeners > 0)
    <2>1. UNCHANGED bound /\ toClient' = TakenByClient
      BY <1>1, <1>3 DEF HandleReconnectFalse, bound
    <2> QED BY <1>1, <1>2, <2>1, FewerMessages
  <1>4. CASE reconnectListeners > 0
    <2>1. armed = {}
      <3>1. socket \notin armed BY <1>2, Numbers DEF DataInvariant, DownMatches
      <3>2. \A s \in armed : s = socket BY <1>2, ArmedIsNewest
      <3> QED BY <3>1, <3>2
    <2>2. /\ socket' = None /\ writeBuffer' = <<>> /\ toClient' = [toClient EXCEPT ![socket] = <<>>]
          /\ clientState' = [clientState EXCEPT ![currentChannel] = IF @ = "open" THEN "told" ELSE @]
      BY <1>4 DEF HandleReconnectFalse, Drain
    <2>3. \A c \in Channel :
            clientState'[c] = IF c = currentChannel /\ clientState[c] = "open" THEN "told" ELSE clientState[c]
      BY <2>2 DEF TypeOK
    <2>4. NewestOnly'
      <3>1. \A t \in Socket : toClient'[t] = <<>> BY <1>2, <2>2 DEF DataInvariant, NewestOnly, TypeOK
      <3> QED BY <1>1, <2>2, <2>3, <3>1 DEF DataInvariant, NewestOnly
    <2>5. ContextsKeepSockets' BY <1>1 DEF DataInvariant, ContextsKeepSockets
    <2>6. OpenForConnection'
      <3>1. ~ ChannelIsOpen'
        <4>1. currentChannel # None => currentChannel \in Channel BY DEF TypeOK, Channel, None
        <4> QED BY <1>1, <2>3, <4>1 DEF ChannelIsOpen
      <3> QED BY <2>2, <3>1 DEF OpenForConnection
    <2>7. DownMatches' BY <2>2 DEF DownMatches
    <2>8. UpMatches'
      <3> SUFFICES ASSUME NEW t \in serverUp, NEW m \in Contents(toServer[t]),
                          NEW f \in Contents(m.frames)
                   PROVE  MayBeOn(t, f.from)'
        BY <1>1 DEF UpMatches
      <3>1. MayBeOn(t, f.from) BY DEF DataInvariant, UpMatches
      <3> QED BY <1>1, <2>1, <2>3, <3>1 DEF MayBeOn
    <2>9. BufferMatches' BY <2>2, EmptyContents DEF BufferMatches
    <2> QED BY <2>4, <2>5, <2>6, <2>7, <2>8, <2>9 DEF DataInvariant
  <1> QED BY <1>3, <1>4

-----------------------------------------------------------------------------
(* The back end negotiates and writes *)

\* A message that is not DATA carries nothing.
LEMMA ControlIsEmpty ==
    ASSUME TypeOK, NEW t \in Socket, NEW m \in Contents(toClient[t]), m.type # "DATA"
    PROVE  Contents(m.frames) = {}
  <1>1. m \in Message BY DEF TypeOK, Contents
  <1> QED BY <1>1, EmptyContents DEF Message

\* On a socket that is negotiated the back end has sent no data.
LEMMA NothingSentYet ==
    ASSUME Good, NEW s \in armed, socket = s, NEW m \in Contents(toClient[s])
    PROVE  m.type \notin {"INITIAL", "DATA", "RECONNECT_FALSE"} /\ Contents(m.frames) = {}
  <1>1. disconnectListener[s] = None /\ s \in Socket BY ArmedIsNewest
  <1>2. m.type \notin {"INITIAL", "DATA", "RECONNECT_FALSE"}
    BY <1>1, Numbers DEF Good, DataInvariant, DownMatches
  <1> QED BY <1>1, <1>2, ControlIsEmpty DEF Good

\* A socket that becomes bound to a context: only data of the open channel and of
\* dropped ones is on it, and the open channel is that of the context.
LEMMA SocketBound ==
    ASSUME Good, NEW s \in armed, NEW n \in Socket, NEW ms \in Seq(Message),
           ChannelIsOpen => contextOf[currentChannel] = n,
           \A m \in Contents(ms) : /\ m.type # "RECONNECT_FALSE"
                                   /\ \A f \in Contents(m.frames) : f.from = n,
           toClient' = ToClient(s, ms),
           \A t \in Socket : Contents(toServer'[t]) \subseteq Contents(toServer[t]),
           armed' = armed \ {s}, connection' = n,
           disconnectListener' = [disconnectListener EXCEPT ![s] = n],
           UNCHANGED <<socket, currentChannel, clientState, contextOf, queuedEmits, writeBuffer,
                       sockets, serverUp>>
    PROVE  NewestOnly' /\ OpenForConnection' /\ DownMatches' /\ UpMatches' /\ BufferMatches'
  <1> USE DEF Good
  <1>1. s = sockets /\ serverUp = {s} /\ s \in Socket /\ armed' = {}
    <2>1. \A t \in armed : t = sockets BY ArmedIsNewest
    <2> QED BY <2>1, ArmedIsNewest
  <1>2. disconnectListener'[s] = n /\ n # None /\ socket \in {None, s}
    BY <1>1, Numbers DEF TypeOK, DataInvariant, NewestOnly
  <1>3. \A t \in Socket : \A m \in Contents(toClient'[t]) :
          m \in Contents(toClient[t]) \/ (t = s /\ s = socket /\ m \in Contents(ms))
    BY <1>1, Numbers, SentContents
  <1>4. NewestOnly'
    <2>1. \A t \in Socket : t # socket => toClient'[t] = toClient[t]
      BY <1>1 DEF ToClient, TypeOK
    <2> QED BY <1>1, <2>1 DEF DataInvariant, NewestOnly
  <1>5. OpenForConnection'
    BY <1>1, <1>2 DEF DataInvariant, OpenForConnection, ChannelIsOpen
  <1>6. DownMatches'
    <2> SUFFICES ASSUME socket # None, NEW m \in Contents(toClient'[s])
                 PROVE  m.type # "RECONNECT_FALSE" /\ \A f \in Contents(m.frames) : f.from = n
      BY <1>1, <1>2 DEF DownMatches
    <2>1. CASE m \in Contents(toClient[s]) BY <1>2, <2>1, NothingSentYet
    <2>2. CASE m \in Contents(ms) BY <2>2
    <2> QED BY <1>1, <1>3, <2>1, <2>2
  <1>7. UpMatches'
    <2> SUFFICES ASSUME NEW m \in Contents(toServer[s]), NEW f \in Contents(m.frames)
                 PROVE  MayBeOn(s, f.from)'
      BY <1>1 DEF UpMatches
    <2>1. /\ f.from \in Channel /\ clientState[f.from] \in {"open", "dropped"}
      BY <1>1 DEF DataInvariant, UpMatches, MayBeOn
    <2>2. clientState[f.from] = "open" => f.from = currentChannel /\ ChannelIsOpen
      BY <2>1, Numbers DEF DataInvariant, NewestOnly, ChannelIsOpen, Channel, None
    <2> QED BY <1>1, <1>2, <2>1, <2>2 DEF MayBeOn
  <1>8. BufferMatches' BY DEF DataInvariant, BufferMatches
  <1> QED BY <1>4, <1>5, <1>6, <1>7, <1>8

\* Contexts that are not on the socket keep theirs.
LEMMA OthersKeepSockets ==
    ASSUME Good, NEW s \in armed, NEW n \in Socket, NEW k \in Socket, k # n,
           disconnectListener' = [disconnectListener EXCEPT ![s] = n],
           channelSocket'[k] = channelSocket[k], listening'[k] = listening[k],
           socketBuffer'[k] = socketBuffer[k]
    PROVE  /\ channelSocket'[k] # None => disconnectListener'[channelSocket'[k]] = k
           /\ \A t \in listening'[k] : disconnectListener'[t] = k
           /\ \A f \in Contents(socketBuffer'[k]) : f.from = k
  <1> USE DEF Good
  <1>1. disconnectListener[s] = None /\ k # None BY ArmedIsNewest, Numbers
  <1>2. \A t \in Socket : t # s => disconnectListener'[t] = disconnectListener[t] BY DEF TypeOK
  <1>3. /\ channelSocket[k] # None => channelSocket[k] \in Socket
        /\ listening[k] \subseteq Socket
    <2>1. channelSocket[k] \in 0 .. MaxSockets /\ listening[k] \in SUBSET Socket BY DEF TypeOK
    <2> QED BY <2>1 DEF Socket, None
  <1>4. /\ channelSocket[k] # None => disconnectListener[channelSocket[k]] = k
        /\ \A t \in listening[k] : disconnectListener[t] = k
        /\ \A f \in Contents(socketBuffer[k]) : f.from = k
    BY DEF DataInvariant, ContextsKeepSockets
  <1> QED BY <1>1, <1>2, <1>3, <1>4

LEMMA ServerTakes ==
    ASSUME Good, NEW s \in Socket, NEW type, ServerReceives(s, type), toServer' = TakenByServer(s)
    PROVE  /\ \E m \in Contents(toServer[s]) : m.type = type
           /\ \A t \in Socket : Contents(toServer'[t]) \subseteq Contents(toServer[t])
  BY TakenContents DEF Good, ServerReceives

\* A front end that asks for a context has no open channel.
LEMMA ContextCreated == ASSUME Good, NEW s \in Socket, HandleInitial(s) PROVE DataInvariant'
  <1> USE DEF Good
  <1>1. /\ \E m \in Contents(toServer[s]) : m.type = "INITIAL"
        /\ \A t \in Socket : Contents(toServer'[t]) \subseteq Contents(toServer[t])
    BY ServerTakes DEF HandleInitial
  <1>2. UNCHANGED <<socket, currentChannel, clientState, contextOf, queuedEmits, writeBuffer,
                    socketBuffer, sockets, serverUp>>
    BY DEF HandleInitial, clientVars
  <1>3. CASE s \notin armed
    <2>1. UNCHANGED <<bound, toClient>> BY <1>2, <1>3 DEF HandleInitial, bound
    <2> QED BY <1>1, <2>1, FewerMessages
  <1>4. CASE s \in armed
    <2> DEFINE ms == <<Control("INITIAL")>>
    <2>1. /\ armed' = armed \ {s} /\ connection' = s /\ toClient' = ToClient(s, ms)
          /\ disconnectListener' = [disconnectListener EXCEPT ![s] = s]
          /\ channelSocket' = [channelSocket EXCEPT ![s] = s]
          /\ listening' = [listening EXCEPT ![s] = {s}]
      BY <1>4 DEF HandleInitial
    <2>2. ~ ChannelIsOpen BY <1>1, <1>4 DEF DataInvariant, OpenForConnection
    <2>3. ms \in Seq(Message) BY ControlTypes
    <2>4. \A m \in Contents(ms) : m.type # "RECONNECT_FALSE" /\ Contents(m.frames) = {}
      BY SingleContents, ControlContents
    <2>5. ContextsKeepSockets'
      <3> SUFFICES ASSUME NEW k \in Socket
                   PROVE  /\ channelSocket'[k] # None => disconnectListener'[channelSocket'[k]] = k
                          /\ \A t \in listening'[k] : disconnectListener'[t] = k
                          /\ \A f \in Contents(socketBuffer'[k]) : f.from = k
        BY DEF ContextsKeepSockets
      <3>1. CASE k = s
        <4>1. channelSocket'[s] = s /\ listening'[s] = {s} /\ disconnectListener'[s] = s
          BY <2>1 DEF TypeOK
        <4> QED BY <1>2, <3>1, <4>1 DEF DataInvariant, ContextsKeepSockets
      <3>2. CASE k # s
        <4>1. channelSocket'[k] = channelSocket[k] /\ listening'[k] = listening[k]
          BY <2>1, <3>2 DEF TypeOK
        <4> QED BY <1>2, <1>4, <2>1, <3>2, <4>1, OthersKeepSockets
      <3> QED BY <3>1, <3>2
    <2> HIDE DEF ms, Good
    <2> QED BY <1>1, <1>2, <1>4, <2>1, <2>2, <2>3, <2>4, <2>5, SocketBound DEF DataInvariant
  <1> QED BY <1>3, <1>4

LEMMA ContextFound == ASSUME Good, NEW s \in Socket, HandleReconnect(s) PROVE DataInvariant'
  <1> USE DEF Good
  <1>1. \A t \in Socket : Contents(toServer'[t]) \subseteq Contents(toServer[t])
    BY ServerTakes DEF HandleReconnect
  <1>2. /\ armed' = armed \ {s}
        /\ UNCHANGED <<socket, currentChannel, clientState, contextOf, queuedEmits, writeBuffer,
                       connection, sockets, serverUp>>
    BY DEF HandleReconnect, clientVars, contextVars
  <1>3. CASE s \notin armed
    <2>1. UNCHANGED <<bound, toClient>> BY <1>2, <1>3 DEF HandleReconnect, bound, contextVars
    <2> QED BY <1>1, <2>1, FewerMessages
  <1>4. CASE s \in armed /\ connection = None
    <2> DEFINE ms == <<Control("RECONNECT_FALSE")>>
    <2>1. /\ toClient' = ToClient(s, ms)
          /\ UNCHANGED <<channelSocket, listening, socketBuffer, disconnectListener>>
      BY <1>4 DEF HandleReconnect, contextVars
    <2>2. armed' = {} /\ serverUp = {s}
      <3>1. \A t \in armed : t = sockets BY ArmedIsNewest
      <3> QED BY <1>2, <1>4, <3>1, ArmedIsNewest
    <2>3. ms \in Seq(Message) BY ControlTypes
    <2>4. \A m \in Contents(ms) : m.type = "RECONNECT_FALSE" /\ Contents(m.frames) = {}
      BY SingleContents, ControlContents
    <2> HIDE DEF ms
    <2>5. \A t \in Socket : \A m \in Contents(toClient'[t]) :
            m \in Contents(toClient[t]) \/ m \in Contents(ms)
      BY <2>1, <2>3, Numbers, SentContents
    <2>6. NewestOnly'
      <3>1. \A t \in Socket : t # socket => toClient'[t] = toClient[t]
        BY <2>1 DEF ToClient, TypeOK
      <3> QED BY <1>2, <2>2, <3>1 DEF DataInvariant, NewestOnly
    <2>7. ContextsKeepSockets' BY <2>1 DEF DataInvariant, ContextsKeepSockets
    <2>8. OpenForConnection' BY <1>2, <2>1, <2>2 DEF DataInvariant, OpenForConnection, ChannelIsOpen
    <2>9. DownMatches'
      <3>1. socket # None => socket \in Socket BY DEF TypeOK, Socket, None
      <3> QED BY <1>2, <2>1, <2>2, <2>4, <2>5, <3>1 DEF DataInvariant, DownMatches
    <2>10. UpMatches'
      <3> SUFFICES ASSUME NEW m \in Contents(toServer[s]), NEW f \in Contents(m.frames)
                   PROVE  MayBeOn(s, f.from)'
        BY <1>1, <1>2, <2>2 DEF UpMatches
      <3>1. MayBeOn(s, f.from) BY <2>2 DEF DataInvariant, UpMatches
      <3> QED BY <1>2, <2>1, <2>2, <3>1 DEF MayBeOn
    <2>11. BufferMatches' BY <1>2 DEF DataInvariant, BufferMatches
    <2> QED BY <2>6, <2>7, <2>8, <2>9, <2>10, <2>11 DEF DataInvariant
  <1>5. CASE s \in armed /\ connection # None
    <2> DEFINE n == connection
               ms == <<Control("RECONNECT_TRUE")>> \o Flushed(socketBuffer[n])
    <2>0. n \in Socket BY <1>5 DEF TypeOK, Socket, None
    <2>1. /\ toClient' = ToClient(s, ms)
          /\ disconnectListener' = [disconnectListener EXCEPT ![s] = n]
          /\ channelSocket' = [channelSocket EXCEPT ![n] = s]
          /\ listening' = [listening EXCEPT ![n] = @ \union {s}]
          /\ socketBuffer' = [socketBuffer EXCEPT ![n] = <<>>]
      BY <1>5 DEF HandleReconnect
    <2>2. ChannelIsOpen => contextOf[currentChannel] = n
      BY <1>5 DEF DataInvariant, OpenForConnection
    <2>3. <<Control("RECONNECT_TRUE")>> \in Seq(Message) /\ Flushed(socketBuffer[n]) \in Seq(Message)
      BY <2>0, ControlTypes, FlushedTypes DEF TypeOK
    <2>4. ms \in Seq(Message) BY <2>3
    <2>5. ASSUME NEW m \in Contents(ms)
          PROVE  m.type # "RECONNECT_FALSE" /\ \A f \in Contents(m.frames) : f.from = n
      <3>1. m = Control("RECONNECT_TRUE") \/ m \in Contents(Flushed(socketBuffer[n]))
        <4>1. m \in Contents(<<Control("RECONNECT_TRUE")>>) \/ m \in Contents(Flushed(socketBuffer[n]))
          BY <2>3, <2>5, JoinedContents
        <4> QED BY <4>1, SingleContents
      <3>2. CASE m = Control("RECONNECT_TRUE") BY <3>2, ControlContents
      <3>3. CASE m \in Contents(Flushed(socketBuffer[n]))
        BY <2>0, <3>3, FlushedContents DEF DataInvariant, ContextsKeepSockets
      <3> QED BY <3>1, <3>2, <3>3
    <2>6. ContextsKeepSockets'
      <3> SUFFICES ASSUME NEW k \in Socket
                   PROVE  /\ channelSocket'[k] # None => disconnectListener'[channelSocket'[k]] = k
                          /\ \A t \in listening'[k] : disconnectListener'[t] = k
                          /\ \A f \in Contents(socketBuffer'[k]) : f.from = k
        BY DEF ContextsKeepSockets
      <3>1. CASE k = n
        <4>1. /\ channelSocket'[n] = s /\ disconnectListener'[s] = n /\ socketBuffer'[n] = <<>>
              /\ \A t \in Socket : t # s => disconnectListener'[t] = disconnectListener[t]
          BY <2>0, <2>1 DEF TypeOK
        <4>2. \A t \in listening'[n] : t \in Socket /\ (t = s \/ t \in listening[n])
          BY <2>0, <2>1 DEF TypeOK
        <4>3. \A t \in listening[n] : disconnectListener[t] = n
          BY <2>0 DEF DataInvariant, ContextsKeepSockets
        <4> QED BY <3>1, <4>1, <4>2, <4>3, EmptyContents
      <3>2. CASE k # n
        <4>1. /\ channelSocket'[k] = channelSocket[k] /\ listening'[k] = listening[k]
              /\ socketBuffer'[k] = socketBuffer[k]
          BY <2>1, <3>2 DEF TypeOK
        <4> QED BY <1>5, <2>0, <2>1, <3>2, <4>1, OthersKeepSockets
      <3> QED BY <3>1, <3>2
    <2> HIDE DEF ms, Good
    <2> QED BY <1>1, <1>2, <1>5, <2>0, <2>1, <2>2, <2>4, <2>5, <2>6, SocketBound DEF DataInvariant
  <1> QED BY <1>3, <1>4, <1>5

\* The socket a context writes on is bound to it.
LEMMA ContextWrote == ASSUME Good, NEW n \in Socket, ServerWrite(n) PROVE DataInvariant'
  <1> USE DEF Good
  <1> DEFINE frame == [from |-> n, n |-> downSent + 1]
             s == channelSocket[n]
  <1>1. /\ frame \in Frame /\ frame.from = n /\ n # None
        /\ UNCHANGED <<socket, currentChannel, clientState, contextOf, queuedEmits, writeBuffer,
                       connection, channelSocket, listening, armed, disconnectListener, sockets,
                       serverUp, toServer>>
    BY Numbers, ConnectionAssumption DEF ServerWrite, clientVars, negotiationVars, Frame, TypeOK
  <1>2. NewestOnly'
    <2>1. \A t \in Socket : t # socket => toClient'[t] = toClient[t]
      BY DEF ServerWrite, ToClient, TypeOK
    <2> QED BY <1>1, <2>1 DEF DataInvariant, NewestOnly
  <1>3. OpenForConnection' BY <1>1 DEF DataInvariant, OpenForConnection, ChannelIsOpen
  <1>4. UpMatches' BY <1>1 DEF DataInvariant, UpMatches, MayBeOn
  <1>5. BufferMatches' BY <1>1 DEF DataInvariant, BufferMatches
  <1>6. CASE s \in serverUp
    <2> DEFINE ms == <<Data(<<frame>>)>>
    <2>1. toClient' = ToClient(s, ms) /\ socketBuffer' = socketBuffer BY <1>6 DEF ServerWrite
    <2>2. <<frame>> \in Seq(Frame) /\ <<frame>> # <<>> BY <1>1
    <2>3. Data(<<frame>>) \in Message BY <2>2, DataTypes
    <2>4. ms \in Seq(Message) BY <2>3
    <2>5. \A m \in Contents(ms) : m.type = "DATA" /\ Contents(m.frames) = {frame}
      BY SingleContents, DataContents
    <2>6. s \in Socket /\ s # None /\ s \in 0 .. MaxSockets BY <1>6, Numbers DEF TypeOK
    <2>7. disconnectListener[s] = n BY <2>6 DEF DataInvariant, ContextsKeepSockets
    <2>8. ContextsKeepSockets' BY <1>1, <2>1 DEF DataInvariant, ContextsKeepSockets
    <2> HIDE DEF ms, frame
    <2>9. \A t \in Socket : \A m \in Contents(toClient'[t]) :
            m \in Contents(toClient[t]) \/ (t = s /\ m \in Contents(ms))
      BY <2>1, <2>4, <2>6, SentContents
    <2>10. DownMatches'
      <3>1. socket # None => socket \in Socket BY DEF TypeOK, Socket, None
      <3> QED BY <1>1, <2>5, <2>7, <2>9, <3>1 DEF DataInvariant, DownMatches
    <2> QED BY <1>2, <1>3, <1>4, <1>5, <2>8, <2>10 DEF DataInvariant
  <1>7. CASE s \notin serverUp
    <2>1. socketBuffer' = [socketBuffer EXCEPT ![n] = Append(@, frame)] /\ toClient' = toClient
      BY <1>7 DEF ServerWrite
    <2>2. DownMatches' BY <1>1, <2>1 DEF DataInvariant, DownMatches
    <2>3. \A k \in Socket : socketBuffer'[k] =
            IF k = n THEN Append(socketBuffer[n], frame) ELSE socketBuffer[k]
      BY <2>1 DEF TypeOK
    <2>4. \A k \in Socket : \A f \in Contents(socketBuffer'[k]) :
            f \in Contents(socketBuffer[k]) \/ (k = n /\ f = frame)
      <3>1. socketBuffer[n] \in Seq(Frame) BY DEF TypeOK
      <3>2. \A f \in Contents(Append(socketBuffer[n], frame)) : f \in Contents(socketBuffer[n]) \/ f = frame
        BY <1>1, <3>1, AppendedContents
      <3> HIDE DEF frame
      <3> QED BY <2>3, <3>2
    <2>5. \A k \in Socket : \A f \in Contents(socketBuffer'[k]) : f.from = k
      BY <1>1, <2>4 DEF DataInvariant, ContextsKeepSockets
    <2>6. ContextsKeepSockets' BY <1>1, <2>5 DEF DataInvariant, ContextsKeepSockets
    <2> QED BY <1>2, <1>3, <1>4, <1>5, <2>2, <2>6 DEF DataInvariant
  <1> QED BY <1>6, <1>7

-----------------------------------------------------------------------------
(* The theorems *)

LEMMA InitData == Init => DataInvariant
  <1> SUFFICES ASSUME Init PROVE DataInvariant OBVIOUS
  <1> USE Numbers, EmptyContents DEF Init
  <1>1. NewestOnly BY DEF NewestOnly, Channel
  <1>2. ContextsKeepSockets BY DEF ContextsKeepSockets
  <1>3. OpenForConnection BY DEF OpenForConnection, ChannelIsOpen
  <1>4. DownMatches /\ UpMatches /\ BufferMatches BY DEF DownMatches, UpMatches, BufferMatches
  <1> QED BY <1>1, <1>2, <1>3, <1>4 DEF DataInvariant

LEMMA DataKept == Good /\ [Next]_vars => DataInvariant'
  <1> SUFFICES ASSUME Good, [Next]_vars PROVE DataInvariant' OBVIOUS
  <1>1. CASE SocketConnect \/ ClientSocketLost \/ ClientStep \/ \E c \in Channel : ClientWrite(c)
    BY <1>1, Connected, ClientLost, ChannelOpened, Reconnected, ChannelTold, MessageTaken, ClientWrote
       DEF ClientStep
  <1>2. ASSUME NEW s \in Socket, ServerStep(s) \/ ServerSocketLost(s) \/ CloseTimeout(s) \/ ServerWrite(s)
        PROVE  DataInvariant'
    BY <1>2, ContextCreated, ContextFound, MessageTaken, ServerLost, ClosedLater, ContextWrote
       DEF ServerStep
  <1>3. CASE MarkForClose \/ UNCHANGED vars BY <1>3, ClosedLater
  <1> QED BY <1>1, <1>2, <1>3 DEF Next

\* What arrives is at the head of its socket, which is bound to the context that
\* reads it and to which the open channel belongs.
LEMMA ArrivesRight == Good => DataReachesItsContext
  <1> SUFFICES ASSUME Good PROVE DataReachesItsContext OBVIOUS
  <1> USE DEF Good
  <1>1. ASSUME NEW m \in Message, m.type = "DATA" PROVE m.frames[1] \in Contents(m.frames)
    <2>1. m.frames \in Seq(Frame) /\ m.frames # <<>> BY <1>1 DEF Message
    <2>2. 1 \in DOMAIN m.frames BY <2>1
    <2> QED BY <2>2 DEF Contents
  <1>2. ASSUME NEW s \in Socket, NEW n \in Socket, ArrivesAt(s, n),
               clientState[ServerHead(s).frames[1].from] # "dropped"
        PROVE  contextOf[ServerHead(s).frames[1].from] = n
    <2>1. toServer[s] \in Seq(Message) /\ toServer[s] # <<>> BY <1>2 DEF ArrivesAt, TypeOK
    <2>2. ServerHead(s) \in Contents(toServer[s]) /\ ServerHead(s) \in Message
      BY <2>1, TailContents DEF ServerHead
    <2>3. ServerHead(s).frames[1] \in Contents(ServerHead(s).frames)
      BY <1>1, <1>2, <2>2 DEF ArrivesAt
    <2>4. MayBeOn(s, ServerHead(s).frames[1].from)
      BY <1>2, <2>2, <2>3 DEF ArrivesAt, DataInvariant, UpMatches
    <2>5. disconnectListener[s] = n BY <1>2 DEF ArrivesAt, DataInvariant, ContextsKeepSockets
    <2> QED BY <1>2, <2>4, <2>5, Numbers DEF MayBeOn
  <1>3. ASSUME ArrivesAtClient PROVE contextOf[currentChannel] = ClientHead.frames[1].from
    <2>1. socket \in Socket /\ toClient[socket] \in Seq(Message) /\ toClient[socket] # <<>>
      <3>1. socket # None /\ toClient[socket] # <<>> BY <1>3 DEF ArrivesAtClient
      <3>2. socket \in Socket BY <3>1 DEF TypeOK, Socket, None
      <3> QED BY <3>1, <3>2 DEF TypeOK
    <2>2. ClientHead \in Contents(toClient[socket]) /\ ClientHead \in Message
      BY <2>1, TailContents DEF ClientHead
    <2>3. ClientHead.frames[1] \in Contents(ClientHead.frames)
      BY <1>1, <1>3, <2>2 DEF ArrivesAtClient
    <2>4. /\ disconnectListener[socket] # None
          /\ ClientHead.frames[1].from = disconnectListener[socket]
      BY <1>3, <2>2, <2>3 DEF ArrivesAtClient, DataInvariant, DownMatches
    <2> QED BY <1>3, <2>4 DEF ArrivesAtClient, DataInvariant, OpenForConnection, ChannelIsOpen
  <1> QED BY <1>2, <1>3 DEF DataReachesItsContext

\* When the back end notices a loss before the front end is back, every socket is
\* bound to one context, the open channel belongs to it, and what is on the way or
\* in a buffer was written by its two ends or by a dropped channel.
THEOREM DataInvariantHolds == ASSUME ~ LateDisconnect PROVE Spec => []DataInvariant
  <1>1. Init => DataInvariant BY InitData
  <1>2. FrontendInvariant /\ DataInvariant /\ [Next]_vars => DataInvariant'
    BY DataKept DEF FrontendInvariant, Good
  <1> QED BY <1>1, <1>2, FrontendInvariantHolds, PTL DEF Spec

\* A message then reaches only the context its channel was opened for, and only the
\* channel opened for its context, after any number of losses; the exception is a
\* dropped channel, whose holders were not told and go on writing.
THEOREM DataAlwaysReachesItsContext ==
    ASSUME ~ LateDisconnect PROVE Spec => []DataReachesItsContext
  <1>1. FrontendInvariant /\ DataInvariant => DataReachesItsContext
    BY ArrivesRight DEF FrontendInvariant, Good
  <1> QED BY <1>1, FrontendInvariantHolds, DataInvariantHolds, PTL

-----------------------------------------------------------------------------
(* What the order of a link and of the buffer behind it depends on *)

LEMMA FrameNumbers ==
    ASSUME NEW link \in Seq(Message), NEW f \in Frames(link) PROVE f.n \in Nat
  <1>1. PICK m \in Contents(link) : f \in Contents(m.frames) BY DEF Frames
  <1>2. m \in Message BY <1>1 DEF Contents
  <1>3. m.frames \in Seq(Frame)
    <2>1. <<>> \in Seq(Frame) OBVIOUS
    <2>2. m.frames = <<>> \/ m.frames \in Seq(Frame) BY <1>2 DEF Message
    <2> QED BY <2>1, <2>2
  <1>4. f \in Frame BY <1>1, <1>3 DEF Contents
  <1> QED BY <1>4 DEF Frame

LEMMA BufferNumbers ==
    ASSUME NEW buffer \in Seq(Frame), NEW f \in Contents(buffer) PROVE f.n \in Nat
  <1>1. f \in Frame BY DEF Contents
  <1> QED BY <1>1 DEF Frame

LEMMA JoinedFrames ==
    ASSUME NEW link \in Seq(Message), NEW m \in Message, NEW f \in Frames(link \o <<m>>)
    PROVE  f \in Frames(link) \/ f \in Contents(m.frames)
  <1>1. PICK x \in Contents(link \o <<m>>) : f \in Contents(x.frames) BY DEF Frames
  <1>2. x \in Contents(link) \/ x \in Contents(<<m>>)
    <2>1. <<m>> \in Seq(Message) OBVIOUS
    <2> QED BY <1>1, <2>1, JoinedContents
  <1> QED BY <1>1, <1>2, SingleContents DEF Frames

LEMMA TailFrames ==
    ASSUME NEW link \in Seq(Message), link # <<>>
    PROVE  Frames(Tail(link)) \subseteq Frames(link) /\ Contents(Head(link).frames) \subseteq Frames(link)
  BY TailContents DEF Frames

\* A message sent comes after those on the link.
LEMMA SentOrdered ==
    ASSUME NEW link \in Seq(Message), NEW m \in Message, NEW ahead,
           Ordered(link, ahead), Precede(Frames(link), Contents(m.frames), ahead)
    PROVE  Ordered(link \o <<m>>, ahead)
  <1> DEFINE long == link \o <<m>>
  <1> SUFFICES ASSUME NEW i \in DOMAIN long, NEW j \in DOMAIN long, i < j
               PROVE  Precede(Contents(long[i].frames), Contents(long[j].frames), ahead)
    BY DEF Ordered
  <1>1. /\ DOMAIN long = 1 .. Len(link) + 1 /\ DOMAIN link = 1 .. Len(link) /\ Len(link) \in Nat
        /\ \A k \in 1 .. Len(link) : long[k] = link[k]
        /\ long[Len(link) + 1] = m
    OBVIOUS
  <1> HIDE DEF long
  <1>2. i \in DOMAIN link /\ long[i] = link[i] BY <1>1
  <1>3. CASE j \in DOMAIN link BY <1>1, <1>2, <1>3 DEF Ordered
  <1>4. CASE j \notin DOMAIN link
    <2>1. long[j] = m BY <1>1, <1>4
    <2>2. Contents(link[i].frames) \subseteq Frames(link) BY <1>2 DEF Frames, Contents
    <2> QED BY <1>2, <2>1, <2>2 DEF Precede
  <1> QED BY <1>3, <1>4

LEMMA TailOrdered ==
    ASSUME NEW link \in Seq(Message), link # <<>>, NEW ahead, Ordered(link, ahead)
    PROVE  /\ Ordered(Tail(link), ahead)
           /\ Precede(Contents(Head(link).frames), Frames(Tail(link)), ahead)
  <1>1. /\ DOMAIN Tail(link) = 1 .. Len(link) - 1 /\ DOMAIN link = 1 .. Len(link)
        /\ Len(link) \in Nat \ {0} /\ Head(link) = link[1]
        /\ \A k \in 1 .. Len(link) - 1 : Tail(link)[k] = link[k + 1]
    OBVIOUS
  <1>2. ASSUME NEW i \in DOMAIN Tail(link), NEW j \in DOMAIN Tail(link), i < j
        PROVE  Precede(Contents(Tail(link)[i].frames), Contents(Tail(link)[j].frames), ahead)
    <2>1. i + 1 \in DOMAIN link /\ j + 1 \in DOMAIN link /\ i + 1 < j + 1 BY <1>1, <1>2
    <2> QED BY <1>1, <2>1 DEF Ordered
  <1>3. ASSUME NEW f \in Contents(Head(link).frames), NEW g \in Frames(Tail(link))
        PROVE  f.n < g.n \/ f.n \in ahead
    <2>1. PICK k \in DOMAIN Tail(link) : g \in Contents(Tail(link)[k].frames)
      BY DEF Frames, Contents
    <2>2. 1 \in DOMAIN link /\ k + 1 \in DOMAIN link /\ 1 < k + 1 BY <1>1
    <2>3. Precede(Contents(link[1].frames), Contents(link[k + 1].frames), ahead)
      BY <2>2 DEF Ordered
    <2> QED BY <1>1, <1>3, <2>1, <2>3 DEF Precede
  <1> QED BY <1>2, <1>3 DEF Ordered, Precede

\* A message is sent that comes after those on the link and before the buffer.
LEMMA SentInOrder ==
    ASSUME NEW read \in SUBSET Nat, NEW link \in Seq(Message), NEW m \in Message,
           NEW buffer \in Seq(Frame), NEW buffer2 \in Seq(Frame),
           NEW written \in Nat, NEW written2 \in Nat, NEW ahead, NEW ahead2,
           InOrder(read, link, buffer, written, ahead),
           Contents(buffer2) \subseteq Contents(buffer), written <= written2, ahead \subseteq ahead2,
           Precede(Frames(link), Contents(m.frames), ahead2),
           Precede(Contents(m.frames), Contents(buffer2), ahead2),
           \A f \in Contents(m.frames) : f.n <= written2 /\ \A k \in read : k < f.n \/ k \in ahead2
    PROVE  InOrder(read, link \o <<m>>, buffer2, written2, ahead2)
  <1> USE DEF InOrder
  <1>1. Ordered(link, ahead2) BY DEF Ordered, Precede
  <1>2. Ordered(link \o <<m>>, ahead2) BY <1>1, SentOrdered
  <1>3. Precede(Frames(link \o <<m>>), Contents(buffer2), ahead2)
    BY JoinedFrames DEF Precede
  <1>4. ASSUME NEW f \in Frames(link \o <<m>>) \union Contents(buffer2)
        PROVE  f.n <= written2 /\ \A k \in read : k < f.n \/ k \in ahead2
    <2>1. CASE f \in Contents(m.frames) BY <2>1
    <2>2. CASE f \in Frames(link) \union Contents(buffer)
      <3>1. f.n \in Nat BY <2>2, FrameNumbers, BufferNumbers
      <3> QED BY <2>2, <3>1
    <2> QED BY <1>4, <2>1, <2>2, JoinedFrames
  <1>5. \A k \in read : k <= written2 OBVIOUS
  <1> QED BY <1>2, <1>3, <1>4, <1>5

\* A frame goes to the end of the buffer.
LEMMA BufferedInOrder ==
    ASSUME NEW read \in SUBSET Nat, NEW link \in Seq(Message), NEW buffer \in Seq(Frame),
           NEW frame \in Frame, NEW written \in Nat, frame.n = written + 1, NEW ahead,
           InOrder(read, link, buffer, written, ahead)
    PROVE  InOrder(read, link, Append(buffer, frame), written + 1, ahead)
  <1> USE DEF InOrder
  <1>1. \A f \in Frames(link) \union Contents(buffer) : f.n \in Nat /\ f.n <= written
    BY FrameNumbers, BufferNumbers
  <1>2. \A f \in Contents(Append(buffer, frame)) : f \in Contents(buffer) \/ f = frame
    BY AppendedContents
  <1>3. Precede(Frames(link), Contents(Append(buffer, frame)), ahead)
    <2> SUFFICES ASSUME NEW f \in Frames(link), NEW g \in Contents(Append(buffer, frame))
                 PROVE  f.n < g.n \/ f.n \in ahead
      BY DEF Precede
    <2>1. CASE g \in Contents(buffer) BY <2>1 DEF Precede
    <2>2. CASE g = frame
      <3>1. f.n < written + 1 BY <1>1
      <3> QED BY <2>2, <3>1
    <2> QED BY <1>2, <2>1, <2>2
  <1>4. ASSUME NEW f \in Frames(link) \union Contents(Append(buffer, frame))
        PROVE  f.n <= written + 1 /\ \A k \in read : k < f.n \/ k \in ahead
    <2>1. CASE f \in Frames(link) \union Contents(buffer)
      <3>1. f.n \in Nat /\ f.n <= written BY <1>1, <2>1
      <3>2. f.n <= written + 1 BY <3>1
      <3> QED BY <2>1, <3>2
    <2>2. CASE f = frame
      <3>1. \A k \in read : k \in Nat /\ k < written + 1 OBVIOUS
      <3> QED BY <2>2, <3>1
    <2> QED BY <1>2, <2>1, <2>2
  <1>5. \A k \in read : k <= written + 1 OBVIOUS
  <1> QED BY <1>3, <1>4, <1>5

\* Nothing depends on a frame being there, and more may have been written.
LEMMA FewerInOrder ==
    ASSUME NEW read \in SUBSET Nat, NEW link \in Seq(Message), NEW link2 \in Seq(Message),
           NEW buffer \in Seq(Frame), NEW buffer2, NEW written \in Nat, NEW written2 \in Nat,
           NEW ahead, NEW ahead2, InOrder(read, link, buffer, written, ahead),
           link2 = link \/ Frames(link2) = {} \/ (link # <<>> /\ link2 = Tail(link)),
           Contents(buffer2) \subseteq Contents(buffer), written <= written2, ahead \subseteq ahead2
    PROVE  InOrder(read, link2, buffer2, written2, ahead2)
  <1> USE DEF InOrder
  <1>1. Frames(link2) \subseteq Frames(link) BY TailFrames
  <1>2. Ordered(link2, ahead)
    <2>1. CASE Frames(link2) = {}
      <3>1. \A i \in DOMAIN link2 : \A f \in Contents(link2[i].frames) : f \in Frames(link2)
        BY DEF Frames, Contents
      <3> QED BY <2>1, <3>1 DEF Ordered, Precede
    <2> QED BY <2>1, TailOrdered
  <1>3. Ordered(link2, ahead2) BY <1>2 DEF Ordered, Precede
  <1>4. Precede(Frames(link2), Contents(buffer2), ahead2) BY <1>1 DEF Precede
  <1>5. ASSUME NEW f \in Frames(link2) \union Contents(buffer2)
        PROVE  f.n <= written2 /\ \A k \in read : k < f.n \/ k \in ahead2
    <2>1. f \in Frames(link) \union Contents(buffer) BY <1>1
    <2>2. f.n \in Nat BY <2>1, FrameNumbers, BufferNumbers
    <2> QED BY <2>1, <2>2
  <1>6. \A k \in read : k <= written2 OBVIOUS
  <1> QED BY <1>3, <1>4, <1>5, <1>6

\* What is read is the first of what is left.
LEMMA ReadInOrder ==
    ASSUME NEW read \in SUBSET Nat, NEW read2, NEW link \in Seq(Message), link # <<>>,
           NEW x \in Contents(Head(link).frames), read2 \subseteq read \union {x.n},
           NEW buffer, NEW written, NEW ahead, InOrder(read, link, buffer, written, ahead)
    PROVE  InOrder(read2, Tail(link), buffer, written, ahead)
  <1> USE DEF InOrder
  <1>1. Frames(Tail(link)) \subseteq Frames(link) /\ x \in Frames(link) BY TailFrames
  <1>2. /\ Ordered(Tail(link), ahead)
        /\ Precede(Contents(Head(link).frames), Frames(Tail(link)), ahead)
    BY TailOrdered
  <1>3. Precede(Frames(Tail(link)), Contents(buffer), ahead) BY <1>1 DEF Precede
  <1>4. \A f \in Frames(Tail(link)) \union Contents(buffer) : x.n < f.n \/ x.n \in ahead
    BY <1>1, <1>2 DEF Precede
  <1>5. x.n <= written BY <1>1
  <1> QED BY <1>1, <1>2, <1>3, <1>4, <1>5

\* The same of what is written and nothing excepted.
LEMMA FewerExact ==
    ASSUME NEW read \in SUBSET Nat, NEW link \in Seq(Message), NEW link2 \in Seq(Message),
           NEW buffer \in Seq(Frame), NEW buffer2, NEW written \in Nat, NEW written2 \in Nat,
           InOrder(read, link, buffer, written, {}),
           link2 = link \/ link2 = <<>> \/ (link # <<>> /\ link2 = Tail(link)),
           Contents(buffer2) \subseteq Contents(buffer), written <= written2
    PROVE  InOrder(read, link2, buffer2, written2, {})
  <1> DEFINE none == {}
  <1>1. InOrder(read, link, buffer, written, none) /\ none \subseteq none OBVIOUS
  <1>2. link2 = <<>> => Frames(link2) = {} BY EmptyContents DEF Frames
  <1> HIDE DEF none
  <1>3. InOrder(read, link2, buffer2, written2, none) BY <1>1, <1>2, FewerInOrder
  <1> QED BY <1>3 DEF none

LEMMA SentExact ==
    ASSUME NEW read \in SUBSET Nat, NEW link \in Seq(Message), NEW m \in Message,
           NEW written \in Nat, NEW written2 \in Nat,
           InOrder(read, link, <<>>, written, {}), written < written2,
           \A f \in Contents(m.frames) : f.n = written2
    PROVE  InOrder(read, link \o <<m>>, <<>>, written2, {})
  <1> DEFINE none == {}
  <1>1. InOrder(read, link, <<>>, written, none) /\ none \subseteq none OBVIOUS
  <1>2. <<>> \in Seq(Frame) /\ Contents(<<>>) = {} /\ written <= written2 BY EmptyContents
  <1>3. Precede(Frames(link), Contents(m.frames), none)
    <2>1. \A f \in Frames(link) : f.n <= written /\ f.n \in Nat BY FrameNumbers DEF InOrder
    <2>2. \A f \in Frames(link) : f.n < written2 BY <2>1
    <2> QED BY <2>2 DEF Precede
  <1>4. Precede(Contents(m.frames), Contents(<<>>), none) BY <1>2 DEF Precede
  <1>5. \A f \in Contents(m.frames) : f.n <= written2 /\ \A k \in read : k < f.n \/ k \in none
    <2>1. \A k \in read : k \in Nat /\ k <= written BY DEF InOrder
    <2>2. \A k \in read : k < written2 BY <2>1
    <2>3. written2 <= written2 OBVIOUS
    <2> QED BY <2>2, <2>3
  <1> HIDE DEF none
  <1>6. InOrder(read, link \o <<m>>, <<>>, written2, none)
    BY <1>1, <1>2, <1>3, <1>4, <1>5, SentInOrder
  <1> QED BY <1>6 DEF none

LEMMA ControlInOrder ==
    ASSUME NEW read \in SUBSET Nat, NEW link \in Seq(Message),
           NEW type \in {"INITIAL", "RECONNECT", "RECONNECT_TRUE", "RECONNECT_FALSE"},
           NEW buffer \in Seq(Frame), NEW buffer2 \in Seq(Frame), NEW written \in Nat, NEW ahead,
           InOrder(read, link, buffer, written, ahead), Contents(buffer2) \subseteq Contents(buffer)
    PROVE  InOrder(read, link \o <<Control(type)>>, buffer2, written, ahead)
  <1> DEFINE m == Control(type)
  <1>1. m \in Message /\ Contents(m.frames) = {} BY ControlTypes, ControlContents
  <1> HIDE DEF m
  <1>2. /\ Precede(Frames(link), Contents(m.frames), ahead)
        /\ Precede(Contents(m.frames), Contents(buffer2), ahead)
        /\ \A f \in Contents(m.frames) : f.n <= written /\ \A k \in read : k < f.n \/ k \in ahead
    BY <1>1 DEF Precede
  <1>3. written <= written /\ ahead \subseteq ahead OBVIOUS
  <1>4. InOrder(read, link \o <<m>>, buffer2, written, ahead) BY <1>1, <1>2, <1>3, SentInOrder
  <1> QED BY <1>4 DEF m

\* A buffer that is flushed follows all there is.
LEMMA FlushedInOrder ==
    ASSUME NEW read \in SUBSET Nat, NEW link \in Seq(Message), NEW buffer \in Seq(Frame),
           NEW written \in Nat, NEW ahead, InOrder(read, link, buffer, written, ahead)
    PROVE  InOrder(read, link \o Flushed(buffer), <<>>, written, ahead)
  <1>1. CASE buffer = <<>>
    <2>1. link \o Flushed(buffer) = link BY <1>1 DEF Flushed
    <2> QED BY <1>1, <2>1
  <1>2. CASE buffer # <<>>
    <2> DEFINE m == Data(buffer)
    <2>1. Flushed(buffer) = <<m>> /\ m \in Message /\ m.frames = buffer
      BY <1>2, DataTypes DEF Flushed, Data
    <2> HIDE DEF m
    <2>2. Contents(<<>>) = {} /\ <<>> \in Seq(Frame) BY EmptyContents
    <2>3. /\ Precede(Frames(link), Contents(m.frames), ahead)
          /\ Precede(Contents(m.frames), Contents(<<>>), ahead)
          /\ \A f \in Contents(m.frames) : f.n <= written /\ \A k \in read : k < f.n \/ k \in ahead
      BY <2>1, <2>2 DEF InOrder, Precede
    <2>4. written <= written /\ ahead \subseteq ahead /\ Contents(<<>>) \subseteq Contents(buffer)
      BY <2>2
    <2>5. InOrder(read, link \o <<m>>, <<>>, written, ahead)
      BY <2>1, <2>2, <2>3, <2>4, SentInOrder
    <2> QED BY <2>1, <2>5
  <1> QED BY <1>1, <1>2

-----------------------------------------------------------------------------
(* Messages of the front end *)

Ordering == Good /\ OneContext /\ OrderInvariant

LEMMA OrderTypes ==
    ASSUME TypeOK
    PROVE  /\ {upRead[n] : n \in Socket} \in SUBSET Nat /\ {downRead[c] : c \in Channel} \in SUBSET Nat
           /\ upSent \in Nat /\ downSent \in Nat
           /\ writeBuffer \in Seq(Frame) /\ DownBuffer \in Seq(Frame)
           /\ \A s \in Socket : toServer[s] \in Seq(Message) /\ toClient[s] \in Seq(Message)
  <1> USE DEF TypeOK
  <1>1. \A k \in 0 .. MaxData : k \in Nat BY ConnectionAssumption
  <1>2. {upRead[n] : n \in Socket} \in SUBSET Nat BY <1>1
  <1>3. {downRead[c] : c \in Channel} \in SUBSET Nat BY <1>1
  <1>4. DownBuffer \in Seq(Frame)
    <2>1. <<>> \in Seq(Frame) OBVIOUS
    <2>2. connection # None => connection \in Socket BY DEF Socket, None
    <2> QED BY <2>1, <2>2 DEF DownBuffer
  <1> QED BY <1>1, <1>2, <1>3, <1>4

LEMMA NoFrames == Frames(<<>>) = {} /\ Contents(<<>>) = {}
  BY EmptyContents DEF Frames

\* Steps that neither write nor read on the way to the back end.
LEMMA UpFewer ==
    ASSUME TypeOK, TypeOK', UpInOrder, UNCHANGED <<upRead, upSent, hasty>>,
           Contents(writeBuffer') \subseteq Contents(writeBuffer),
           \A t \in Socket : \/ toServer'[t] = toServer[t] \/ Frames(toServer'[t]) = {}
                             \/ toServer[t] # <<>> /\ toServer'[t] = Tail(toServer[t])
    PROVE  UpInOrder'
  <1> SUFFICES ASSUME NEW t \in Socket
               PROVE  InOrder({upRead[n] : n \in Socket}, toServer'[t], writeBuffer', upSent, hasty)
    BY DEF UpInOrder
  <1> DEFINE read == {upRead[n] : n \in Socket}
  <1>1. InOrder(read, toServer[t], writeBuffer, upSent, hasty) BY DEF UpInOrder
  <1>2. /\ read \in SUBSET Nat /\ upSent \in Nat /\ writeBuffer \in Seq(Frame)
        /\ toServer[t] \in Seq(Message)
    BY OrderTypes
  <1>3. toServer'[t] \in Seq(Message) BY DEF TypeOK
  <1>4. upSent <= upSent /\ hasty \subseteq hasty BY <1>2
  <1> HIDE DEF read
  <1>5. InOrder(read, toServer'[t], writeBuffer', upSent, hasty)
    BY <1>1, <1>2, <1>3, <1>4, FewerInOrder
  <1> QED BY <1>5 DEF read

LEMMA ConnectInOrder == ASSUME Ordering, TypeOK', SocketConnect PROVE UpInOrder'
  <1> DEFINE s == sockets + 1
             m == Control(IF currentChannel # None THEN "RECONNECT" ELSE "INITIAL")
             q == Append(Repeat(Control("INITIAL"), queuedEmits), m)
  <1> USE DEF Ordering, Good
  <1>1. /\ toServer' = [toServer EXCEPT ![s] = q]
        /\ UNCHANGED <<upRead, upSent, hasty, writeBuffer>>
    BY DEF SocketConnect, dataVars
  <1>2. \A x \in Contents(q) : x = Control("INITIAL") \/ x = m
    <2>1. Control("INITIAL") \in Message /\ m \in Message BY ControlTypes
    <2>2. queuedEmits \in Nat BY DEF TypeOK
    <2>3. Repeat(Control("INITIAL"), queuedEmits) \in Seq(Message) BY <2>1, <2>2, RepeatTypes
    <2>4. \A x \in Contents(Repeat(Control("INITIAL"), queuedEmits)) : x = Control("INITIAL")
      BY <2>2 DEF Contents, Repeat
    <2> QED BY <2>1, <2>3, <2>4, AppendedContents
  <1>3. \A x \in Contents(q) : Contents(x.frames) = {} BY <1>2, ControlContents
  <1>4. Frames(q) = {} BY <1>3 DEF Frames
  <1>5. \A t \in Socket : toServer'[t] = toServer[t] \/ toServer'[t] = q BY <1>1 DEF TypeOK
  <1> HIDE DEF Good, q
  <1> QED BY <1>1, <1>4, <1>5, UpFewer DEF Good, OrderInvariant

\* The buffer goes with the channel.
LEMMA DrainInOrder ==
    ASSUME Ordering, TypeOK', HandleInitialConnect \/ HandleReconnectFalse PROVE UpInOrder'
  <1>1. UNCHANGED <<upRead, upSent, hasty, toServer>>
    BY DEF HandleInitialConnect, HandleReconnectFalse, dataVars
  <1>2. writeBuffer' = writeBuffer \/ writeBuffer' = <<>>
    BY DEF HandleInitialConnect, HandleReconnectFalse, Drain
  <1>3. Contents(writeBuffer') \subseteq Contents(writeBuffer) BY <1>2, NoFrames
  <1> QED BY <1>1, <1>3, UpFewer DEF Ordering, Good, OrderInvariant

\* What the front end buffered follows what it wrote meanwhile.
LEMMA FlushInOrder == ASSUME Ordering, TypeOK', HandleReconnectTrue PROVE UpInOrder'
  <1>1. UNCHANGED <<upRead, upSent, hasty>> BY DEF HandleReconnectTrue, dataVars
  <1>2. CASE ~ (reconnectListeners > 0)
    <2>1. UNCHANGED <<toServer, writeBuffer>> BY <1>2 DEF HandleReconnectTrue
    <2> QED BY <1>1, <2>1, UpFewer DEF Ordering, Good, OrderInvariant
  <1>3. CASE reconnectListeners > 0
    <2>1. toServer' = ToServer(socket, Flushed(writeBuffer)) /\ writeBuffer' = <<>>
      BY <1>3 DEF HandleReconnectTrue
    <2> SUFFICES ASSUME NEW t \in Socket
                 PROVE  InOrder({upRead[n] : n \in Socket}, toServer'[t], <<>>, upSent, hasty)
      BY <1>1, <2>1 DEF UpInOrder
    <2> DEFINE read == {upRead[n] : n \in Socket}
    <2>2. InOrder(read, toServer[t], writeBuffer, upSent, hasty)
      BY DEF UpInOrder, Ordering, OrderInvariant
    <2>3. /\ read \in SUBSET Nat /\ upSent \in Nat /\ writeBuffer \in Seq(Frame)
          /\ toServer[t] \in Seq(Message)
      BY OrderTypes DEF Ordering, Good
    <2>4. toServer'[t] = toServer[t] \/ toServer'[t] = toServer[t] \o Flushed(writeBuffer)
      BY <2>1 DEF ToServer, Ordering, Good, TypeOK
    <2>5. upSent <= upSent /\ hasty \subseteq hasty /\ Contents(<<>>) \subseteq Contents(writeBuffer)
      BY <2>3, NoFrames
    <2> HIDE DEF read
    <2>6. InOrder(read, toServer[t], <<>>, upSent, hasty) BY <2>2, <2>3, <2>5, FewerInOrder
    <2>7. InOrder(read, toServer[t] \o Flushed(writeBuffer), <<>>, upSent, hasty)
      BY <2>2, <2>3, FlushedInOrder
    <2>8. InOrder(read, toServer'[t], <<>>, upSent, hasty) BY <2>4, <2>6, <2>7
    <2> QED BY <2>8 DEF read
  <1> QED BY <1>2, <1>3

\* A message has the next number.  It overtakes the buffer only while the front
\* end waits for the answer to RECONNECT.
LEMMA ClientWriteInOrder ==
    ASSUME Ordering, TypeOK', NEW c \in Channel, ClientWrite(c) PROVE UpInOrder'
  <1> DEFINE frame == [from |-> c, n |-> upSent + 1]
             m == Data(<<frame>>)
             read == {upRead[n] : n \in Socket}
  <1>1. /\ upSent' = upSent + 1 /\ upRead' = upRead /\ hasty \subseteq hasty'
        /\ frame \in Frame /\ frame.n = upSent + 1
    BY ConnectionAssumption DEF ClientWrite, Ordering, Good, TypeOK, Frame
  <1>2. /\ read \in SUBSET Nat /\ upSent \in Nat /\ upSent + 1 \in Nat /\ upSent <= upSent + 1
        /\ writeBuffer \in Seq(Frame) /\ \A t \in Socket : toServer[t] \in Seq(Message)
    BY OrderTypes DEF Ordering, Good
  <1>3. \A t \in Socket : InOrder(read, toServer[t], writeBuffer, upSent, hasty)
    BY DEF UpInOrder, Ordering, OrderInvariant
  <1>4. CASE socket = None
    <2>1. /\ writeBuffer' = Append(writeBuffer, frame) /\ toServer' = toServer /\ hasty' = hasty
      BY <1>4 DEF ClientWrite
    <2> HIDE DEF frame, read
    <2>2. \A t \in Socket : InOrder(read, toServer[t], Append(writeBuffer, frame), upSent + 1, hasty)
      BY <1>1, <1>2, <1>3, BufferedInOrder
    <2> QED BY <1>1, <2>1, <2>2 DEF UpInOrder, read
  <1>5. CASE socket # None
    <2>1. toServer' = ToServer(socket, <<m>>) /\ writeBuffer' = writeBuffer BY <1>5 DEF ClientWrite
    <2>2. writeBuffer # <<>> => upSent + 1 \in hasty'
      BY <1>5 DEF ClientWrite, Ordering, OrderInvariant, BuffersWait
    <2>3. m \in Message /\ Contents(m.frames) = {frame}
      <3>1. <<frame>> \in Seq(Frame) /\ <<frame>> # <<>> BY <1>1
      <3> QED BY <3>1, DataTypes, DataContents
    <2> HIDE DEF m, frame, read
    <2> SUFFICES ASSUME NEW t \in Socket
                 PROVE  InOrder(read, toServer'[t], writeBuffer, upSent + 1, hasty')
      BY <1>1, <2>1 DEF UpInOrder, read
    <2>4. toServer'[t] = toServer[t] \/ toServer'[t] = toServer[t] \o <<m>>
      BY <2>1 DEF ToServer, Ordering, Good, TypeOK
    <2>5. Contents(writeBuffer) \subseteq Contents(writeBuffer) OBVIOUS
    <2>6. InOrder(read, toServer[t], writeBuffer, upSent + 1, hasty')
      BY <1>1, <1>2, <1>3, <2>5, FewerInOrder
    <2>7. Precede(Frames(toServer[t]), Contents(m.frames), hasty')
      <3>1. \A f \in Frames(toServer[t]) : f.n <= upSent BY <1>3 DEF InOrder
      <3>2. \A f \in Frames(toServer[t]) : f.n \in Nat BY <1>2, FrameNumbers
      <3>3. \A f \in Frames(toServer[t]) : f.n < upSent + 1 BY <1>2, <3>1, <3>2
      <3> QED BY <1>1, <2>3, <3>3 DEF Precede
    <2>8. Precede(Contents(m.frames), Contents(writeBuffer), hasty')
      BY <1>1, <2>2, <2>3, NoFrames DEF Precede
    <2>9. \A f \in Contents(m.frames) : f.n <= upSent + 1 /\ \A k \in read : k < f.n \/ k \in hasty'
      <3>1. \A k \in read : k \in Nat /\ k <= upSent BY <1>2, <1>3 DEF InOrder
      <3>2. \A k \in read : k < upSent + 1 BY <1>2, <3>1
      <3> QED BY <1>1, <1>2, <2>3, <3>2
    <2>10. InOrder(read, toServer[t] \o <<m>>, writeBuffer, upSent + 1, hasty')
      BY <1>1, <1>2, <1>3, <2>3, <2>5, <2>7, <2>8, <2>9, SentInOrder
    <2> QED BY <2>4, <2>6, <2>10
  <1> QED BY <1>4, <1>5

LEMMA NegotiationInOrder ==
    ASSUME Ordering, TypeOK', NEW s \in Socket, HandleInitial(s) \/ HandleReconnect(s)
    PROVE  UpInOrder'
  <1>1. UNCHANGED <<upRead, upSent, hasty, writeBuffer>> /\ toServer' = TakenByServer(s) /\ toServer[s] # <<>>
    BY DEF HandleInitial, HandleReconnect, ServerReceives, dataVars, clientVars
  <1>2. \A t \in Socket : toServer'[t] = IF t = s THEN Tail(toServer[s]) ELSE toServer[t]
    BY <1>1 DEF TakenByServer, Ordering, Good, TypeOK
  <1>3. \A t \in Socket : \/ toServer'[t] = toServer[t]
                          \/ toServer[t] # <<>> /\ toServer'[t] = Tail(toServer[t])
    BY <1>1, <1>2
  <1> QED BY <1>1, <1>3, UpFewer DEF Ordering, Good, OrderInvariant

\* A DATA message is read up to its first frame.
LEMMA FirstFrame ==
    ASSUME NEW link \in Seq(Message), link # <<>>, Head(link).type = "DATA"
    PROVE  Head(link).frames[1] \in Contents(Head(link).frames)
  <1>1. Head(link) \in Message OBVIOUS
  <1>2. Head(link).frames \in Seq(Frame) \ {<<>>} BY <1>1 DEF Message
  <1>3. 1 \in DOMAIN Head(link).frames BY <1>2
  <1> QED BY <1>3 DEF Contents

LEMMA ServerReadInOrder ==
    ASSUME Ordering, TypeOK', NEW s \in Socket, HandleServerMessage(s) PROVE UpInOrder'
  <1> DEFINE read == {upRead[n] : n \in Socket}
             read2 == {upRead'[n] : n \in Socket}
             x == Head(toServer[s]).frames[1]
  <1>1. /\ UNCHANGED <<upSent, hasty, writeBuffer>> /\ toServer' = TakenByServer(s)
        /\ s \in serverUp /\ toServer[s] # <<>> /\ Head(toServer[s]).type = "DATA"
        /\ \A n \in Socket : upRead'[n] \in {upRead[n], x.n}
    BY DEF HandleServerMessage, ServerReceives, clientVars
  <1>2. /\ read \in SUBSET Nat /\ read2 \in SUBSET Nat /\ upSent \in Nat
        /\ writeBuffer \in Seq(Frame) /\ \A t \in Socket : toServer[t] \in Seq(Message)
    <2>1. \A n \in Socket : upRead'[n] \in Nat
      <3>1. \A n \in Socket : upRead'[n] \in 0 .. MaxData BY DEF TypeOK
      <3> QED BY <3>1, ConnectionAssumption
    <2>2. read2 \in SUBSET Nat BY <2>1
    <2> QED BY <2>2, OrderTypes DEF Ordering, Good
  <1>3. x \in Contents(Head(toServer[s]).frames) BY <1>1, <1>2, FirstFrame
  <1>4. read2 \subseteq read \union {x.n} BY <1>1
  <1>5. InOrder(read, toServer[s], writeBuffer, upSent, hasty)
    BY DEF UpInOrder, Ordering, OrderInvariant
  <1> HIDE DEF x, read, read2
  <1>6. InOrder(read2, Tail(toServer[s]), writeBuffer, upSent, hasty)
    BY <1>1, <1>2, <1>3, <1>4, <1>5, ReadInOrder
  <1>7. ASSUME NEW t \in Socket PROVE InOrder(read2, toServer'[t], writeBuffer, upSent, hasty)
    <2>1. CASE t = s
      <3>1. toServer'[t] = Tail(toServer[s])
        BY <1>1, <2>1 DEF TakenByServer, Ordering, Good, TypeOK
      <3> QED BY <1>6, <3>1
    <2>2. CASE t # s
      <3>1. t \notin serverUp
        BY <1>1, <2>2 DEF Ordering, Good, NegotiationInvariant, SocketsTakeTurns
      <3>2. toServer'[t] = <<>>
        BY <1>1, <2>2, <3>1 DEF TakenByServer, Ordering, Good, TypeOK, OrderInvariant, LostWithSocket
      <3>3. /\ Tail(toServer[s]) \in Seq(Message) /\ <<>> \in Seq(Message)
            /\ upSent <= upSent /\ hasty \subseteq hasty
            /\ Contents(writeBuffer) \subseteq Contents(writeBuffer)
        BY <1>1, <1>2
      <3>4. InOrder(read2, <<>>, writeBuffer, upSent, hasty)
        BY <1>2, <1>6, <3>3, NoFrames, FewerInOrder
      <3> QED BY <3>2, <3>4
    <2> QED BY <2>1, <2>2
  <1> QED BY <1>1, <1>7 DEF UpInOrder, read2

LEMMA ServerLossInOrder ==
    ASSUME Ordering, TypeOK', NEW s \in Socket, ServerSocketLost(s) PROVE UpInOrder'
  <1>1. /\ UNCHANGED <<upRead, upSent, hasty, writeBuffer>>
        /\ toServer' = [toServer EXCEPT ![s] = <<>>]
    BY DEF ServerSocketLost, dataVars, clientVars
  <1>2. \A t \in Socket : toServer'[t] = toServer[t] \/ toServer'[t] = <<>>
    BY <1>1 DEF Ordering, Good, TypeOK
  <1> QED BY <1>1, <1>2, NoFrames, UpFewer DEF Ordering, Good, OrderInvariant

LEMMA UpKept == ASSUME Ordering, TypeOK', [Next]_vars PROVE UpInOrder'
  <1>1. CASE SocketConnect BY <1>1, ConnectInOrder
  <1>2. CASE HandleInitialConnect \/ HandleReconnectFalse BY <1>2, DrainInOrder
  <1>3. CASE HandleReconnectTrue BY <1>3, FlushInOrder
  <1>4. CASE \E c \in Channel : ClientWrite(c) BY <1>4, ClientWriteInOrder
  <1>5. CASE \E s \in Socket : ServerStep(s) \/ ServerSocketLost(s)
    BY <1>5, NegotiationInOrder, ServerReadInOrder, ServerLossInOrder DEF ServerStep
  <1>6. CASE \/ ClientSocketLost \/ HandleClientMessage \/ MarkForClose \/ UNCHANGED vars
             \/ \E s \in Socket : CloseTimeout(s) \/ ServerWrite(s)
    <2>1. UNCHANGED <<upRead, upSent, hasty, writeBuffer, toServer>>
      BY <1>6 DEF ClientSocketLost, HandleClientMessage, MarkForClose, CloseTimeout, ServerWrite,
                  vars, clientVars, networkVars, dataVars
    <2> QED BY <2>1, UpFewer DEF Ordering, Good, OrderInvariant
  <1> QED BY <1>1, <1>2, <1>3, <1>4, <1>5, <1>6 DEF Next, ClientStep

-----------------------------------------------------------------------------
(* Messages of the back end *)

\* Steps that neither write nor read on the way to the front end.
LEMMA DownFewer ==
    ASSUME TypeOK, TypeOK', DownInOrder, UNCHANGED <<downRead, downSent>>,
           Contents(DownBuffer') \subseteq Contents(DownBuffer),
           \A t \in Socket : \/ toClient'[t] = toClient[t] \/ toClient'[t] = <<>>
                             \/ toClient[t] # <<>> /\ toClient'[t] = Tail(toClient[t])
    PROVE  DownInOrder'
  <1> SUFFICES ASSUME NEW t \in Socket
               PROVE  InOrder({downRead[c] : c \in Channel}, toClient'[t], DownBuffer', downSent, {})
    BY DEF DownInOrder
  <1> DEFINE read == {downRead[c] : c \in Channel}
  <1>1. InOrder(read, toClient[t], DownBuffer, downSent, {}) BY DEF DownInOrder
  <1>2. /\ read \in SUBSET Nat /\ downSent \in Nat /\ DownBuffer \in Seq(Frame)
        /\ toClient[t] \in Seq(Message)
    BY OrderTypes
  <1>3. toClient'[t] \in Seq(Message) BY DEF TypeOK
  <1>4. downSent <= downSent BY <1>2
  <1> HIDE DEF read
  <1>5. InOrder(read, toClient'[t], DownBuffer', downSent, {})
    BY <1>1, <1>2, <1>3, <1>4, FewerExact
  <1> QED BY <1>5 DEF read

\* A message that is not read up to a frame is taken, or all are lost.
LEMMA ClientTakesInOrder ==
    ASSUME Ordering, TypeOK',
           HandleInitialConnect \/ HandleReconnectTrue \/ HandleReconnectFalse \/ ClientSocketLost
    PROVE  DownInOrder'
  <1>1. /\ UNCHANGED <<downRead, downSent, connection, socketBuffer>>
        /\ socket # None
        /\ \/ toClient' = TakenByClient /\ toClient[socket] # <<>>
           \/ toClient' = [toClient EXCEPT ![socket] = <<>>]
    BY DEF HandleInitialConnect, HandleReconnectTrue, HandleReconnectFalse, ClientSocketLost,
           ClientReceives, contextVars, dataVars
  <1>2. DownBuffer' = DownBuffer BY <1>1 DEF DownBuffer
  <1>3. \A t \in Socket : \/ toClient'[t] = toClient[t] \/ toClient'[t] = <<>>
                          \/ toClient[t] # <<>> /\ toClient'[t] = Tail(toClient[t])
    <2>1. toClient \in [Socket -> Seq(Message)] BY DEF Ordering, Good, TypeOK
    <2>2. CASE toClient' = [toClient EXCEPT ![socket] = <<>>] BY <2>1, <2>2
    <2>3. CASE toClient' = TakenByClient /\ toClient[socket] # <<>> BY <2>1, <2>3 DEF TakenByClient
    <2> QED BY <1>1, <2>2, <2>3
  <1> QED BY <1>1, <1>2, <1>3, DownFewer DEF Ordering, Good, OrderInvariant

LEMMA ClientReadInOrder == ASSUME Ordering, TypeOK', HandleClientMessage PROVE DownInOrder'
  <1> DEFINE read == {downRead[c] : c \in Channel}
             read2 == {downRead'[c] : c \in Channel}
             x == Head(toClient[socket]).frames[1]
  <1>1. /\ UNCHANGED <<downSent, connection, socketBuffer>> /\ toClient' = TakenByClient
        /\ socket # None /\ toClient[socket] # <<>> /\ Head(toClient[socket]).type = "DATA"
        /\ \A c \in Channel : downRead'[c] \in {downRead[c], x.n}
    BY DEF HandleClientMessage, ClientReceives, contextVars, Ordering, Good, TypeOK
  <1>2. /\ read \in SUBSET Nat /\ read2 \in SUBSET Nat /\ downSent \in Nat
        /\ DownBuffer \in Seq(Frame) /\ \A t \in Socket : toClient[t] \in Seq(Message)
    <2>1. \A c \in Channel : downRead'[c] \in Nat
      <3>1. \A c \in Channel : downRead'[c] \in 0 .. MaxData BY DEF TypeOK
      <3> QED BY <3>1, ConnectionAssumption
    <2>2. read2 \in SUBSET Nat BY <2>1
    <2> QED BY <2>2, OrderTypes DEF Ordering, Good
  <1>3. DownBuffer' = DownBuffer BY <1>1 DEF DownBuffer
  <1>4. socket \in Socket BY <1>1 DEF Ordering, Good, TypeOK, Socket, None
  <1>5. x \in Contents(Head(toClient[socket]).frames) BY <1>1, <1>2, <1>4, FirstFrame
  <1>6. read2 \subseteq read \union {x.n} BY <1>1
  <1>7. InOrder(read, toClient[socket], DownBuffer, downSent, {})
    BY <1>4 DEF DownInOrder, Ordering, OrderInvariant
  <1> HIDE DEF x, read, read2
  <1>8. InOrder(read2, Tail(toClient[socket]), DownBuffer, downSent, {})
    BY <1>1, <1>2, <1>4, <1>5, <1>6, <1>7, ReadInOrder
  <1>9. ASSUME NEW t \in Socket PROVE InOrder(read2, toClient'[t], DownBuffer, downSent, {})
    <2>1. CASE t = socket
      <3>1. toClient'[t] = Tail(toClient[socket])
        BY <1>1, <2>1 DEF TakenByClient, Ordering, Good, TypeOK
      <3> QED BY <1>8, <3>1
    <2>2. CASE t # socket
      <3>1. toClient'[t] = <<>>
        BY <1>1, <2>2 DEF TakenByClient, Ordering, Good, TypeOK, DataInvariant, NewestOnly
      <3>2. /\ Tail(toClient[socket]) \in Seq(Message) /\ <<>> \in Seq(Message)
            /\ downSent <= downSent /\ Contents(DownBuffer) \subseteq Contents(DownBuffer)
        BY <1>1, <1>2, <1>4
      <3>3. InOrder(read2, <<>>, DownBuffer, downSent, {})
        BY <1>2, <1>8, <3>2, FewerExact
      <3> QED BY <3>1, <3>3
    <2> QED BY <2>1, <2>2
  <1> QED BY <1>1, <1>3, <1>9 DEF DownInOrder, read2

\* The buffer goes with the context.
LEMMA CloseInOrder ==
    ASSUME Ordering, TypeOK', NEW s \in Socket, ServerSocketLost(s) \/ CloseTimeout(s)
    PROVE  DownInOrder'
  <1>1. /\ UNCHANGED <<downRead, downSent, toClient, socketBuffer>>
        /\ connection' \in {connection, None}
    BY DEF ServerSocketLost, CloseTimeout, CloseConnection, contextVars, networkVars, dataVars
  <1>2. DownBuffer' \in {DownBuffer, <<>>} BY <1>1 DEF DownBuffer
  <1>3. Contents(DownBuffer') \subseteq Contents(DownBuffer) BY <1>2, NoFrames
  <1> QED BY <1>1, <1>3, DownFewer DEF Ordering, Good, OrderInvariant

\* A socket that is negotiated is not the number of a context yet.
LEMMA ArmedIsNew ==
    ASSUME Ordering, NEW s \in armed
    PROVE  /\ s \in Socket /\ s \in serverUp /\ disconnectListener[s] = None /\ s # None
           /\ s # connection /\ socketBuffer[s] = <<>>
  <1>1. s \in Socket /\ s \in serverUp /\ disconnectListener[s] = None /\ s # None
    BY ArmedIsNewest, Numbers DEF Ordering
  <1> QED BY <1>1 DEF Ordering, OrderInvariant, ContextsHaveSockets

LEMMA CreatedInOrder ==
    ASSUME Ordering, TypeOK', NEW s \in Socket, HandleInitial(s) PROVE DownInOrder'
  <1>1. UNCHANGED <<downRead, downSent, socketBuffer>> BY DEF HandleInitial, dataVars
  <1>2. CASE s \notin armed
    <2>1. UNCHANGED <<connection, toClient>> BY <1>2 DEF HandleInitial
    <2>2. DownBuffer' = DownBuffer BY <1>1, <2>1 DEF DownBuffer
    <2> QED BY <1>1, <2>1, <2>2, DownFewer DEF Ordering, Good, OrderInvariant
  <1>3. CASE s \in armed
    <2>1. connection' = s /\ toClient' = ToClient(s, <<Control("INITIAL")>>)
      BY <1>3 DEF HandleInitial
    <2>2. DownBuffer' = <<>> BY <1>1, <1>3, <2>1, ArmedIsNew DEF DownBuffer
    <2> SUFFICES ASSUME NEW t \in Socket
                 PROVE  InOrder({downRead[c] : c \in Channel}, toClient'[t], <<>>, downSent, {})
      BY <1>1, <2>2 DEF DownInOrder
    <2> DEFINE read == {downRead[c] : c \in Channel}
    <2>3. InOrder(read, toClient[t], DownBuffer, downSent, {})
      BY DEF DownInOrder, Ordering, OrderInvariant
    <2>4. /\ read \in SUBSET Nat /\ downSent \in Nat /\ DownBuffer \in Seq(Frame)
          /\ toClient[t] \in Seq(Message)
      BY OrderTypes DEF Ordering, Good
    <2>5. toClient'[t] = toClient[t] \/ toClient'[t] = toClient[t] \o <<Control("INITIAL")>>
      BY <2>1 DEF ToClient, Ordering, Good, TypeOK
    <2>6. /\ downSent <= downSent /\ Contents(<<>>) \subseteq Contents(DownBuffer)
          /\ <<>> \in Seq(Frame)
      BY <2>4, NoFrames
    <2> HIDE DEF read
    <2>7. InOrder(read, toClient[t], <<>>, downSent, {}) BY <2>3, <2>4, <2>6, FewerExact
    <2>8. InOrder(read, toClient[t] \o <<Control("INITIAL")>>, <<>>, downSent, {})
      BY <2>3, <2>4, <2>6, ControlInOrder
    <2>9. InOrder(read, toClient'[t], <<>>, downSent, {}) BY <2>5, <2>7, <2>8
    <2> QED BY <2>9 DEF read
  <1> QED BY <1>2, <1>3

\* What was buffered for the front end follows the answer to its RECONNECT.
LEMMA FoundInOrder ==
    ASSUME Ordering, TypeOK', NEW s \in Socket, HandleReconnect(s) PROVE DownInOrder'
  <1>1. UNCHANGED <<downRead, downSent, connection>> BY DEF HandleReconnect, dataVars, contextVars
  <1>2. CASE s \notin armed
    <2>1. UNCHANGED <<socketBuffer, toClient>> BY <1>2 DEF HandleReconnect, contextVars
    <2>2. DownBuffer' = DownBuffer BY <1>1, <2>1 DEF DownBuffer
    <2> QED BY <1>1, <2>1, <2>2, DownFewer DEF Ordering, Good, OrderInvariant
  <1>3. CASE s \in armed
    <2> DEFINE read == {downRead[c] : c \in Channel}
    <2>1. \A t \in Socket : InOrder(read, toClient[t], DownBuffer, downSent, {})
      BY DEF DownInOrder, Ordering, OrderInvariant
    <2>2. /\ read \in SUBSET Nat /\ downSent \in Nat /\ DownBuffer \in Seq(Frame)
          /\ \A t \in Socket : toClient[t] \in Seq(Message)
      BY OrderTypes DEF Ordering, Good
    <2>3. /\ downSent <= downSent /\ <<>> \in Seq(Frame)
          /\ Contents(<<>>) \subseteq Contents(DownBuffer)
          /\ Contents(DownBuffer) \subseteq Contents(DownBuffer)
      BY <2>2, NoFrames
    <2>4. CASE connection = None
      <3>1. toClient' = ToClient(s, <<Control("RECONNECT_FALSE")>>) /\ socketBuffer' = socketBuffer
        BY <1>3, <2>4 DEF HandleReconnect, contextVars
      <3>2. DownBuffer' = DownBuffer BY <1>1, <3>1 DEF DownBuffer
      <3>3. \A t \in Socket : \/ toClient'[t] = toClient[t]
                              \/ toClient'[t] = toClient[t] \o <<Control("RECONNECT_FALSE")>>
        BY <3>1 DEF ToClient, Ordering, Good, TypeOK
      <3> HIDE DEF read
      <3>4. \A t \in Socket :
              InOrder(read, toClient[t] \o <<Control("RECONNECT_FALSE")>>, DownBuffer, downSent, {})
        BY <2>1, <2>2, <2>3, ControlInOrder
      <3>5. \A t \in Socket : InOrder(read, toClient'[t], DownBuffer, downSent, {})
        BY <2>1, <3>3, <3>4
      <3> QED BY <1>1, <3>2, <3>5 DEF DownInOrder, read
    <2>5. CASE connection # None
      <3> DEFINE m == Control("RECONNECT_TRUE")
      <3>1. /\ DownBuffer = socketBuffer[connection]
            /\ toClient' = ToClient(s, <<m>> \o Flushed(DownBuffer))
            /\ socketBuffer' = [socketBuffer EXCEPT ![connection] = <<>>]
        BY <1>3, <2>5 DEF HandleReconnect, DownBuffer
      <3>2. DownBuffer' = <<>>
        <4>1. connection \in Socket BY <2>5 DEF Ordering, Good, TypeOK, Socket, None
        <4> QED BY <1>1, <3>1, <4>1 DEF DownBuffer, Ordering, Good, TypeOK
      <3>3. m \in Message /\ Flushed(DownBuffer) \in Seq(Message)
        BY <2>2, ControlTypes, FlushedTypes
      <3> SUFFICES ASSUME NEW t \in Socket
                   PROVE  InOrder(read, toClient'[t], <<>>, downSent, {})
        BY <1>1, <3>2 DEF DownInOrder
      <3> HIDE DEF read
      <3>4. InOrder(read, toClient[t], <<>>, downSent, {}) BY <2>1, <2>2, <2>3, FewerExact
      <3>5. InOrder(read, toClient[t] \o <<m>>, DownBuffer, downSent, {})
        BY <2>1, <2>2, <2>3, ControlInOrder
      <3> HIDE DEF m
      <3>6. \/ toClient'[t] = toClient[t]
            \/ toClient'[t] = toClient[t] \o (<<m>> \o Flushed(DownBuffer))
        BY <3>1 DEF ToClient, Ordering, Good, TypeOK
      <3>7. toClient[t] \o <<m>> \in Seq(Message) BY <2>2, <3>3
      <3>8. InOrder(read, (toClient[t] \o <<m>>) \o Flushed(DownBuffer), <<>>, downSent, {})
        BY <2>2, <3>5, <3>7, FlushedInOrder
      <3>9. (toClient[t] \o <<m>>) \o Flushed(DownBuffer) = toClient[t] \o (<<m>> \o Flushed(DownBuffer))
        <4>1. toClient[t] \in Seq(Message) /\ <<m>> \in Seq(Message) BY <2>2, <3>3
        <4> DEFINE T == Message
        <4>2. \A x, y, z \in Seq(T) : (x \o y) \o z = x \o (y \o z)
          <5> HIDE DEF T
          <5> QED BY ConcatAssociative
        <4> QED BY <3>3, <4>1, <4>2
      <3> QED BY <3>4, <3>6, <3>8, <3>9
    <2> QED BY <2>4, <2>5
  <1> QED BY <1>2, <1>3

\* A message has the next number, and is sent only when nothing is buffered.
LEMMA ServerWriteInOrder ==
    ASSUME Ordering, TypeOK', NEW n \in Socket, ServerWrite(n) PROVE DownInOrder'
  <1> DEFINE frame == [from |-> n, n |-> downSent + 1]
             m == Data(<<frame>>)
             read == {downRead[c] : c \in Channel}
             s == channelSocket[n]
  <1>1. /\ downSent' = downSent + 1 /\ UNCHANGED <<downRead, connection>>
        /\ frame \in Frame /\ frame.n = downSent + 1
    BY ConnectionAssumption DEF ServerWrite, Ordering, Good, TypeOK, Frame
  <1>2. /\ read \in SUBSET Nat /\ downSent \in Nat /\ downSent + 1 \in Nat /\ downSent <= downSent + 1
        /\ DownBuffer \in Seq(Frame) /\ \A t \in Socket : toClient[t] \in Seq(Message)
    BY OrderTypes DEF Ordering, Good
  <1>3. \A t \in Socket : InOrder(read, toClient[t], DownBuffer, downSent, {})
    BY DEF DownInOrder, Ordering, OrderInvariant
  <1>4. n = connection /\ n # None /\ DownBuffer = socketBuffer[n]
    BY Numbers DEF ServerWrite, Ordering, OneContext, DownBuffer
  <1>5. CASE s \notin serverUp
    <2>1. socketBuffer' = [socketBuffer EXCEPT ![n] = Append(@, frame)] /\ toClient' = toClient
      BY <1>5 DEF ServerWrite
    <2>2. DownBuffer' = Append(DownBuffer, frame)
      BY <1>1, <1>4, <2>1 DEF DownBuffer, Ordering, Good, TypeOK
    <2> HIDE DEF frame, read
    <2>3. \A t \in Socket : InOrder(read, toClient[t], Append(DownBuffer, frame), downSent + 1, {})
      BY <1>1, <1>2, <1>3, BufferedInOrder
    <2> QED BY <1>1, <2>1, <2>2, <2>3 DEF DownInOrder, read
  <1>6. CASE s \in serverUp
    <2>1. toClient' = ToClient(s, <<m>>) /\ socketBuffer' = socketBuffer BY <1>6 DEF ServerWrite
    <2>2. DownBuffer' = DownBuffer /\ DownBuffer = <<>>
      <3>1. s # None BY <1>6, Numbers DEF Ordering, Good, TypeOK
      <3>2. socketBuffer[n] = <<>> BY <3>1 DEF Ordering, OrderInvariant, BuffersWait
      <3> QED BY <1>1, <1>4, <2>1, <3>2 DEF DownBuffer
    <2>3. m \in Message /\ Contents(m.frames) = {frame}
      <3>1. <<frame>> \in Seq(Frame) /\ <<frame>> # <<>> BY <1>1
      <3> QED BY <3>1, DataTypes, DataContents
    <2> HIDE DEF m, frame, read, s
    <2> SUFFICES ASSUME NEW t \in Socket
                 PROVE  InOrder(read, toClient'[t], DownBuffer, downSent + 1, {})
      BY <1>1, <2>2 DEF DownInOrder, read
    <2>4. toClient'[t] = toClient[t] \/ toClient'[t] = toClient[t] \o <<m>>
      BY <2>1 DEF ToClient, Ordering, Good, TypeOK
    <2>5. Contents(DownBuffer) \subseteq Contents(DownBuffer) OBVIOUS
    <2>6. InOrder(read, toClient[t], DownBuffer, downSent + 1, {})
      BY <1>2, <1>3, <2>5, FewerExact
    <2>7. InOrder(read, toClient[t], <<>>, downSent, {}) BY <1>3, <2>2
    <2>8. downSent < downSent + 1 /\ \A f \in Contents(m.frames) : f.n = downSent + 1
      BY <1>1, <1>2, <2>3
    <2>9. InOrder(read, toClient[t] \o <<m>>, <<>>, downSent + 1, {})
      BY <1>2, <2>3, <2>7, <2>8, SentExact
    <2> QED BY <2>2, <2>4, <2>6, <2>9
  <1> QED BY <1>5, <1>6

LEMMA DownKept == ASSUME Ordering, TypeOK', [Next]_vars PROVE DownInOrder'
  <1>1. CASE HandleInitialConnect \/ HandleReconnectTrue \/ HandleReconnectFalse \/ ClientSocketLost
    BY <1>1, ClientTakesInOrder
  <1>2. CASE HandleClientMessage BY <1>2, ClientReadInOrder
  <1>3. CASE \E s \in Socket : \/ HandleInitial(s) \/ HandleReconnect(s) \/ ServerSocketLost(s)
                              \/ CloseTimeout(s) \/ ServerWrite(s)
    BY <1>3, CreatedInOrder, FoundInOrder, CloseInOrder, ServerWriteInOrder
  <1>4. CASE \/ SocketConnect \/ MarkForClose \/ UNCHANGED vars
             \/ \E c \in Channel : ClientWrite(c)
             \/ \E s \in Socket : HandleServerMessage(s)
    <2>1. UNCHANGED <<downRead, downSent, connection, socketBuffer, toClient>>
      BY <1>4 DEF SocketConnect, MarkForClose, ClientWrite, HandleServerMessage,
                  vars, contextVars, networkVars, dataVars
    <2>2. DownBuffer' = DownBuffer BY <2>1 DEF DownBuffer
    <2> QED BY <2>1, <2>2, DownFewer DEF Ordering, Good, OrderInvariant
  <1> QED BY <1>1, <1>2, <1>3, <1>4 DEF Next, ClientStep, ServerStep

-----------------------------------------------------------------------------
(* Buffers, contexts and lost sockets *)

LEMMA BuffersKept == ASSUME Ordering, TypeOK', [Next]_vars PROVE BuffersWait'
  <1>1. writeBuffer' # <<>> /\ socket' # None => reconnectListeners' > 0
    <2> SUFFICES ASSUME writeBuffer' # <<>>, socket' # None PROVE reconnectListeners' > 0 OBVIOUS
    <2>0. /\ reconnectListeners \in Nat
          /\ writeBuffer # <<>> /\ socket # None => reconnectListeners > 0
      BY DEF Ordering, Good, TypeOK, OrderInvariant, BuffersWait
    <2>1. CASE SocketConnect
      <3>1. writeBuffer # <<>> BY <2>1 DEF SocketConnect
      <3>2. PICK f \in Contents(writeBuffer) : TRUE
        <4>1. writeBuffer \in Seq(Frame) BY DEF Ordering, Good, TypeOK
        <4>2. 1 \in DOMAIN writeBuffer BY <3>1, <4>1
        <4> QED BY <4>2 DEF Contents
      <3>3. f.from \in Channel /\ clientState[f.from] # "none"
        BY DEF Ordering, Good, DataInvariant, BufferMatches
      <3>4. currentChannel # None
        <4>1. f.from <= currentChannel BY <3>3 DEF Ordering, Good, DataInvariant, NewestOnly
        <4>2. f.from \in Nat /\ f.from >= 1 BY <3>3 DEF Channel
        <4> QED BY <4>1, <4>2 DEF None
      <3> QED BY <2>0, <2>1, <3>4 DEF SocketConnect
    <2>2. CASE HandleReconnectTrue
      <3>1. CASE reconnectListeners > 0 BY <2>2, <3>1 DEF HandleReconnectTrue
      <3>2. CASE ~ (reconnectListeners > 0)
        <4>1. writeBuffer' = writeBuffer /\ socket' = socket BY <2>2, <3>2 DEF HandleReconnectTrue
        <4> QED BY <2>0, <3>2, <4>1
      <3> QED BY <3>1, <3>2
    <2>3. CASE HandleReconnectFalse
      <3>1. CASE reconnectListeners > 0 BY <2>3, <3>1 DEF HandleReconnectFalse
      <3>2. CASE ~ (reconnectListeners > 0)
        <4>1. writeBuffer' = writeBuffer /\ socket' = socket BY <2>3, <3>2 DEF HandleReconnectFalse
        <4> QED BY <2>0, <3>2, <4>1
      <3> QED BY <3>1, <3>2
    <2>4. CASE HandleInitialConnect
      <3>1. /\ UNCHANGED <<socket, reconnectListeners>>
            /\ writeBuffer' = writeBuffer \/ writeBuffer' = <<>>
        BY <2>4 DEF HandleInitialConnect, Drain
      <3> QED BY <2>0, <3>1
    <2>5. CASE \E c \in Channel : ClientWrite(c)
      <3>1. /\ UNCHANGED <<socket, reconnectListeners>>
            /\ socket # None => writeBuffer' = writeBuffer
        BY <2>5 DEF ClientWrite
      <3> QED BY <2>0, <3>1
    <2>6. CASE ClientSocketLost BY <2>6 DEF ClientSocketLost
    <2>7. CASE \/ HandleClientMessage \/ MarkForClose \/ UNCHANGED vars
               \/ \E s \in Socket : \/ ServerStep(s) \/ ServerSocketLost(s) \/ CloseTimeout(s)
                                    \/ ServerWrite(s)
      <3>1. UNCHANGED <<socket, reconnectListeners, writeBuffer>>
        BY <2>7 DEF HandleClientMessage, MarkForClose, ServerStep, HandleInitial, HandleReconnect,
                    HandleServerMessage, ServerSocketLost, CloseTimeout, ServerWrite, vars, clientVars
      <3> QED BY <2>0, <3>1
    <2> QED BY <2>1, <2>2, <2>3, <2>4, <2>5, <2>6, <2>7 DEF Next, ClientStep
  <1>2. ASSUME NEW n \in Socket, channelSocket'[n] # None
        PROVE  channelSocket'[n] \in serverUp' /\ socketBuffer'[n] = <<>>
    <2>0. /\ channelSocket[n] # None => channelSocket[n] \in serverUp /\ socketBuffer[n] = <<>>
          /\ channelSocket \in [Socket -> 0 .. MaxSockets] /\ socketBuffer \in [Socket -> Seq(Frame)]
      BY DEF Ordering, Good, TypeOK, OrderInvariant, BuffersWait
    <2>1. ASSUME NEW s \in Socket, HandleInitial(s)
          PROVE  channelSocket'[n] \in serverUp' /\ socketBuffer'[n] = <<>>
      <3>1. UNCHANGED <<serverUp, socketBuffer>> BY <2>1 DEF HandleInitial
      <3>2. CASE s \in armed
        <4>1. channelSocket' = [channelSocket EXCEPT ![s] = s] BY <2>1, <3>2 DEF HandleInitial
        <4>2. s \in serverUp /\ socketBuffer[s] = <<>> BY <3>2, ArmedIsNew
        <4>3. CASE n = s BY <2>0, <3>1, <4>1, <4>2, <4>3
        <4>4. CASE n # s
          <5>1. channelSocket'[n] = channelSocket[n] BY <2>0, <4>1, <4>4
          <5> QED BY <1>2, <2>0, <3>1, <5>1
        <4> QED BY <4>3, <4>4
      <3>3. CASE s \notin armed
        <4>1. channelSocket' = channelSocket BY <2>1, <3>3 DEF HandleInitial
        <4> QED BY <1>2, <2>0, <3>1, <4>1
      <3> QED BY <3>2, <3>3
    <2>2. ASSUME NEW s \in Socket, HandleReconnect(s)
          PROVE  channelSocket'[n] \in serverUp' /\ socketBuffer'[n] = <<>>
      <3>1. serverUp' = serverUp BY <2>2 DEF HandleReconnect
      <3>2. CASE s \in armed /\ connection # None
        <4>1. /\ channelSocket' = [channelSocket EXCEPT ![connection] = s]
              /\ socketBuffer' = [socketBuffer EXCEPT ![connection] = <<>>]
          BY <2>2, <3>2 DEF HandleReconnect
        <4>2. s \in serverUp BY <3>2, ArmedIsNew
        <4>3. CASE n = connection BY <2>0, <3>1, <4>1, <4>2, <4>3
        <4>4. CASE n # connection
          <5>1. channelSocket'[n] = channelSocket[n] /\ socketBuffer'[n] = socketBuffer[n]
            BY <2>0, <4>1, <4>4
          <5> QED BY <1>2, <2>0, <3>1, <5>1
        <4> QED BY <4>3, <4>4
      <3>3. CASE ~ (s \in armed /\ connection # None)
        <4>1. UNCHANGED <<channelSocket, socketBuffer>>
          BY <2>2, <3>3 DEF HandleReconnect, contextVars
        <4> QED BY <1>2, <2>0, <3>1, <4>1
      <3> QED BY <3>2, <3>3
    <2>3. ASSUME NEW s \in Socket, ServerSocketLost(s)
          PROVE  channelSocket'[n] \in serverUp' /\ socketBuffer'[n] = <<>>
      <3> DEFINE b == disconnectListener[s]
      <3>1. serverUp' = serverUp \ {s} /\ socketBuffer' = socketBuffer
        BY <2>3 DEF ServerSocketLost, contextVars
      <3>2. b = None => channelSocket' = channelSocket BY <2>3 DEF ServerSocketLost, contextVars
      <3>3. b # None => channelSocket' = [channelSocket EXCEPT ![b] = None]
        BY <2>3 DEF ServerSocketLost, Disconnect
      <3>4. channelSocket'[n] = channelSocket[n] /\ n # b
        <4>1. n # None BY Numbers
        <4> HIDE DEF b
        <4> QED BY <1>2, <2>0, <3>2, <3>3, <4>1
      <3>5. disconnectListener[channelSocket[n]] = n
        BY <1>2, <3>4 DEF Ordering, Good, DataInvariant, ContextsKeepSockets
      <3> QED BY <1>2, <2>0, <3>1, <3>4, <3>5
    <2>4. ASSUME NEW k \in Socket, ServerWrite(k)
          PROVE  channelSocket'[n] \in serverUp' /\ socketBuffer'[n] = <<>>
      <3>1. UNCHANGED <<serverUp, channelSocket>> BY <2>4 DEF ServerWrite
      <3>2. \/ socketBuffer' = socketBuffer
            \/ /\ channelSocket[k] \notin serverUp
               /\ \E q : socketBuffer' = [socketBuffer EXCEPT ![k] = q]
        BY <2>4 DEF ServerWrite
      <3>3. socketBuffer'[n] = socketBuffer[n] BY <1>2, <2>0, <3>1, <3>2
      <3> QED BY <1>2, <2>0, <3>1, <3>3
    <2>5. CASE \/ SocketConnect \/ ClientSocketLost \/ ClientStep \/ MarkForClose \/ UNCHANGED vars
               \/ \E c \in Channel : ClientWrite(c)
               \/ \E s \in Socket : HandleServerMessage(s) \/ CloseTimeout(s)
      <3>1. UNCHANGED <<channelSocket, socketBuffer>> /\ serverUp \subseteq serverUp'
        BY <2>5 DEF SocketConnect, ClientSocketLost, ClientStep, HandleInitialConnect,
                    HandleReconnectTrue, HandleReconnectFalse, HandleClientMessage, MarkForClose,
                    ClientWrite, HandleServerMessage, CloseTimeout, vars, contextVars, networkVars
      <3> QED BY <1>2, <2>0, <3>1
    <2> QED BY <2>1, <2>2, <2>3, <2>4, <2>5 DEF Next, ServerStep
  <1> QED BY <1>1, <1>2 DEF BuffersWait

LEMMA ContextsKept == ASSUME Ordering, TypeOK', [Next]_vars PROVE ContextsHaveSockets'
  <1> SUFFICES ASSUME NEW n \in Socket, n = connection' \/ socketBuffer'[n] # <<>>
               PROVE  disconnectListener'[n] = n
    BY DEF ContextsHaveSockets
  <1>0. /\ n = connection \/ socketBuffer[n] # <<>> => disconnectListener[n] = n
        /\ disconnectListener \in [Socket -> 0 .. MaxSockets] /\ socketBuffer \in [Socket -> Seq(Frame)]
        /\ n # None
    BY Numbers DEF Ordering, Good, TypeOK, OrderInvariant, ContextsHaveSockets
  <1>1. ASSUME NEW s \in Socket, HandleInitial(s) PROVE disconnectListener'[n] = n
    <2>1. CASE s \in armed
      <3>1. /\ connection' = s /\ disconnectListener' = [disconnectListener EXCEPT ![s] = s]
            /\ socketBuffer' = socketBuffer
        BY <1>1, <2>1 DEF HandleInitial
      <3> QED BY <1>0, <3>1
    <2>2. CASE s \notin armed
      <3>1. UNCHANGED <<connection, disconnectListener, socketBuffer>> BY <1>1, <2>2 DEF HandleInitial
      <3> QED BY <1>0, <3>1
    <2> QED BY <2>1, <2>2
  <1>2. ASSUME NEW s \in Socket, HandleReconnect(s) PROVE disconnectListener'[n] = n
    <2>1. CASE s \in armed /\ connection # None
      <3>1. /\ connection' = connection
            /\ disconnectListener' = [disconnectListener EXCEPT ![s] = connection]
            /\ socketBuffer' = [socketBuffer EXCEPT ![connection] = <<>>]
        BY <1>2, <2>1 DEF HandleReconnect
      <3>2. disconnectListener[n] = n BY <1>0, <3>1
      <3>3. s # n BY <1>0, <2>1, <3>2, ArmedIsNew
      <3> QED BY <1>0, <3>1, <3>2, <3>3
    <2>2. CASE ~ (s \in armed /\ connection # None)
      <3>1. UNCHANGED <<connection, disconnectListener, socketBuffer>>
        BY <1>2, <2>2 DEF HandleReconnect, contextVars
      <3> QED BY <1>0, <3>1
    <2> QED BY <2>1, <2>2
  <1>3. ASSUME NEW k \in Socket, ServerWrite(k) PROVE disconnectListener'[n] = n
    <2>1. UNCHANGED <<connection, disconnectListener>> BY <1>3 DEF ServerWrite, negotiationVars
    <2>2. k = connection BY <1>3, Numbers DEF ServerWrite, Ordering, OneContext
    <2>3. n # k => socketBuffer'[n] = socketBuffer[n] BY <1>0, <1>3 DEF ServerWrite
    <2> QED BY <1>0, <2>1, <2>2, <2>3
  <1>4. CASE \/ SocketConnect \/ ClientSocketLost \/ ClientStep \/ MarkForClose \/ UNCHANGED vars
             \/ \E c \in Channel : ClientWrite(c)
             \/ \E s \in Socket : HandleServerMessage(s) \/ ServerSocketLost(s) \/ CloseTimeout(s)
    <2>1. UNCHANGED <<disconnectListener, socketBuffer>> /\ connection' \in {connection, None}
      BY <1>4 DEF SocketConnect, ClientSocketLost, ClientStep, HandleInitialConnect,
                  HandleReconnectTrue, HandleReconnectFalse, HandleClientMessage, MarkForClose,
                  ClientWrite, HandleServerMessage, ServerSocketLost, CloseTimeout, CloseConnection,
                  vars, contextVars, negotiationVars
    <2> QED BY <1>0, <2>1
  <1> QED BY <1>1, <1>2, <1>3, <1>4 DEF Next, ServerStep

LEMMA LostKept == ASSUME Ordering, TypeOK', [Next]_vars PROVE LostWithSocket'
  <1> SUFFICES ASSUME NEW t \in Socket, t \notin serverUp' PROVE toServer'[t] = <<>>
    BY DEF LostWithSocket
  <1>0. /\ t \notin serverUp => toServer[t] = <<>>
        /\ toServer \in [Socket -> Seq(Message)]
    BY DEF Ordering, Good, TypeOK, OrderInvariant, LostWithSocket
  <1>1. CASE SocketConnect
    <2>1. /\ serverUp' = serverUp \union {sockets + 1}
          /\ \E q : toServer' = [toServer EXCEPT ![sockets + 1] = q]
      BY <1>1 DEF SocketConnect
    <2>2. t # sockets + 1 /\ t \notin serverUp BY <2>1
    <2> QED BY <1>0, <2>1, <2>2
  <1>2. ASSUME NEW s \in Socket, ServerStep(s) PROVE toServer'[t] = <<>>
    <2>1. s \in serverUp /\ toServer' = TakenByServer(s) /\ serverUp' = serverUp
      BY <1>2 DEF ServerStep, HandleInitial, HandleReconnect, HandleServerMessage, ServerReceives
    <2> QED BY <1>0, <2>1 DEF TakenByServer
  <1>3. ASSUME NEW s \in Socket, ServerSocketLost(s) PROVE toServer'[t] = <<>>
    <2>1. serverUp' = serverUp \ {s} /\ toServer' = [toServer EXCEPT ![s] = <<>>]
      BY <1>3 DEF ServerSocketLost
    <2> QED BY <1>0, <2>1
  <1>4. CASE HandleReconnectTrue \/ \E c \in Channel : ClientWrite(c)
    <2>1. /\ serverUp' = serverUp
          /\ toServer' = toServer \/ \E ms : toServer' = ToServer(socket, ms)
      BY <1>4 DEF HandleReconnectTrue, ClientWrite
    <2> QED BY <1>0, <2>1 DEF ToServer
  <1>5. CASE \/ ClientSocketLost \/ HandleInitialConnect \/ HandleReconnectFalse \/ HandleClientMessage
             \/ MarkForClose \/ UNCHANGED vars \/ \E s \in Socket : CloseTimeout(s) \/ ServerWrite(s)
    <2>1. UNCHANGED <<serverUp, toServer>>
      BY <1>5 DEF ClientSocketLost, HandleInitialConnect, HandleReconnectFalse, HandleClientMessage,
                  MarkForClose, CloseTimeout, ServerWrite, vars, networkVars
    <2> QED BY <1>0, <2>1
  <1> QED BY <1>1, <1>2, <1>3, <1>4, <1>5 DEF Next, ClientStep

-----------------------------------------------------------------------------
(* The order of what arrives *)

LEMMA InitOrder == Init => OrderInvariant
  <1> SUFFICES ASSUME Init PROVE OrderInvariant OBVIOUS
  <1>1. \A written \in Nat : \A ahead : InOrder({0}, <<>>, <<>>, written, ahead)
                                   /\ InOrder({}, <<>>, <<>>, written, ahead)
    BY NoFrames DEF InOrder, Ordered, Precede
  <1>2. UpInOrder
    <2>1. {upRead[n] : n \in Socket} \in {{0}, {}} BY DEF Init
    <2> QED BY <1>1, <2>1 DEF Init, UpInOrder
  <1>3. DownInOrder
    <2>1. {downRead[c] : c \in Channel} \in {{0}, {}} BY DEF Init
    <2>2. DownBuffer = <<>> BY DEF Init, DownBuffer
    <2> QED BY <1>1, <2>1, <2>2 DEF Init, DownInOrder
  <1>4. BuffersWait BY DEF Init, BuffersWait
  <1>5. ContextsHaveSockets BY Numbers DEF Init, ContextsHaveSockets
  <1>6. LostWithSocket BY DEF Init, LostWithSocket
  <1> QED BY <1>2, <1>3, <1>4, <1>5, <1>6 DEF OrderInvariant

LEMMA OrderKept == ASSUME Ordering, [Next]_vars PROVE OrderInvariant'
  <1>1. TypeOK' BY TypesKept DEF Ordering, Good
  <1> QED BY <1>1, UpKept, DownKept, BuffersKept, ContextsKept, LostKept DEF OrderInvariant

\* What arrives is the first frame of the first message on its link.
LEMMA ArrivesInOrder == Ordering => DeliveredInOrder
  <1> SUFFICES ASSUME Ordering PROVE DeliveredInOrder OBVIOUS
  <1>1. ASSUME NEW s \in Socket, NEW n \in Socket, ArrivesAt(s, n)
        PROVE  ServerHead(s).frames[1].n > upRead[n] \/ upRead[n] \in hasty
    <2> DEFINE read == {upRead[k] : k \in Socket}
               x == ServerHead(s).frames[1]
    <2>1. toServer[s] \in Seq(Message) /\ toServer[s] # <<>> /\ upRead[n] \in read /\ read \in SUBSET Nat
      BY <1>1, OrderTypes DEF ArrivesAt, Ordering, Good
    <2>2. x \in Contents(Head(toServer[s]).frames) BY <1>1, <2>1, FirstFrame DEF ArrivesAt, ServerHead
    <2>3. x \in Frames(toServer[s]) BY <2>1, <2>2, TailFrames
    <2>4. InOrder(read, toServer[s], writeBuffer, upSent, hasty)
      BY DEF Ordering, OrderInvariant, UpInOrder
    <2>5. x.n \in Nat BY <2>1, <2>3, FrameNumbers
    <2> HIDE DEF x, read
    <2>6. upRead[n] < x.n \/ upRead[n] \in hasty BY <2>1, <2>3, <2>4 DEF InOrder
    <2>7. upRead[n] \in Nat BY <2>1
    <2>8. x.n > upRead[n] \/ upRead[n] \in hasty BY <2>5, <2>6, <2>7
    <2> QED BY <2>8 DEF x
  <1>2. ASSUME ArrivesAtClient PROVE ClientHead.frames[1].n > downRead[currentChannel]
    <2> DEFINE read == {downRead[c] : c \in Channel}
               x == ClientHead.frames[1]
    <2>1. socket \in Socket /\ currentChannel \in Channel
      BY <1>2 DEF ArrivesAtClient, Ordering, Good, TypeOK, Socket, Channel, None
    <2>2. /\ toClient[socket] \in Seq(Message) /\ toClient[socket] # <<>>
          /\ downRead[currentChannel] \in read /\ read \in SUBSET Nat
      BY <1>2, <2>1, OrderTypes DEF ArrivesAtClient, Ordering, Good
    <2>3. x \in Contents(Head(toClient[socket]).frames)
      BY <1>2, <2>2, FirstFrame DEF ArrivesAtClient, ClientHead
    <2>4. x \in Frames(toClient[socket]) BY <2>2, <2>3, TailFrames
    <2>5. InOrder(read, toClient[socket], DownBuffer, downSent, {})
      BY <2>1 DEF Ordering, OrderInvariant, DownInOrder
    <2>6. x.n \in Nat BY <2>2, <2>4, FrameNumbers
    <2> HIDE DEF x, read
    <2>7. downRead[currentChannel] < x.n BY <2>2, <2>4, <2>5 DEF InOrder
    <2>8. downRead[currentChannel] \in Nat BY <2>2
    <2>9. x.n > downRead[currentChannel] BY <2>6, <2>7, <2>8
    <2> QED BY <2>9 DEF x
  <1> QED BY <1>1, <1>2 DEF DeliveredInOrder

\* When the back end notices a loss before the front end is back, the messages read,
\* on the way and buffered are in the order they were written, but for what the front
\* end writes while it waits for the answer to its RECONNECT.
THEOREM OrderInvariantHolds == ASSUME ~ LateDisconnect PROVE Spec => []OrderInvariant
  <1>1. Init => OrderInvariant BY InitOrder
  <1>2. FrontendInvariant /\ DataInvariant /\ OrderInvariant /\ [Next]_vars => OrderInvariant'
    BY OrderKept DEF FrontendInvariant, Good, Ordering
  <1> QED BY <1>1, <1>2, FrontendInvariantHolds, DataInvariantHolds, PTL DEF Spec

\* Messages then arrive in the order they were written, across any number of losses and
\* reconnects, and none arrives twice, with the same exception.
THEOREM DataAlwaysArrivesInOrder == ASSUME ~ LateDisconnect PROVE Spec => []DeliveredInOrder
  <1>1. FrontendInvariant /\ DataInvariant /\ OrderInvariant => DeliveredInOrder
    BY ArrivesInOrder DEF FrontendInvariant, Good, Ordering
  <1> QED BY <1>1, FrontendInvariantHolds, DataInvariantHolds, OrderInvariantHolds, PTL

\* The three invariants together, of which those about data need that the back end
\* notices a loss before the front end is back.
THEOREM ConnectionInvariantHolds == Spec => []ConnectionInvariant
  <1>1. CASE LateDisconnect
    <2>1. FrontendInvariant => ConnectionInvariant BY <1>1 DEF ConnectionInvariant
    <2> QED BY <2>1, FrontendInvariantHolds, PTL
  <1>2. CASE ~ LateDisconnect
    <2>1. FrontendInvariant /\ DataInvariant /\ OrderInvariant => ConnectionInvariant
      BY DEF ConnectionInvariant
    <2> QED BY <1>2, <2>1, FrontendInvariantHolds, DataInvariantHolds, OrderInvariantHolds, PTL
  <1> QED BY <1>1, <1>2
=============================================================================
