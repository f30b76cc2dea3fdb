------------------------- MODULE RpcProtocolProofs --------------------------
(* The safety of RpcProtocol for every number of messages: RpcInvariant is *)
(* inductive, and each property follows from it.                           *)
EXTENDS RpcProtocol, TLAPS

\* The ids of the messages, and the value of "sending" that is none of them.
LEMMA IdFacts ==
    /\ Ids \subseteq Nat /\ MaxId \in Nat
    /\ NoId \notin Ids
    /\ \A id \in Ids : id \in 0 .. MaxId /\ id + 1 \in 0 .. MaxId
    /\ \A n \in 0 .. MaxId : n < MaxId => n \in Ids
  BY RpcAssumption DEF Ids, NoId

-----------------------------------------------------------------------------
(* What writing to and taking from the channel does to what is in flight *)

\* Appending one element keeps the others where they are.
LEMMA Appended ==
    ASSUME NEW S, NEW s \in Seq(S), NEW x \in S
    PROVE  /\ Append(s, x) \in Seq(S)
           /\ Len(Append(s, x)) = Len(s) + 1
           /\ \A i \in 1 .. Len(s) : Append(s, x)[i] = s[i]
           /\ Append(s, x)[Len(s) + 1] = x
  OBVIOUS

\* Taking the head moves the others down by one.
LEMMA TailTaken ==
    ASSUME NEW S, NEW s \in Seq(S), s # <<>>
    PROVE  /\ Head(s) = s[1] /\ Head(s) \in S /\ 1 \in 1 .. Len(s)
           /\ Tail(s) \in Seq(S)
           /\ Len(Tail(s)) = Len(s) - 1
           /\ \A i \in 1 .. Len(Tail(s)) : i + 1 \in 1 .. Len(s) /\ Tail(s)[i] = s[i + 1]
  OBVIOUS

\* A message written to the server, if it arrives at all, joins those in flight:
\* they still match the state, and it repeats none of them.
LEMMA AfterWriteToServer ==
    ASSUME TypeOK, ToServerMatches, HandledOnce,
           NEW m \in ToServerMessage, WriteToServer(m),
           clientOpen => MatchesServer(m)',
           \A n \in ToServerMessage : MatchesServer(n) =>
             MatchesServer(n)' /\ (m.type = "Cancel" \/ n.type = "Cancel" \/ n.id # m.id)
    PROVE  toServer' \in Seq(ToServerMessage) /\ ToServerMatches' /\ HandledOnce'
  <1>1. /\ toServer' \in Seq(ToServerMessage)
        /\ \A i \in 1 .. Len(toServer') :
             \/ i \in 1 .. Len(toServer) /\ toServer'[i] = toServer[i]
             \/ i = Len(toServer) + 1 /\ toServer'[i] = m /\ clientOpen
    <2>1. CASE Linked
      BY <2>1, Appended DEF TypeOK, WriteToServer, Linked
    <2>2. CASE ~ Linked
      BY <2>2 DEF TypeOK, WriteToServer
    <2> QED BY <2>1, <2>2
  <1>2. ToServerMatches'
    BY <1>1 DEF ToServerMatches, TypeOK
  <1>3. HandledOnce'
    <2> SUFFICES ASSUME NEW i \in 1 .. Len(toServer'), NEW j \in 1 .. Len(toServer'), i # j
                 PROVE  \/ toServer'[i].type = "Cancel" \/ toServer'[j].type = "Cancel"
                        \/ toServer'[i].id # toServer'[j].id
      BY DEF HandledOnce
    <2>1. \A k \in 1 .. Len(toServer) :
            toServer[k] \in ToServerMessage /\ MatchesServer(toServer[k])
      BY DEF TypeOK, ToServerMatches
    <2>2. CASE i \in 1 .. Len(toServer) /\ j \in 1 .. Len(toServer)
                /\ toServer'[i] = toServer[i] /\ toServer'[j] = toServer[j]
      BY <2>2 DEF HandledOnce
    <2>3. CASE i \in 1 .. Len(toServer) /\ toServer'[i] = toServer[i] /\ toServer'[j] = m
      BY <2>1, <2>3
    <2>4. CASE j \in 1 .. Len(toServer) /\ toServer'[j] = toServer[j] /\ toServer'[i] = m
      BY <2>1, <2>4
    <2> QED BY <1>1, <2>2, <2>3, <2>4
  <1> QED BY <1>1, <1>2, <1>3

\* Once the server took a message, only those for other requests are in flight,
\* and Cancels.
LEMMA AfterTakeFromServer ==
    ASSUME TypeOK, ToServerMatches, HandledOnce, toServer # <<>>, toServer' = Tail(toServer),
           \A n \in ToServerMessage :
             /\ MatchesServer(n)
             /\ Head(toServer).type = "Cancel" \/ n.type = "Cancel" \/ n.id # Head(toServer).id
             => MatchesServer(n)'
    PROVE  /\ toServer' \in Seq(ToServerMessage) /\ ToServerMatches' /\ HandledOnce'
           /\ Head(toServer) \in ToServerMessage /\ MatchesServer(Head(toServer))
  <1>1. /\ Head(toServer) = toServer[1] /\ Head(toServer) \in ToServerMessage
        /\ 1 \in 1 .. Len(toServer)
        /\ toServer' \in Seq(ToServerMessage)
        /\ Len(toServer') = Len(toServer) - 1
        /\ \A i \in 1 .. Len(toServer') :
             i + 1 \in 1 .. Len(toServer) /\ i + 1 # 1 /\ toServer'[i] = toServer[i + 1]
    BY TailTaken DEF TypeOK
  <1>2. ToServerMatches'
    BY <1>1 DEF ToServerMatches, HandledOnce, TypeOK
  <1>3. HandledOnce'
    <2> SUFFICES ASSUME NEW i \in 1 .. Len(toServer'), NEW j \in 1 .. Len(toServer'), i # j
                 PROVE  \/ toServer'[i].type = "Cancel" \/ toServer'[j].type = "Cancel"
                        \/ toServer'[i].id # toServer'[j].id
      BY DEF HandledOnce
    <2>1. i + 1 # j + 1
      OBVIOUS
    <2> QED BY <1>1, <2>1 DEF HandledOnce
  <1> QED BY <1>1, <1>2, <1>3 DEF ToServerMatches

\* A step that leaves the messages alone, or drops them all, and what they say
\* true.
LEMMA AfterKeepingServer ==
    ASSUME TypeOK, ToServerMatches, HandledOnce, toServer' = toServer \/ toServer' = <<>>,
           \A n \in ToServerMessage : MatchesServer(n) => MatchesServer(n)'
    PROVE  toServer' \in Seq(ToServerMessage) /\ ToServerMatches' /\ HandledOnce'
  <1>1. CASE toServer' = toServer
    BY <1>1 DEF TypeOK, ToServerMatches, HandledOnce
  <1>2. CASE toServer' = <<>>
    BY <1>2 DEF ToServerMatches, HandledOnce
  <1> QED BY <1>1, <1>2

\* A reply written to the client joins those in flight.
LEMMA AfterWriteToClient ==
    ASSUME TypeOK, ToClientMatches, RepliedOnce,
           NEW m \in ToClientMessage, WriteToClient(m),
           clientOpen => MatchesClient(m)',
           \A n \in ToClientMessage : MatchesClient(n) => MatchesClient(n)' /\ n.id # m.id
    PROVE  toClient' \in Seq(ToClientMessage) /\ ToClientMatches' /\ RepliedOnce'
  <1>1. /\ toClient' \in Seq(ToClientMessage)
        /\ \A i \in 1 .. Len(toClient') :
             \/ i \in 1 .. Len(toClient) /\ toClient'[i] = toClient[i]
             \/ i = Len(toClient) + 1 /\ toClient'[i] = m /\ clientOpen
    <2>1. CASE Linked
      BY <2>1, Appended DEF TypeOK, WriteToClient, Linked
    <2>2. CASE ~ Linked
      BY <2>2 DEF TypeOK, WriteToClient
    <2> QED BY <2>1, <2>2
  <1>2. ToClientMatches'
    BY <1>1 DEF ToClientMatches, TypeOK
  <1>3. RepliedOnce'
    BY <1>1 DEF RepliedOnce, ToClientMatches, TypeOK
  <1> QED BY <1>1, <1>2, <1>3

\* Once the client took a reply, the replies in flight are for other requests.
LEMMA AfterTakeFromClient ==
    ASSUME TypeOK, ToClientMatches, RepliedOnce, toClient # <<>>, toClient' = Tail(toClient),
           \A n \in ToClientMessage :
             MatchesClient(n) /\ n.id # Head(toClient).id => MatchesClient(n)'
    PROVE  toClient' \in Seq(ToClientMessage) /\ ToClientMatches' /\ RepliedOnce'
  <1>1. /\ Head(toClient) = toClient[1] /\ 1 \in 1 .. Len(toClient)
        /\ toClient' \in Seq(ToClientMessage)
        /\ Len(toClient') = Len(toClient) - 1
        /\ \A i \in 1 .. Len(toClient') :
             i + 1 \in 1 .. Len(toClient) /\ i + 1 # 1 /\ toClient'[i] = toClient[i + 1]
    BY TailTaken DEF TypeOK
  <1>2. ToClientMatches'
    BY <1>1 DEF ToClientMatches, RepliedOnce, TypeOK
  <1>3. RepliedOnce'
    <2> SUFFICES ASSUME NEW i \in 1 .. Len(toClient'), NEW j \in 1 .. Len(toClient'), i # j
                 PROVE  toClient'[i].id # toClient'[j].id
      BY DEF RepliedOnce
    <2>1. i + 1 # j + 1
      OBVIOUS
    <2> QED BY <1>1, <2>1 DEF RepliedOnce
  <1> QED BY <1>1, <1>2, <1>3

\* A step that leaves the replies alone, or drops them all, and what they say
\* true.
LEMMA AfterKeepingClient ==
    ASSUME TypeOK, ToClientMatches, RepliedOnce, toClient' = toClient \/ toClient' = <<>>,
           \A n \in ToClientMessage : MatchesClient(n) => MatchesClient(n)' \/ toClient' = <<>>
    PROVE  toClient' \in Seq(ToClientMessage) /\ ToClientMatches' /\ RepliedOnce'
  <1>1. CASE toClient' = <<>>
    BY <1>1 DEF ToClientMatches, RepliedOnce
  <1>2. CASE toClient' = toClient /\ toClient' # <<>>
    BY <1>2 DEF TypeOK, ToClientMatches, RepliedOnce
  <1> QED BY <1>1, <1>2

-----------------------------------------------------------------------------
(* The invariant holds initially *)

\* Initially nothing is in flight and no id is used.
LEMMA InitInvariant == Init => RpcInvariant
  <1> SUFFICES ASSUME Init PROVE RpcInvariant
    OBVIOUS
  <1>1. TypeOK
    BY RpcAssumption DEF Init, TypeOK, Ids, NoId
  <1>2. UnusedIds /\ ToServerMatches /\ HandledOnce /\ ToClientMatches /\ RepliedOnce
    BY DEF Init, UnusedIds, ToServerMatches, HandledOnce, ToClientMatches, RepliedOnce
  <1>3. RunningIsAwaited /\ PendingIsAwaited
    BY IdFacts DEF Init, RunningIsAwaited, PendingIsAwaited
  <1>4. ListenersMatchPending /\ SettledByOutcome /\ CancelOnlyOnDemand
    BY DEF Init, ListenersMatchPending, SettledByOutcome, CancelOnlyOnDemand
  <1> QED BY <1>1, <1>2, <1>3, <1>4 DEF RpcInvariant

-----------------------------------------------------------------------------
(* The client's steps keep it *)

\* A request is written under an id that no map and no message names yet.
LEMMA SendRequestInvariant ==
    ASSUME RpcInvariant, NEW id \in Ids, NEW t \in TokenStates, SendRequest(id, t)
    PROVE  RpcInvariant'
  <1> DEFINE m == [type |-> "Request", id |-> id, addToken |-> t # "none"]
  <1> USE DEF RpcInvariant
  <1>1. m \in ToServerMessage /\ WriteToServer(m)
    BY DEF ToServerMessage, SendRequest
  <1>2. /\ id = nextMessageId /\ nextMessageId' = id + 1 /\ sending = NoId
        /\ id \in Nat /\ id + 1 \in 0 .. MaxId
    BY IdFacts DEF SendRequest, MaySend, ClientIdle, RegisterRequest
  <1>3. MatchesServer(m)'
    BY <1>2, IdFacts DEF UnusedIds, MatchesServer, TypeOK, SendRequest, serverVars
  <1>4. ASSUME NEW n \in ToServerMessage, MatchesServer(n)
        PROVE  MatchesServer(n)' /\ n.id # m.id
    <2>1. n.id \in Ids /\ n.id < id
      BY <1>2, <1>4 DEF MatchesServer, ToServerMessage
    <2>2. n.id < id + 1 /\ n.id # id
      <3>1. n.id \in Nat /\ id \in Nat
        BY <2>1, <1>2, IdFacts
      <3> QED BY <2>1, <3>1
    <2>3. /\ promise'[n.id] = promise[n.id] /\ token'[n.id] = token[n.id]
          /\ handler' = handler /\ clientOpen' = clientOpen
      BY <2>1, <2>2 DEF TypeOK, SendRequest, serverVars
    <2> QED BY <1>2, <1>4, <2>2, <2>3 DEF MatchesServer
  <1>5. toServer' \in Seq(ToServerMessage) /\ ToServerMatches' /\ HandledOnce'
    BY <1>1, <1>3, <1>4, AfterWriteToServer
  <1>6. TypeOK'
    BY <1>2, <1>5, IdFacts DEF TypeOK, TokenStates, SendRequest, RegisterRequest, serverVars
  <1>7. UnusedIds'
    BY <1>2, IdFacts DEF UnusedIds, TypeOK, SendRequest, RegisterRequest, serverVars
  <1>8. ToClientMatches' /\ RepliedOnce'
    BY <1>2, IdFacts DEF ToClientMatches, MatchesClient, RepliedOnce, UnusedIds, TypeOK,
       ToClientMessage, SendRequest, serverVars
  <1>9. RunningIsAwaited' /\ PendingIsAwaited'
    BY <1>2, IdFacts DEF RunningIsAwaited, PendingIsAwaited, UnusedIds, TypeOK, SendRequest,
       RegisterRequest, serverVars
  <1>10. ListenersMatchPending'
    BY <1>2, IdFacts DEF ListenersMatchPending, TypeOK, SendRequest, RegisterRequest
  <1>11. SettledByOutcome' /\ CancelOnlyOnDemand'
    BY <1>2, IdFacts DEF SettledByOutcome, CancelOnlyOnDemand, UnusedIds, TypeOK, SendRequest,
       serverVars
  <1> QED BY <1>5, <1>6, <1>7, <1>8, <1>9, <1>10, <1>11

\* A sendRequest that throws leaves an entry that nothing in flight refers to.
LEMMA SendRequestThrowsInvariant ==
    ASSUME RpcInvariant, NEW id \in Ids, NEW t \in TokenStates, SendRequestThrows(id, t)
    PROVE  RpcInvariant'
  <1> USE DEF RpcInvariant
  <1>1. /\ id = nextMessageId /\ nextMessageId' = id + 1 /\ sending = NoId
        /\ id \in Nat /\ id + 1 \in 0 .. MaxId
    BY IdFacts DEF SendRequestThrows, MaySend, ClientIdle, RegisterRequest
  <1>2. ASSUME NEW n \in ToServerMessage, MatchesServer(n)
        PROVE  MatchesServer(n)'
    <2>1. n.id \in Ids /\ n.id < id
      BY <1>1, <1>2 DEF MatchesServer, ToServerMessage
    <2>2. n.id < id + 1 /\ n.id # id
      <3>1. n.id \in Nat /\ id \in Nat
        BY <2>1, <1>1, IdFacts
      <3> QED BY <2>1, <3>1
    <2>3. /\ promise'[n.id] = promise[n.id] /\ token'[n.id] = token[n.id]
          /\ handler' = handler /\ clientOpen' = clientOpen
      BY <2>1, <2>2 DEF TypeOK, SendRequestThrows, serverVars, linkVars
    <2> QED BY <1>1, <1>2, <2>2, <2>3 DEF MatchesServer
  <1>3. toServer' \in Seq(ToServerMessage) /\ ToServerMatches' /\ HandledOnce'
    BY <1>2, AfterKeepingServer DEF SendRequestThrows, linkVars
  <1>4. TypeOK'
    BY <1>1, <1>3, IdFacts DEF TypeOK, TokenStates, SendRequestThrows, RegisterRequest, serverVars,
       linkVars
  <1>5. UnusedIds'
    BY <1>1, IdFacts DEF UnusedIds, TypeOK, SendRequestThrows, RegisterRequest, serverVars
  <1>6. ToClientMatches' /\ RepliedOnce'
    BY <1>1, IdFacts DEF ToClientMatches, MatchesClient, RepliedOnce, UnusedIds, TypeOK,
       ToClientMessage, SendRequestThrows, serverVars, linkVars
  <1>7. RunningIsAwaited' /\ PendingIsAwaited'
    BY <1>1, IdFacts DEF RunningIsAwaited, PendingIsAwaited, UnusedIds, TypeOK, SendRequestThrows,
       RegisterRequest, serverVars, linkVars
  <1>8. ListenersMatchPending'
    BY <1>1, IdFacts DEF ListenersMatchPending, TypeOK, SendRequestThrows, RegisterRequest
  <1>9. SettledByOutcome' /\ CancelOnlyOnDemand'
    BY <1>1, IdFacts DEF SettledByOutcome, CancelOnlyOnDemand, UnusedIds, TypeOK, SendRequestThrows,
       serverVars, linkVars
  <1> QED BY <1>3, <1>4, <1>5, <1>6, <1>7, <1>8, <1>9

\* After the commit a Cancel is written for a cancelled token, or a listener is
\* kept for a request that is still pending.
LEMMA FinishSendRequestInvariant ==
    ASSUME RpcInvariant, FinishSendRequest
    PROVE  RpcInvariant'
  <1> USE DEF RpcInvariant
  <1>0. PICK id \in Ids : sending = id
    BY RpcAssumption DEF FinishSendRequest, ClientIdle, TypeOK, Ids, NoId
  <1> DEFINE m == CancelMessage(id)
  <1>1. /\ sending' = NoId
        /\ UNCHANGED <<nextMessageId, pendingRequests, promise, token, clientOpen, serverOpen, toClient,
                        cancellationTokenSources, handler, cancelled>>
    BY DEF FinishSendRequest, serverVars
  <1>2. \A n \in ToServerMessage : MatchesServer(n) => MatchesServer(n)'
    BY <1>1 DEF MatchesServer
  <1>3. promise[id] \in {"pending", "rejected"}
    BY <1>0 DEF PendingIsAwaited
  <1>4. toServer' \in Seq(ToServerMessage) /\ ToServerMatches' /\ HandledOnce'
    <2>1. CASE IsCancellationRequested(id)
      <3>1. m \in ToServerMessage /\ WriteToServer(m) /\ m.type = "Cancel" /\ m.id = id
        BY <1>0, <2>1 DEF FinishSendRequest, CancelMessage, ToServerMessage
      <3>2. id < nextMessageId
        <4>1. ~ (id >= nextMessageId)
          BY <1>3 DEF UnusedIds
        <4>2. id \in Nat /\ nextMessageId \in Nat
          BY IdFacts DEF TypeOK
        <4> QED BY <4>1, <4>2
      <3>3. MatchesServer(m)'
        BY <1>1, <2>1, <3>1, <3>2 DEF MatchesServer, IsCancellationRequested
      <3> QED BY <1>2, <3>1, <3>3, AfterWriteToServer
    <2>2. CASE ~ IsCancellationRequested(id)
      BY <1>0, <1>2, <2>2, AfterKeepingServer DEF FinishSendRequest
    <2> QED BY <2>1, <2>2
  <1>5. \/ wrapper' = wrapper
        \/ wrapper' = [wrapper EXCEPT ![id] = "listening"] /\ wrapper[id] = "empty"
    BY <1>0 DEF FinishSendRequest
  <1>6. TypeOK'
    BY <1>1, <1>4, <1>5, IdFacts DEF TypeOK, NoId
  <1>7. UnusedIds'
    BY <1>1, <1>3, <1>5 DEF UnusedIds, TypeOK
  <1>8. ToClientMatches' /\ RepliedOnce' /\ RunningIsAwaited'
    BY <1>1 DEF ToClientMatches, MatchesClient, RepliedOnce, RunningIsAwaited
  <1>9. ListenersMatchPending'
    BY <1>1, <1>5 DEF ListenersMatchPending, TypeOK
  <1>10. PendingIsAwaited'
    BY <1>1, <1>3, <1>5, IdFacts DEF PendingIsAwaited, ListenersMatchPending, TypeOK
  <1>11. SettledByOutcome' /\ CancelOnlyOnDemand'
    BY <1>1 DEF SettledByOutcome, CancelOnlyOnDemand
  <1> QED BY <1>4, <1>6, <1>7, <1>8, <1>9, <1>10, <1>11

\* A notification takes an id and leaves the maps alone.
LEMMA SendNotificationInvariant ==
    ASSUME RpcInvariant, NEW id \in Ids, SendNotification(id)
    PROVE  RpcInvariant'
  <1> DEFINE m == [type |-> "Notification", id |-> id, addToken |-> FALSE]
  <1> USE DEF RpcInvariant
  <1>1. m \in ToServerMessage /\ WriteToServer(m)
    BY DEF ToServerMessage, SendNotification
  <1>2. /\ id = nextMessageId /\ nextMessageId' = id + 1
        /\ id \in Nat /\ id + 1 \in 0 .. MaxId
        /\ UNCHANGED <<pendingRequests, wrapper, sending, promise, token, serverVars,
                        clientOpen, serverOpen, toClient>>
    BY IdFacts DEF SendNotification
  <1>3. MatchesServer(m)'
    BY <1>2, IdFacts DEF UnusedIds, MatchesServer, serverVars
  <1>4. ASSUME NEW n \in ToServerMessage, MatchesServer(n)
        PROVE  MatchesServer(n)' /\ n.id # m.id
    <2>1. n.id \in Ids /\ n.id < id
      BY <1>2, <1>4 DEF MatchesServer, ToServerMessage
    <2>2. n.id < id + 1 /\ n.id # id
      <3>1. n.id \in Nat /\ id \in Nat
        BY <2>1, <1>2, IdFacts
      <3> QED BY <2>1, <3>1
    <2> QED BY <1>2, <1>4, <2>2 DEF MatchesServer, serverVars
  <1>5. toServer' \in Seq(ToServerMessage) /\ ToServerMatches' /\ HandledOnce'
    BY <1>1, <1>3, <1>4, AfterWriteToServer
  <1>6. TypeOK'
    BY <1>2, <1>5 DEF TypeOK, serverVars
  <1>7. UnusedIds'
    BY <1>2, IdFacts DEF UnusedIds, serverVars
  <1>8. ToClientMatches' /\ RepliedOnce' /\ RunningIsAwaited' /\ PendingIsAwaited'
    BY <1>2 DEF ToClientMatches, MatchesClient, RepliedOnce, RunningIsAwaited, PendingIsAwaited,
       serverVars
  <1>9. ListenersMatchPending' /\ SettledByOutcome' /\ CancelOnlyOnDemand'
    BY <1>2 DEF ListenersMatchPending, SettledByOutcome, CancelOnlyOnDemand, serverVars
  <1> QED BY <1>5, <1>6, <1>7, <1>8, <1>9

\* A cancelled token writes a Cancel for its own request at most.
LEMMA CancelTokenInvariant ==
    ASSUME RpcInvariant, NEW id \in Ids, CancelToken(id)
    PROVE  RpcInvariant'
  <1> DEFINE m == CancelMessage(id)
  <1> USE DEF RpcInvariant
  <1>1. /\ token[id] = "live" /\ token' = [token EXCEPT ![id] = "cancelled"]
        /\ UNCHANGED <<nextMessageId, pendingRequests, wrapper, sending, promise, serverVars,
                        clientOpen, serverOpen, toClient>>
    BY DEF CancelToken
  <1>2. \A n \in ToServerMessage : MatchesServer(n) => MatchesServer(n)'
    BY <1>1 DEF MatchesServer, TypeOK, ToServerMessage, serverVars
  <1>3. toServer' \in Seq(ToServerMessage) /\ ToServerMatches' /\ HandledOnce'
    <2>1. CASE wrapper[id] = "listening"
      <3>1. m \in ToServerMessage /\ WriteToServer(m) /\ m.type = "Cancel" /\ m.id = id
        BY <2>1 DEF CancelToken, CancelMessage, ToServerMessage
      <3>2. id < nextMessageId
        <4>1. ~ (id >= nextMessageId)
          BY <1>1 DEF UnusedIds
        <4>2. id \in Nat /\ nextMessageId \in Nat
          BY IdFacts DEF TypeOK
        <4> QED BY <4>1, <4>2
      <3>3. MatchesServer(m)'
        BY <1>1, <3>1, <3>2 DEF MatchesServer, TypeOK
      <3> QED BY <1>2, <3>1, <3>3, AfterWriteToServer
    <2>2. CASE wrapper[id] # "listening"
      BY <1>2, <2>2, AfterKeepingServer DEF CancelToken
    <2> QED BY <2>1, <2>2
  <1>4. TypeOK'
    BY <1>1, <1>3 DEF TypeOK, serverVars
  <1>5. UnusedIds'
    BY <1>1 DEF UnusedIds, TypeOK, serverVars
  <1>6. ToClientMatches' /\ RepliedOnce' /\ RunningIsAwaited' /\ PendingIsAwaited'
    BY <1>1 DEF ToClientMatches, MatchesClient, RepliedOnce, RunningIsAwaited, PendingIsAwaited,
       serverVars
  <1>7. ListenersMatchPending' /\ SettledByOutcome'
    BY <1>1 DEF ListenersMatchPending, SettledByOutcome, serverVars
  <1>8. CancelOnlyOnDemand'
    BY <1>1 DEF CancelOnlyOnDemand, TypeOK, serverVars
  <1> QED BY <1>3, <1>4, <1>5, <1>6, <1>7, <1>8

\* A reply settles the one request it is for, as its handler ended.
LEMMA HandleReplyInvariant ==
    ASSUME RpcInvariant, HandleReply
    PROVE  RpcInvariant'
  <1> DEFINE m == Head(toClient)
  <1> USE DEF RpcInvariant
  <1>1. /\ clientOpen /\ ClientIdle /\ toClient # <<>> /\ toClient' = Tail(toClient)
        /\ UNCHANGED <<nextMessageId, sending, token, serverVars, clientOpen, serverOpen, toServer>>
    BY DEF HandleReply
  <1>2. m \in ToClientMessage /\ MatchesClient(m)
    BY <1>1, TailTaken DEF ToClientMatches, TypeOK
  <1>3. PICK id \in Ids : id = m.id
    BY <1>2 DEF ToClientMessage
  <1>4. promise[id] = "pending" /\ id \in pendingRequests
    BY <1>2, <1>3 DEF MatchesClient, PendingIsAwaited
  <1>5. handler[id] = IF m.type = "Reply" THEN "returned" ELSE "threw"
    BY <1>2, <1>3 DEF MatchesClient
  <1>6. PICK outcome \in {"resolved", "rejected"} :
          /\ outcome = IF m.type = "Reply" THEN "resolved" ELSE "rejected"
          /\ pendingRequests' = pendingRequests \ {id}
          /\ promise' = [promise EXCEPT ![id] = outcome]
          /\ wrapper' = [wrapper EXCEPT ![id] = "disposed"]
    BY <1>3, <1>4 DEF HandleReply, RepliesTo, DisposeCancellationEventListener
  <1>7. ASSUME NEW n \in ToServerMessage, MatchesServer(n)
        PROVE  MatchesServer(n)'
    BY <1>1, <1>5, <1>6, <1>7, <1>4 DEF MatchesServer, TypeOK, ToServerMessage, serverVars
  <1>8. toServer' \in Seq(ToServerMessage) /\ ToServerMatches' /\ HandledOnce'
    BY <1>1, <1>7, AfterKeepingServer
  <1>9. ASSUME NEW n \in ToClientMessage, MatchesClient(n), n.id # m.id
        PROVE  MatchesClient(n)'
    BY <1>1, <1>3, <1>6, <1>9 DEF MatchesClient, TypeOK, ToClientMessage, serverVars
  <1>10. toClient' \in Seq(ToClientMessage) /\ ToClientMatches' /\ RepliedOnce'
    BY <1>1, <1>9, AfterTakeFromClient
  <1>11. TypeOK'
    BY <1>1, <1>6, <1>8, <1>10 DEF TypeOK, serverVars
  <1>12. UnusedIds'
    BY <1>1, <1>4, <1>6 DEF UnusedIds, TypeOK, serverVars
  <1>13. RunningIsAwaited'
    BY <1>1, <1>5, <1>6 DEF RunningIsAwaited, TypeOK, serverVars
  <1>14. PendingIsAwaited'
    BY <1>1, <1>6, IdFacts DEF PendingIsAwaited, TypeOK, ClientIdle
  <1>15. ListenersMatchPending'
    BY <1>6 DEF ListenersMatchPending, TypeOK
  <1>16. SettledByOutcome'
    BY <1>1, <1>5, <1>6 DEF SettledByOutcome, TypeOK, serverVars
  <1>17. CancelOnlyOnDemand'
    BY <1>1 DEF CancelOnlyOnDemand, serverVars
  <1> QED BY <1>8, <1>10, <1>11, <1>12, <1>13, <1>14, <1>15, <1>16, <1>17

\* The close of the channel settles all that is pending and drops the replies.
LEMMA ClientChannelClosedInvariant ==
    ASSUME RpcInvariant, ClientChannelClosed
    PROVE  RpcInvariant'
  <1> USE DEF RpcInvariant
  <1>1. /\ clientOpen /\ ~ clientOpen' /\ clientOpen' \in BOOLEAN
        /\ pendingRequests' = {} /\ toClient' = <<>>
        /\ wrapper' = [id \in Ids |-> IF id \in pendingRequests THEN "disposed" ELSE wrapper[id]]
        /\ promise' = [id \in Ids |->
             IF id \in pendingRequests /\ promise[id] = "pending" THEN "rejected" ELSE promise[id]]
        /\ UNCHANGED <<nextMessageId, sending, token, serverVars, serverOpen, toServer>>
    BY DEF ClientChannelClosed, RejectPending
  <1>2. \A n \in ToServerMessage : MatchesServer(n) => MatchesServer(n)'
    BY <1>1 DEF MatchesServer, TypeOK, ToServerMessage, serverVars
  <1>3. toServer' \in Seq(ToServerMessage) /\ ToServerMatches' /\ HandledOnce'
    BY <1>1, <1>2, AfterKeepingServer
  <1>4. toClient' \in Seq(ToClientMessage) /\ ToClientMatches' /\ RepliedOnce'
    BY <1>1, AfterKeepingClient
  <1>5. TypeOK'
    BY <1>1, <1>3, <1>4 DEF TypeOK, serverVars
  <1>6. UnusedIds'
    BY <1>1 DEF UnusedIds, PendingIsAwaited, serverVars
  <1>7. RunningIsAwaited' /\ PendingIsAwaited'
    BY <1>1 DEF RunningIsAwaited, PendingIsAwaited, ListenersMatchPending, TypeOK, serverVars
  <1>8. ListenersMatchPending'
    BY <1>1 DEF ListenersMatchPending, TypeOK
  <1>9. SettledByOutcome' /\ CancelOnlyOnDemand'
    BY <1>1 DEF SettledByOutcome, CancelOnlyOnDemand, serverVars
  <1> QED BY <1>3, <1>4, <1>5, <1>6, <1>7, <1>8, <1>9

-----------------------------------------------------------------------------
(* The server's steps keep it *)

\* A request is taken by a handler that did not run before.
LEMMA HandleRequestInvariant ==
    ASSUME RpcInvariant, HandleRequest
    PROVE  RpcInvariant'
  <1> DEFINE m == Head(toServer)
  <1> USE DEF RpcInvariant
  <1>1. /\ toServer # <<>> /\ m.type = "Request" /\ toServer' = Tail(toServer)
        /\ UNCHANGED <<cancelled, clientVars, clientOpen, serverOpen, toClient>>
    BY DEF HandleRequest, Receives
  <1>2. m \in ToServerMessage /\ MatchesServer(m)
    BY <1>1, TailTaken DEF ToServerMatches, TypeOK
  <1>3. PICK id \in Ids : id = m.id
    BY <1>2 DEF ToServerMessage
  <1>4. /\ handler[id] = "none"
        /\ promise[id] \in IF clientOpen THEN {"pending"} ELSE {"pending", "rejected"}
        /\ m.addToken = (token[id] # "none")
    BY <1>1, <1>2, <1>3 DEF MatchesServer
  <1>5. /\ handler' = [handler EXCEPT ![id] = "running"]
        /\ cancellationTokenSources' =
             IF token[id] # "none" THEN cancellationTokenSources \union {id}
                                   ELSE cancellationTokenSources
    BY <1>3, <1>4 DEF HandleRequest
  <1>6. ASSUME NEW n \in ToServerMessage, MatchesServer(n), n.type = "Cancel" \/ n.id # m.id
        PROVE  MatchesServer(n)'
    BY <1>1, <1>3, <1>5, <1>6 DEF MatchesServer, TypeOK, ToServerMessage, clientVars
  <1>7. toServer' \in Seq(ToServerMessage) /\ ToServerMatches' /\ HandledOnce'
    BY <1>1, <1>6, AfterTakeFromServer
  <1>8. \A n \in ToClientMessage : MatchesClient(n) => MatchesClient(n)'
    BY <1>1, <1>4, <1>5 DEF MatchesClient, TypeOK, ToClientMessage, clientVars
  <1>9. toClient' \in Seq(ToClientMessage) /\ ToClientMatches' /\ RepliedOnce'
    BY <1>1, <1>8, AfterKeepingClient
  <1>10. TypeOK'
    BY <1>1, <1>5, <1>7, <1>9 DEF TypeOK, clientVars
  <1>11. UnusedIds'
    BY <1>1, <1>4, <1>5 DEF UnusedIds, TypeOK, clientVars
  <1>12. RunningIsAwaited'
    BY <1>1, <1>4, <1>5 DEF RunningIsAwaited, TypeOK, clientVars
  <1>13. PendingIsAwaited' /\ ListenersMatchPending'
    BY <1>1 DEF PendingIsAwaited, ListenersMatchPending, clientVars
  <1>14. SettledByOutcome' /\ CancelOnlyOnDemand'
    BY <1>1, <1>4, <1>5 DEF SettledByOutcome, CancelOnlyOnDemand, TypeOK, clientVars
  <1> QED BY <1>7, <1>9, <1>10, <1>11, <1>12, <1>13, <1>14

\* A Cancel marks a source whose caller cancelled, or nothing.
LEMMA HandleCancelInvariant ==
    ASSUME RpcInvariant, HandleCancel
    PROVE  RpcInvariant'
  <1> DEFINE m == Head(toServer)
  <1> USE DEF RpcInvariant
  <1>1. /\ toServer # <<>> /\ m.type = "Cancel" /\ toServer' = Tail(toServer)
        /\ cancelled' = cancelled \union ({m.id} \intersect cancellationTokenSources)
        /\ UNCHANGED <<cancellationTokenSources, handler, clientVars, clientOpen, serverOpen, toClient>>
    BY DEF HandleCancel, Receives
  <1>2. m \in ToServerMessage /\ MatchesServer(m)
    BY <1>1, TailTaken DEF ToServerMatches, TypeOK
  <1>3. m.id \in Ids /\ token[m.id] = "cancelled"
    BY <1>1, <1>2 DEF MatchesServer, ToServerMessage
  <1>4. \A n \in ToServerMessage : MatchesServer(n) => MatchesServer(n)'
    BY <1>1 DEF MatchesServer, clientVars
  <1>5. toServer' \in Seq(ToServerMessage) /\ ToServerMatches' /\ HandledOnce'
    BY <1>1, <1>4, AfterTakeFromServer
  <1>6. TypeOK'
    BY <1>1, <1>3, <1>5 DEF TypeOK, clientVars
  <1>7. UnusedIds'
    BY <1>1, <1>3 DEF UnusedIds, clientVars
  <1>8. ToClientMatches' /\ RepliedOnce' /\ RunningIsAwaited' /\ PendingIsAwaited'
    BY <1>1 DEF ToClientMatches, MatchesClient, RepliedOnce, RunningIsAwaited, PendingIsAwaited,
       clientVars
  <1>9. ListenersMatchPending' /\ SettledByOutcome' /\ CancelOnlyOnDemand'
    BY <1>1, <1>3 DEF ListenersMatchPending, SettledByOutcome, CancelOnlyOnDemand, clientVars
  <1> QED BY <1>5, <1>6, <1>7, <1>8, <1>9

\* A notification is handled once and awaited by nobody.
LEMMA HandleNotifyInvariant ==
    ASSUME RpcInvariant, HandleNotify
    PROVE  RpcInvariant'
  <1> DEFINE m == Head(toServer)
  <1> USE DEF RpcInvariant
  <1>1. /\ toServer # <<>> /\ m.type = "Notification" /\ toServer' = Tail(toServer)
        /\ handler' = [handler EXCEPT ![m.id] = "notified"]
        /\ UNCHANGED <<cancellationTokenSources, cancelled, clientVars, clientOpen, serverOpen, toClient>>
    BY DEF HandleNotify, Receives
  <1>2. m \in ToServerMessage /\ MatchesServer(m)
    BY <1>1, TailTaken DEF ToServerMatches, TypeOK
  <1>3. PICK id \in Ids : id = m.id
    BY <1>2 DEF ToServerMessage
  <1>4. handler[id] = "none" /\ promise[id] = "none" /\ id < nextMessageId
    BY <1>1, <1>2, <1>3 DEF MatchesServer
  <1>5. ASSUME NEW n \in ToServerMessage, MatchesServer(n), n.type = "Cancel" \/ n.id # m.id
        PROVE  MatchesServer(n)'
    BY <1>1, <1>5 DEF MatchesServer, TypeOK, ToServerMessage, clientVars
  <1>6. toServer' \in Seq(ToServerMessage) /\ ToServerMatches' /\ HandledOnce'
    BY <1>1, <1>5, AfterTakeFromServer
  <1>7. \A n \in ToClientMessage : MatchesClient(n) => MatchesClient(n)'
    BY <1>1, <1>3, <1>4 DEF MatchesClient, TypeOK, ToClientMessage, clientVars
  <1>8. toClient' \in Seq(ToClientMessage) /\ ToClientMatches' /\ RepliedOnce'
    BY <1>1, <1>7, AfterKeepingClient
  <1>9. TypeOK'
    BY <1>1, <1>3, <1>6, <1>8 DEF TypeOK, clientVars
  <1>10. UnusedIds'
    <2>1. id \in Nat /\ nextMessageId \in Nat
      BY IdFacts DEF TypeOK
    <2>2. ~ (id >= nextMessageId)
      BY <2>1, <1>4
    <2> QED BY <1>1, <1>3, <2>2 DEF UnusedIds, TypeOK, clientVars
  <1>11. RunningIsAwaited' /\ PendingIsAwaited' /\ ListenersMatchPending'
    BY <1>1, <1>3 DEF RunningIsAwaited, PendingIsAwaited, ListenersMatchPending, TypeOK, clientVars
  <1>12. SettledByOutcome' /\ CancelOnlyOnDemand'
    BY <1>1, <1>3, <1>4 DEF SettledByOutcome, CancelOnlyOnDemand, TypeOK, clientVars
  <1> QED BY <1>6, <1>8, <1>9, <1>10, <1>11, <1>12

\* A handler ends in one of three ways, and the first two send a reply.
LEMMA HandlerEndsInvariant ==
    ASSUME RpcInvariant, NEW id \in Ids,
           HandlerReturns(id) \/ HandlerThrows(id) \/ ReplyErrThrows(id)
    PROVE  RpcInvariant'
  <1> USE DEF RpcInvariant
  <1>1. PICK outcome \in {"returned", "threw", "lost"} :
          /\ handler[id] = "running"
          /\ handler' = [handler EXCEPT ![id] = outcome]
          /\ cancellationTokenSources' = cancellationTokenSources \ {id}
          /\ UNCHANGED <<cancelled, clientVars, clientOpen, serverOpen, toServer>>
          /\ \/ outcome = "returned" /\ WriteToClient([type |-> "Reply", id |-> id])
             \/ outcome = "threw" /\ WriteToClient([type |-> "ReplyErr", id |-> id])
             \/ outcome = "lost" /\ toClient' = toClient
    BY DEF HandlerReturns, HandlerThrows, ReplyErrThrows, DeleteSource, linkVars
  <1>2. /\ promise[id] \in IF clientOpen THEN {"pending"} ELSE {"pending", "rejected"}
        /\ ~ (id >= nextMessageId)
    BY <1>1 DEF RunningIsAwaited, UnusedIds
  <1>3. ASSUME NEW n \in ToServerMessage, MatchesServer(n)
        PROVE  MatchesServer(n)'
    BY <1>1, <1>3 DEF MatchesServer, TypeOK, ToServerMessage, clientVars
  <1>4. toServer' \in Seq(ToServerMessage) /\ ToServerMatches' /\ HandledOnce'
    BY <1>1, <1>3, AfterKeepingServer
  <1>5. ASSUME NEW n \in ToClientMessage, MatchesClient(n)
        PROVE  MatchesClient(n)' /\ n.id # id
    BY <1>1, <1>5 DEF MatchesClient, TypeOK, ToClientMessage, clientVars
  <1>6. toClient' \in Seq(ToClientMessage) /\ ToClientMatches' /\ RepliedOnce'
    <2>1. ASSUME NEW m \in ToClientMessage, m.id = id, WriteToClient(m),
                 outcome = IF m.type = "Reply" THEN "returned" ELSE "threw"
          PROVE  toClient' \in Seq(ToClientMessage) /\ ToClientMatches' /\ RepliedOnce'
      <3>1. clientOpen => MatchesClient(m)'
        BY <1>1, <1>2, <2>1 DEF MatchesClient, TypeOK, clientVars
      <3> QED BY <1>5, <2>1, <3>1, AfterWriteToClient
    <2>2. [type |-> "Reply", id |-> id] \in ToClientMessage
          /\ [type |-> "ReplyErr", id |-> id] \in ToClientMessage
      BY DEF ToClientMessage
    <2>3. CASE outcome = "returned"
      BY <1>1, <2>1, <2>2, <2>3
    <2>4. CASE outcome = "threw"
      BY <1>1, <2>1, <2>2, <2>4
    <2>5. CASE outcome = "lost"
      BY <1>1, <1>5, <2>5, AfterKeepingClient
    <2> QED BY <2>3, <2>4, <2>5
  <1>7. TypeOK'
    BY <1>1, <1>4, <1>6 DEF TypeOK, clientVars
  <1>8. UnusedIds'
    BY <1>1, <1>2 DEF UnusedIds, TypeOK, clientVars
  <1>9. RunningIsAwaited' /\ PendingIsAwaited' /\ ListenersMatchPending'
    BY <1>1 DEF RunningIsAwaited, PendingIsAwaited, ListenersMatchPending, TypeOK, clientVars
  <1>10. SettledByOutcome' /\ CancelOnlyOnDemand'
    BY <1>1 DEF SettledByOutcome, CancelOnlyOnDemand, TypeOK, clientVars
  <1> QED BY <1>4, <1>6, <1>7, <1>8, <1>9, <1>10

\* The close of the server's end drops the messages to it and lets handlers run on.
LEMMA ServerChannelClosedInvariant ==
    ASSUME RpcInvariant, ServerChannelClosed
    PROVE  RpcInvariant'
  <1> USE DEF RpcInvariant
  <1>1. /\ serverOpen' \in BOOLEAN /\ toServer' = <<>>
        /\ UNCHANGED <<clientVars, serverVars, clientOpen, toClient>>
    BY DEF ServerChannelClosed
  <1>2. toServer' \in Seq(ToServerMessage) /\ ToServerMatches' /\ HandledOnce'
    BY <1>1 DEF ToServerMatches, HandledOnce
  <1>3. TypeOK' /\ UnusedIds'
    BY <1>1, <1>2 DEF TypeOK, UnusedIds, clientVars, serverVars
  <1>4. ToClientMatches' /\ RepliedOnce' /\ RunningIsAwaited' /\ PendingIsAwaited'
    BY <1>1 DEF ToClientMatches, MatchesClient, RepliedOnce, RunningIsAwaited, PendingIsAwaited,
       clientVars, serverVars
  <1>5. ListenersMatchPending' /\ SettledByOutcome' /\ CancelOnlyOnDemand'
    BY <1>1 DEF ListenersMatchPending, SettledByOutcome, CancelOnlyOnDemand, clientVars, serverVars
  <1> QED BY <1>2, <1>3, <1>4, <1>5

-----------------------------------------------------------------------------
(* The theorems *)

\* Every step keeps the inductive invariant.
LEMMA NextInvariant == RpcInvariant /\ [Next]_vars => RpcInvariant'
  <1> SUFFICES ASSUME RpcInvariant, [Next]_vars PROVE RpcInvariant'
    OBVIOUS
  <1>1. CASE \E id \in Ids, t \in TokenStates : SendRequest(id, t) \/ SendRequestThrows(id, t)
    BY <1>1, SendRequestInvariant, SendRequestThrowsInvariant
  <1>2. CASE \E id \in Ids : SendNotification(id) \/ CancelToken(id)
    BY <1>2, SendNotificationInvariant, CancelTokenInvariant
  <1>3. CASE FinishSendRequest \/ HandleReply \/ ClientChannelClosed
    BY <1>3, FinishSendRequestInvariant, HandleReplyInvariant, ClientChannelClosedInvariant
  <1>4. CASE HandleRequest \/ HandleCancel \/ HandleNotify
    BY <1>4, HandleRequestInvariant, HandleCancelInvariant, HandleNotifyInvariant
  <1>5. CASE \E id \in Ids : HandlerReturns(id) \/ HandlerThrows(id) \/ ReplyErrThrows(id)
    BY <1>5, HandlerEndsInvariant
  <1>6. CASE ServerChannelClosed
    BY <1>6, ServerChannelClosedInvariant
  <1>7. CASE UNCHANGED vars
    BY <1>7 DEF vars, clientVars, serverVars, linkVars, RpcInvariant, TypeOK, UnusedIds,
       ToServerMatches, MatchesServer, HandledOnce, ToClientMatches, MatchesClient, RepliedOnce,
       RunningIsAwaited, PendingIsAwaited, ListenersMatchPending, SettledByOutcome, CancelOnlyOnDemand
  <1> QED BY <1>1, <1>2, <1>3, <1>4, <1>5, <1>6, <1>7 DEF Next

\* The messages in flight always agree with what the two sides remember: every
\* request is handled once and answered once, while somebody waits for it.
THEOREM RpcInvariantHolds == Spec => []RpcInvariant
  BY InitInvariant, NextInvariant, PTL DEF Spec

\* Every variable of the two RpcProtocol objects and of the channel keeps its
\* type, for every number of messages.
THEOREM TypeCorrect == Spec => []TypeOK
  <1>1. RpcInvariant => TypeOK
    BY DEF RpcInvariant
  <1> QED BY <1>1, RpcInvariantHolds, PTL

\* No reply ever reaches the throw of handleReply and handleReplyErr.
THEOREM RepliesAreExpected == Spec => []ReplyExpected
  <1>1. ASSUME RpcInvariant, toClient # <<>>
        PROVE  Head(toClient).id \in pendingRequests
    <2>1. Head(toClient) \in ToClientMessage /\ MatchesClient(Head(toClient))
      BY <1>1, TailTaken DEF RpcInvariant, TypeOK, ToClientMatches
    <2> QED BY <1>1, <2>1 DEF RpcInvariant, MatchesClient, PendingIsAwaited, ToClientMessage
  <1>2. RpcInvariant => ReplyExpected
    BY <1>1 DEF ReplyExpected
  <1> QED BY <1>2, RpcInvariantHolds, PTL

\* No cancellation listener outlives its request, and none is missing.
THEOREM ListenersAlwaysMatch == Spec => []ListenersMatchPending
  <1>1. RpcInvariant => ListenersMatchPending
    BY DEF RpcInvariant
  <1> QED BY <1>1, RpcInvariantHolds, PTL

\* A promise settles as its own handler ended.
THEOREM SettlesByOutcome == Spec => []SettledByOutcome
  <1>1. RpcInvariant => SettledByOutcome
    BY DEF RpcInvariant
  <1> QED BY <1>1, RpcInvariantHolds, PTL

\* The server cancels what a caller cancelled and keeps no source too long.
THEOREM CancelsOnDemand == Spec => []CancelOnlyOnDemand
  <1>1. RpcInvariant => CancelOnlyOnDemand
    BY DEF RpcInvariant
  <1> QED BY <1>1, RpcInvariantHolds, PTL

\* A step that adds a Cancel to the channel adds it for a request that is still
\* awaited, or within the sendRequest that found its token cancelled.
LEMMA CancelStep ==
    ASSUME RpcInvariant, [Next]_vars, NEW id \in Ids,
           Len(toServer') > Len(toServer), toServer'[Len(toServer')] = CancelMessage(id)
    PROVE  promise[id] = "pending" \/ sending = id
  <1> USE DEF RpcInvariant
  <1>1. Len(toServer) \in Nat /\ Len(toServer') # Len(toServer)
    BY DEF TypeOK
  <1>2. ASSUME NEW m, WriteToServer(m)
        PROVE  m = CancelMessage(id)
    BY <1>1, <1>2 DEF WriteToServer, TypeOK
  <1>3. ASSUME NEW c \in Ids, CancelMessage(c) = CancelMessage(id)
        PROVE  c = id
    BY <1>3 DEF CancelMessage
  <1>4. toServer' # toServer /\ (toServer # <<>> => toServer' # Tail(toServer)) /\ toServer' # <<>>
    BY <1>1, TailTaken DEF TypeOK
  <1>5. ASSUME NEW c \in Ids, NEW t \in TokenStates, SendRequest(c, t) \/ SendRequestThrows(c, t)
        PROVE  FALSE
    BY <1>2, <1>4, <1>5 DEF SendRequest, SendRequestThrows, linkVars, CancelMessage
  <1>6. ASSUME NEW c \in Ids, SendNotification(c)
        PROVE  FALSE
    BY <1>2, <1>6 DEF SendNotification, CancelMessage
  <1>7. ASSUME NEW c \in Ids, CancelToken(c)
        PROVE  promise[id] = "pending"
    BY <1>2, <1>3, <1>4, <1>7 DEF CancelToken, PendingIsAwaited
  <1>8. CASE FinishSendRequest
    <2>1. sending \in Ids
      BY <1>8, RpcAssumption DEF FinishSendRequest, ClientIdle, TypeOK, Ids, NoId
    <2> QED BY <1>2, <1>3, <1>4, <1>8, <2>1 DEF FinishSendRequest
  <1>9. ~ HandleReply /\ ~ ClientChannelClosed /\ ~ ServerChannelClosed
    BY <1>4 DEF HandleReply, ClientChannelClosed, ServerChannelClosed
  <1>10. ~ HandleRequest /\ ~ HandleCancel /\ ~ HandleNotify
    BY <1>4 DEF HandleRequest, HandleCancel, HandleNotify, Receives
  <1>11. ASSUME NEW c \in Ids, HandlerReturns(c) \/ HandlerThrows(c) \/ ReplyErrThrows(c)
         PROVE  FALSE
    BY <1>4, <1>11 DEF HandlerReturns, HandlerThrows, ReplyErrThrows, linkVars
  <1>12. ~ UNCHANGED vars
    BY <1>4 DEF vars, linkVars
  <1> QED BY <1>5, <1>6, <1>7, <1>8, <1>9, <1>10, <1>11, <1>12 DEF Next

\* A cancellation that comes after its request was settled writes nothing.
THEOREM LateCancelIsSilent == Spec => NoCancelAfterSettled
  <1>1. RpcInvariant /\ [Next]_vars =>
          [\A id \in Ids : /\ Len(toServer') > Len(toServer)
                           /\ toServer'[Len(toServer')] = CancelMessage(id)
                           => promise[id] = "pending" \/ sending = id]_vars
    BY CancelStep
  <1> QED BY <1>1, RpcInvariantHolds, PTL DEF Spec, NoCancelAfterSettled

\* The initial states of the protocol are initial states of RemoteCall.
LEMMA ContractInit == Init => Contract!Init
  BY DEF Init, Contract!Init

\* Every step of the protocol is a step of RemoteCall or changes nothing there.
LEMMA ContractStep == RpcInvariant /\ [Next]_vars => [Contract!Next]_(Contract!vars)
  <1> SUFFICES ASSUME RpcInvariant, [Next]_vars PROVE Contract!Next \/ UNCHANGED Contract!vars
    OBVIOUS
  <1> USE DEF RpcInvariant
  <1>1. ASSUME NEW id \in Ids, NEW t \in TokenStates, SendRequest(id, t)
        PROVE  Contract!Call(id, "pending")
    BY <1>1, IdFacts DEF SendRequest, MaySend, UnusedIds, serverVars, Contract!Call
  <1>2. ASSUME NEW id \in Ids, NEW t \in TokenStates, SendRequestThrows(id, t)
        PROVE  Contract!Call(id, "thrown")
    BY <1>2, IdFacts DEF SendRequestThrows, MaySend, UnusedIds, serverVars, linkVars, Contract!Call
  <1>3. ASSUME NEW id \in Ids, SendNotification(id) \/ CancelToken(id)
        PROVE  UNCHANGED Contract!vars
    BY <1>3 DEF SendNotification, CancelToken, serverVars, Contract!vars
  <1>4. CASE FinishSendRequest \/ HandleCancel \/ ServerChannelClosed
    BY <1>4 DEF FinishSendRequest, HandleCancel, ServerChannelClosed, serverVars, clientVars, Contract!vars
  <1>5. CASE HandleReply
    <2> DEFINE m == Head(toClient)
    <2>1. m \in ToClientMessage /\ MatchesClient(m)
      BY <1>5, TailTaken DEF HandleReply, ToClientMatches, TypeOK
    <2>2. PICK id \in Ids : id = m.id
      BY <2>1 DEF ToClientMessage
    <2>3. id \in pendingRequests
      BY <2>1, <2>2 DEF MatchesClient, PendingIsAwaited
    <2>4. Contract!Settle(id)
      BY <1>5, <2>1, <2>2, <2>3 DEF HandleReply, RepliesTo, MatchesClient, serverVars, Contract!Settle
    <2> QED BY <2>4 DEF Contract!Next
  <1>6. CASE ClientChannelClosed
    <2>1. promise' = [id \in Ids |-> IF promise[id] = "pending" THEN "rejected" ELSE promise[id]]
      BY <1>6 DEF ClientChannelClosed, RejectPending, PendingIsAwaited
    <2>2. Contract!Disconnect
      BY <1>6, <2>1 DEF ClientChannelClosed, serverVars, Contract!Disconnect
    <2> QED BY <2>2 DEF Contract!Next
  <1>7. CASE HandleRequest \/ HandleNotify
    <2> DEFINE m == Head(toServer)
    <2>1. m \in ToServerMessage /\ MatchesServer(m)
      BY <1>7, TailTaken DEF HandleRequest, HandleNotify, Receives, ToServerMatches, TypeOK
    <2>2. PICK id \in Ids : id = m.id
      BY <2>1 DEF ToServerMessage
    <2>3. Contract!Handle(id)
      BY <1>7, <2>1, <2>2 DEF HandleRequest, HandleNotify, Receives, MatchesServer, clientVars,
         Contract!Handle
    <2> QED BY <2>3 DEF Contract!Next
  <1>8. ASSUME NEW id \in Ids, HandlerReturns(id) \/ HandlerThrows(id) \/ ReplyErrThrows(id)
        PROVE  Contract!Next
    <2>1. \E outcome \in {"returned", "threw", "lost"} : Contract!End(id, outcome)
      BY <1>8 DEF HandlerReturns, HandlerThrows, ReplyErrThrows, clientVars, linkVars, Contract!End
    <2> QED BY <2>1 DEF Contract!Next
  <1>9. CASE UNCHANGED vars
    BY <1>9 DEF vars, clientVars, serverVars, linkVars, Contract!vars
  <1> QED BY <1>1, <1>2, <1>3, <1>4, <1>5, <1>6, <1>7, <1>8, <1>9 DEF Next, Contract!Next

\* The protocol implements RemoteCall: a request is handled at most once, only
\* after it was made, and its promise settles at most once, as its own handler
\* ended or because the channel closed.
THEOREM RpcImplementsRemoteCall == Spec => ImplementsRemoteCall
  BY ContractInit, ContractStep, RpcInvariantHolds, PTL DEF Spec, ImplementsRemoteCall, Contract!Spec
=============================================================================
