---------------------------- MODULE RpcProtocol ----------------------------
(***************************************************************************)
(* The request/reply protocol of                                           *)
(* packages/core/src/common/message-rpc/rpc-protocol.ts.                   *)
(*                                                                         *)
(* An RpcProtocol object serves both directions of a channel, but the two  *)
(* directions share no state: the pending requests are keyed by the ids of *)
(* this side, the cancellation sources by the ids of the other.  One       *)
(* direction is modelled: a client that sends and a server that handles,   *)
(* each in a mode that handles the messages it receives (handleMessage     *)
(* drops the others with a warning).                                       *)
(*                                                                         *)
(* The client is one thread, and so is the server.  A channel may fire its *)
(* close event while a message is committed to it, so sendRequest is two   *)
(* steps: up to the commit, and the registration of the cancellation       *)
(* listener that follows.                                                  *)
(***************************************************************************)
EXTENDS Naturals, Sequences

CONSTANTS
    MaxId,              \* bound: how many message ids the client uses
    SendsAfterClose,    \* callers keep sending on a channel that closed
    RepliesGetLost      \* the error reply of a handler may fail to encode

ASSUME RpcAssumption == /\ MaxId \in Nat
                        /\ SendsAfterClose \in BOOLEAN
                        /\ RepliesGetLost \in BOOLEAN

Ids == 0 .. MaxId - 1
NoId == MaxId

VARIABLES
    \* the client's RpcProtocol object
    nextMessageId, pendingRequests,
    wrapper,        \* the DisposableWrapper of each request
    sending,        \* the request whose sendRequest is past its commit
    \* the client's callers
    promise, token,
    \* the server's RpcProtocol object and its request handlers
    cancellationTokenSources, handler, cancelled,
    \* the channel between them
    clientOpen, serverOpen, toServer, toClient

clientVars == <<nextMessageId, pendingRequests, wrapper, sending, promise, token>>
serverVars == <<cancellationTokenSources, handler, cancelled>>
linkVars == <<clientOpen, serverOpen, toServer, toClient>>
vars == <<clientVars, serverVars, linkVars>>

ToServerMessage == [type : {"Request", "Cancel", "Notification"}, id : Ids, addToken : BOOLEAN]
ToClientMessage == [type : {"Reply", "ReplyErr"}, id : Ids]

TypeOK ==
    /\ nextMessageId \in 0 .. MaxId
    /\ pendingRequests \subseteq Ids
    /\ wrapper \in [Ids -> {"none", "empty", "listening", "disposed"}]
    /\ sending \in 0 .. MaxId
    /\ promise \in [Ids -> {"none", "pending", "resolved", "rejected", "thrown"}]
    /\ token \in [Ids -> {"none", "live", "cancelled"}]
    /\ cancellationTokenSources \subseteq Ids
    /\ handler \in [Ids -> {"none", "running", "returned", "threw", "lost", "notified"}]
    /\ cancelled \subseteq Ids
    /\ clientOpen \in BOOLEAN
    /\ serverOpen \in BOOLEAN
    /\ toServer \in Seq(ToServerMessage)
    /\ toClient \in Seq(ToClientMessage)

Init ==
    /\ nextMessageId = 0
    /\ pendingRequests = {}
    /\ wrapper = [id \in Ids |-> "none"]
    /\ sending = NoId
    /\ promise = [id \in Ids |-> "none"]
    /\ token = [id \in Ids |-> "none"]
    /\ cancellationTokenSources = {}
    /\ handler = [id \in Ids |-> "none"]
    /\ cancelled = {}
    /\ clientOpen = TRUE
    /\ serverOpen = TRUE
    /\ toServer = <<>>
    /\ toClient = <<>>

-----------------------------------------------------------------------------
(* The channel: ordered and reliable while both ends are open.  What is    *)
(* written to a channel one of whose ends closed reaches nobody.           *)

Linked == clientOpen /\ serverOpen

WriteToServer(m) == toServer' = IF Linked THEN Append(toServer, m) ELSE toServer
WriteToClient(m) == toClient' = IF Linked THEN Append(toClient, m) ELSE toClient

CancelMessage(id) == [type |-> "Cancel", id |-> id, addToken |-> FALSE]

-----------------------------------------------------------------------------
(* The client *)

ClientIdle == sending = NoId

MaySend == /\ ClientIdle
           /\ nextMessageId < MaxId
           /\ clientOpen \/ SendsAfterClose

\* Mutant: the counter is not advanced.
RegisterUnderUsedId(id) ==
    /\ UNCHANGED nextMessageId
    /\ pendingRequests' = pendingRequests \union {id}
    /\ wrapper' = [wrapper EXCEPT ![id] = "empty"]

\* The common start of every sendRequest: the id is taken and the deferred and
\* the still empty wrapper are in their maps before anything is written.
RegisterRequest(id) ==
    /\ nextMessageId' = id + 1
    /\ pendingRequests' = pendingRequests \union {id}
    /\ wrapper' = [wrapper EXCEPT ![id] = "empty"]

\* sendRequest up to output.commit().  t is the caller's token: none, one that
\* may still be cancelled, or one already cancelled.
SendRequest(id, t) ==
    /\ MaySend
    /\ id = nextMessageId
    /\ RegisterRequest(id)
    /\ promise' = [promise EXCEPT ![id] = "pending"]
    /\ token' = [token EXCEPT ![id] = t]
    /\ sending' = id
    /\ WriteToServer([type |-> "Request", id |-> id, addToken |-> t # "none"])
    /\ UNCHANGED <<serverVars, clientOpen, serverOpen, toClient>>

\* Encoding or committing throws: the caller gets the exception, and what
\* RegisterRequest stored stays until the channel closes.
SendRequestThrows(id, t) ==
    /\ MaySend
    /\ id = nextMessageId
    /\ RegisterRequest(id)
    /\ promise' = [promise EXCEPT ![id] = "thrown"]
    /\ token' = [token EXCEPT ![id] = t]
    /\ UNCHANGED <<sending, serverVars, linkVars>>

\* Mutant: a token that is cancelled already is not looked at.
NeverRequested(id) == FALSE
IsCancellationRequested(id) == token[id] = "cancelled"

\* sendRequest after the commit.  A wrapper disposed in the meantime disposes
\* the listener it is given at once.
FinishSendRequest ==
    /\ ~ ClientIdle
    /\ sending' = NoId
    /\ IF IsCancellationRequested(sending)
         THEN WriteToServer(CancelMessage(sending)) /\ UNCHANGED wrapper
         ELSE /\ wrapper' = IF token[sending] = "live" /\ wrapper[sending] = "empty"
                              THEN [wrapper EXCEPT ![sending] = "listening"] ELSE wrapper
              /\ UNCHANGED toServer
    /\ UNCHANGED <<nextMessageId, pendingRequests, promise, token, serverVars,
                   clientOpen, serverOpen, toClient>>

\* sendNotification without a token; with one it is a sendRequest.
SendNotification(id) ==
    /\ MaySend
    /\ id = nextMessageId
    /\ nextMessageId' = id + 1
    /\ WriteToServer([type |-> "Notification", id |-> id, addToken |-> FALSE])
    /\ UNCHANGED <<pendingRequests, wrapper, sending, promise, token, serverVars,
                   clientOpen, serverOpen, toClient>>

\* The caller cancels its token; a registered listener runs sendCancel.
CancelToken(id) ==
    /\ ClientIdle
    /\ token[id] = "live"
    /\ token' = [token EXCEPT ![id] = "cancelled"]
    /\ IF wrapper[id] = "listening" THEN WriteToServer(CancelMessage(id)) ELSE UNCHANGED toServer
    /\ UNCHANGED <<nextMessageId, pendingRequests, wrapper, sending, promise, serverVars,
                   clientOpen, serverOpen, toClient>>

\* Mutant: replies are taken to arrive in the order of the requests.
OldestPending(m) == IF pendingRequests = {} THEN m.id
                    ELSE CHOOSE i \in pendingRequests : \A j \in pendingRequests : i <= j
RepliesTo(m) == m.id

\* Mutant: the listener of an answered request stays registered.
KeepCancellationEventListener(id) == UNCHANGED wrapper
DisposeCancellationEventListener(id) == wrapper' = [wrapper EXCEPT ![id] = "disposed"]

\* handleReply and handleReplyErr; an id that is not pending throws.
HandleReply ==
    /\ ClientIdle /\ clientOpen
    /\ toClient # <<>>
    /\ toClient' = Tail(toClient)
    /\ LET id == RepliesTo(Head(toClient)) IN
         IF id \in pendingRequests
           THEN /\ pendingRequests' = pendingRequests \ {id}
                /\ promise' = [promise EXCEPT ![id] =
                     IF Head(toClient).type = "Reply" THEN "resolved" ELSE "rejected"]
                /\ DisposeCancellationEventListener(id)
           ELSE UNCHANGED <<pendingRequests, promise, wrapper>>
    /\ UNCHANGED <<nextMessageId, sending, token, serverVars, clientOpen, serverOpen, toServer>>

\* Mutant: the pending requests are cleared and not rejected.
ForgetPending == UNCHANGED promise
RejectPending ==
    promise' = [id \in Ids |->
      IF id \in pendingRequests /\ promise[id] = "pending" THEN "rejected" ELSE promise[id]]

\* The channel fires onClose on the client's side, possibly during a commit.
ClientChannelClosed ==
    /\ clientOpen
    /\ clientOpen' = FALSE
    /\ RejectPending
    /\ pendingRequests' = {}
    /\ wrapper' = [id \in Ids |-> IF id \in pendingRequests THEN "disposed" ELSE wrapper[id]]
    /\ toClient' = <<>>
    /\ UNCHANGED <<nextMessageId, sending, token, serverVars, serverOpen, toServer>>

-----------------------------------------------------------------------------
(* The server *)

Receives(type) == serverOpen /\ toServer # <<>> /\ Head(toServer).type = type

HandleRequest ==
    /\ Receives("Request")
    /\ toServer' = Tail(toServer)
    /\ LET id == Head(toServer).id IN
         /\ handler' = [handler EXCEPT ![id] = "running"]
         /\ cancellationTokenSources' =
              IF Head(toServer).addToken THEN cancellationTokenSources \union {id}
                                         ELSE cancellationTokenSources
    /\ UNCHANGED <<cancelled, clientVars, clientOpen, serverOpen, toClient>>

HandleCancel ==
    /\ Receives("Cancel")
    /\ toServer' = Tail(toServer)
    /\ cancelled' = cancelled \union ({Head(toServer).id} \intersect cancellationTokenSources)
    /\ UNCHANGED <<cancellationTokenSources, handler, clientVars, clientOpen, serverOpen, toClient>>

HandleNotify ==
    /\ Receives("Notification")
    /\ toServer' = Tail(toServer)
    /\ handler' = [handler EXCEPT ![Head(toServer).id] = "notified"]
    /\ UNCHANGED <<cancellationTokenSources, cancelled, clientVars, clientOpen, serverOpen, toClient>>

\* Mutant: the source of an ended handler is kept.
KeepSource(id) == UNCHANGED cancellationTokenSources
DeleteSource(id) == cancellationTokenSources' = cancellationTokenSources \ {id}

\* The await of handleRequest returns and the result is sent.
HandlerReturns(id) ==
    /\ handler[id] = "running"
    /\ handler' = [handler EXCEPT ![id] = "returned"]
    /\ DeleteSource(id)
    /\ WriteToClient([type |-> "Reply", id |-> id])
    /\ UNCHANGED <<cancelled, clientVars, clientOpen, serverOpen, toServer>>

\* The handler throws, or its result cannot be encoded: the error is sent.
HandlerThrows(id) ==
    /\ handler[id] = "running"
    /\ handler' = [handler EXCEPT ![id] = "threw"]
    /\ DeleteSource(id)
    /\ WriteToClient([type |-> "ReplyErr", id |-> id])
    /\ UNCHANGED <<cancelled, clientVars, clientOpen, serverOpen, toServer>>

\* The error cannot be encoded either: the catch block itself throws and
\* nothing is sent.
ReplyErrThrows(id) ==
    /\ RepliesGetLost
    /\ handler[id] = "running"
    /\ handler' = [handler EXCEPT ![id] = "lost"]
    /\ DeleteSource(id)
    /\ UNCHANGED <<cancelled, clientVars, linkVars>>

\* The channel fires onClose on the server's side.  Running handlers go on.
ServerChannelClosed ==
    /\ serverOpen
    /\ serverOpen' = FALSE
    /\ toServer' = <<>>
    /\ UNCHANGED <<clientVars, serverVars, clientOpen, toClient>>

-----------------------------------------------------------------------------
TokenStates == {"none", "live", "cancelled"}

Next ==
    \/ \E id \in Ids, t \in TokenStates : SendRequest(id, t) \/ SendRequestThrows(id, t)
    \/ \E id \in Ids : SendNotification(id) \/ CancelToken(id)
    \/ FinishSendRequest \/ HandleReply \/ ClientChannelClosed
    \/ HandleRequest \/ HandleCancel \/ HandleNotify
    \/ \E id \in Ids : HandlerReturns(id) \/ HandlerThrows(id) \/ ReplyErrThrows(id)
    \/ ServerChannelClosed

Spec == Init /\ [][Next]_vars

\* The event loops run what is queued on them, and an end whose peer closed is
\* told so in the end.
LinkFairness ==
    /\ WF_vars(FinishSendRequest) /\ WF_vars(HandleReply)
    /\ WF_vars(HandleRequest) /\ WF_vars(HandleCancel) /\ WF_vars(HandleNotify)
    /\ WF_vars(ClientChannelClosed /\ ~ serverOpen)
    /\ WF_vars(ServerChannelClosed /\ ~ clientOpen)

FairSpec == Spec /\ LinkFairness

-----------------------------------------------------------------------------
(* Properties *)

\* A reply finds its request pending: the throw of handleReply and
\* handleReplyErr is not reached while the channel is open.
ReplyExpected ==
    clientOpen /\ toClient # <<>> => Head(toClient).id \in pendingRequests

\* Wrappers are kept for exactly the pending requests: neither a reply nor a
\* close leaves a cancellation listener behind or drops one too early.
ListenersMatchPending ==
    {id \in Ids : wrapper[id] \in {"empty", "listening"}} = pendingRequests

\* A promise settles as its own handler ended, whatever the order in which
\* handlers finish; only a closed channel rejects a request that did not fail.
SettledByOutcome ==
    \A id \in Ids :
      /\ promise[id] = "resolved" => handler[id] = "returned"
      /\ promise[id] = "rejected" /\ clientOpen => handler[id] = "threw"

\* The server cancels only what its caller cancelled, and keeps a source for
\* exactly the running handlers that were given a token.
CancelOnlyOnDemand ==
    /\ \A id \in cancelled : token[id] = "cancelled"
    /\ cancellationTokenSources = {id \in Ids : handler[id] = "running" /\ token[id] # "none"}

\* A Cancel is written for a request that is still pending, or by the very
\* sendRequest that found its token cancelled: a late cancellation of a settled
\* request writes nothing.
NoCancelAfterSettled ==
    [][\A id \in Ids :
         /\ Len(toServer') > Len(toServer)
         /\ toServer'[Len(toServer')] = CancelMessage(id)
         => promise[id] = "pending" \/ sending = id]_vars

\* The promise of a request made while the channel is open is resolved or rejected,
\* be it by the close: it waits for ever only for a handler that runs for ever, or
\* one the error of which did not encode.
RequestSettles ==
    \A id \in Ids :
      clientOpen /\ promise[id] = "pending" /\ handler[id] \notin {"running", "lost"}
        ~> promise[id] \in {"resolved", "rejected"} \/ handler[id] \in {"running", "lost"}

\* A cancellation reaches the handler it is for, unless the handler ends first
\* or the channel closes.
CancelReaches ==
    \A id \in Ids :
      token[id] = "cancelled" /\ promise[id] = "pending" /\ handler[id] = "running"
        ~> id \in cancelled \/ handler[id] # "running" \/ ~ Linked
-----------------------------------------------------------------------------
(* RemoteCall is what the protocol implements *)

Contract == INSTANCE RemoteCall WITH Calls <- Ids, connected <- clientOpen

\* Every behaviour of the protocol is one of RemoteCall: a request is handled
\* at most once and its promise settles once, as its handler ended.
ImplementsRemoteCall == Contract!Spec

-----------------------------------------------------------------------------
(* Why the invariants hold: what is true of the messages in flight *)

UnusedIds ==
    \A id \in Ids : id >= nextMessageId =>
      /\ promise[id] = "none" /\ token[id] = "none" /\ wrapper[id] = "none"
      /\ handler[id] = "none" /\ id \notin cancelled

MatchesServer(m) ==
    /\ m.id < nextMessageId
    /\ m.type = "Cancel" => token[m.id] = "cancelled"
    /\ m.type = "Request" =>
         /\ handler[m.id] = "none"
         /\ promise[m.id] \in IF clientOpen THEN {"pending"} ELSE {"pending", "rejected"}
         /\ m.addToken = (token[m.id] # "none")
    /\ m.type = "Notification" => handler[m.id] = "none" /\ promise[m.id] = "none"

ToServerMatches == \A i \in 1 .. Len(toServer) : MatchesServer(toServer[i])

HandledOnce ==
    \A i, j \in 1 .. Len(toServer) :
      i # j /\ toServer[i].type # "Cancel" /\ toServer[j].type # "Cancel"
        => toServer[i].id # toServer[j].id

MatchesClient(m) ==
    /\ handler[m.id] = IF m.type = "Reply" THEN "returned" ELSE "threw"
    /\ promise[m.id] = "pending"
    /\ clientOpen

ToClientMatches == \A i \in 1 .. Len(toClient) : MatchesClient(toClient[i])

RepliedOnce ==
    \A i, j \in 1 .. Len(toClient) : i # j => toClient[i].id # toClient[j].id

RunningIsAwaited ==
    \A id \in Ids : handler[id] = "running" =>
      promise[id] \in IF clientOpen THEN {"pending"} ELSE {"pending", "rejected"}

PendingIsAwaited ==
    \A id \in Ids :
      /\ promise[id] = "pending" => id \in pendingRequests
      /\ id \in pendingRequests => promise[id] \in {"pending", "thrown"}
      /\ wrapper[id] = "listening" => promise[id] = "pending"
      /\ sending = id => promise[id] \in {"pending", "rejected"}

\* The inductive invariant.
RpcInvariant ==
    /\ TypeOK
    /\ UnusedIds /\ ToServerMatches /\ HandledOnce
    /\ ToClientMatches /\ RepliedOnce
    /\ RunningIsAwaited /\ PendingIsAwaited
    /\ ListenersMatchPending /\ SettledByOutcome /\ CancelOnlyOnDemand
=============================================================================
