------------------------- MODULE ServiceConnection --------------------------
(***************************************************************************)
(* The proxies of back end services in the browser:                        *)
(* packages/core/src/browser/messaging/service-connection-provider.ts and  *)
(* packages/core/src/common/messaging/proxy-factory.ts.                    *)
(*                                                                         *)
(* A proxy waits for the channel of its path, which is opened on whatever  *)
(* main channel there is and opened again on the next.  Main channels come *)
(* from FrontendConnection, which closes them with their close event, or   *)
(* replaces them without it.  What an await continues with runs in the     *)
(* turn it is settled in and is part of that step.  Of ChannelMultiplexer  *)
(* and RpcProtocol the model has what they promise: an open() is answered  *)
(* while the main channel lasts, and a close rejects the pending requests. *)
(***************************************************************************)
EXTENDS Naturals, Sequences

CONSTANTS
    Path,       \* the paths of services, each with one proxy
    MaxMain     \* bound: the main channels there are

ASSUME ConnectionAssumption == MaxMain \in Nat

VARIABLES
    main,       \* what became of each main channel, the current one last
    ready,      \* channelReadyDeferred
    listen,     \* how far listen() of each path is
    pending,    \* the main channel on which the path's open() waits, 0 for none
    channel,    \* the main channel on which the path's channel is open, 0 for none
    rpc,        \* the main channel below the protocol rpcDeferred holds, 0 while it waits
    call        \* a call on the proxy of the path, and the main channel it was sent on

vars == <<main, ready, listen, pending, channel, rpc, call>>

Mains == 1 .. Len(main)
Call == [state : {"none", "waiting", "sent", "settled"}, on : 0 .. MaxMain]

TypeOK ==
    /\ main \in Seq({"open", "closed", "dropped"}) /\ Len(main) <= MaxMain
    /\ ready \in {"unresolved", "resolved"}
    /\ listen \in [Path -> {"uncalled", "waiting", "opening", "recorded"}]
    /\ pending \in [Path -> 0 .. MaxMain]
    /\ channel \in [Path -> 0 .. MaxMain]
    /\ rpc \in [Path -> 0 .. MaxMain]
    /\ call \in [Path -> Call]

Init ==
    /\ main = <<>>
    /\ ready = "unresolved"
    /\ listen = [p \in Path |-> "uncalled"]
    /\ pending = [p \in Path |-> 0]
    /\ channel = [p \in Path |-> 0]
    /\ rpc = [p \in Path |-> 0]
    /\ call = [p \in Path |-> [state |-> "none", on |-> 0]]

Connected == main # <<>> /\ main[Len(main)] = "open"

-----------------------------------------------------------------------------
(* The main channel *)

\* Mutant: the paths known from before are not opened again.
OpensOnce == {p \in Path : listen[p] = "waiting"}

\* What handleChannelCreated opens: the paths that waited for it, and those of
\* channelHandlers.
Opens == {p \in Path : listen[p] \in {"waiting", "recorded"}}

\* handleChannelCreated and the continuations of channelReady.  The new multiplexer
\* knows none of the paths.
Created(n) ==
    /\ ready' = "resolved"
    /\ pending' = [p \in Path |-> IF p \in Opens THEN n ELSE pending[p]]
    /\ listen' = [p \in Path |-> IF listen[p] = "waiting" THEN "opening" ELSE listen[p]]

MainChannelOpens ==
    /\ ~ Connected /\ Len(main) < MaxMain
    /\ main' = Append(main, "open")
    /\ Created(Len(main) + 1)
    /\ UNCHANGED <<channel, rpc, call>>

\* connectNewChannel with a channel that is still open: its listeners are disposed
\* of before the close event is fired, and none of them is told.
MainChannelReplaced ==
    /\ Connected /\ Len(main) < MaxMain
    /\ main' = Append([main EXCEPT ![Len(main)] = "dropped"], "open")
    /\ Created(Len(main) + 1)
    /\ UNCHANGED <<channel, rpc, call>>

\* Mutant: a factory keeps the protocol of the channel that closed.
KeepsProtocol(closed) == rpc

\* waitForConnection of the factories whose protocol's channel closed.
WaitForConnection(closed) == [p \in Path |-> IF p \in closed /\ rpc[p] = Len(main) THEN 0 ELSE rpc[p]]

\* The close event of the main channel: handleChannelClosed, and the multiplexer,
\* which closes the open channels and forgets the pending ones.  Each protocol
\* rejects its requests and its factory waits for the next.
MainChannelCloses ==
    /\ Connected
    /\ main' = [main EXCEPT ![Len(main)] = "closed"]
    /\ ready' = "unresolved"
    /\ LET closed == {p \in Path : channel[p] = Len(main)}
       IN /\ channel' = [p \in Path |-> IF p \in closed THEN 0 ELSE channel[p]]
          /\ rpc' = WaitForConnection(closed)
          /\ call' = [p \in Path |->
               IF p \in closed /\ call[p].state = "sent" /\ call[p].on = Len(main)
                 THEN [state |-> "settled", on |-> 0] ELSE call[p]]
    /\ UNCHANGED <<listen, pending>>

-----------------------------------------------------------------------------
(* Paths *)

\* createProxy, which listens on its path, up to its first await.
CreateProxy(p) ==
    /\ listen[p] = "uncalled"
    /\ listen' = [listen EXCEPT ![p] = IF ready = "resolved" THEN "opening" ELSE "waiting"]
    /\ pending' = [pending EXCEPT ![p] = IF ready = "resolved" THEN Len(main) ELSE @]
    /\ UNCHANGED <<main, ready, channel, rpc, call>>

\* The open() of the path is acknowledged: the handler has the factory listen on
\* the new channel, which sends the calls that waited, and listen() records the path.
\* rpcDeferred.resolve() has no effect on one that is resolved.
ChannelOpens(p) ==
    /\ Connected /\ pending[p] = Len(main)
    /\ pending' = [pending EXCEPT ![p] = 0]
    /\ channel' = [channel EXCEPT ![p] = Len(main)]
    /\ listen' = [listen EXCEPT ![p] = "recorded"]
    /\ IF rpc[p] = 0
         THEN /\ rpc' = [rpc EXCEPT ![p] = Len(main)]
              /\ call' = [call EXCEPT ![p] = IF @.state = "waiting"
                                               THEN [state |-> "sent", on |-> Len(main)] ELSE @]
         ELSE UNCHANGED <<rpc, call>>
    /\ UNCHANGED <<main, ready>>

\* A method of the proxy is called: at once or when there is a protocol.
CallMethod(p) ==
    /\ listen[p] # "uncalled" /\ call[p].state \in {"none", "settled"}
    /\ call' = [call EXCEPT ![p] = IF rpc[p] = 0 THEN [state |-> "waiting", on |-> 0]
                                                 ELSE [state |-> "sent", on |-> rpc[p]]]
    /\ UNCHANGED <<main, ready, listen, pending, channel, rpc>>

\* The reply arrives on the channel the path has now: the protocol of one before
\* it does not get it.
CallReplied(p) ==
    /\ call[p].state = "sent" /\ Connected
    /\ call[p].on = channel[p] /\ channel[p] = Len(main)
    /\ call' = [call EXCEPT ![p] = [state |-> "settled", on |-> 0]]
    /\ UNCHANGED <<main, ready, listen, pending, channel, rpc>>

-----------------------------------------------------------------------------
Next ==
    \/ MainChannelOpens \/ MainChannelReplaced \/ MainChannelCloses
    \/ \E p \in Path : CreateProxy(p) \/ ChannelOpens(p) \/ CallMethod(p) \/ CallReplied(p)

Spec == Init /\ [][Next]_vars

\* The multiplexer's promise, ChannelMultiplexer!OpenResolves.
FairSpec == Spec /\ \A p \in Path : WF_vars(ChannelOpens(p))

-----------------------------------------------------------------------------
(* Properties *)

\* The first open() of the path was pending on a main channel that is gone: it is
\* neither settled nor recorded, and nothing opens the path again.
Interrupted(p) == listen[p] = "opening" /\ pending[p] # Len(main)

\* The proxy holds the protocol of a channel that was replaced without a close event.
Stranded(p) == rpc[p] # 0 /\ main[rpc[p]] = "dropped"

\* Why NothingWaitsOnClosed holds.  Only the last main channel can be open; the
\* protocol and the calls of a proxy that are on it belong to the channel its path
\* has on it, the close of which they hear of; those on a main channel before it
\* are on one that was dropped.
Belongs(p, n) == main[n] = "dropped" \/ (main[n] = "open" /\ channel[p] = n)

OnlyLastIsOpen == \A n \in Mains : main[n] = "open" => n = Len(main)

ProxyBelongs(p) ==
    /\ listen[p] = "waiting" => ready = "unresolved"
    /\ rpc[p] # 0 => rpc[p] \in Mains /\ Belongs(p, rpc[p])
    /\ call[p].state = "sent" => call[p].on \in Mains /\ Belongs(p, call[p].on)

ConnectionInvariant ==
    /\ TypeOK
    /\ ready = "resolved" <=> Connected
    /\ OnlyLastIsOpen
    /\ \A p \in Path : ProxyBelongs(p)

\* No proxy keeps a protocol, and no caller waits for a reply, of a channel that
\* closed: whatever was pending or connected when it closed, its listeners ran.
NothingWaitsOnClosed ==
    \A p \in Path :
      /\ rpc[p] # 0 => main[rpc[p]] # "closed"
      /\ call[p].state = "sent" => main[call[p].on] # "closed"

\* "Wait for connection in case the backend reconnects": with a main channel that
\* stays, every proxy gets a protocol on it and no call is left waiting.  Proxies
\* that are Interrupted or Stranded do not.
ServiceReconnects ==
    \A p \in Path :
      (Connected /\ listen[p] # "uncalled" /\ ~ Interrupted(p) /\ ~ Stranded(p)) ~>
        \/ ~ Connected \/ Stranded(p) \/ Interrupted(p)
        \/ rpc[p] = Len(main) /\ call[p].state # "waiting"
=============================================================================
