# Verification of openclaude-ide

TLA+ models, model-checking runs and machine-checked proofs for the parts of
openclaude-ide (an IDE derived from Eclipse Theia) whose correctness depends on
order, failure and concurrency. Paths below are relative to the repository;
`core` stands for `packages/core/src`, `ai-swarm` for `packages/ai-swarm/src`.

Contents: [parts of the system](#parts-of-the-system) ·
[modules](#modules-and-the-code-they-stand-for) ·
[runs](#runs) · [fairness](#fairness) · [divergences](#where-code-and-comments-disagree) ·
[proofs](#proofs) · [limits](#what-is-not-modelled) · [plan](#plan)

## Parts of the system

The program is a front end (browser or Electron window) and a back end (node)
that call each other's services over one connection per front end, and a large
set of IDE features on top. Most of the ~4300 files are user interface, wrappers
of third-party libraries and generated or vendored code. The program's own
control logic is in these parts; the first nine are modelled.

| part | state it keeps | operations | hard behaviour |
|---|---|---|---|
| **RPC protocol** `core/common/message-rpc/rpc-protocol.ts` | `nextMessageId`, `pendingRequests`, cancellation listeners, `cancellationTokenSources` | sendRequest, sendNotification, handlers of Request, Reply, ReplyErr, Cancel, Notification, close of the channel | handlers finish out of order; cancellation races reply and close; the close fires during a commit; encoding fails half-way |
| **Channel multiplexer** `core/common/message-rpc/channel.ts` | `pendingOpen`, `openChannels` of each end | open, close, data, handlers of Open, AckOpen, Close, Data, close of the channel below | both sides open or close one id at a time; ids are reused; messages cross |
| **Front end connection, browser** `core/browser/messaging/ws-connection-source.ts` | current channel, negotiation listeners, write buffer | connect, disconnect, RECONNECT and INITIAL_CONNECT, write | the socket goes at any point of the negotiation |
| **Front end connection, node** `core/node/messaging/websocket-frontend-connection-service.ts` | `connectionsByFrontend`, `closeTimeouts`, `channelsMarkedForClose`, a reconnectable channel per front end | the same messages, disconnect, close timeout, markForClose | a timer races a reconnect; a disconnect is noticed late |
| **Swarm task board** `ai-swarm/node/task-board-service.ts` | tasks, columns, `blockedBy` and `blocks` | create, update, delete, assign, unassign, complete, fail, add and remove dependency | redundant records; a check before an await and the write after it |
| **Swarm session and orchestration** `ai-swarm/node/{swarm-session-manager,lead-agent-orchestrator,swarm-service-impl,sub-agent-manager}.ts` | session status, running loops, agents | start, pause, resume, cancel, delete, the phases of the loop, calls about tasks and agents | pause and resume during an await of the loop; two records of who works on what |
| **Service connections** `core/browser/messaging/service-connection-provider.ts`, `core/common/messaging/proxy-factory.ts` | channel handlers, deferred RPC protocols | open a service, reconnect | a channel that closes before its first open resolves |
| **Binary framing** `core/node/messaging/binary-message-pipe.ts` | the partial message | handleChunk, send | chunk borders anywhere |
| **Terminal output buffer** `packages/process/src/node/multi-ring-buffer.ts` | the bytes, `head`, `tail`, a position per reader | enq, getStream, _read, dispose | writes overtake slow readers; positions wrap |
| Plugin host RPC `packages/plugin-ext/src/common/rpc-protocol.ts` | batch of messages, open proxies | send in batches, dispose | a batch that outlives its channel |
| Swarm mailbox and persistence | inboxes; files on disk | send, read; save, restore | state changes while a file is written |

The other components (chat, language models, editors, debug, tasks, terminals,
files, collaboration, ...) are listed in `PROJECT.json` with the reason each is
left out: mostly data, I/O or third-party code.

How the parts interact, from the bottom up: socket.io gives the browser and node
sides a sequence of sockets. `FrontendConnection`'s two sides make of them one
channel that survives lost sockets while the context of the front end lives. A
`ChannelMultiplexer` on each end splits that channel into one per service path
by Open, AckOpen, Data and Close messages. On each of those, an `RpcProtocol` on
either end makes calls to a remote object. When a channel closes, everything
above it must learn of it: the multiplexer closes its channels, and each RPC
protocol rejects what is pending. The swarm services are reached through that
stack; inside the back end, the orchestrator drives the task board by direct
calls.

What makes each part correct:

- *RPC protocol*: each request is handled at most once and settled once, by the
  reply of its own handler or the close of the channel; a cancellation reaches
  the handler it is for and no other; nothing is left registered afterwards.
- *Multiplexer*: both ends agree on what is open; a channel object that its
  owner believes open gets what is sent to it and is told of its end; nothing
  goes to a channel of the same id that was opened later.
- *Front end connection*: one context per front end; no timer closes one that is
  in use; what is written arrives in order in its own context; when losses stop
  the two sides end up connected.
- *Service connections*: no proxy keeps the protocol of a channel that closed, no
  caller is left waiting on one, and after a reconnect every proxy works again.
- *Framing*: what arrives is what was sent, however the stream was cut.
- *Terminal output buffer*: it holds the latest output, and a stream reads it once and in
  order, from the oldest byte that is left.
- *Swarm session*: one loop drives it, and drives it until it ends; the agents'
  record of their tasks agrees with the board's record of its agents.
- *Task board*: status, column and dependency records agree; tasks do not wait
  for one another in a circle; a task whose dependencies are complete is
  released.

`PROJECT.json` lists the hazards of this code, each at its line, with the
properties that watch it. Those without a property say why.

## Modules and the code they stand for

`PROJECT.json` maps each definition to its lines. In outline:

**`RpcProtocol`** models one direction of an `RpcProtocol` pair. The two
directions share no state, so a client (`sendRequest`, `sendNotification`,
`handleReply`, `handleReplyErr`, close) and a server (`handleRequest`,
`handleNotify`, the Cancel branch of `handleMessage`) suffice. `promise`,
`token` and `handler` are the view of the callers and the service objects; the
other variables are the fields of the class and the channel. A `sendRequest`
with a token is two steps, up to `output.commit()` and the registration of the
listener after it, because a channel may fire its close event within the commit.
Encoding may throw before a request is committed (`SendRequestThrows`), when a
result is sent (then the error is sent: `HandlerThrows`) and when that error is
sent (`ReplyErrThrows`).

**`RemoteCall`** is the abstract specification: calls, handlers and promises
with no messages and no ids. `RpcProtocol` implements it by the mapping
`Calls <- Ids, connected <- clientOpen`; `promise` and `handler` map to
themselves.

**`ChannelMultiplexer`** models both ends and the ordered link between them.
`openChannels[e][id]` holds the *number* of a `ForwardingChannel` object: each
`open()` takes the next number and the objects created for it on both ends carry
it. The code sends ids only. Numbers are what lets a property say "data of the
old channel"; no guard reads them. Who opens which id is the constant `MayOpen`.
An owner does not call `close()` on a channel it was told is closed, which the
users of channels in the repository do not.

**`ChannelPair`** is its abstract specification, what the owners of channels are
promised: an `open()` makes one object at either end, at most one pair of an id at a
time, its promise resolves to its own object, and an object is told of its end only
because its counterpart was closed or the channel below was. It has no messages and no
tables. `ChannelMultiplexer` implements it with `alive`, `request`, `channel` and
`resolvedTo` mapped to themselves, as long as no id is opened by both ends.

**`FrontendConnection`** models the browser's and the node side for one front end
id, the sockets between them, and what is written above. Each side notices a lost
socket in a step of its own (`ClientSocketLost`, `ServerSocketLost`). socket.io's
Socket and Server are external: an ordered pipe per connect, emits made while
not connected are sent on the next connect, and 'disconnect' is reported once
per side. `clientState`, `contextOf`, `closedNothing` and `hasty` are read by
properties only. The state `"dropped"` is the channel that `connectNewChannel`
replaced: it is closed before its close event is fired, so its holders are not
told.

**`TaskBoard`** models `TaskBoardServiceImpl` on one session. Operations of
different turns do not interleave, since everything they await is settled within
the turn; `addDependency` is nevertheless two steps, `CheckDependency` and
`WriteDependency`, so that several calls of one turn (`SameTurn`) can be
examined. `wouldCreateCycle`, a depth-first search, is defined by what it
decides: whether the task lies in every set that contains the new dependency and
is closed under `blockedBy`. `Update` and `Becomes` are `moveTaskBetweenColumns`
with the assignments around it.

**`SwarmOrchestration`** composes a session, its orchestration loop and its agents
with `TaskBoard`, which it instantiates: every change of a task is one of
`TaskBoard`'s actions. The state object of an orchestration (`isRunning`,
`isPaused`, `loopHandle`) is an element of `objects`, and `current` the one in
`orchestrationStates`. All awaits but one settle in the turn they begin in, so that
an iteration of the loop is one step (`Loop`, with an operator per phase). The
exception is the language model: `PlanningPhase` ends at its await and
`PlanningAnswered` is the rest, with any number of the client's calls between.
`MovesTo` is `transitionStatus` over the table of `isValidTransition`, `Throws` the
catch block of the loop. An id no task and no agent has any more stands for a new
one, so that agents can be spawned again and again with few ids.

**`ServiceConnection`** models `ServiceConnectionProvider` and `RpcProxyFactory` in
the browser. Main channels open, close with their close event, or are replaced
without it, as `FrontendConnection` does; `pending` and `channel` are what the
multiplexer knows of a path, and of the multiplexer the model has only what
`ChannelMultiplexer` is shown to promise: an `open()` is answered while the main
channel lasts, and a close closes what is open and forgets what is pending. A close
rejects the calls of its protocol, `RpcProtocol`'s `RequestSettles`.

**`MessageFraming`** models `BinaryMessagePipe`: a byte is the number of its message
and its place in it, so that "the identifier is there" is "the places are the first
ones of one message". `handleNewMessage` calls itself with what is left of the chunk;
each of these calls is a step (`HandleRest`, on `rest`), between which the listeners of
`onMessage` run and may send. No chunk is handled before the last of them.

**`MultiRingBuffer`** models the buffer between a terminal's process and the streams of
its clients. A byte is its number in the output, so that "the latest, without a gap"
is arithmetic. `Enq` is `enq` with all it calls: the tail, the readers' positions, and
the streams it hands the data to at once (`more`). Node's streams are external:
`_read` is called at any time, with the high water mark, and `push` may ask for more
or not. `got`, `behind` and `cut` are read by properties only.

The `MC...` modules give constants their values; `RpcProtocolProofs`,
`ChannelMultiplexerProofs`, `FrontendConnectionProofs`, `ServiceConnectionProofs`,
`TaskBoardProofs`, `SwarmOrchestrationProofs`, `MessageFramingProofs` and
`MultiRingBufferProofs` hold the theorems. No module has a RECURSIVE operator.

## Runs

Every passing run explores all states within its bounds. Those of modules with
theorems check the inductive invariant of the proof as well, so that TLC and the
prover speak of one formula. `CHECK_DEADLOCK FALSE`
is set throughout: a closed channel, a front end that stays away and a finished
board really do nothing more, and the bounds on ids, opens and losses end every
behaviour.

| run | question | bounds, and why they are enough |
|---|---|---|
| `rpc` | Do ids, listeners, sources and promises stay consistent in every interleaving, is `RemoteCall` implemented, does each request settle and each cancellation arrive? | 3 messages: two requests and one more between them give every reordering of replies and every reuse that a wrong id could cause. Calls after the close and lost replies are included. |
| `mux` | Do the ends agree, is nothing routed to a later channel of the same id, is `ChannelPair` implemented, does each `open()` resolve and each close become known? | 2 ids, each opened by one end, 3 opens: an id can be opened, closed and opened again while the other id does the same. Data is written while fewer than 2 messages are on the link, so that data, Close and Open of one id can be in flight at once. |
| `mux_simultaneous` | What does the code's edge case do when both ends open one id? | 1 id, 2 opens |
| `connection` | Contexts, timers, where and in which order data arrives; do both sides end up connected when losses stop? | 2 losses (lose, reconnect, lose during the negotiation, reconnect again), 6 channels, 2 messages per side (order needs two). Timeout positive, the case with timers. The inductive `ConnectionInvariant` is checked too; it and all safety properties are proved for any number of losses. |
| `connection_buffered` | Does a socket message hold one message? (no) | 1 loss, 2 messages |
| `board` | Records agree, no circles, ready tasks have no agent, nobody is forgotten. | 3 tasks (a circle through a third task), 1 agent, 2 attempts (one retry, one failure). Callers set `in_progress` and `cancelled` by hand. Symmetric in the tasks. |
| `swarm` | One loop that goes on, agents and board that agree, a board that stays sound under the loop, no tasks that wait for each other for ever, and an end? | 2 tasks and 1 agent at a time, so that one task is left without; 2 attempts; 2 starts and 1 pause, the least that make two loops possible (`OneLoop` and `LoopIsAlive` are proved for any number). Callers set `review` by hand, which is what `resumeSwarm` and the reviewing phase look at. |
| `swarm_back_to_delegating` | Does the executing phase go back to delegating? (no) | 2 tasks, 1 agent, no pause |
| `services` | Is anything left on a channel that closed, and does every proxy reconnect? | 2 paths, 4 main channels: open, replace, close and open again, with the paths at different stages |
| `framing` | Is what arrives what was sent, while messages are written between the calls of `handleNewMessage`? | 3 messages of 0 to 3 bytes, starts of 3 bytes: a chunk can hold the end of one message, a whole one and a part of a third |
| `framing_cut` | The same when a chunk may end within a message start. (no) | as above |
| `ring` | Does the buffer hold the latest output, and does a stream that keeps up get all of it? | 5 bytes, writes of 1 to 6 (one is larger than the buffer), 13 bytes in all, which goes round the buffer twice at every offset; 2 streams; reads of at most 3, so that a read ends before, at and past the end of the buffer |

What the properties say is written above each of them in its module. The ones
that carry most:

- `RemoteCall` is implemented (`ImplementsRemoteCall`), together with
  `SettledByOutcome`: no reply is handed to another request, whatever order
  handlers finish in, and nothing settles twice.
- `ListenersMatchPending` and `NoCancelAfterSettled`: cancellation listeners
  live exactly as long as their request, even when the channel closes during the
  commit that precedes their registration.
- `ChannelPair` is implemented (`ImplementsChannelPair`): the pairs of objects, their
  promises and their ends never get mixed up, whatever is in flight of older ones.
- `OpensAreExpected`, `MessagesStayInTheirChannel` and `AgreeWhenQuiet`: routing by id alone is right because the link is ordered and
  only one end opens an id.
- `TimerWaitsForDisconnected` and `OneContext`: no close timeout outlives the
  reconnect it races.
- `DataReachesItsContext` and `DeliveredInOrder`: buffers on both sides and a
  renegotiated context never mix.
- `NobodyIsForgotten` and `DependenciesMirror`: a task is released by the step
  that completes or removes the last thing it waits for.
- `OneLoop` and `LoopIsAlive`: whatever is called while the language model is
  awaited, a session has neither two loops nor none.
- `WorkingAgentHasItsTask`: two services each keep a record of who works on what,
  and every call changes them one after the other.
- `NothingWaitsOnClosed` and `ServiceReconnects`: what the layers below promise is
  enough for proxies to survive any number of reconnects, but for two cases that
  are named (`Interrupted`, `Stranded`).
- `UnreadIsNext`: over any number of turns round the buffer a stream neither loses nor
  repeats a byte, but in the two cases that are named (`behind` and `cut`).
- `NoReadyTaskIsPassedOver` and `SomethingGoesOn`: the phases of the loop look at
  tasks by their status and never at `blockedBy` or `assignedTo`; that this is enough
  rests on every call keeping the board's records in step. The first follows from
  `SwarmInvariant`; the second is checked by itself too. Both are proved.
- `ExtractsMessages`: reassembly is right for every way of cutting the stream
  outside message starts.

For each property of a passing run, `PROJECT.json` names a mutant, a plausible
bug in one definition, under which the same run fails. They are the definitions
marked "Mutant" in the modules.

## Fairness

Only what the event loops and socket.io justify is fair; callers, timers,
losses, writes and handlers are free to do nothing for ever.

- `RpcProtocol!LinkFairness`: a step that is queued on an event loop is run
  (weak fairness of each message handler and of the rest of a `sendRequest`), and
  the end whose peer closed is told. Request handlers are *not* fair: they may
  run for ever, so `RequestSettles` speaks of requests whose handler is not
  running.
- `ChannelMultiplexer!FairSpec`: received messages are handled, and a close of
  the channel below on one end reaches the other.
- `FrontendConnection!FairSpec`: socket.io reconnects without end
  (`ws-connection-source.ts:205-208`), messages on a socket that both sides hold
  arrive, and each side notices what the other has lost.

- `SwarmOrchestration!Fairness`: timers that are set fire, and the language model
  answers or its request fails. Clients and agents need never do anything, which is
  why `EndsWhenTasksEnd` speaks of sessions whose tasks have ended.
- `ServiceConnection!FairSpec`: `ChannelMultiplexer`'s promise that an `open()` is
  answered while the channel below lasts. Main channels need not come back:
  `ServiceReconnects` speaks of one that stays.

## Where code and comments disagree

Four runs state what a comment says, and find a behaviour of the code that
contradicts it; `PROJECT.json` quotes the lines.

1. `mux_simultaneous`: the edge case of both sides opening one id resolves the
   promise with one channel and routes messages to another one.
2. `connection_buffered`: a read buffer is "for single message read", and `flush`
   sends all buffered messages as one; the receiver reads the first.
3. `swarm_back_to_delegating`: "go back to delegating". The transition table does
   not have that transition; the loop's error handler fails the session. It takes
   no more than two ready tasks and room for one agent.
4. `framing_cut`: "makes it possible to extract messages from the streamed data". A
   message start that is cut by a chunk border loses messages.

Other behaviours that a maintainer may want to know of are in the properties'
exceptions: an error reply that cannot be encoded is never sent (`RequestSettles`);
with late disconnects the node side can close a context in use (`FrontendConnection`,
`LateDisconnect`); two `addDependency` calls of one turn can close a cycle
(`TaskBoard`, `SameTurn`); a path whose first `open()` was pending when the channel
closed is not opened again, and a proxy whose channel was replaced keeps the old
protocol (`ServiceConnection`, `Interrupted` and `Stranded`); a session whose
language model answers while it is paused cannot be resumed (`SwarmOrchestration`,
`OrchestrationPaused`); a second loss that takes the answer to INITIAL_CONNECT can
leave the two sides on different contexts (`FrontendConnection`, `AnswerWasLost`).
`MultiRingBuffer` has two: `enq` compares the streams' positions with the tail that
has moved, so a slow stream can skip output the buffer still holds, or go back to the
tail and repeat some (`behind`); and a read of a part of data that wraps returns
everything up to the end of the buffer, and the next read returns some of it again,
which is how a client reads that connects to a terminal with more than 1 MB of
output (`cut`).

## Proofs

`RpcProtocolProofs` proves, for every `MaxId` and both values of the other
constants (`RpcAssumption` is the only assumption):

| theorem | property |
|---|---|
| `RpcInvariantHolds` | `RpcInvariant`, the inductive invariant |
| `TypeCorrect` | `TypeOK`, a part of `RpcInvariant` |
| `RepliesAreExpected` | `ReplyExpected`, which follows from it |
| `ListenersAlwaysMatch` | `ListenersMatchPending` |
| `SettlesByOutcome` | `SettledByOutcome` |
| `CancelsOnDemand` | `CancelOnlyOnDemand` |
| `LateCancelIsSilent` | `NoCancelAfterSettled` (an action property) |
| `RpcImplementsRemoteCall` | `ImplementsRemoteCall` (refinement) |

None of the safety properties is inductive: each depends on what is in flight.
`RpcInvariant` adds to them

- `UnusedIds`: ids the counter has not reached occur nowhere;
- `ToServerMatches`, `HandledOnce`: a Request in flight has not been handled and
  is still awaited, carries a token flag iff its caller gave one, and is the only
  one with its id; a Cancel in flight was asked for;
- `ToClientMatches`, `RepliedOnce`: a reply in flight is the only one for its id,
  its handler ended as it says, and its promise is pending;
- `RunningIsAwaited`, `PendingIsAwaited`: a running handler's promise and the
  client's maps agree, even for a `sendRequest` that threw or has not finished.

The proof has one lemma per action. What writing to the channel, taking its head
and dropping it do to the messages in flight is proved once, in six lemmas
(`AfterWriteToServer` ... `AfterKeepingClient`) that every action's lemma cites
with the two or three facts special to it. `CancelStep` and `ContractStep` derive
the action property and the refinement from the invariant. The run `rpc` checks
`RpcInvariant` itself.

`ChannelMultiplexerProofs` proves, for every `Id`, `MayOpen`, `MaxOpens` and
`MaxLink`, under `MultiplexerAssumption` and `OneOpens` (no id is opened by both
ends; the run `mux_simultaneous` shows what happens otherwise):

| theorem | property |
|---|---|
| `MultiplexerInvariantHolds` | `MultiplexerInvariant`, the inductive invariant |
| `MultiplexerTypeCorrect` | `TypeOK` |
| `OpenChannelAlwaysRouted` | `OpenChannelIsRouted`, a part of the invariant |
| `OpensAreAlwaysExpected` | `OpensAreExpected` |
| `MessagesAlwaysStayInTheirChannel` | `MessagesStayInTheirChannel` |
| `EndsAgreeWhenQuiet` | `AgreeWhenQuiet` |
| `MultiplexerImplementsChannelPair` | `ImplementsChannelPair` (refinement) |
| `ResolvedAlwaysRouted` | `ResolvedChannelIsRouted`, which fails in `mux_simultaneous` |

The code tells channels apart by id only, and ids are used again. What tells a
message of an older channel from one of a younger channel is the order of the
link, so the invariant is mostly about that order: `LinkMatches` (what each kind of
message in flight says of its two ends), `LinkOrdered` (messages of an id come in
the order of their `open()`, and the older channel is closed before the younger
one appears), `LinkAhead` (the same between a message and what its receiver
holds), `OpenerHasYoungest`, `OtherHasYoungest`, `OtherHasIt`, `OldAreClosed`
(which of the channels of an id an end can hold), `HandshakeGoesOn` (an unanswered
`open()` has its Open or its AckOpen in flight) and `EntriesMatch` (the two maps
agree with the channel objects). What writing to a link, taking its head and
leaving it alone do to each of these is proved once, in the lemmas that end in
`WhenWrote`, `WhenTook` and `WhenKept`, and there is one lemma per action.
`PromisesMatch` says what each `open()` has resolved to, and that it is pending before.
`OpenCreates`, `AckOpenCreates` and `CloseTells` say what each message does to the pair
it belongs to, from which the refinement follows step by step (`ContractStep`). The run
`mux` checks `MultiplexerInvariant` itself.

`FrontendConnectionProofs`, from `ConnectionAssumption`, for any number of losses,
channels and messages and each `Timeout`:

| theorem | property |
|---|---|
| `FrontendInvariantHolds` | `FrontendInvariant`, the inductive invariant |
| `FrontendTypeCorrect` | `TypeOK` |
| `AlwaysOneContext` | `OneContext`, whether or not losses are noticed late |
| `ConnectionInvariantHolds` | `ConnectionInvariant`: `FrontendInvariant` and, unless losses are noticed late, the two invariants below |
| `TimersWait` | `TimerWaitsForDisconnected`, when `LateDisconnect` is FALSE |
| `CloseAlwaysFindsConnection` | `CloseFindsConnection`, when `LateDisconnect` is FALSE |

`OneContext` is inductive. The other two are not: that a timer waits for a context
without a socket depends on which context a socket will report its loss to.
`BoundToConnection` says it is the one in the map, which is on that socket, and
`SocketsTakeTurns`, where `LateDisconnect` enters, that no other socket can report.

The second and third part of the module are about data, when `LateDisconnect` is FALSE,
as in the run:

| theorem | property |
|---|---|
| `DataInvariantHolds` | `DataInvariant`, inductive together with `FrontendInvariant` |
| `DataAlwaysReachesItsContext` | `DataReachesItsContext` |
| `OrderInvariantHolds` | `OrderInvariant`, inductive together with those two |
| `DataAlwaysArrivesInOrder` | `DeliveredInOrder` |

A message names no context: it arrives at whatever channel its socket is bound to.
`DataInvariant` says why that is the one it was written to. `NewestOnly`: only the
newest socket and the newest channel are up or open. `ContextsKeepSockets`: a socket
stays with the context it was bound to. `OpenForConnection`: an open channel belongs
to the context in the map and to that of its socket, and no INITIAL_CONNECT that could
create another is on its way. `DownMatches`, `UpMatches` and `BufferMatches`: what is
on a socket or in the browser's buffer was written by one of its two ends, or by a
channel that was dropped. TLC checked each of these with 3 losses and 7 channels
before it was proved.

That nothing arrives out of order follows from where each side may have put what it
wrote: numbered in the order of writing, what was read comes before what is on a
socket, on each socket the older comes first, and what is on a socket comes before what
is buffered (`UpInOrder`, `DownInOrder`). A write must therefore not overtake the
buffer. `BuffersWait` says why it does not: a side has something buffered only while it
has no socket, or while the front end awaits the answer to RECONNECT. What the front
end writes directly in that time does overtake, and is the exception the property names
(`hasty`). `LostWithSocket` and `ContextsHaveSockets` say that a socket the node side lost
delivers nothing later, and which buffers can still be flushed. TLC checked
`OrderInvariant` with 2 losses, 6 channels and up to 4 messages, and without timers
with 3 losses and 7 channels, before it was proved.

`ServiceConnectionProofs`, from `ConnectionAssumption`, proves `ConnectionInvariant`
(`ConnectionInvariantHolds`: the promise of the connection is resolved exactly while
there is one, only the last main channel is open, and each proxy's protocol and call
are on the channel its path has on the open main channel, or on a main channel that
was replaced)
and `NothingWaitsOnClosed` (`NothingIsLeftWaiting`). The run `services` checks both.

`TaskBoardProofs`, from `BoardAssumption` and `NobodyAssumption`:

| theorem | property |
|---|---|
| `BoardInvariantHolds` | `BoardInvariant`, the inductive invariant |
| `BoardTypeCorrect` | `TypeOK` |
| `BoardAlwaysAgrees` | `BoardAgrees`, a part of the invariant |
| `DependenciesAlwaysMirror` | `DependenciesMirror` |
| `NoCycles` | `Acyclic`, when `SameTurn` is FALSE |
| `ReadyTasksAreUnassigned` | `ReadyIsUnassigned`, when callers set no status a waiting task has |
| `NobodyIsEverForgotten` | `NobodyIsForgotten`, when callers set no task pending or complete |

`BoardInvariant` adds `DependenciesAreUsed` (nothing waits for a task that was never
created) and `CheckHolds` (what `addDependency` has found out still holds when it
writes, which is where `SameTurn` enters). A circle is stated as a set each of whose
members waits for another one of it. The run `board` checks `BoardInvariant`. The code's search decides that a closed set
holds the new dependency and not the task; that set splits every circle the new edge
could close, so that no induction over paths is needed. `ReadyTasksAreUnassigned`
needs the stronger `WaitingIsUnassigned`: a task becomes ready from pending or
blocked without its agent being looked at.

`SwarmOrchestrationProofs`, from `SwarmAssumption`, `BoardAssumption` and
`NobodyAssumption`, for any number of tasks, agents, starts and pauses:

| theorem | property |
|---|---|
| `SwarmInvariantHolds` | `SwarmInvariant`, the inductive invariant |
| `SwarmTypeCorrect` | `TypeOK` |
| `WorkingAgentsHaveTheirTasks` | `WorkingAgentHasItsTask` |
| `OneLoopOnly` | `OneLoop`, also when clients resume a session at any time |
| `LoopStaysAlive` | `LoopIsAlive`, when `ResumeAnytime` is FALSE |
| `BoardStaysSound` | `BoardAgrees`, `DependenciesMirror` and `Acyclic` of `TaskBoard`, on the board that the loop changes too |
| `DelegatingSeesEveryReadyTask` | `NoReadyTaskIsPassedOver`, when callers set no status a waiting task has |
| `SomeTaskAlwaysGoesOn` | `SomethingGoesOn`, when callers set no task pending or complete |

The proof has three parts. That of tasks and agents (`AgentsStep`) rests on counting:
the delegating phase hands out as many new agents as there is room for, and
`UnusedForRoom` shows there are ids left for them. That of the loop (`LoopStep`) says
what the state objects and the status of a session, which two services keep, tell of
each other. `OthersStopped`: an object that was replaced or stopped neither runs nor
has an iteration scheduled. `OneIteration`: the current one has one at most, and none
while it is paused or plans; this is what keeps an answer of the language model that
comes late from making a second loop, since it schedules one only for a session that
still plans. `StatusMatches` and `IsStarted`: a paused session has a paused object and
a session in a phase a running one. `LoopEnds` lists the ends of an iteration, and
`AfterLoop` shows that all of them keep the invariant, for the timer, a start and a
resume alike. The third part is the board's (`BoardStep`). What a client's call does to
it is an action of `TaskBoard`, and its preservation of `BoardInvariant` is a lemma of
`TaskBoardProofs`, cited through an instance of that module with the assumptions proved
for this one's constants (`BoardConstants`). The loop changes the board as no single
call does: one step creates all the tasks of a plan (`CreateAllBoard`), or sets several
ready ones in progress (`DelegatingBoard`), or clears everything (`DeleteSessionBoard`).
`NoTaskIsGone` says that tasks go with their session only, so that a pending task waits
for one that is there. `SomethingGoesOn` then needs no induction: if
all that remains were pending, the pending tasks would each wait for another pending one
(`NobodyWaitsForNothing`), and such a set is what `Acyclic` excludes. The run `swarm`
checks `SwarmInvariant`; TLC also checked it with 3 starts
and 3 pauses, and but for `LoopIsAlive` and `IsStarted` with `ResumeAnytime`.

`MessageFramingProofs`, from `FramingAssumption`, for messages of any number and length
and starts of any length:

| theorem | property |
|---|---|
| `FramingTypeCorrect` | `TypeOK`, however chunks are cut |
| `FramingInvariantHolds` | `FramingInvariant`, the inductive invariant, when `CutStarts` is FALSE |
| `MessagesAreExtracted` | `ExtractsMessages`, when `CutStarts` is FALSE |

Nothing in the stream says that it is whole, so the invariant describes all that is
left to read, the rest of the chunk and the pipe (`Pending`): `WrittenInOrder` says of each byte in it
that the others of its message follow, and then the start of the next message;
its first byte is the one the reader stands at (`Current` and `Place`), which is in the
content of the message it has cached, or at a start. `MessageAhead` gets from this that
a start at hand is readable and its content is the message's, `OrderRead` and
`OrderSent` that reading and writing keep it, and `NewMessageRead` and
`MessageContentRead` are the two handlers. No induction over the bytes is needed, since
`WrittenInOrder` speaks of every one of them.

`MultiRingBufferProofs`, from `SizeAssumption`, `MarkAssumption` and `BoundAssumption`,
proves `RingInvariant` (`LatestIsHeld`) and `UnreadIsNext` (`KeepsUpReadsAll`) for every
size, high water mark and number of streams. Together they are inductive:
`RingInvariant` says which number each index holds, from which the step from one byte
to the next follows, across the end of the buffer too. `Inc` brings the remainder in
`inc` to a sum; `WriteMoves`, `WriteKeepsLatest` and `ReaderStaysInside` say what a
write does, `DeqMoves` and `DeqReturns` what a read does.

Every invariant and action property of the passing runs is proved. Only model-checked
is what is temporal and not an action property (`RequestSettles`, `CancelReaches`,
`OpenResolves`, `PeerHearsOfClose`, `EventuallyConnected`, `ServiceReconnects`,
`EndsWhenTasksEnd`), since liveness under fairness and ENABLED are beyond the prover.
Induction over data is beyond it too: the definitions and invariants are such that none
is needed. The runs that expect a violation refute what they state, and have nothing to
prove.

## What is not modelled

- *RpcProtocol*: the opposite direction's messages, which the handlers of this
  one drop; the encoding of values. A caller may keep sending after the close
  (`SendsAfterClose`); those requests are stored where nothing settles them;
  `RequestSettles` speaks of
  those that are pending while the channel is open.
- *ChannelMultiplexer*: error events of channels, which change nothing; a link
  that loses messages, which is what a reconnect does when `LateDisconnect`
  holds. Owners that close a channel after being told it is closed: `close()`
  would delete a younger channel of the same id.
- *FrontendConnection*: `reloadOnReconnect = true`, the 100 KB limit of the write
  buffer, error events, requests' validation and URLs. `connection` runs with
  `LateDisconnect = FALSE`: with late disconnects the node side's channel can
  lose the socket the front end is on, data then waits in a buffer, and order
  and connectedness fail. `DeliveredInOrder` exempts what the browser writes
  between 'connect' and the answer to RECONNECT, which overtakes its buffer.
  `EventuallyConnected` exempts `AnswerWasLost`: when a second loss takes the
  answer to INITIAL_CONNECT, the two sides can stay on different contexts.
- *TaskBoard*: task contents, order in a column, the limit on the number of
  tasks, and calls of one turn other than `addDependency`. `NobodyIsForgotten`
  exempts `deleteTask`, which leaves dependents pending. `blocked` and `complete`
  are not in `ManualStatus`: a task set to `blocked` by hand while it has an
  agent becomes ready with that agent, and a task set `complete` by
  `updateTask` releases nobody.

- *SwarmOrchestration*: the mailbox, metrics and contents of messages; calls on
  sessions that have ended; `resumeSwarm` is called on paused sessions only
  (`ResumeAnytime = FALSE` in the runs); the dependencies the language model names,
  which `createTask` does not read; more tasks than `MaxTasks`.
- *ServiceConnection*: notifications, local targets of a proxy, `listen` without
  reconnect, and the back end's service container.
- *MultiRingBuffer*: encodings (a character of several bytes may be cut by a read or by
  the tail), readers without a stream, and `StringBufferingStream`, which gathers what a
  terminal's stream gives.
- *MessageFraming*: dispose, and the capacity of the write buffer.
- *The rest of the repository*, which is most of its lines: editors, views, widgets
  and extensions, type converters, generated preference schemas, the plugin API's
  data types. They transform and show data; the state they keep is the user
  interface's or a third-party library's. `PROJECT.json` lists them by component.
  Plugin host RPC, swarm persistence, the autonomous agent and multi edit have
  control of their own and are left for want of time; see the plan.

## Plan

What is left, in order:

1. **`BatchingChannel`**: the plugin host's batches (`packages/plugin-ext/src/common/rpc-protocol.ts`)
   as a channel of `RpcProtocol`'s kind: order, and the batch that is scheduled when
   the channel is disposed.
2. **`SwarmPersistence`**: a crash between the writes of a session's files.
3. The autonomous agent and multi edit: one step of several that fails.
