# Verification of the T3 Code client

TLA+ models, TLC runs and machine-checked proofs for `t3code-client`: the client
library (`packages/t3code-lib`), the command line (`t3code-cli`), the MCP server
(`t3code-mcp`) and the byline proxy (`t3code-proxy`).  Paths below are relative to
`src/packages/`.

Contents: [the system](#1-the-system) · [the modules](#2-modules-and-code) ·
[the runs](#3-what-is-checked) · [the proofs](#4-what-is-proved) ·
[findings](#5-findings) · [left out](#6-what-is-not-modelled) · [the plan](#7-plan)

## 1. The system

A T3 Code server keeps threads, each with messages, runs and requests that wait for
a person.  The client talks to it over HTTP for single requests and over one
WebSocket for everything that lasts.  The layers, from the wire up:

| Component | State it keeps | Operations | Hard behaviour | What makes it correct |
|---|---|---|---|---|
| **Socket transport** `transport/socket.ts`, `keepalive.ts`, `socketClose.ts`, `internal/websocket.ts`, `backoff.ts` | state, attempt generation, socket, three timers, wait list | connect, reconnect, close, send; socket events; timer callbacks | callbacks of superseded attempts and sockets, half-open peers, credential changes in mid-attempt | one socket and one way forward; no waiter forgotten; a socket has the current credential; a failure always waits for its backoff |
| **Client facade** `client.ts` | the composed parts | url(), headers(), connect, close | reconnects on a credential change | see above |
| **RPC connection** `transport/rpcConnection.ts`, `internal/asyncIterable.ts` | entries in flight, one channel per stream | call, stream, interrupt, ack, close | exit, abort, drop and defect race for one request; flow control | settled once, nothing left behind; values in order and complete; one ack per chunk; work ends |
| **Thread watch** `api/threadWatch.ts`, `threadTracker.ts`, `threadProjection.ts`, `threadDerived.ts`, `watchRetry.ts` | cursor, projection, announced requests, settled runs | subscribe, resubscribe, seed, apply | replays after drops, snapshots newer than the replay, slow consumers | each event once and in order; the projection follows the log; each request and settlement announced once |
| **Turn handle** `api/turns.ts`, `turnAdoption.ts` | the adopted run, consumers, one outcome | events, completion, interrupt, abort | link and end arrive in any order and among other runs | settles, once, with the run of our message |
| **CLI follow** `execution/follow.ts`, `followObservation.ts`, `signals.ts` | result, observation, answered approvals, interruption, timers | followRun | pump, completion, signal and deadline race; interrupts and grace | the exit code is true; interrupts are sound; the command ends |
| **CLI dispatch** `execution/dispatch.ts`, `run.ts` | the remembered target | preflight, ordered mutations, hand over to follow | a signal between two mutations | what was sent is reported, after a failure too; a signal stops the pipeline and the run it started |
| **Auth client** `auth/authClient.ts`, `credentialStore.ts`, `transport/http.ts` | cached credential, version, handlers | load, save, clear, change event; two loads per request or attempt | loads and saves that interleave, a load that returns after a save | a change is announced; an open socket has the stored credential; no request mixes two |
| **Profiles** `profiles/*` | a config file and credential files | pair, set a token, switch, logout, resolve | crashes and failed writes between two files | the config can be loaded; config and credentials agree |
| **CLI invocation** `main.ts`, `context.ts` | one lazily made client | client, close | the command ends while its client is being made | main returns and leaves no client |
| **Scheduled tasks** `api/scheduledTasks.ts`, `scheduledTaskUpdate.ts`, `t3code-cli/src/automation/schedule.ts`, `scheduleResolve.ts` | none; the task is the server's | create, update, enable, disable, delete | a read, a check and a save with other clients' writes between | an update changes what it names; thread and project belong together |
| **Preview viewer** `transport/previewViewer.ts` | queued items, one frame to acknowledge | next, send, close | abort before open, several waiting readers | each frame acknowledged once, when the next is asked for; nobody kept waiting |
| **MCP** `clients.ts`, `tool.ts`, `server.ts` | one lazily made client | get, close | a creation fails, is aborted, races close | one client, closed once; a failed creation is tried again |
| **Proxy** `bridge.ts`, `upgrade.ts`, `service.ts`, `frames.ts`, `byline.ts` | unsent bytes and a pause flag per direction; sets of sockets | upgrade, forward, close | backpressure, one side that fails or stays silent, shutdown in mid-upgrade | nothing lost or reordered, memory bounded, no side left behind, close() ends |
| Other APIs, method tables, schemas, CLI parsing and output | none between calls | build a payload, make a call, render | — | tested by example |

How they interact.  `T3Client` gives the transport `url()`/`headers()`, which load the
credential on every attempt, and calls `reconnect()` when the auth client reports a
new one.  `RpcConnection` registers for the transport's messages and state changes
and fails everything in flight when the state leaves "open".  `ThreadsApi.watch`
opens a stream on it and opens another after a drop.  `TurnHandle` consumes one
watch and fans its items out; `followRun` consumes the handle's items and its
completion, or a watch of its own, and sends interrupts and approvals back.
A CLI command makes its client when it first needs it, from the profile files; an MCP
connection does so for the tool calls it serves.
Everything runs on one thread: the interleavings are those of promise
continuations, timers and socket events, and an action of a model is the code that
runs between two of them.

## 2. Modules and code

| Module | Models | EXTENDS / uses |
|---|---|---|
| `SocketTransport` | the transport with the facade's part in it | |
| `LogicalConnection` | what the transport promises to callers of `connect()`: the abstract specification | |
| `SocketTransportProofs` | type correctness, the inductive invariant, the theorems | `SocketTransport`, TLAPS |
| `RpcConnection` | calls, streams, channels, the wire and the server's answering | |
| `RpcProofs` | its invariants and theorems | `RpcConnection`, TLAPS |
| `ThreadWatch` | the watch of one thread, or of the shell, over drops and resubscriptions | |
| `WatchProofs` | its invariant and theorems | `ThreadWatch`, TLAPS |
| `ThreadFeed` | what a watch promises the code above it: loads, snapshots, items, an end | |
| `Turn` | the turn handle | `ThreadFeed` |
| `FollowRun` | `followRun` | `Turn` |
| `FollowProofs` | the invariants and theorems of `Turn` and `FollowRun` | `FollowRun`, TLAPS |
| `Dispatch` | the dispatch pipeline of `run`, `thread start` and `thread send`, up to the follower | |
| `Invocation` | `main` and the client it makes and closes, around a dispatch | `Dispatch` |
| `Schedules` | clients that edit one scheduled task | |
| `PreviewViewer` | one viewer of a browser tab and the server's frames | |
| `CommandProofs` | the inductive invariants and theorems of these four | the four, TLAPS |
| `Session` | the auth client, its store, and the socket that follows it | |
| `SessionProofs` | its invariant and theorems | `Session`, TLAPS |
| `Profiles` | the commands that change the profile files | |
| `SharedClient` | the client of an MCP connection, made from those files | `Profiles` |
| `SharedClientProofs` | the invariants and theorems of both | `SharedClient`, TLAPS |
| `Bridge` | two WebSockets of the `ws` library and what `bridge()` does with them | |
| `ProxyConnection` | upgrade, bridge and `close()` of the listener | `Bridge` |
| `ProxyProofs` | its invariants and theorems | `ProxyConnection`, TLAPS |
| `MC*` | small constants for TLC; `MCCommands` puts three parts that share no state side by side | the module they are named for |

**SocketTransport.**  Variables are the private fields (`state`, `generation`,
`socket`, `openWaiters`, the timers) and what the network holds (`handshaking`,
`established`, `silent`, `terminated`).  A socket is known by the generation its
callbacks closed over, which is how `isCurrent()` works.  `attempts` holds the
suspended calls of `#attempt`, one record per await, so a continuation that comes
back after `reconnect()` or `close()` is a step like any other.  `#closing` is
folded into `state = "closed"`, with which it changes in every path.

**RpcConnection.**  The transport below is reduced to what `LogicalConnection` says
of it.  `entries`, `ackPending`, `buffer`, `terminal`, `returned` are the code's;
`toServer` and `toClient` are the two directions of the socket, in order, emptied
by a drop.  A consumer reads with one `next()` at a time, as every consumer in the
repository does.  `resumed` separates the resolution of `connect()` from the
continuation of `call()`, where an abort that came in between decides the outcome, also
over the failure of `#send` on a socket that was lost as well.

**ThreadWatch.**  The generator is a program counter `watch` with the frame in
`held` while the snapshot loader runs; the consumer may be slow, so that the world
moves while the generator is suspended in a `yield`.  The server's log is a sequence
of events; it serves a snapshot or a replay, may repeat events, and marks the end.
`view` records what the consumer was told, for the properties.  `api` says whose watch
it is: the shell's is the same loop without tracker, loader and cursor from a
projection, and takes its frames with `ShellPull`.

**ThreadFeed, Turn, FollowRun.**  `ThreadFeed` is the watch of one thread with the
transport abstracted away (external to the two modules above it): items in log
order, opaque events as decode errors, an optional fresh snapshot, an end by error
or abort.  `Turn` adds the handle.  `FollowRun` adds the command: `pump`
and `follow` are program counters of the loop and of the body, `interruption` the
one interrupt request with its acknowledgement and grace.  `seen.upTo` and
`interruption.seen` are history only, for the properties.  `ThreadAt` says what a log comes
to as the last event about each thing, since every event carries the whole record it
changed.  Once a timer or the signal has won the race, the continuation of
`Promise.race` is the next thing that runs: nothing of the command or of the feed happens
in between (`Interrupted`).

**Dispatch.**  `at` is the await the pipeline stands at: the reads before the first
mutation, a mutation's receipt, the shell read of `create`, the link of the run.
`sent` and `server.applied` tell a mutation sent from one carried out, so that a
receipt can be lost of what was done; `target` is what `dispatchPrompt` passes to
`remember`.  The step that receives an answer runs on to the next request, because no
signal can be handled in between.  A waiting command that was not interrupted goes to
`following`, where `FollowRun` begins; the handle's events are reduced to the link or
a failure, which is what `Turn` says of them.

**Invocation.**  `client` is `context.ts`'s `client`/`clientPending`, `main` whether
`main` has returned.  A step of `Dispatch` that needs an answer needs an open client;
the client is made by itself, also when nobody waits for it any more.

**Schedules.**  The server's task (`task`, with `made` for "created once") and the
editors at work on it; each stands at one await and carries its patch or payload.
`UpdatedSchedule`, `Merged` and `TargetChanges` are `scheduledTaskUpdate.ts` and the
condition of `update()`; `Saved` is what the schema's comment says the server does with
what is left out (`scheduledTaskSchedule.ts:137-142`).  `alone` is history: nobody wrote
between the editor's read and now.

**PreviewViewer.**  `items`, `frameToAck` and `readers` are the fields of
`ViewerSession`; `Round` is one turn of `#next`'s loop, so that a woken call runs later
than the one that woke it.  `remote` is the server, which keeps one frame unacknowledged.

**Session.**  A save or a clear is in effect in the store before its caller goes on, and
a load has read the store before `#load` caches it: `writers` and `loads` hold those
calls in between.  `attempt` is the socket's current attempt with its list of loads
still to do (`url()` for the ticket or the token and the key), `link` its socket.  It fails
at any load that throws, and is turned down when the answer to its request comes, which in
`#bearerHeaders` is before the key of the upgrade is loaded.
`serial` is history: no two saves overlapped, and no load brought back what it had read
before a save.  `unannounced` holds while a change of the stored credential has raised
no event.

**Profiles, SharedClient.**  `command` is the one command at work with the config it has
read; each write of a file is a step, and `Stops` cuts the command before any of them.
`SharedClient` adds a process that resolves the selected profile from those files:
`attempt` is `#pending` with where `#initialize` stands, `calls` the waits of the tool
calls.  `fair` is history, for `CallsSettle`.

**Bridge, ProxyConnection.**  Each side has what its peer sent and the proxy has not read
(`inbox`), what the proxy sent and the peer has not taken (`outbox`), and `flow`: the
unsent count and the pause flag of `forward`.  A read of a socket may hold several frames
(`chunk`), which arrive although the socket is paused meanwhile.  `tally` counts frames
for the properties.  `ProxyConnection` adds the client's connection before its upgrade
(`tcp`), and `close()` with the sockets it waits for (`phase`, `pending`).

## 3. What is checked

Every run is exhaustive for its bounds and takes under three minutes with two workers.

| Run | Bounds | Question |
|---|---|---|
| `socket` | 2 callers, 2 missed pongs, 2 faults, 2 credentials | one socket, waiters, credential, backoff, every step is one of `LogicalConnection`; every `connect()` settles, a link that is gone is sought again |
| `rpc` | 1 call, 1 stream, 3 values in chunks of 2, mark 1, 1 drop, 1 defect | settling, order, flow control, ends |
| `watch_safety` | thread and shell; 3 events, 1 overlap, 1 drop, slow consumer, loader | order, projection, announcements, oversized frames |
| `watch_liveness` | thread and shell; 2 events, 2 drops, prompt consumer, no loader | survives every drop and shows every event |
| `turn` | 2 runs, 3 events, 1 consumer, every ending | adoption, fan-out, one outcome, settles |
| `follow_signals` | 2 runs, 4 events, deadline, signal, failing interrupts | truth of exit codes, soundness of interrupts |
| `follow_requests` | 1 run, 1 approval, 1 user input, failing calls | approvals, pending requests, the command ends |
| `commands` | every path of a prompt, 2 runs; 3 editors, 2 projects, 2 threads, 2 signatures; 3 readers, 3 frames, 1 message | what a signal stops, what the envelope says, that `main` returns with nothing left; what an update changes; who gets the next frame |
| `clients` | 2 profiles, 2 servers, 3 commands, 2 tool calls | config and credentials agree; one client, closed once; every call is served or fails for its own reason |
| `session` | 2 credentials (one bound), 2 writes by 2 writers, 1 fault, both modes | changes announced, an open socket has the stored credential, the socket settles |
| `session_late_load` | the same, with a store whose saves are prompt | finding, below |
| `proxy` | 3 frames of size 1 from either peer, mark 1, reads of 2, one close code | order, closes, backpressure, nothing left, ends |

Why the bounds are enough.  *Socket*: two faults let a socket fail, be replaced and fail again,
so that three generations overlap; two credentials let one change while the other
loads; two callers let one abort while another waits.  *RPC*: three values in chunks
of two around a mark of one reach "chunk held back", "acknowledged by a later pull"
and "exit behind a buffered value"; requests share only the entry map and the wire, so
one of each kind meets every interaction the code has.  *Watch*: three events are a
request, its questions and its resolution, or a run and its end with one more; one
overlap and one drop reach a replay of seen events.  *Turn* and *FollowRun*: run 1
belongs to somebody else and run 2 to our message, with logs in which ours is queued,
steered into run 1, already running or not there yet.
*Dispatch* has no bound but the two runs: each mutation is sent at most once.
*Schedules*: three editors let two writes come between the read and the save of a third,
one of them a deletion; the patches name every target, and set, clear and leave out each
setting.  *PreviewViewer*: with three readers two wait while a third holds the frame, and
the third frame comes only after two acknowledgements.
*Session*: two writes let a load span the first and meet the second; a bound and an
unbound credential are what an attempt could mix.  *Profiles*: three commands are one cut
halfway, one that repairs or hits it, and one more.  *Proxy*: a mark of one frame makes
each frame pause its side, a read of two makes the second one arrive when it is paused,
and three frames leave one in the socket; only one peer of a behaviour sends data, since
the two directions share nothing but the sockets' ends (`MaxReplies`).

What the properties say (each is stated over its definition; several are the conjunction
of the parts named with them):

- `OneSocket`: while a connection is wanted there is exactly one way forward (a live
  attempt, a socket or a backoff timer), every socket ever opened but the current one
  is terminated or closed, and timers watch the current one.  `WaitersTracked`: no waiter
  is forgotten.  `CredentialIsCurrent`: an upgraded socket carries the newest credential.
  `RetriesWait`: no failure leads to an attempt without its backoff.  `LogicalSpec`:
  refinement of `LogicalConnection`.  `LinkServes`: every `connect()` settles
  (`ConnectSettles`) and a lost link is sought again (`LinkIsRenewed`).
- `SettledIsClean`: a settled request leaves no entry, listener or reader behind.
  `StreamCorrect`: a consumer gets what the server sent, complete and in order, with one
  acknowledgement per chunk, never above the mark.  `SettlesOnce`: nothing settles twice,
  and what was begun ends.
- `EachEventOnce`, `TrackerCorrect` (the projection follows the log; requests and
  settlements are announced once), `OversizedTriedOnce`, `WatchGoesOn` (drops are
  survived, every event is shown): the watch's promises across replays, snapshots, drops.
- `FollowsOurRun`, `ConsumersServed`, `SettlesOnce` (one outcome, and always one): the turn's.
- `ExitIsTrue`, `OwnRunOnly` (it reports its own run, and interrupts it once and for
  cause), `ResultStands`, `RequestsHandled` (answered once, or put to the caller),
  `CommandEnds`: the command's.
- `StopsOwnRun`: the run reported or interrupted is the one linked to the message, and a
  signal stops it.  `EnvelopeIsTrue`, `StopsAfterSignal`: what a failure or a signal
  leaves.  `LeavesNothing`, `MainReturns`: `main` returns, and no client outlives it.
- `TargetBelongs`: the stored thread belongs to the stored project.  `UpdateIsExact`: an
  update that no write came between does what its patch says, stated without the payload;
  a deleted task stays deleted.
- `OneFrame`: the frame the server waits for is in exactly one place.  `ViewerServes`:
  neither the server nor a reader waits for the other.
- `ChangesAreAnnounced`, `OpenLinkIsCurrent`, `SettlesForCause`: of the credential, as long
  as saves do not overlap and no late load brings an old one back (`serial`); the finding
  is what happens without that.
- `FilesAgree`: the config can be loaded, and each profile whose last command was not cut
  halfway has its own server's credential.  `OneClient`, `CallsSettle`: the shared client's.
- `BufferBounded`: memory per direction is bounded by the mark and one read.  `PassedOn`:
  frames in order, none lost and none twice (`InOrder`), then the close with its code
  (`CloseIsLast`), and what pauses a side is in the hands of the other's callbacks
  (`PausedIsOwed`).
  `NothingLeft`, `AllEnds`: no side outlives the other or the listener.

Each property has at least one mutant of the code's model that breaks it: a dropped
guard, a missing reset, an off-by-one.  The type invariant of a module is a conjunct of
one of its safety properties.

**Fairness.**  Only weak fairness, of steps the runtime or a peer that answers will
take: continuations of settled promises, timers that are set, frames that have
arrived, a server that works on what it received.  Nothing is assumed of callers
(abort, signal, close, slow readers), of failures, or of which of two ready steps
runs first.  `ConnectSettles` needs the open timeout: a server that accepts TCP and
never answers the upgrade would otherwise hold the caller; the CLI sets it
(`t3code-cli/src/context.ts:107`), the library leaves it to the application.
Keepalive fairness is on `Ping \/ PingTimeout`, the interval's two outcomes.
`FollowRun` has one weak fairness for all of the program's own steps together, as the
event loop gives; each of them makes progress, so no order between them is assumed.

`Session` assumes that the store answers and that an attempt's request does; `SharedClient`
that the steps of `#initialize` and of a closing end; `ProxyConnection` that the event loop
and `ws`'s timers run, and not that a peer takes what is written to it; `PreviewViewer` that
what was woken runs, what arrived is delivered and a socket that was cut reports it.

`Dispatch` and `Invocation` take the server to carry out what it was sent, to give the message a run
and to answer; a failure may come instead at any time but need not.

**Deadlock** is not checked: every program here may stop (closed transport, settled
turn, ended command), and the bounds on faults and events stop the rest.

## 4. What is proved

Of `SocketTransport`, for every set of callers, every
`MissedPongLimit`, with and without the open timeout, and for every bound on faults
and credentials, TLAPS proves the following.  The only assumptions here and below are
the named ones on the constants.

| Theorem | Statement |
|---|---|
| `TypeCorrect` | `Spec => []TypeOK` |
| `OneSocketCorrect` | `Spec => []OneSocket` |
| `WaitersTrackedCorrect` | `Spec => []WaitersTracked` |
| `CredentialIsCurrentCorrect` | `Spec => []CredentialIsCurrent` |
| `RetriesWaitCorrect` | `Spec => RetriesWait` |
| `ClosedIsFinalCorrect` | `Spec => ClosedIsFinal` |
| `ImplementsLogical` | `Spec => LogicalSpec` |

The argument.  The inductive invariant is `Safe`, relative to `TypeOK`: generations
are unique among attempts and never ahead of the counter (`Generations`); exactly one
way forward exists while a connection is wanted (`SingleFlight`); a socket nobody
owns is terminated (`NoOrphanSocket`); the wait list is the set of waiting callers
(`WaitersTracked`); timers watch the current socket (`TimersWatchTheSocket`); and
`CredentialIsCurrent`.  No conjunct is inductive alone: `SingleFlight` needs
`Generations`, since a live attempt is told from a stale one only by its number;
`Generations` of sockets needs `NoOrphanSocket`, since an old socket must not share
the current number; and the credential survives an await because `reconnect()` is
ignored only when the next attempt has not loaded it yet, which is `SingleFlight`
again.  `SafeStep` takes one step per action, with lemmas for what actions share:
`FreshAttempt` (a new attempt is the only live one), `SameGeneration` (a continuation
moves no other attempt), `DropSafe` and `ShutSafe` (dropping and closing), `Unmoved`.
The refinement needs `WaitersTracked`, so that settling the wait list settles
whoever waits.

Of `Dispatch`, for every set of runs, and of `Invocation` around it:

| Theorem | Statement |
|---|---|
| `TypeCorrect` | `Spec => []TypeOK` |
| `StopsOwnRunCorrect` | `Spec => []StopsOwnRun` |
| `EnvelopeIsTrueCorrect` | `Spec => []EnvelopeIsTrue` |
| `StopsAfterSignalCorrect` | `Spec => StopsAfterSignal` |
| `InvocationRunsDispatch` | `InvocationSpec => Spec` |
| `LeavesNothingCorrect` | `InvocationSpec => []LeavesNothing` |

The invariant adds `Stages`, what each await says of the mutations sent to get there
and that all but the current one were applied; `Account`, that the remembered target
agrees with what was sent; and `Ended`, what the exit says.  The half of `StopsOwnRun`
about signals needs all three: the run is stopped because the interrupt was applied
(`Ended`) to the run remembered, which is the server's (`Account`), and because a check
that gives up without an interrupt stands only where no run was started (`Stages`).
`CatchKeeps`, `StartTurnKeeps` and `HandleKeeps` are shared by the actions.
`InvocationRunsDispatch` is the refinement by which the theorems about a dispatch hold
inside `main`; `LeavesNothing` then needs only that `main` returns after the command.

Of `Session`, for every set of callers and credentials, both ways of proving a request
and every bound on writes and faults:

| Theorem | Statement |
|---|---|
| `TypeCorrect` | `Spec => []TypeOK` |
| `ChangesAreAnnouncedCorrect` | `Spec => []ChangesAreAnnounced` |
| `OpenLinkIsCurrentCorrect` | `Spec => []OpenLinkIsCurrent` |
| `FailsForCauseCorrect` | `Spec => FailsForCause` |

`CacheKnows` is the heart of it: between a write and its `#remember` the cache differs
from the store, or the change would not be noticed, and otherwise it is the store or
unknown.  `SocketKnows` says that an attempt then has nothing but what is stored, and
`AttemptEnds` that a socket takes over only from an attempt.  All of them hold while
`serial` does, which is what the finding below is about.

`FailsForCause`, the safety half of `SettlesForCause`, says that an attempt is not turned
down because its parts belong to two credentials.  `CauseInv` adds to the invariant above
that what is compared is loaded or still on the attempt's list (`SlotsLoaded`), and that
the proof an upgrade carries is of the stored credential as well (`ProofIsStored`).  What
an attempt has loaded is then of the stored one, once that is announced (`LoadedIsStored`); a write that is not announced yet is the cause that is left.

Of `Profiles` and `SharedClient`, for every set of names, servers and calls:

| Theorem | Statement |
|---|---|
| `TypeCorrect` | `Spec => []TypeOK` |
| `FilesAgreeCorrect` | `Spec => []FilesAgree` |
| `OwnFilesOnlyCorrect` | `Spec => OwnFilesOnly` |
| `OneClientCorrect` | `Spec => []OneClient` |
| `FailureIsFreshCorrect` | `Spec => []FailureIsFresh` |

`FilesInv` adds to `FilesAgree` what a command holds between its writes: the config it is
about to save is the one on disk, changed for its own name only, and the credential it
wrote first is already the right one (`CommandFits`).  `SharedInv` counts: an attempt that
is under way has made no client yet, one that is being discarded has made the only one,
and nothing starts after `close()` (`AttemptFits`).  The two are proved apart, since each
step of the composition is one of the files or one of the client (`StepOfFiles`).
`FailureIsFresh`, the safety half of `CallsSettle`, needs `FreshInv`: as long as a call counts
as one that could be served all along (`fair`), the selected profile can still be resolved,
so that the attempt it waits for has nothing to fail with.

Of `ProxyConnection`, for every mark, read size, set of frames and of close codes:

| Theorem | Statement |
|---|---|
| `TypeCorrect` | `Spec => []TypeOK` |
| `NothingLeftCorrect` | `Spec => []NothingLeft` |
| `BufferBoundedCorrect` | `Spec => []BufferBounded` |
| `PassedOnCorrect` | `Spec => []PassedOn` |

`NothingLeft` is inductive with `EndInv`: once the sockets were swept, each is over and stays
so (`OverStays`, one lemma per handler), and no upgrade can bring a new one.  `BufferBounded`
is not: a read hands over several frames with no look at the pause between them.  `FlowInv`
counts what of the read is still to come at the size of the largest frame, so that a frame
moves from the one term to the other; it also ties the pause flag to the count, which is
why a resume is never missed.

`PassedOn` follows what one peer sends along its way, for each direction by itself.
`Arriving` is the way to the proxy: what is in the socket is numbered on from what was
received, and only the last item may be the end.  `Leaving` is the way on: what waits for an
open peer is numbered on from what was written to it; a close frame that passes an end on is
the last of its queue, has everything received before it, and carries the code that may be
sent (`ToldAs`).  A side that is closed for another reason loses what it had to pass, which
is why `Leaving` promises nothing of a queue that ends in the proxy's own close frame
(`LeavingCloses`).  `Owing` counts the bytes: `Total` is the size of the set of the bytes
that wait, so that `BytesAppended` and `BytesTaken` follow from the library's theorems
on finite sets.  `StageInv` says that none of this begins before the client is upgraded.
Close codes a peer can send are those `ws` reads (`Readable`), which the assumption on
`Codes` says and `canSendCloseCode` is compared with.

Of `Schedules`, for every set of editors, projects, threads and schedules:

| Theorem | Statement |
|---|---|
| `TargetBelongsCorrect` | `SchedulesSpec => []TargetBelongs` |
| `UpdateIsExactCorrect` | `SchedulesSpec => UpdateIsExact` |

An editor that saves holds a task whose target it checked or took unchanged from a stored
one (`EditorOK`); that a task's thread belongs to its project then survives every write that
came between.  For `UpdateIsExact`, an editor nobody came between still holds the stored
task under its patch (`Fresh`), and `UpsertIsPatch` shows, trigger by trigger, that copying
what the upsert would otherwise clear makes it the patch.

Of `PreviewViewer`, for every set of readers and every bound on frames and messages:

| Theorem | Statement |
|---|---|
| `OneFrameCorrect` | `ViewerSpec => []OneFrame` |

`Balance` adds to `OneFrame` that a socket that has not opened has moved no frame.  Where a
frame can be is a sum of counts (`Held`), and each step moves one from a term to another;
`FramesAppended` and `FramesTaken` say what a queue's count does.

Of `RpcConnection`, for every set of calls and streams, every mark, chunk size and bound:

| Theorem | Statement |
|---|---|
| `SettledIsCleanCorrect` | `Spec => []SettledIsClean` |
| `SettledForGoodCorrect` | `Spec => SettledForGood` |
| `StreamCorrectAlways` | `Spec => []StreamCorrect` |

`SettledInv` says when a request is in flight: a call from its await to its outcome, a
stream exactly while its channel is unterminated and its consumer is ready or pulling.
`FlowInv` says what a request in flight looks like: it is `OnItsWay`, `Served` or
`Answered`, and its queues then hold at most one chunk or one Ack, or a chunk with an
Exit behind it.  No Ack can then be lost or doubled (`AckConservation`), a chunk carries
on where the channel stops (`ValuesInOrder`), and an Exit of success comes after the last
value (`CompleteAtEnd`).  One lemma per actor carries `FlowInv` over a step
(`CallFlow`, `StreamFlow`, `EnvelopeFlow`, `ServerFlow`, `LinkFlow`); `SameFlow` carries it
for the requests a step does not touch.

Of `ThreadWatch`, for a thread and the shell, with and without a loader, for slow and
prompt consumers and every bound:

| Theorem | Statement |
|---|---|
| `EachEventOnceCorrect` | `Spec => []EachEventOnce` |
| `TrackerIsCorrect` | `Spec => []TrackerCorrect` |
| `OversizedOnce` | `Spec => []OversizedTriedOnce` |
| `DropsAreSurvived` | `~HasLoader /\ ~SlowConsumer`: `Spec => []SurvivesDrops` |

The invariant follows an event along its way.  Each event the server has sent on the
subscription was shown or left out for cause, or is in the queue or in hand (`WireInv`);
what is on the way is in order, and a snapshot comes first and is not behind the cursor
(`QueueInv`, `HeldInv`); what was shown is in order and covers everything up to the cursor
(`ViewInv`).  A frame that is taken then closes the gap between the cursor and itself,
whichever of the two is ahead after a drop.  `TrackInv` adds that the tracker stands at the
cursor or at the last snapshot, whichever is further, and that its projection, its requests
and its settled runs are what the log says of the events it has seen.  `DropsAreSurvived`
has the two conditions because without them it is false: a drop that is met while the
loader runs, or while the consumer is slow, can find the transport open again, which is the
first of the differences listed below.

Of `Turn` and `FollowRun`, for every set of runs, consumers and requests, every policy and
target and every log the server may write:

| Theorem | Statement |
|---|---|
| `FollowsOurRunCorrect` | `TurnSpec => []FollowsOurRun` |
| `ConsumersServedCorrect` | `TurnSpec => []ConsumersServed` |
| `OutcomeIsFinalCorrect` | `TurnSpec => OutcomeIsFinal` |
| `OwnRunOnlyCorrect` | `Spec => []OwnRunOnly` |
| `ExitIsTrueCorrect` | `Spec => []ExitIsTrue` |
| `RequestsHandledCorrect` | `Spec => RequestsHandled` |
| `ResultStandsCorrect` | `Spec => ResultStands` |

They rest on what a log goes on saying as it grows.  `Histories` are the logs in which each
event may follow those before it (`MayFollow`: the rules assumed of the server), and
`LogsAssumption` says that the initial log is one.  From that alone, one run takes the
message and goes on having taken it (`LinkStays`, `TookStays`, `TookOne`), and a run that
ended goes on having ended that way (`EndStays`).  An item that waits in a buffer is then
`Sound`, whatever is logged before it is read, and so is what the handle and the command
made of the items they took.

`HandleInv` is the watch and the handle: the run that is followed took the message
(`Ours`), a settled outcome is how that run ended (`True`), and a consumer whose channel has
ended has been given the item that says so (`ServedAs`).  `RunInv` adds the command, one
part for each thing it keeps, and one lemma per action carries it over the step.  What each
part is needed for: `GivenInv`, that only what may be approved is approved; `SeenInv`, that
the observation says nothing the log does not (`Told`); `ResultOK`, that the result names
the run that took the message and an end it had, which survives every later event;
`RaceInv`, what may not have happened yet while the command races, since a deadline or a
signal that wins must not meet a run it has seen end; `InterruptInv`, that the one
interrupt request names that run, or is the deadline's; `PendingInv`, that requests
reported as open are not answered by the command; and `ExitInv`, which ties the exit code
to all of these when the command is over.  `FollowAssumption` has the command's own consumer
be one of the handle's.

`RaceInv` was not inductive in an earlier form of the model, in which the answer to an
approval could still arrive between the end of the race and its continuation.  The code has
no such moment, and `Answered` and `AnswerFails` now have the guard of the other steps.

Only model-checked: every liveness property (`LinkServes`, `SettlesOnce`'s halves that
something ends, `WatchGoesOn`, `CommandEnds`, `MainReturns`, `ViewerServes`, `LinkSettles`,
the two of `CallsSettle`, `AllEnds`), since fairness and ENABLED are out of the prover's
reach.  Every invariant and every safety property of the steps that a passing run checks is
a theorem.

## 5. Findings

- **A load that ends after a save hides the next change** (`session_late_load`,
  `EveryChangeIsAnnounced`).  `#load` puts what the store had read into `#cached` whenever
  it goes on, also when a save was remembered in between (`authClient.ts:225`).  The next
  save or clear of that old value is then no change: the version stays, no handler runs, and
  the socket stays open with a credential that was cleared.  `authClient.ts:65` counts every
  different credential, and `docs/technical-designs/library-auth.yml:73` has the client
  reconnect on each.

The models also have behaviours that differ from what the repository says and have no run
of their own; each is reached from the run named by the property sketched with it.

- *A drop while the snapshot loads, or while the consumer is slow, can end a watch.*  `threads.watch` is documented to
  resubscribe after a dropped socket (`library-facades.yml:135`, `watchRetry.ts:2`); it decides
  by the state at the moment the error reaches it (`threadWatch.ts:131`), and when the
  transport has reconnected by then, the error goes to the caller.  `watch_liveness` has no
  loader and no slow consumer for this reason.
- *A replayed request is reported as pending.*  `followObservation.ts:40` applies events that
  the loaded snapshot already reflects (`threadWatch.ts:112`), so a request answered before
  the command attached can be reported as open, against `docs/user/t3c/policy.md:38`.
  `FollowRun`'s `PendingIsNews` says it does not happen; two runs of which the second is ours,
  one request and a log that begins while run 2 is under way refute it.
- *A deadline can interrupt another run.*  A deadline that fires before the link is known
  sends an interrupt without a run (`follow.ts:120`, `threads.ts:452`), which the server takes
  as the thread's active run; `policy.md:104` speaks of the command's own.
  `TimeoutInterruptsOurRun` states it over `follow_signals`.
- *A signal does not stop the prompt that follows a mode.*  With `--mode` on an existing
  thread, `startTurn` sends two mutations with no look at the signal between them
  (`threadTurnStart.ts:52`); `dispatch.ts:90` and `policy.md:68` say the next one is
  prevented (`SignalPreventsMutations`).  The run that starts is linked and interrupted, as
  `StopsOwnRun` shows.
- *A legacy task cannot be updated.*  `scheduledTaskSchedule.ts:126` says that a task with an
  interval below a minute can be edited; an update without a schedule sends that interval
  again, and the upsert schema's minimum (`scheduledTaskSchedule.ts:153-158`, checked in
  `rpc/client.ts:125-131`) refuses it.  `Schedules`' `Sendable` keeps the refusal.
- *A malformed frame of the server.*  `upgrade.ts:75-78` rejects the upgrade of a server whose
  socket fails, also after the client was accepted; the model has the code's outcome.
- *A socket that is closing counts as closed.*  `closeWebSocket` (`internal/websocket.ts`)
  resolves at once for a socket in CLOSING, where its comment waits for the close.

Known and intended, or not contradicted by any document: a signal that waits for the
link interrupts a run whose end has meanwhile shown; a deadline interrupt sent without
a run is not repeated when a signal follows (`if (interruption) return`); `pump`'s
early return ends the grace; a `call()` whose signal fires and whose socket is lost before it
goes on from `connect()` is interrupted, while the promise that `#send` rejected is left
without a handler (`rpcConnection.ts:92-93`, `asyncIterable.ts:125`).

## 6. What is not modelled

- *In the modelled parts*: a WebSocket constructor that throws; HTTP inside `url()`;
  bounded snapshots, assistant text and event kinds other than runs, messages and
  requests; the second signal while following, which exits the process; the preflight's
  reads one by one and the refusal of a payload before it is sent; the time a delay takes (a
  timer that is set may fire whenever it is ready); several requests of one
  connection beyond one call and one stream; backoff delays; the viewer's `send()`, which
  keeps nothing; the scope check of `requireOperate`; the reads by which an update resolves
  a model or a worktree; what the proxy writes into a frame (a byline keeps the order and
  the number of frames), its plain HTTP forwarding and its start; frames in both directions
  of one proxied connection at once.
- *Two commands that write one config at the same time*: `profile-storage.yml` leaves them to
  the caller, so `Profiles` has one command at a time, which may be cut anywhere.
- *Assumed of the server* (external): it answers in order on one socket, sends
  the next chunk only after the acknowledgement, replays exclusively after the
  cursor, links a message before it ends the run, and serves a loader's snapshot that
  is not older than the cursor.
- *Whole components*: the ones marked `not_modelled` in `PROJECT.json`, with reasons.
  About half of the implementation's lines are schemas, method tables, facades that make
  one call, parsing and rendering: data without control, in which no step can come between
  two others.  The share of lines the models stand for stays low for that reason; what
  keeps state between two awaits is modelled.

## 7. Plan

Done: every module of section 2, with the theorems of section 4.

Left, by what it would show:

1. `ThreadWatch` implements `ThreadFeed` as a refinement rather than property by property;
   `RpcConnection` over `SocketTransport` in place of the abstract transport, so that the
   theorems about either hold of the two together.
2. Pure functions against a reference definition: the frame parser and the byline.
