# A TLA+ model of simprint-runtime

This directory holds the TLA+ specifications of `simprint-runtime`, the process
that a client application starts to run browsers for it. The client talks to it over
stdin and stdout; the browsers talk to it over named pipes. The specifications are
written from the Rust sources under `src/src/`, their properties are model-checked
with TLC and the most important ones are proved with TLAPS.

Contents: [inventory](#1-inventory), [modules](#2-modules-and-how-they-correspond-to-the-code),
[runs](#3-what-the-runs-check), [fairness](#4-fairness), [proofs](#5-what-is-proved),
[what a model check alone shows](#6-what-is-only-model-checked),
[the disagreement found](#7-a-disagreement-between-code-and-test),
[what is left out](#8-what-is-not-modelled), [plan](#9-plan).

## 1. Inventory

The process has one *main task* (`app/bootstrap.rs`), which reads requests, handles
them one after the other and forwards events, and a changing number of other tokio
tasks (multi-threaded runtime): a server task and then a receive loop for each browser,
one task for each environment of a batch, and small tasks spawned by callbacks.

| component | state | operations | talks to |
|---|---|---|---|
| bootstrap loop, `app/bootstrap.rs` | `handshake_complete`, read buffer, event receiver | read a frame, gate, answer, forward an event, end | client pipes, host |
| runtime host, `app/host.rs`, `app/state.rs` | phase, context, context id, last error, sequence | a handler per topic, `start`, `destroy_context`, `shutdown_runtime` | orchestrator, event channel |
| module orchestrator, `app/module.rs` | the modules, in order | `start`, `initialize_context`, `destroy_context`, `shutdown`, with rollbacks | the three service modules |
| event channel, `app/events.rs` | an unbounded FIFO queue | emit from anywhere, taken by the main task | everything |
| event bus, `infrastructure/eventbus/manager.rs`, `connection.rs`, `transport.rs` | connection map, handlers, one task per session | serve a pipe, handshake, configure, receive, announce, send, `disconnect_all` | browsers, environment, auth and sync services |
| environment service, `services/environment/` | phase, port, job and status tables | launch, stop, batches, callbacks of the bus, lifecycle hooks | event bus, browser processes |
| auth service, `services/auth/` | phase, authentication state | lifecycle hooks, commands, answers to browsers | event bus |
| sync service, `services/sync/` | phase, master and slaves | lifecycle hooks, start and stop, forwarding of input | event bus |
| codecs, `infrastructure/*/message.rs` | a buffer | encode, decode | both transports |
| diagnostics, payload types, release scripts | none | | |

What makes the code hard, and what correctness means, component by component:

* **Host and orchestrator.** Four sweeps over the modules, each able to fail in the
  middle, two of them with a rollback that can itself fail, over a phase, a context and
  a copy of the context id that are assigned at different places. Right means: the copies agree, the
  modules are where the phase says they are (unless an error is on record), an
  answer is true when it is written, a clean exit has stopped everything.
* **Main loop.** Requests before the handshake, undecodable frames, events that
  wait while requests are handled, a client that goes away at any point. Right means:
  nothing happens before the handshake, each request is answered or the process
  ends, context events come in turn and after the answer they belong to.
* **Event bus.** Sessions of one environment can overlap when it is relaunched, and
  everything is keyed by the environment's name: a loop removes *the* entry
  of its environment when it ends, `disconnect_all` empties the map under loops
  that run on. Right means: sessions of an environment exclude each other, no loop removes
  a foreign entry, announcements alternate.
* **Environment service.** Four tables changed by the commands, by clean-up
  tasks of earlier sessions, by the tasks that put a process into a job, by a teardown.
  Check-then-act on the port table. Right means: distinct and stable ports,
  no tracked process that outlives its place in the job table, no port that is forgotten, nothing left behind by
  a context, stops that the client hears of.
* **Auth.** Notifications sent while browsers come and go; answers computed from a store that
  changes before they are sent. Right means: no browser is left with an old notification, an answer is no older
  than its question, every question is answered.
* **Sync.** Master and slaves are read under two locks by a task for each input event; the module keeps a
  copy of the setting of the bus; roles are told one browser after the other, and writes fail. Right means:
  input goes from the master to its slaves and nowhere else, roles follow the setting, the copy is the setting.
* **Connection map.** One fair lock, held while writing to browsers that may not read. Right means:
  callers wait for browsers only and never for each other in a circle, commands and teardowns that use the map end unless
  a browser does not read, and nothing is sent to a browser that was removed or told to go.
* **Codecs.** Lengths, partial frames, a buffer that must not lose or repeat bytes. Right means: however the stream
  is cut, what comes out is what was written.

`PROJECT.json` lists every such hazard at the line where it bites, with the
properties that would catch it, and those that no property covers yet.

## 2. Modules and how they correspond to the code

    RuntimeHost ........................ main task, host, orchestrator
      RuntimeLifecycle ................. what they promise the client, implemented by RuntimeHost
      RuntimeHost_proofs
    EventBusSessions ................... server tasks, receive loops, connection map
      EventBusSessions_proofs
      MCEventBusSessions
      KernelRuntime .................... environment service on top of the sessions
        KernelRuntime_proofs ............ also uses EventBusSessions_proofs
        MCKernelRuntime
      AuthPropagation .................. authentication service on top of the sessions
        AuthRegister .................... what it promises, implemented by AuthPropagation
        AuthPropagation_proofs .......... also uses EventBusSessions_proofs
        MCAuthPropagation
    SyncForwarding ..................... synchronization service and the forwarding tasks
      SyncForwarding_proofs
      MCSyncForwarding
    ConnectionMap ...................... the lock of the connection map, and writes that wait
      ConnectionMap_proofs
      MCConnectionMap
    FrameCodec ......................... the frames of both protocols
      FrameCodec_proofs
      FrameStream ...................... reading messages from a stream
        FrameStream_proofs .............. also uses FrameCodec_proofs
        MCFrameStream

`PROJECT.json` maps each definition to the lines it stands for. Definitions
whose comment begins *Mutant of* are faulty variants used to confirm that a property is
sensitive to the code it is about; no specification uses them.

### RuntimeHost and RuntimeLifecycle

The main task is sequential, so where it is needs one variable (`task`), with
the module a sweep has reached (`at`), whether a hook of the sweep has failed
(`failed`), and the request and the reply in hand. `phase`, `context`, `contextId`,
`lastError` and `sequence` are the fields of `RuntimeHost` and `RuntimeStateStore`;
`modPhase` is the phase each module keeps. Every module hook is a step of its own because it awaits;
the client and the services move in between. Parameters: the number of modules
(the program registers three), the set `Faults` of hooks that may return `Err`, and two bounds.
The hooks of the three present modules seldom fail (`on_context_initialize`
refuses a wrong phase; the others return `Ok`), but the orchestrator is written for modules that do, and its
error paths are what the model is about: `Faults` is empty or not as a run or a theorem wants it.

A request is a topic and an outcome. `RefuseRequest` is the decoding of the payload, which
every handler does first; `HandleQuery` stands for the handlers that only
read; `HandleCommand` for the three command topics, whose module requires its own
`ContextReady`. The context's identity is its sequence number. `received`,
`answered`, `acked` and `delivered` are history variables and guard no action.

A frame written before the client closes is still read: `recv` reports the end only
when nothing is left. A write may fail once the client has closed.

`RuntimeLifecycle` is the contract with the client, without modules, hooks, sweeps and rollbacks: one request in hand at a
time; a context that opens, closes or is withdrawn in one moment, and in the same moment the answer is ready and the
event is in the news; numbers of contexts that are never used twice, also when the initialization failed; news that are told in
order between requests; a good end only after stopping. `IsLifecycle` is the refinement. The mapping takes `context`,
`reply`, `events` and `delivered` for the context that is open, the answer, the news and what was told;
`StageOf` forgets which part of `Initializing`, `Ready` or `Destroying` a serving host is in; `Drawn` is the
highest number given to a context, and counts the one that is being initialized when that is over. A request takes effect when its sweep ends: the steps of a sweep
are stutters, as far as the client can tell. The contract is loose where the code is: a shutdown takes the context away without an event,
a request of any topic may be refused, a failed shutdown leaves the runtime `failed` but able to answer, and the end of the
process may lose what was not yet told.

### EventBusSessions

A member of `Launch` is one launch request with all it leads to: its server
task, its session and its browser process. `EnvOf` says which environment it is for.
`server[l]` goes through

    off -> creating -> listening -> accepted -> configuring -> receiving -> closing -> closed

or ends in `failed` (nobody hears of it: the launcher drops the receiver of the result)
or `abandoned` (a send failed after the connection was entered in the map, where it stays).
The pipe is named after the environment alone, and so two things are deliberately
loose: which browser of an environment connects to a listening server, and what is
under the environment's name in `connections`. `HoldsPipe` is the lifetime of the pipe
instance: a connection is shared by its task and the map, and the pipe goes when both have dropped it.
`CreatePipe` depends on it because the code asks for the first instance of the pipe
(`transport.rs:46-48`). `ConnectionLost` and `AnnounceLost` are the two steps of a
loop's end: the entry is removed, then the handlers are called.

### KernelRuntime

EXTENDS `EventBusSessions` and adds `EnvironmentRuntimeModule`, `KernelRuntime` and its
tables. A command runs on the main task, which waits for it (`Accepting`), a batch as one
task per environment, and all are joined before the next command. What runs beside it:

| tasks | variable | code |
|---|---|---|
| sessions and receive loops | `server` ... | `eventbus/manager.rs` |
| a task per status to record | `statusTasks` | `environment/mod.rs:115` |
| clean-up after a lost session | `cleanup` | `environment/mod.rs:136`, `kernel/mod.rs` |
| a task that puts a process into a job object | `assign` | `launcher.rs:164` |

Every access to a table under one lock is one step: `allocate_port` is `ReadPort` under
the read lock and `InsertPort` under the write lock, with everything else in between.
`PutJob` closes the job it replaces; closing a job ends its processes
(`KILL_ON_JOB_CLOSE`), and the receive loops notice later. A browser may also exit by itself at any time,
and may outlive a stop that fails before it gets to the job.

`BusRefined` states that the sessions as used here behave as `EventBusSessions` alone
allows, so what is proved of those holds of these. The refinement mapping is the
identity on the bus variables; what it shows is that no step of the service, however many
tables it changes, does anything to a session that the bus does not do.

### AuthPropagation and AuthRegister

EXTENDS `EventBusSessions` and adds `AuthRuntime` with its store, the notification that each
change ends with, and the answers the receive loops give. The contents of an `AuthInfo` are the number of
the change that stored it. A command or hook of the main task is `Store`, then `NotifyBegin` (which collects the
connected environments and takes the snapshot), one `NotifyEnv` for each of them, `NotifyDone`; the loops run in between. `send_event` looks the
environment up again, so a notification may reach another session than the one that was
connected when it began. A loop reads the store and writes its answer in two steps, and it answers outside contexts too. A
teardown has drained the map before the store is cleared (`app/module.rs` calls the hooks in reverse order).

`AuthRegister` is the contract: a register with one writer; a notification carries what it
holds when it is written, an answer something it held since the question. `IsRegister` maps
`latest`, `asked` and `view` to `auth`, `askedAt` and `told`. It is loose at one place because the code is:
an answer may overtake a notification made after it was computed, and the browser is then left with the older state until the next change.

### SyncForwarding

`SyncRuntimeModule`, `sync_master` and `sync_slaves` of the manager, and the tasks of `global.rs`. The main
task goes through `releasing`, `assigning`, `naming`, `telling` and `settling`; an input event goes through
`received`, `deciding` (the master has been read), `forwarding` (the slaves have been read) and `over`. Of the sessions only `connected` is
kept; a browser that connects has no role, as the code tells it none. `settings` is a history variable: every
setting the bus has had. `unsure` holds the browsers the code itself has lost sight of: a write of their role failed, or a
`StartSync` over a running synchronization left them out.

### ConnectionMap

The calls of `manager.rs` that use the map, reduced to the lock they take, the environments they write to while they
hold it, and the writes. `create_server` enters its connection under the write lock (`GrantInsert`), drops the guard and goes on
to write the configuration to the connection it has (`configure`, one write for its two messages); `handle_auth_request` writes its answer to the connection and does not
use the map. So a browser that connects while the map is held up gets neither entry, configuration nor loop until the lock is
free, and one whose loop runs gets its answers. A call that only looks, such as the `is_connected` of a stop, is a `Send` to no environment. The lock is tokio's `RwLock`, which is external and modelled by what its
documentation promises: many readers or one writer, in the order of the requests. A pipe takes a frame when it has none
to deliver, the least capacity with which a write can wait. `Reading` are the
environments whose browsers keep reading (or go away); the others may stop for ever. `Calls` says which task makes which calls.

### FrameCodec and FrameStream

`FrameCodec` has `encode`, `decode` and `try_decode`. The two protocols have the same layout, so
one module stands for both and the differences are `KnownType` and `TopicOf`: the client's protocol refuses an unknown message type and keeps an
unknown topic, the event bus takes the one for an event and the other for a handshake. A field is one cell.
Nothing is looked at before the whole header, and then before the whole payload, is in the buffer, so a cut
inside a field behaves like a cut in front of it.

`FrameStream` is `recv` of both transports: a peer that writes frames or parts of frames and may end
in the middle of one, a stream that hands over any number of cells at a time, and the reader's buffer. That the `select` of
the main loop drops a `recv` that waits changes nothing, because what was read is in the buffer; the model
shows it by keeping nothing else.

## 3. What the runs check

| run | instance | question |
|---|---|---|
| `host_faults` | 3 modules, all hooks may fail, 6 frames | do host, modules, answers and context events stay consistent through every failure, rollback, shutdown and disconnection, and is the whole a `RuntimeLifecycle`? |
| `host_liveness` | 3 modules, `start` and `initialize` can fail, 5 frames, 1 service event | do the two rollbacks leave nothing behind, are requests answered, does the process end? |
| `bus_sessions` | one environment launched three times | do its sessions exclude each other, do announcements tell the truth, is a dead browser forgotten? |
| `kernel_relaunch` | one environment launched twice, one stop, two ports | do tasks of the first browser leave a process out of reach, change the port of the second, or forget one? |
| `kernel_contexts` | one environment launched twice over two contexts, also twice in a batch | do late clean-ups disturb a launch, or the time between contexts? |
| `kernel_batch` | two environments, two ports | are ports distinct, and are the sessions those of the bus? |
| `kernel_liveness` | one environment, one launch, one stop | does a stop reach the client, by way of another task? |
| `kernel_status` | one environment, one launch | see [section 7](#7-a-disagreement-between-code-and-test) |
| `auth_service` | two environments launched once each, four changes, one question | does every browser hear of every change, and is what it hears allowed by the register? |
| `sync_service` | two environments, four settings, one input event | are roles, forwarded input and the module's copy those of the setting? |
| `frames` | either protocol, three pieces of six kinds besides whole frames | does the reader find what is in the stream, however it is cut? |
| `map_callers` | main task, a session, a forwarding task; two environments, one may stop reading | who can be made to wait by a browser that does not read, and is anything sent to one that is gone? |

The properties, in the terms of the code:

* `ContextAgrees`, `ModulesFollowHost`, `AnswerMatchesState`, `CleanExitIsStopped`: what
  the host says (phase, context id, answers, exit code) against what the modules did.
* `CommandsNeedContext`, `FailedStartLeavesNothing`: the two rollbacks.
* `NothingBeforeHandshake`, `ContextEventsAlternate`, `AnsweredBeforeEvent`: what the client can rely on.
* `IsLifecycle`: all that the client sees, as one machine. It says besides the others that the number of a
  failed initialization is not given to the next context, that nothing but the request in hand changes the context, and that
  nothing that was put in the channel is dropped or overtaken while the runtime serves.
* `EveryRequestAnswered`, `DisconnectEndsRuntime`: the main loop does not get stuck.
* `LoopOwnsEntry`, `NoDeadEntry`, `AnnouncedIffLive`, `DeadPeerForgotten`: sessions.
* `PortsInjective`, `PortStable`, `EndpointIsMine`, `PortsAccountedFor`, `PortsReleasedWithContext`: the port table.
  `PortsAccountedFor` names who is still there to give a port back. A session that was given up before its loop began is not, and
  the code keeps its port until the context ends: the property includes that case by name. That a late clean-up
  or a failed spawn may take the port of a *running* browser of the same environment is what the code does, and no property excludes it.
* `RunsOnlyWithJob`: the process table. A tracked browser that lost its place in the job table does not run on. It may
  lose that place to a clean-up of an earlier session, and then ends.
* `StopIsAnnounced`: a stop, from the closing of the job on.
* `NoticesReachEveryone`, `IsRegister`, `RequestsAnswered`: what browsers know of the authentication state.
* `RolesFollowSetting`, `ForwardedWhileInForce`, `ReportedSettingInForce`: synchronization.
* `SendsToConnected`, `WaitOnlyForBrowsers`, `CallsReturn`, `AnswersReturn`: the map and its lock. `SendsToConnected` speaks of
  every call that sends by way of the map, with or without a guard: a variant that clones the connection and drops the
  guard first, as `send_request` does (`manager.rs:388-394`), violates it.
  `CallsReturn` is where commands and teardowns are shown to end, as far as they do: it covers the sends, stops, `disconnect_all`, new sessions and ends of
  loops, and has the exception the code has: while somebody writes to a browser that has stopped reading, calls may wait for ever.
  `AnswersReturn` has none, because answers do not go through the map; it does not speak of the configuration, which
  waits for the entry into the map.
* `ReadAsWritten` (against a reference parser of the whole stream), `ReceivedAsSent`, `EveryFrameRead`: frames.

`TypeOK` of the host and of the environment service, which includes that of the sessions, are checked by runs; the
type invariants of the sessions, of authentication, of synchronization, of the connection map and of the frames are proved.

### Bounds, and why they are enough

* *Modules.* Three is what the program registers, and the least with which a sweep can
  fail in its first, middle and last step. The theorems hold for any number.
* *Frames (`MaxFrames`).* Six are a handshake, an initialization, a failed destroy, a
  second destroy or initialization, a shutdown that fails and another shutdown: the longest
  chain in which each request can depend on the failure of the one before. The theorems have no bound.
* *Which hooks fail (`Faults`).* All of them in `host_faults`. `host_liveness` leaves out `destroy`, because a rollback that fails leaves a
  module in its context (`CommandsNeedContext` is then false), and `shutdown`, because a start whose rollback fails
  leaves a module started (`FailedStartLeavesNothing` is then false).
* *Service events.* They only lengthen the queue; one is enough for a context event to wait behind another.
* *Launches.* Every table is keyed by environment and a task knows its environment by name only, so
  confusion takes two sessions of one environment; `bus_sessions` has three, so that
  one may be ending while one runs and one starts.
* *Environments and ports.* Two environments compete for ports; two ports are the
  least with which a wrong one can be given. That no port is left (`NoFreePort`) is reached with
  any number of them, as any port may fail to bind. Sessions of different environments share nothing but the map,
  each its own entry; `kernel_batch` runs two of them side by side.
* *Stops, contexts.* One stop between two launches and two contexts are the shortest
  histories in which what a task read has become stale.
* *Changes of the authentication state (`MaxVersion`).* Four are the start, the context, and two commands, or a command
  and the end of the context: a question can then be read before one change and be answered after the next. A
  relaunch during a notification is covered by the theorems only.
* *Settings (`MaxSettings`).* The bus begins with one; three more are a start, a start over it and a stop, or a start, the
  end of its context and a start in the next. Two environments can change places, and one may be its own slave,
  which the code allows. One event suffices, as tasks share no state.
* *Pieces (`MaxPieces`).* Three: a frame behind one that is split and in front of one that is cut off. The parts include
  headers that promise less, as much and more than follows.
* *Callers.* One of each kind that waits differently: one that writes under the read lock and drains, one that
  enters, configures, answers and removes its entry, one that only sends. The theorems hold for any number, each making any calls.

Symmetry is used only in safety runs: over ports and over launches of the same environment, over two
environments together with their launches (`kernel_batch`), and over environments in
`sync_service`. No definition tells them apart.

Deadlock checking is off in every run: frames, launches, stops, contexts, questions, settings and pieces are used up in the
end, and the process itself ends; in `map_callers` everything really may stop, with a browser that does not read. That nothing stops
*before* that is what the liveness properties say.

## 4. Fairness

* `RuntimeHost`: `WF(MainStep)`. The executor polls the main task whenever it can run, module hooks return, and a response that is written
  is taken by the client or fails. So a client that stops reading while it keeps the pipe open, and a hook that never returns, are
  assumed away. Otherwise nothing is assumed of the client, which may stay silent for ever or never close, or of the services.
* `EventBusSessions`: `WF(LoopStep)`. A receive loop whose peer is gone gets an
  error from the operating system, and then runs to its end. On the way it needs the map's write lock, and that it gets the lock is assumed:
  `ConnectionMap` shows that it does unless someone writes to a browser that has stopped reading. No fairness for a
  connection with a live peer: browsers need not shake hands, and a pipe need not fail.
* `KernelRuntime`: the same for the receive loops, with the same assumption about the map's lock, and weak fairness for the step of a stop that
  closes the job and for clean-ups, which wait for a table's lock and nothing else. None for the `Disconnect` that a stop or a
  teardown writes, which is done under the map's lock, has no timeout and may wait for ever; so no property of this module says that stops or teardowns end.
* `AuthPropagation`: `WF(MainStep)` for the command under way, and weak fairness for a loop that has a
  question to read or an answer to write. Writes return and the map's lock is had, as before. Browsers need not ask, connect or live.
* `FrameStream`: `WF(Receive)`. The callers call `recv` again after each message, and bytes that were written arrive.
* `ConnectionMap`: weak fairness for the lock (`Grant`), for the return of each call and for reading by the browsers
  of `Reading`; *strong* fairness for each write. A pipe that can be written wakes all tasks that wait for it and the
  woken tasks take turns, so a task cannot lose the race for the pipe for ever, although the pipe is full again
  each time another has won it. Weak fairness would not say so, as the write is disabled in between.

`SyncForwarding` has no liveness property: its steps wait for the map only.

## 5. What is proved

The modules named `_proofs` are checked by TLAPS without any unproved step. Assumptions: only the named ones of the modules (the number of modules is
positive, `Faults` is a set of hooks, the bounds are naturals; `EnvOf` is a function;
`None` is no launch, no port, no caller, no environment and no number; the fields of a frame are numbers). No proof depends on the value of a bound.

**Host.** `HostTypeCorrect` shows the type invariant, which also says that a sweep never leaves the
list of modules. `HostInvariant` shows `HostInv`, from which `ContextsAgree`,
`ModulesFollow`, `AnswersAreTrue` and `CleanExits` follow. The four are not
inductive: an answer is right because of what a sweep did some steps before it is written. `HostInv` adds

* `SweepsInOrder`: which modules a sweep has passed and what phase it gave them
  (all below `at`, or all above it unless one failed), the phase of the host and the request it is for;
* `SettledBetweenRequests`: what the host has come back to when the sweep is over, in
  particular that `Ready` without an error on record means every module is ready, also
  after a destroy that failed earlier (the error stays on record until the next initialization starts).

On top of `HostInv`, each of the remaining safety properties has a small invariant of its own:
`ContextRollbackInv` (modules a sweep has passed have given the context up) for `NoCommandsWithoutContext`,
`StartRollbackInv` (modules a start has not reached are untouched) for `FailedStarts`, and
`GateInv` (nothing about a context is queued or on its way) for `HandshakeGates`.
`NoCommandsWithoutContext` and `FailedStarts` have a hypothesis, that one hook cannot fail: it is part of the
property, and without it the property is false.

`ContextEventsInTurn` is about what comes out of the channel, and its invariant `EventsInv` about what is in it: the last event
delivered, the queue and the host's context fit together. Service events may lie anywhere in the queue, so the invariant speaks of *neighbours*,
events about contexts with none between them: each follows the one before (`InOrder`), and the last says what context
the host has (`Current`). Six lemmas say what appending to the queue and taking its head do to that; the steps of the host
then only have to say which of the two they do. `AnswersComeFirst` needs `AckInv`: what is
in the channel has been acknowledged, or the acknowledgement is in the main task's hand.

`HostIsLifecycle` is the refinement of `RuntimeLifecycle`, step by step: `HandlerLifeStep`, `SweepLifeStep` and `HostLifeStep` map
the handlers, the steps of a sweep and the rest each to a step of the contract or to a stutter. `HandInv` is what they
need beside `HostInv`: whether a request is in hand, and which one, follows from where the main task is, there is a reply exactly when it is about to be written, and
numbers of contexts come from below `sequence`.

**Sessions.** `BusTypeCorrect`, then `BusInvariant` for `BusInv`: `OnePipePerEnv` needs
`NoDeadEntry` (an entry keeps a pipe alive, so one must know what the map can hold) and
`NoDeadEntry` needs `OnePipePerEnv` (otherwise a new session could be overwritten in the map
by an older one), and `AnnouncedIffLive` needs both. `PipesAreExclusive`, `EntriesAreAlive`,
`LoopsOwnTheirEntries` and `AnnouncementsAreTrue` follow. They hold for any environments and any number of launches.

**Environment service.** `SessionsRefined` shows that `KernelRuntime` implements `EventBusSessions`: a step
that closes jobs is an exit of browsers, a launch is a launch, every other step of the service leaves the sessions
alone. So the theorems on sessions hold here too; `LoopsOwnTheirEntriesUnderService` and
`AnnouncementsAreTrueUnderService` are the ones that matter most.
`PortsAreDistinct` and `PortsAreStable` rest on one lemma, `PortSteps`: a step either gives ports back or
takes one that nobody has for an environment that has none, which is true because `InsertPort` looks again.
`TrackedBrowsersOnly` is inductive with the types. `PortsReleased` needs `ContextInv`: commands run inside a context only,
so nothing takes a port once a teardown has cleared the table. `EndpointsAreMine` needs `EndpointInv`: without
duplicates in a batch, an environment has one launch at a time, and while it runs others can only give its port back.
`PortsComeBack` is inductive with the types; its lemma `PortHolders` says that whatever holds an environment's port (a launch on its way, a session, a
clean-up still to come) hands over to the next until the port is given back.

**Authentication.** `AuthInv` contains `BusInv`, because who is told is decided by the map, and the
map must not hold a session that is gone or not yet configured. Besides: a sweep carries the present state, because nobody
stores anything while it runs (`InFlightOK`); a connected browser whose last news is a notification has the
present state, or the sweep has still to come to its environment (`NoticesOK`). `NoticesAreComplete` follows, and
`ServiceIsRegister`, the refinement: every step is a step of the register or a stutter. The session may be
relaunched in the middle of a sweep; that a new session has been told nothing is part of the invariant.

**Synchronization.** `SyncInv` has one part for each property: `SettingInv` follows the setting from the command
through `set_sync_state` to the module's copy; `RoleInv` says whom a sweep has still to tell; `TaskInv` says that what a task
has read it has read since it was spawned, in the order master, then slaves. With `PhaseInv` (nothing is synchronized outside
contexts) they give `ReportIsRight`, `RolesAreRight` and `ForwardingIsRight`. What makes the last one true of two reads
under two locks is only that settings are assigned under both, and in one order.

**Frames.** The operators first, for every message and every buffer: `Decodes` (a buffer is incomplete, malformed, or begins
with a frame that is all in it and is not nothing, so the reader makes progress), `CutIndependence` (a buffer that decodes, or is
refused, does so in the same way when more arrives), `RoundTrip` (what is encoded is decoded, whatever follows it)
and `UnknownTypeRefused` (what the receiver does not know is refused, whatever follows it). `OnlyFramesDecode` is the
converse of `RoundTrip`: what is accepted is the layout that `encode` writes, with lengths that agree, and at most some cells more
in the payload, which `decode` ignores. It needs no reference parser, so it also says what `ReadAsWritten`, whose parser
shares `try_decode` with the reader, cannot.

Then the reader, whatever pieces are written and however the stream cuts and joins them. `FramesCutStream` shows `StreamInv`:
there are places in what was written (`IsCut`) between which lie, one after the other, the frames of
the messages received, and what follows the last of them is what the buffer and the stream hold; a reader that
has failed has a refused frame in front. A step that takes a frame sets one more place, which
`CutIndependence` allows: the frame in the buffer is the frame in the whole stream. `MessagesArriveAsSent` says that
the places are the ends of the frames that were written, as long as whole frames were written, by `RoundTrip` and an induction over the frames;
`ReaderFindsTheSame` says that they are the places where a parser of the whole stream cuts it, by an induction over the places.

`ReceivedAsSent` and `ReadAsWritten` speak of recursive functions, a fold over the frames and the reference parser. The library's induction theorems
take operators as parameters and cannot be used here, so `NatInductionSet` and `BoundedInductionSet` state induction for *sets* of
numbers, by well-foundedness of the naturals, and a property becomes the set of numbers that have it. That the recursive functions exist
is a lemma of its own (`FlatteningExists`, `ReaderExists`): a function that satisfies the
recursion for a shorter stream is extended to a longer one.

**Connection map.** `MapInv`: who waits is in the queue once, who holds a guard is writing, who sends holds one, a writer is alone. From it
`SendsReachTheConnected` and `NoCircularWait`. The first is true because each call that sends by way of the map keeps its guard
until the last write; the second is short because the code never asks for the
lock while it holds it; the mutant that does shows what the property is for.

## 6. What is only model-checked

Liveness (`EveryRequestAnswered`, `DisconnectEndsRuntime`, `DeadPeerForgotten`,
`StopIsAnnounced`, `RequestsAnswered`, `EveryFrameRead`, `CallsReturn`, `AnswersReturn`), which this
prover does not handle under fairness.

Every safety property that a passing run checks is proved, the action property `PortStable` and the three refinements included.

## 7. A disagreement between code and test

`kernel_status` finds `DisconnectMarksStopped` violated. The connection-status handler
(`services/environment/mod.rs:115-125`) spawns one task for every status to record. A browser that connects and goes
away at once leaves two such tasks and the clean-up task; nothing orders them, and the one that
records `Running` may be the last to run. The client has been told `disconnected`, all
tasks are over, and `GetEnvironmentStatus` says `Running` until the environment is next
started. The unit test `browser_disconnect_marks_environment_stopped` (`kernel/mod.rs:189-204`) states that the status
after a disconnection is `Stopped`; it calls the clean-up directly and so never meets the other task.

## 8. What is not modelled

* **Contents**: payloads, fingerprints, command-line arguments, paths, timestamps, log lines. Environment
  ids are abstract, which hides that `launcher.rs:91` looks the port up by the untrimmed id.
* **Commands without effect on the runtime's state**: `RefreshProxy`, `SetWindowBounds`, the queries.
* **Code that nobody calls**: `send_request` and `start_recv_loop` of the manager, `try_recv` of the transports.
* **Promises the code does not make**, so that there is no property: that an answer is not older than the last
  notification (`IsRegister` only bounds it by the question); that a browser left out by a second `StartSync`, or
  one that reconnects, is told its role (`RolesFollowSetting` excepts the first; the second has no role); that a
  slave gets no input between being released and the next `set_sync_state` (`ForwardedWhileInForce` goes by
  the setting); that input events keep their order, as each has a task of its own; that requests pipelined behind a `Shutdown` are
  answered.
* **Frames of two writers on one connection.** `transport.rs:105` writes in a loop, and nothing in the
  code keeps two writers apart; the pipe library takes a frame whole or not at all, so the loop runs once.
  `ConnectionMap` takes whole frames from it.
* **Widths of fields.** `encode` writes lengths as `u32` (`as u32`, `ipc/message.rs:141` and `147`, and the same in the event bus), which cuts off
  what is 4 GiB and more; the model has the identity there, so what is said of frames is said of smaller ones. A length of up to 4 GiB is accepted as it comes, and the buffer grows towards it. No arithmetic on a
  length can overflow on the 64-bit targets of the build workflows, and cells are numbers without a width.
* **Other platforms.** The model is of the Windows build. In the macOS build `PipeServer::accept` always fails
  (`transport.rs:225`) and job objects do not exist: of the model's behaviours only those remain in which every server task takes
  `AcceptFails` and every assignment `AssignFails`, so no browser is ever connected, and a stop reaches none.
* **A lost process**: nothing is persisted, so there is no recovery to model. A frame that does not decode ends the
  process without a shutdown; the model has that step (`BadFrame`) and claims nothing of it but that the process is over.
* **The services all at once.** Environment, authentication and synchronization services are modelled each over the sessions (or
  the map) but not together: they share the main task, which calls one after the other, and the bus.
* **Diagnostics, payload types, build scripts**: no state or not part of the program.

## 9. Plan

Done: all modules of [section 2](#2-modules-and-how-they-correspond-to-the-code) and their proofs.
What could follow:

1. *Composition.* Host and environment service together: a shutdown or a disconnection with launches, sessions and clean-ups in
   flight, and what is left when `run()` returns.
2. *Larger instances.* A relaunch in `auth_service`, three environments in `sync_service`; both are covered by
   theorems, and TLC needs minutes for each already.
