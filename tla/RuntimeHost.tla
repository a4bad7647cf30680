---------------------------- MODULE RuntimeHost ----------------------------
(***************************************************************************)
(* The runtime process as its client sees it: the main task of             *)
(* src/app/bootstrap.rs (one loop that reads requests, answers them and    *)
(* forwards events), the RuntimeHost of src/app/host.rs that it drives and *)
(* the ModuleOrchestrator of src/app/module.rs that the host drives.       *)
(*                                                                         *)
(* The main task is sequential, so its program counter is one variable     *)
(* (task), with the module it has reached (at) while a sweep over the      *)
(* modules is under way.  Every module hook is a step of its own: a hook   *)
(* awaits, and the client and the services move in between.                *)
(***************************************************************************)
EXTENDS Integers, Sequences

CONSTANTS
    NumModules,        \* modules registered with the orchestrator, in order
    Faults,            \* the hooks that may return Err: a subset of Hooks
    MaxFrames,         \* bound: frames the client writes
    MaxServiceEvents   \* bound: events the services emit

Hooks == {"start", "init", "destroy", "shutdown"}

ASSUME ModulesAssumption == NumModules \in Nat \ {0}
ASSUME FaultsAssumption  == Faults \subseteq Hooks
ASSUME BoundsAssumption  == MaxFrames \in Nat /\ MaxServiceEvents \in Nat

VARIABLES
    phase,       \* RuntimeStateStore.phase
    context,     \* RuntimeHost.context: the installed context's sequence number
    contextId,   \* RuntimeStateStore.context_id, as QueryState reports it
    lastError,   \* RuntimeStateStore.last_error is Some
    sequence,    \* RuntimeHost.context_sequence: the next number to give out
    modPhase,    \* the phase each module keeps
    task,        \* where the main task is
    at,          \* the module a sweep has reached
    failed,      \* a hook of the current sweep returned Err
    request,     \* the topic being handled, or "disconnect"
    reply,       \* the response about to be written
    handshake,   \* RuntimeBootstrap.handshake_complete
    unread,      \* frames the client wrote and the main task has not read
    submitted,   \* frames the client wrote
    closed,      \* the client closed its ends of the pipes
    events,      \* the unbounded event channel
    emitted,     \* events the services have emitted
    received,    \* requests read so far
    answered,    \* responses written so far
    acked,       \* contexts whose InitializeContext was answered with success
    delivered    \* the context events written to the client, in order

host    == <<phase, context, contextId, lastError, sequence>>
loop    == <<task, at, failed, request, reply, handshake>>
client  == <<unread, submitted, closed>>
history == <<received, answered, acked, delivered>>
vars    == <<host, modPhase, loop, client, events, emitted, history>>

Modules   == 1 .. NumModules
NoContext == 0

RuntimePhases == {"Booting", "Uninitialized", "Initializing", "Ready",
                  "Destroying", "ShuttingDown", "Stopped", "Failed"}
ModulePhases  == {"Dormant", "RuntimeStarted", "ContextReady", "RuntimeStopped"}
Topics        == {"handshake", "query", "initialize_context",
                  "destroy_context", "shutdown", "command", "unsupported"}
Requests      == Topics \cup {"none", "disconnect"}
Codes         == {"none", "ok", "HandshakeRequired", "InvalidState", "Decode",
                  "AlreadyInitialized", "NotInitialized", "Module", "Service"}
Replies       == [topic : Requests, code : Codes]
Tasks         == {"starting", "start_rollback", "idle", "initializing",
                  "init_rollback", "destroying", "stop_context",
                  "stop_modules", "replying", "exited", "exited_error"}
Exited        == task \in {"exited", "exited_error"}

NoReply      == [topic |-> "none", code |-> "none"]
Event(n, c)  == [name |-> n, context |-> c]
EventNames   == {"runtime.started", "runtime.context_initialized",
                 "runtime.context_destroyed", "runtime.stopped", "service"}
Events       == [name : EventNames, context : Nat]

Init ==
    /\ phase = "Booting"
    /\ context = NoContext /\ contextId = NoContext
    /\ lastError = FALSE
    /\ sequence = 1
    /\ modPhase = [m \in Modules |-> "Dormant"]
    /\ task = "starting" /\ at = 1 /\ failed = FALSE
    /\ request = "none" /\ reply = NoReply
    /\ handshake = FALSE
    /\ unread = 0 /\ submitted = 0 /\ closed = FALSE
    /\ events = <<>> /\ emitted = 0
    /\ received = 0 /\ answered = 0 /\ acked = {} /\ delivered = <<>>

(***************************************************************************)
(* Module hooks.  A hook that succeeds moves its module to a phase; one    *)
(* that returns Err leaves the phase alone.                                *)
(***************************************************************************)

HookOk(target) == modPhase' = [modPhase EXCEPT ![at] = target]

HookErr(hook) == hook \in Faults /\ UNCHANGED modPhase

\* Mutant of Sweep: the result of the last module hides an earlier error.
SweepForgetsErrors(hook, target) ==
    /\ at > 0
    /\ at' = at - 1
    /\ \/ HookOk(target) /\ failed' = FALSE
       \/ HookErr(hook) /\ failed' = TRUE

\* Mutant of Sweep: nothing stops the index below the first module.
SweepUnbounded(hook, target) ==
    /\ at' = at - 1
    /\ \/ HookOk(target) /\ UNCHANGED failed
       \/ HookErr(hook) /\ failed' = TRUE

\* One step of the sweeps that run in reverse order and never stop early:
\* destroy_context, shutdown and the two rollbacks.  The first error is kept.
Sweep(hook, target) ==
    /\ at > 0
    /\ at' = at - 1
    /\ \/ HookOk(target) /\ UNCHANGED failed
       \/ HookErr(hook) /\ failed' = TRUE

Emit(n, c) == events' = Append(events, Event(n, c))

Answer(code) ==
    /\ task' = "replying"
    /\ reply' = [topic |-> request', code |-> code]

(***************************************************************************)
(* RuntimeHost::start and ModuleOrchestrator::start.                       *)
(***************************************************************************)

StartModule ==
    /\ task = "starting" /\ at <= NumModules
    /\ \/ HookOk("RuntimeStarted") /\ at' = at + 1 /\ UNCHANGED <<task, failed>>
       \/ /\ HookErr("start")
          /\ task' = "start_rollback" /\ at' = at - 1 /\ failed' = TRUE
    /\ UNCHANGED <<host, request, reply, handshake, client, events, emitted, history>>

RollbackStart ==
    /\ task = "start_rollback"
    /\ Sweep("shutdown", "RuntimeStopped")
    /\ UNCHANGED <<host, task, request, reply, handshake, client, events, emitted, history>>

\* Mutant of StartFails: the rollback stops before the first module.
StartFailsEarly ==
    /\ task = "start_rollback" /\ at <= 1
    /\ task' = "exited_error"
    /\ UNCHANGED <<host, modPhase, at, failed, request, reply, handshake,
                   client, events, emitted, history>>

\* run() returns the error of host.start(): the loop is never entered.
StartFails ==
    /\ task = "start_rollback" /\ at = 0
    /\ task' = "exited_error"
    /\ UNCHANGED <<host, modPhase, at, failed, request, reply, handshake,
                   client, events, emitted, history>>

StartDone ==
    /\ task = "starting" /\ at > NumModules
    /\ task' = "idle"
    /\ lastError' = FALSE
    /\ phase' = "Uninitialized"
    /\ Emit("runtime.started", NoContext)
    /\ UNCHANGED <<context, contextId, sequence, modPhase, at, failed, request,
                   reply, handshake, client, emitted, history>>

(***************************************************************************)
(* The main loop: reading a frame.                                         *)
(***************************************************************************)

Read == task = "idle" /\ unread > 0 /\ unread' = unread - 1

\* Frames whose type is not Request are dropped.
DropNonRequest ==
    /\ Read
    /\ UNCHANGED <<host, modPhase, loop, submitted, closed, events, emitted, history>>

\* A frame that does not decode ends run() with an error.
BadFrame ==
    /\ Read
    /\ task' = "exited_error"
    /\ UNCHANGED <<host, modPhase, at, failed, request, reply, handshake,
                   submitted, closed, events, emitted, history>>

ReadRequest(topic) ==
    /\ Read
    /\ request' = topic
    /\ received' = received + 1
    /\ UNCHANGED <<submitted, closed, answered, acked, delivered>>

\* Topics whose handlers only read: the answer is all that happens.
NoEffect == UNCHANGED <<host, modPhase, at, failed, events, emitted>>

\* process_incoming: nothing but Handshake passes before the handshake.
RefuseBeforeHandshake ==
    \E topic \in Topics \ {"handshake"} :
        /\ ~handshake
        /\ ReadRequest(topic)
        /\ Answer("HandshakeRequired")
        /\ NoEffect /\ UNCHANGED handshake

\* Mutant of Admitted: requests are served before the handshake.
AdmittedAlways(topic) == ReadRequest(topic)

Admitted(topic) == ReadRequest(topic) /\ (handshake \/ topic = "handshake")

\* Mutant of RefuseRequest: the error path goes back to the loop unanswered.
RefuseRequestSilently ==
    \E topic \in Topics :
        /\ Admitted(topic)
        /\ UNCHANGED <<task, reply, handshake>>
        /\ NoEffect

\* Every handler decodes its payload first; RuntimeEvent and unknown topics
\* are refused by handle_request itself.
RefuseRequest ==
    \E topic \in Topics :
        /\ Admitted(topic)
        /\ Answer(IF topic = "unsupported" THEN "InvalidState" ELSE "Decode")
        /\ NoEffect /\ UNCHANGED handshake

HandleHandshake ==
    /\ Admitted("handshake")
    /\ handshake' = TRUE
    /\ Answer("ok")
    /\ NoEffect

\* Ping, QueryState and QueryHealth.
HandleQuery ==
    /\ Admitted("query")
    /\ Answer("ok")
    /\ NoEffect /\ UNCHANGED handshake

\* AuthCommand, EnvironmentCommand and SyncCommand: the module that serves the
\* command requires its own phase to be ContextReady.
HandleCommand ==
    \E m \in Modules :
        /\ Admitted("command")
        /\ \/ modPhase[m] = "ContextReady" /\ \E c \in {"ok", "Service"} : Answer(c)
           \/ modPhase[m] # "ContextReady" /\ Answer("InvalidState")
        /\ NoEffect /\ UNCHANGED handshake

(***************************************************************************)
(* InitializeContext.                                                      *)
(***************************************************************************)

HandleInitialize ==
    /\ Admitted("initialize_context")
    /\ \/ /\ phase = "Uninitialized"
          /\ phase' = "Initializing"
          /\ lastError' = FALSE
          /\ sequence' = sequence + 1
          /\ task' = "initializing" /\ at' = 1 /\ failed' = FALSE
          /\ UNCHANGED reply
       \/ /\ phase # "Uninitialized"
          /\ Answer(IF phase = "Ready" THEN "AlreadyInitialized" ELSE "InvalidState")
          /\ UNCHANGED <<phase, lastError, sequence, at, failed>>
    /\ UNCHANGED <<context, contextId, modPhase, handshake, events, emitted>>

\* on_context_initialize of the module at `at`: every module refuses unless it
\* is in RuntimeStarted, and may fail in its own way.
InitializeModule ==
    /\ task = "initializing" /\ at <= NumModules
    /\ \/ /\ modPhase[at] = "RuntimeStarted"
          /\ HookOk("ContextReady")
          /\ at' = at + 1 /\ UNCHANGED <<task, failed>>
       \/ /\ modPhase[at] # "RuntimeStarted" \/ "init" \in Faults
          /\ task' = "init_rollback" /\ at' = at - 1 /\ failed' = TRUE
          /\ UNCHANGED modPhase
    /\ UNCHANGED <<host, request, reply, handshake, client, events, emitted, history>>

\* Mutant of RollbackInitialize: the modules are counted but not destroyed.
RollbackInitializeSkips ==
    /\ task = "init_rollback" /\ at > 0
    /\ at' = at - 1
    /\ UNCHANGED <<host, modPhase, task, failed, request, reply, handshake, client,
                   events, emitted, history>>

RollbackInitialize ==
    /\ task = "init_rollback"
    /\ Sweep("destroy", "RuntimeStarted")
    /\ UNCHANGED <<host, task, request, reply, handshake, client, events, emitted, history>>

\* Mutant of InitializeFails: the number is given back.
InitializeFailsGivesBack ==
    /\ task = "init_rollback" /\ at = 0
    /\ lastError' = TRUE
    /\ phase' = "Uninitialized"
    /\ sequence' = sequence - 1
    /\ UNCHANGED request /\ Answer("Module")
    /\ UNCHANGED <<context, contextId, modPhase, at, failed, handshake,
                   client, events, emitted, history>>

InitializeFails ==
    /\ task = "init_rollback" /\ at = 0
    /\ lastError' = TRUE
    /\ phase' = "Uninitialized"
    /\ UNCHANGED request /\ Answer("Module")
    /\ UNCHANGED <<context, contextId, sequence, modPhase, at, failed, handshake,
                   client, events, emitted, history>>

InitializeDone ==
    /\ task = "initializing" /\ at > NumModules
    /\ context' = sequence - 1
    /\ contextId' = sequence - 1
    /\ phase' = "Ready"
    /\ Emit("runtime.context_initialized", sequence - 1)
    /\ UNCHANGED request /\ Answer("ok")
    /\ UNCHANGED <<lastError, sequence, modPhase, at, failed, handshake,
                   client, emitted, history>>

(***************************************************************************)
(* DestroyContext.                                                         *)
(***************************************************************************)

HandleDestroy ==
    /\ Admitted("destroy_context")
    /\ \/ /\ context # NoContext
          /\ phase' = "Destroying"
          /\ task' = "destroying" /\ at' = NumModules /\ failed' = FALSE
          /\ UNCHANGED reply
       \/ /\ context = NoContext
          /\ Answer("NotInitialized")
          /\ UNCHANGED <<phase, at, failed>>
    /\ UNCHANGED <<context, contextId, lastError, sequence, modPhase, handshake,
                   events, emitted>>

DestroyModule ==
    /\ task = "destroying"
    /\ Sweep("destroy", "RuntimeStarted")
    /\ UNCHANGED <<host, task, request, reply, handshake, client, events, emitted, history>>

\* Mutant of DestroyFails: the event is published whatever the outcome.
DestroyFailsAnnounces ==
    /\ task = "destroying" /\ at = 0 /\ failed
    /\ lastError' = TRUE
    /\ phase' = "Ready"
    /\ Emit("runtime.context_destroyed", context)
    /\ UNCHANGED request /\ Answer("Module")
    /\ UNCHANGED <<context, contextId, sequence, modPhase, at, failed, handshake,
                   client, emitted, history>>

DestroyFails ==
    /\ task = "destroying" /\ at = 0 /\ failed
    /\ lastError' = TRUE
    /\ phase' = "Ready"
    /\ UNCHANGED request /\ Answer("Module")
    /\ UNCHANGED <<context, contextId, sequence, modPhase, at, failed, handshake,
                   client, events, emitted, history>>

DestroyDone ==
    /\ task = "destroying" /\ at = 0 /\ ~failed
    /\ context' = NoContext
    /\ contextId' = NoContext
    /\ phase' = "Uninitialized"
    /\ Emit("runtime.context_destroyed", context)
    /\ UNCHANGED request /\ Answer("ok")
    /\ UNCHANGED <<lastError, sequence, modPhase, at, failed, handshake,
                   client, emitted, history>>

(***************************************************************************)
(* Shutdown, asked for by the client or caused by its going away.          *)
(***************************************************************************)

ShutdownResult(ok) ==
    IF request' = "disconnect"
    THEN task' = (IF ok THEN "exited" ELSE "exited_error") /\ UNCHANGED reply
    ELSE Answer(IF ok THEN "ok" ELSE "Module")

\* shutdown_runtime up to its first sweep.
BeginShutdown ==
    IF phase \in {"Stopped", "ShuttingDown"}
    THEN ShutdownResult(TRUE) /\ UNCHANGED <<phase, at, failed>>
    ELSE /\ phase' = "ShuttingDown"
         /\ task' = (IF context # NoContext THEN "stop_context" ELSE "stop_modules")
         /\ at' = NumModules /\ failed' = FALSE
         /\ UNCHANGED reply

HandleShutdown ==
    /\ Admitted("shutdown")
    /\ BeginShutdown
    /\ UNCHANGED <<context, contextId, lastError, sequence, modPhase, handshake,
                   events, emitted>>

\* Mutant of PeerDisconnected: without a context the loop just goes on.
PeerDisconnectedIgnored ==
    /\ task = "idle" /\ closed /\ unread = 0 /\ context # NoContext
    /\ request' = "disconnect"
    /\ BeginShutdown
    /\ UNCHANGED <<context, contextId, lastError, sequence, modPhase, handshake,
                   client, events, emitted, history>>

\* recv() reports ConnectionClosed once everything written has been read.
PeerDisconnected ==
    /\ task = "idle" /\ closed /\ unread = 0
    /\ request' = "disconnect"
    /\ BeginShutdown
    /\ UNCHANGED <<context, contextId, lastError, sequence, modPhase, handshake,
                   client, events, emitted, history>>

StopContextModule ==
    /\ task = "stop_context"
    /\ Sweep("destroy", "RuntimeStarted")
    /\ UNCHANGED <<host, task, request, reply, handshake, client, events, emitted, history>>

\* Mutant of StopContextDone: the state store keeps the context's id.
StopContextDoneKeepsId ==
    /\ task = "stop_context" /\ at = 0
    /\ lastError' = (lastError \/ failed)
    /\ context' = NoContext
    /\ task' = "stop_modules" /\ at' = NumModules /\ failed' = FALSE
    /\ UNCHANGED <<phase, contextId, sequence, modPhase, request, reply, handshake,
                   client, events, emitted, history>>

\* A failed destroy is recorded and the shutdown goes on.
StopContextDone ==
    /\ task = "stop_context" /\ at = 0
    /\ lastError' = (lastError \/ failed)
    /\ context' = NoContext
    /\ contextId' = NoContext
    /\ task' = "stop_modules" /\ at' = NumModules /\ failed' = FALSE
    /\ UNCHANGED <<phase, sequence, modPhase, request, reply, handshake, client,
                   events, emitted, history>>

StopModule ==
    /\ task = "stop_modules"
    /\ Sweep("shutdown", "RuntimeStopped")
    /\ UNCHANGED <<host, task, request, reply, handshake, client, events, emitted, history>>

ShutdownDone ==
    /\ task = "stop_modules" /\ at = 0
    /\ UNCHANGED request /\ ShutdownResult(~failed)
    /\ \/ /\ failed
          /\ lastError' = TRUE
          /\ phase' = "Failed"
          /\ UNCHANGED events
       \/ /\ ~failed
          /\ phase' = "Stopped"
          /\ Emit("runtime.stopped", NoContext)
          /\ UNCHANGED lastError
    /\ UNCHANGED <<context, contextId, sequence, modPhase, at, failed, handshake,
                   client, emitted, history>>

(***************************************************************************)
(* Writing to the client.                                                  *)
(***************************************************************************)

\* The response is written; a successful Shutdown breaks out of the loop.
SendReply ==
    /\ task = "replying"
    /\ answered' = answered + 1
    /\ acked' = IF reply = [topic |-> "initialize_context", code |-> "ok"]
                THEN acked \cup {context} ELSE acked
    /\ task' = IF reply = [topic |-> "shutdown", code |-> "ok"]
               THEN "exited" ELSE "idle"
    /\ request' = "none" /\ reply' = NoReply
    /\ UNCHANGED <<host, modPhase, at, failed, handshake, client, events, emitted,
                   received, delivered>>

\* Mutant of ForwardEvent: events are forwarded by a task of their own.
ForwardEventConcurrently ==
    /\ ~Exited /\ events # <<>>
    /\ events' = Tail(events)
    /\ delivered' = IF Head(events).context # NoContext
                    THEN Append(delivered, Head(events)) ELSE delivered
    /\ UNCHANGED <<host, modPhase, loop, client, emitted, received, answered, acked>>

\* forward_event takes the oldest event; only the context events are recorded.
ForwardEvent ==
    /\ task = "idle" /\ events # <<>>
    /\ events' = Tail(events)
    /\ delivered' = IF Head(events).context # NoContext
                    THEN Append(delivered, Head(events)) ELSE delivered
    /\ UNCHANGED <<host, modPhase, loop, client, emitted, received, answered, acked>>

\* Once the client is gone a write may fail, and run() returns the error.
WriteFails ==
    /\ closed
    /\ \/ task = "replying" /\ UNCHANGED events
       \/ task = "idle" /\ events # <<>> /\ events' = Tail(events)
    /\ task' = "exited_error"
    /\ UNCHANGED <<host, modPhase, at, failed, request, reply, handshake, client,
                   emitted, history>>

(***************************************************************************)
(* The client and the services.                                            *)
(***************************************************************************)

Submit ==
    /\ ~closed /\ submitted < MaxFrames
    /\ unread' = unread + 1 /\ submitted' = submitted + 1
    /\ UNCHANGED <<host, modPhase, loop, closed, events, emitted, history>>

Close ==
    /\ ~closed
    /\ closed' = TRUE
    /\ UNCHANGED <<host, modPhase, loop, unread, submitted, events, emitted, history>>

\* Handlers and background tasks of the services publish on the same channel.
ServiceEmits ==
    /\ ~Exited /\ emitted < MaxServiceEvents
    /\ \E m \in Modules : modPhase[m] \in {"RuntimeStarted", "ContextReady"}
    /\ emitted' = emitted + 1
    /\ Emit("service", NoContext)
    /\ UNCHANGED <<host, modPhase, loop, client, history>>

Handle ==
    \/ DropNonRequest \/ BadFrame \/ RefuseBeforeHandshake \/ RefuseRequest
    \/ HandleHandshake \/ HandleQuery \/ HandleCommand
    \/ HandleInitialize \/ HandleDestroy \/ HandleShutdown

MainStep ==
    \/ StartModule \/ RollbackStart \/ StartFails \/ StartDone
    \/ Handle \/ PeerDisconnected
    \/ InitializeModule \/ RollbackInitialize \/ InitializeFails \/ InitializeDone
    \/ DestroyModule \/ DestroyFails \/ DestroyDone
    \/ StopContextModule \/ StopContextDone \/ StopModule \/ ShutdownDone
    \/ SendReply \/ ForwardEvent \/ WriteFails

Next == MainStep \/ Submit \/ Close \/ ServiceEmits

Spec == Init /\ [][Next]_vars

\* The executor polls the main task as long as it can run; hooks return, and a
\* response that is written is taken or fails.
FairSpec == Spec /\ WF_vars(MainStep)

-----------------------------------------------------------------------------
(***************************************************************************)
(* Properties                                                              *)
(***************************************************************************)

FlagsOK == {lastError, failed, handshake, closed} \subseteq BOOLEAN

ValuesOK ==
    /\ phase \in RuntimePhases
    /\ context \in Nat /\ contextId \in Nat /\ sequence \in Nat \ {0}
    /\ modPhase \in [Modules -> ModulePhases]
    /\ task \in Tasks /\ at \in 0 .. NumModules + 1
    /\ task \in {"starting", "initializing"} => at # 0
    /\ request \in Requests /\ reply \in Replies
    /\ submitted \in Nat /\ unread \in Nat
    /\ events \in Seq(Events) /\ emitted \in Nat
    /\ received \in Nat /\ answered \in Nat
    /\ acked \subseteq Nat
    /\ delivered \in Seq(Events)

\* The type invariant: every field holds a value of its Rust type, and a sweep
\* never leaves the module list.
TypeOK == FlagsOK /\ ValuesOK

AllModules(p) == \A m \in Modules : modPhase[m] = p

\* Between requests the host's two records of the context agree, and they hold
\* one exactly when the phase says Ready (host.rs: every path of
\* handle_initialize_context, destroy_context and shutdown_runtime).
ContextAgrees ==
    /\ contextId = context
    /\ task = "idle" => (phase = "Ready" <=> context # NoContext)

\* Between requests, unless an error is on record, the modules are where the
\* host's phase says: all ContextReady when Ready, all RuntimeStarted when
\* Uninitialized (module.rs: initialize_context, destroy_context, rollback).
ModulesFollowHost ==
    task = "idle" /\ ~lastError =>
        /\ phase = "Ready" => AllModules("ContextReady")
        /\ phase = "Uninitialized" => AllModules("RuntimeStarted")

\* As long as destroying a module's context cannot fail, no module accepts
\* commands while the runtime has no context: not after a rolled-back
\* initialization, nor after a shutdown that failed (module.rs:64-116).
CommandsNeedContext ==
    "destroy" \notin Faults /\ task = "idle" /\ context = NoContext =>
        \A m \in Modules : modPhase[m] # "ContextReady"

\* The answer about to be written says what happened: a success means that the
\* whole of it happened in every module, an error to DestroyContext that the
\* context is still installed, an error to Shutdown that the runtime Failed.
AnswerMatchesState ==
    LET Answers(t, c) == task = "replying" /\ reply = [topic |-> t, code |-> c] IN
    /\ Answers("initialize_context", "ok") =>
          phase = "Ready" /\ context = sequence - 1 /\ AllModules("ContextReady")
    /\ Answers("initialize_context", "Module") =>
          phase = "Uninitialized" /\ context = NoContext
    /\ Answers("destroy_context", "ok") =>
          phase = "Uninitialized" /\ context = NoContext /\ AllModules("RuntimeStarted")
    /\ Answers("destroy_context", "Module") => phase = "Ready" /\ context # NoContext
    /\ Answers("shutdown", "ok") => phase = "Stopped" /\ AllModules("RuntimeStopped")
    /\ Answers("shutdown", "Module") => phase = "Failed" /\ context = NoContext

\* run() returns Ok only with the runtime stopped, its context gone and every
\* module stopped, also when an earlier Shutdown had failed half way
\* (bootstrap.rs:48-58, host.rs:355-386).
CleanExitIsStopped ==
    task = "exited" =>
        phase = "Stopped" /\ context = NoContext /\ AllModules("RuntimeStopped")

\* The strengthening that makes the four properties above inductive: what a
\* sweep has done so far and which request it is for, and what the host has
\* come back to when it is over.
SweepsInOrder ==
    LET Below(p) == \A m \in Modules : m < at => modPhase[m] = p
        Above(p) == \A m \in Modules : m > at => modPhase[m] = p
    IN
    /\ task \in {"starting", "start_rollback"} => phase = "Booting" /\ context = NoContext
    /\ task = "starting" => ~lastError /\ Below("RuntimeStarted")
    /\ task \in {"initializing", "init_rollback"} =>
          phase = "Initializing" /\ context = NoContext /\ request = "initialize_context"
    /\ task = "initializing" => ~lastError /\ sequence > 1 /\ Below("ContextReady")
    /\ task = "destroying" =>
          /\ phase = "Destroying" /\ context # NoContext /\ request = "destroy_context"
          /\ failed \/ Above("RuntimeStarted")
    /\ task \in {"stop_context", "stop_modules"} =>
          phase = "ShuttingDown" /\ request \in {"shutdown", "disconnect"}
    /\ task = "stop_modules" => context = NoContext /\ (failed \/ Above("RuntimeStopped"))

SettledBetweenRequests ==
    task \in {"idle", "replying"} =>
        /\ phase \in {"Uninitialized", "Ready", "Failed", "Stopped"}
        /\ phase = "Ready" <=> context # NoContext
        /\ phase = "Stopped" => AllModules("RuntimeStopped")
        /\ phase = "Ready" /\ ~lastError => AllModules("ContextReady")
        /\ phase = "Uninitialized" /\ ~lastError => AllModules("RuntimeStarted")

HostInv ==
    /\ TypeOK
    /\ contextId = context
    /\ SweepsInOrder /\ SettledBetweenRequests
    /\ AnswerMatchesState /\ CleanExitIsStopped

\* A start that fails leaves no module started (module.rs:48-62).
FailedStartLeavesNothing ==
    task = "exited_error" /\ phase = "Booting" /\ "shutdown" \notin Faults =>
        \A m \in Modules : modPhase[m] \in {"Dormant", "RuntimeStopped"}

\* Until a handshake has succeeded the client can change nothing: no context
\* number is drawn, whatever is sent and in whatever order (bootstrap.rs:79-90).
NothingBeforeHandshake ==
    ~handshake => sequence = 1 /\ context = NoContext /\ acked = {} /\ delivered = <<>>

\* The client sees contexts open and close in turn, under numbers it has not
\* seen before, although requests, failures and forwarding interleave freely
\* (events.rs: one FIFO channel; host.rs:217, 232, 348).
ContextEventsAlternate ==
    \A i \in 1 .. Len(delivered) :
        IF i % 2 = 1
        THEN /\ delivered[i].name = "runtime.context_initialized"
             /\ i > 1 => delivered[i].context > delivered[i - 1].context
        ELSE /\ delivered[i].name = "runtime.context_destroyed"
             /\ delivered[i].context = delivered[i - 1].context

\* The client has been answered before it sees the event of the context it
\* asked for: the event waits in the channel while the reply is written.
AnsweredBeforeEvent ==
    \A i \in 1 .. Len(delivered) : delivered[i].context \in acked

\* The phases the client can tell apart, and how run() ended.
StageOf(t, p) ==
    IF t = "exited" THEN "ended"
    ELSE IF t = "exited_error" THEN "aborted"
    ELSE CASE p = "Booting" -> "starting"
           [] p \in {"Uninitialized", "Initializing", "Ready", "Destroying"} -> "serving"
           [] p = "ShuttingDown" -> "stopping"
           [] p = "Stopped" -> "stopped"
           [] p = "Failed" -> "failed"

\* The number of a context that is being initialized counts when that is over.
Drawn == IF task \in {"initializing", "init_rollback"} THEN sequence - 2 ELSE sequence - 1

\* To the client the runtime is a machine whose requests take effect in one
\* moment, although each is a sweep over modules that may fail half way and is
\* rolled back (host.rs, module.rs, bootstrap.rs:36-77).
Lifecycle == INSTANCE RuntimeLifecycle WITH
    stage <- StageOf(task, phase), installed <- context, drawn <- Drawn,
    answer <- reply, news <- events, told <- delivered

IsLifecycle == Lifecycle!LifeSpec

\* Every request is answered, or the process ends.
EveryRequestAnswered == received > answered ~> (received = answered \/ Exited)

\* When the client goes away the runtime ends: nothing keeps the loop alive.
DisconnectEndsRuntime == closed ~> Exited
=============================================================================
