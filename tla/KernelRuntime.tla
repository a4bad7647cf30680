---------------------------- MODULE KernelRuntime ----------------------------
(***************************************************************************)
(* The environment service over the event bus: launch_browser,             *)
(* stop_environment and their batches (kernel/launcher.rs), the port table *)
(* (kernel/cdp.rs), the job table (kernel/job.rs), the status table        *)
(* (status_manager.rs), the handlers the service installs on the bus and   *)
(* its lifecycle hooks (environment/mod.rs).                               *)
(*                                                                         *)
(* A command runs on the main task, or on one task per environment for a   *)
(* batch, and the next one starts when it is over.  Everything else is     *)
(* concurrent: sessions, receive loops, one task per status to record, one *)
(* per disconnect to clean up, one per process to put into a job.  They    *)
(* share the tables and know each other by the environment's name only.    *)
(***************************************************************************)
EXTENDS EventBusSessions, Integers, FiniteSets

CONSTANTS
    Port,               \* the configured range of debugging ports
    DuplicatesInBatch,  \* a batch may name an environment twice
    MaxStops,           \* bound: stop commands
    MaxContexts         \* bound: contexts initialised

ASSUME PortAssumption   == None \notin Port
ASSUME FlagAssumption   == DuplicatesInBatch \in BOOLEAN
ASSUME BoundAssumption  == MaxStops \in Nat /\ MaxContexts \in Nat

VARIABLES
    modulePhase,  \* EnvironmentModuleState.phase
    teardown,     \* where on_context_destroy or on_runtime_shutdown is
    target,       \* the phase it ends in
    launch,       \* where the launch_browser of a request is
    lport,        \* the port it allocated, until it is over
    stop,         \* where the stop_environment of an environment is
    ports,        \* CdpEndpointManager.ports
    jobs,         \* JobManager.jobs: the browser whose job the table holds
    statuses,     \* EnvironmentStatusManager.statuses
    assign,       \* the task that puts a browser into a job object
    statusTasks,  \* spawned tasks about to record a status
    cleanup,      \* the task spawned when a session's browser disconnected
    stops, contexts  \* commands used up, against the bounds

kernelVars == <<modulePhase, teardown, target, launch, lport, stop,
                ports, jobs, statuses, assign, statusTasks, cleanup, stops, contexts>>
vars == <<busVars, kernelVars>>

LaunchStates   == {"new", "read", "insert", "start", "release", "resolve", "done"}
StopStates     == {"idle", "check", "send", "job", "port", "status"}
TeardownStates == {"none", "bus", "jobs", "ports", "statuses", "phase"}
CleanupStates  == {"none", "job", "port", "status", "done"}
ModulePhases   == {"Dormant", "RuntimeStarted", "ContextReady", "RuntimeStopped"}
Statuses       == {"Starting", "Running", "Stopped"}

Init ==
    /\ BusInit
    /\ modulePhase = "Dormant" /\ teardown = "none" /\ target = "Dormant"
    /\ launch = [l \in Launch |-> "new"]
    /\ lport = [l \in Launch |-> None]
    /\ stop = [e \in Env |-> "idle"]
    /\ ports = [e \in Env |-> None]
    /\ jobs = [e \in Env |-> None]
    /\ statuses = [e \in Env |-> None]
    /\ assign = [l \in Launch |-> "none"]
    /\ statusTasks = {}
    /\ cleanup = [l \in Launch |-> "none"]
    /\ stops = 0 /\ contexts = 0

Launching(l) == launch[l] \notin {"new", "done"}
Busy == (\E l \in Launch : Launching(l)) \/ (\E e \in Env : stop[e] # "idle")

\* The main task can take a command: execute_command wants a ContextReady.
Accepting == modulePhase = "ContextReady" /\ teardown = "none" /\ ~Busy

SetPort(e, p)   == ports' = [ports EXCEPT ![e] = p]
SetStatus(e, s) == statuses' = [statuses EXCEPT ![e] = s]

\* Dropping a job object closes it, and KILL_ON_JOB_CLOSE ends its processes.
KillAll(B) ==
    browser' = [b \in Launch |-> IF b \in B /\ browser[b] = "running"
                                 THEN "exited" ELSE browser[b]]

PutJob(e, l) == jobs' = [jobs EXCEPT ![e] = l] /\ KillAll({jobs[e]} \ {l})
RemoveJob(e) == PutJob(e, None)

\* The variables each group of steps leaves alone.
pipes     == <<server, peer, connections, announced>>
lifecycle == <<modulePhase, teardown, target, contexts>>
requests  == <<launch, lport>>
tasks     == <<assign, statusTasks, cleanup>>
stopping  == <<stop, stops>>

(***************************************************************************)
(* The lifecycle hooks of EnvironmentRuntimeModule.                        *)
(***************************************************************************)

RuntimeStart ==
    /\ modulePhase = "Dormant"
    /\ modulePhase' = "RuntimeStarted"
    /\ UNCHANGED <<busVars, teardown, target, requests, stopping, ports, jobs,
                   statuses, tasks, contexts>>

ContextInitialize ==
    /\ modulePhase = "RuntimeStarted" /\ teardown = "none"
    /\ contexts < MaxContexts /\ contexts' = contexts + 1
    /\ modulePhase' = "ContextReady"
    /\ UNCHANGED <<busVars, teardown, target, requests, stopping, ports, jobs,
                   statuses, tasks>>

BeginTeardown(from, to) ==
    /\ modulePhase = from /\ teardown = "none" /\ ~Busy
    /\ teardown' = "bus" /\ target' = to
    /\ UNCHANGED <<busVars, modulePhase, contexts, requests, stopping, ports, jobs,
                   statuses, tasks>>

ContextDestroy  == BeginTeardown("ContextReady", "RuntimeStarted")
RuntimeShutdown == BeginTeardown("RuntimeStarted", "RuntimeStopped")

TeardownBus ==
    /\ teardown = "bus" /\ teardown' = "jobs"
    /\ DisconnectAll
    /\ UNCHANGED <<modulePhase, target, contexts, requests, stopping, ports, jobs,
                   statuses, tasks>>

TeardownJobs ==
    /\ teardown = "jobs" /\ teardown' = "ports"
    /\ jobs' = [e \in Env |-> None]
    /\ KillAll({jobs[e] : e \in Env})
    /\ UNCHANGED <<pipes, modulePhase, target, contexts, requests, stopping, ports,
                   statuses, tasks>>

\* Mutant of TeardownPorts: the port table survives the context.
TeardownPortsKept ==
    /\ teardown = "ports" /\ teardown' = "statuses"
    /\ UNCHANGED <<busVars, modulePhase, target, contexts, requests, stopping, ports,
                   jobs, statuses, tasks>>

TeardownPorts ==
    /\ teardown = "ports" /\ teardown' = "statuses"
    /\ ports' = [e \in Env |-> None]
    /\ UNCHANGED <<busVars, modulePhase, target, contexts, requests, stopping, jobs,
                   statuses, tasks>>

TeardownStatuses ==
    /\ teardown = "statuses" /\ teardown' = "phase"
    /\ statuses' = [e \in Env |-> None]
    /\ UNCHANGED <<busVars, modulePhase, target, contexts, requests, stopping, ports,
                   jobs, tasks>>

TeardownDone ==
    /\ teardown = "phase" /\ teardown' = "none"
    /\ modulePhase' = target
    /\ UNCHANGED <<busVars, target, contexts, requests, stopping, ports, jobs,
                   statuses, tasks>>

(***************************************************************************)
(* Launching.                                                              *)
(***************************************************************************)

Distinct(S) == \A l, m \in S : EnvOf[l] = EnvOf[m] => l = m

\* Mutant of StartEnvironments: a batch returns without joining its tasks.
StartEnvironmentsUnjoined ==
    /\ modulePhase = "ContextReady" /\ teardown = "none"
    /\ \E S \in SUBSET {l \in Launch : launch[l] = "new"} \ {{}} :
          /\ DuplicatesInBatch \/ Distinct(S)
          /\ launch' = [l \in Launch |-> IF l \in S THEN "read" ELSE launch[l]]
    /\ UNCHANGED <<busVars, lifecycle, lport, stopping, ports, jobs,
                   statuses, tasks>>

\* StartEnvironment is a batch of one; a batch is joined before it returns.
StartEnvironments ==
    /\ Accepting
    /\ \E S \in SUBSET {l \in Launch : launch[l] = "new"} \ {{}} :
          /\ DuplicatesInBatch \/ Distinct(S)
          /\ launch' = [l \in Launch |-> IF l \in S THEN "read" ELSE launch[l]]
    /\ UNCHANGED <<busVars, lifecycle, lport, stopping, ports, jobs,
                   statuses, tasks>>

LaunchTo(l, state) == launch' = [launch EXCEPT ![l] = state]
LaunchOver(l) == LaunchTo(l, "done") /\ lport' = [lport EXCEPT ![l] = None]

\* launch_browser refuses an executable that does not exist.
ExecutableMissing(l) ==
    /\ launch[l] = "read"
    /\ LaunchTo(l, "done")
    /\ UNCHANGED <<busVars, lifecycle, lport, stopping, ports, jobs,
                   statuses, tasks>>

UsePort(l, p) == lport' = [lport EXCEPT ![l] = p] /\ LaunchTo(l, "start")

\* allocate_port under the read lock: an environment keeps its port.
ReadPort(l) ==
    /\ launch[l] = "read"
    /\ \/ ports[EnvOf[l]] # None /\ UsePort(l, ports[EnvOf[l]])
       \/ ports[EnvOf[l]] = None /\ LaunchTo(l, "insert") /\ UNCHANGED lport
    /\ UNCHANGED <<busVars, lifecycle, stopping, ports, jobs, statuses, tasks>>

\* Mutant of InsertPort: what the read lock saw is not looked at again.
InsertPortUnchecked(l) ==
    /\ launch[l] = "insert"
    /\ \E p \in Port \ {ports[e] : e \in Env} : SetPort(EnvOf[l], p) /\ UsePort(l, p)
    /\ UNCHANGED <<busVars, lifecycle, stopping, jobs, statuses, tasks>>

\* Mutant of InsertPort: only the bind test keeps ports apart.
InsertPortByBind(l) ==
    /\ launch[l] = "insert"
    /\ \E p \in Port : SetPort(EnvOf[l], p) /\ UsePort(l, p)
    /\ UNCHANGED <<busVars, lifecycle, stopping, jobs, statuses, tasks>>

\* allocate_port under the write lock: look again, then take a port that no
\* environment has and that can be bound (which ports can is up to the system).
InsertPort(l) ==
    /\ launch[l] = "insert"
    /\ \/ /\ ports[EnvOf[l]] # None
          /\ UsePort(l, ports[EnvOf[l]])
          /\ UNCHANGED ports
       \/ /\ ports[EnvOf[l]] = None
          /\ \E p \in Port \ {ports[e] : e \in Env} :
                SetPort(EnvOf[l], p) /\ UsePort(l, p)
    /\ UNCHANGED <<busVars, lifecycle, stopping, jobs, statuses, tasks>>

\* Mutant of NoFreePort: port 0 is taken, as if the system would choose one.
NoFreePortTakesZero(l) ==
    /\ launch[l] = "insert" /\ ports[EnvOf[l]] = None
    /\ SetPort(EnvOf[l], 0) /\ UsePort(l, 0)
    /\ UNCHANGED <<busVars, lifecycle, stopping, jobs, statuses, tasks>>

NoFreePort(l) ==
    /\ launch[l] = "insert" /\ ports[EnvOf[l]] = None
    /\ LaunchTo(l, "done")
    /\ UNCHANGED <<busVars, lifecycle, lport, stopping, ports, jobs,
                   statuses, tasks>>

\* Mutant of SpawnBrowser: the process is spawned and its server never started.
SpawnBrowserUnserved(l) ==
    /\ launch[l] = "start"
    /\ SetStatus(EnvOf[l], "Starting")
    /\ BrowserSpawned(l) /\ UNCHANGED <<server, peer, connections, announced>>
    /\ assign' = [assign EXCEPT ![l] = "pending"]
    /\ LaunchTo(l, "resolve")
    /\ UNCHANGED <<lifecycle, lport, stopping, ports, jobs, statusTasks, cleanup>>

\* The status goes through Initializing to Starting (nobody can act on the
\* first value), the server is started and the process spawned, with a task
\* that will put it into a job object.
SpawnBrowser(l) ==
    /\ launch[l] = "start"
    /\ SetStatus(EnvOf[l], "Starting")
    /\ LaunchBrowser(l)
    /\ assign' = [assign EXCEPT ![l] = "pending"]
    /\ LaunchTo(l, "resolve")
    /\ UNCHANGED <<lifecycle, lport, stopping, ports, jobs, statusTasks, cleanup>>

SpawnFails(l) ==
    /\ launch[l] = "start"
    /\ SetStatus(EnvOf[l], "Starting")
    /\ LaunchWithoutBrowser(l)
    /\ LaunchTo(l, "release")
    /\ UNCHANGED <<lifecycle, lport, stopping, ports, jobs, tasks>>

\* Mutant of ReleasePort: a failed spawn returns with its error at once.
ReleasePortKept(l) ==
    /\ launch[l] = "release"
    /\ LaunchOver(l)
    /\ UNCHANGED <<busVars, lifecycle, stopping, ports, jobs, statuses, tasks>>

\* After a failed spawn the environment's port is given back.
ReleasePort(l) ==
    /\ launch[l] = "release"
    /\ SetPort(EnvOf[l], None)
    /\ LaunchOver(l)
    /\ UNCHANGED <<busVars, lifecycle, stopping, jobs, statuses, tasks>>

\* The endpoint is looked up again and returned; the launch is over.
ResolveEndpoint(l) ==
    /\ launch[l] = "resolve"
    /\ LaunchOver(l)
    /\ UNCHANGED <<busVars, lifecycle, stopping, ports, jobs, statuses, tasks>>

\* Mutant of AssignJob: a job already in the table keeps its place, and the
\* new process is in a job that nothing holds by name.
AssignJobKeepsOld(l) ==
    /\ assign[l] = "pending"
    /\ assign' = [assign EXCEPT ![l] = "done"]
    /\ jobs' = [jobs EXCEPT ![EnvOf[l]] = IF @ = None THEN l ELSE @]
    /\ UNCHANGED <<busVars, lifecycle, requests, stopping, ports, statuses,
                   statusTasks, cleanup>>

\* create_and_assign: the job replaces the one the table holds, whose drop
\* ends an older browser of the environment.
AssignJob(l) ==
    /\ assign[l] = "pending"
    /\ assign' = [assign EXCEPT ![l] = "done"]
    /\ PutJob(EnvOf[l], l)
    /\ UNCHANGED <<pipes, lifecycle, requests, stopping, ports, statuses,
                   statusTasks, cleanup>>

\* The job object cannot be created, or the process cannot be put into it.
AssignFails(l) ==
    /\ assign[l] = "pending"
    /\ assign' = [assign EXCEPT ![l] = "failed"]
    /\ UNCHANGED <<busVars, lifecycle, requests, stopping, ports, jobs, statuses,
                   statusTasks, cleanup>>

(***************************************************************************)
(* Stopping.                                                               *)
(***************************************************************************)

StopTo(e, state) == stop' = [stop EXCEPT ![e] = state]

StopEnvironments ==
    /\ Accepting /\ stops < MaxStops /\ stops' = stops + 1
    /\ \E S \in SUBSET Env \ {{}} :
          stop' = [e \in Env |-> IF e \in S THEN "check" ELSE stop[e]]
    /\ UNCHANGED <<busVars, lifecycle, requests, ports, jobs, statuses, tasks>>

\* is_connected.
StopCheck(e) ==
    /\ stop[e] = "check"
    /\ StopTo(e, IF connections[e] # None THEN "send" ELSE "idle")
    /\ UNCHANGED <<busVars, lifecycle, requests, stops, ports, jobs, statuses, tasks>>

\* disconnect looks the connection up again; sending Disconnect may fail, and
\* then nothing else is done.
StopSend(e) ==
    /\ stop[e] = "send"
    /\ \/ connections[e] # None /\ PeerRuns(connections[e]) /\ StopTo(e, "job")
       \/ StopTo(e, "idle")
    /\ UNCHANGED <<busVars, lifecycle, requests, stops, ports, jobs, statuses, tasks>>

\* Mutant of StopJob: the browser is asked to go, its job stays.
StopJobKept(e) ==
    /\ stop[e] = "job"
    /\ StopTo(e, "port")
    /\ UNCHANGED <<busVars, lifecycle, requests, stops, ports, jobs, statuses, tasks>>

StopJob(e) ==
    /\ stop[e] = "job"
    /\ RemoveJob(e)
    /\ StopTo(e, "port")
    /\ UNCHANGED <<pipes, lifecycle, requests, stops, ports, statuses, tasks>>

StopPort(e) ==
    /\ stop[e] = "port"
    /\ SetPort(e, None)
    /\ StopTo(e, "status")
    /\ UNCHANGED <<busVars, lifecycle, requests, stops, jobs, statuses, tasks>>

StopStatus(e) ==
    /\ stop[e] = "status"
    /\ SetStatus(e, "Stopped")
    /\ StopTo(e, "idle")
    /\ UNCHANGED <<busVars, lifecycle, requests, stops, ports, jobs, tasks>>

(***************************************************************************)
(* The bus and the handlers installed on it.                               *)
(***************************************************************************)

\* The connection-status handler spawns a task that records the status.
SessionAnnounced(l) ==
    /\ ConfigSent(l)
    /\ statusTasks' = statusTasks \cup {<<l, "Running">>}
    /\ UNCHANGED <<lifecycle, requests, stopping, ports, jobs, statuses, assign, cleanup>>

\* At the end of a session that handler is called, then the disconnect
\* handler, which spawns handle_browser_disconnect.
SessionLost(l) ==
    /\ AnnounceLost(l)
    /\ statusTasks' = statusTasks \cup {<<l, "Stopped">>}
    /\ cleanup' = [cleanup EXCEPT ![l] = "job"]
    /\ UNCHANGED <<lifecycle, requests, stopping, ports, jobs, statuses, assign>>

RecordStatus(t) ==
    /\ t \in statusTasks
    /\ statusTasks' = statusTasks \ {t}
    /\ SetStatus(EnvOf[t[1]], t[2])
    /\ UNCHANGED <<busVars, lifecycle, requests, stopping, ports, jobs, assign, cleanup>>

CleanupTo(l, state) == cleanup' = [cleanup EXCEPT ![l] = state]

\* Mutant of CleanupJob: an environment without a job is not cleaned up further.
CleanupJobReturns(l) ==
    /\ cleanup[l] = "job"
    /\ RemoveJob(EnvOf[l])
    /\ CleanupTo(l, IF jobs[EnvOf[l]] = None THEN "done" ELSE "port")
    /\ UNCHANGED <<pipes, lifecycle, requests, stopping, ports, statuses, assign,
                   statusTasks>>

\* handle_browser_disconnect: job, port and status of the environment.
CleanupJob(l) ==
    /\ cleanup[l] = "job"
    /\ RemoveJob(EnvOf[l])
    /\ CleanupTo(l, "port")
    /\ UNCHANGED <<pipes, lifecycle, requests, stopping, ports, statuses, assign,
                   statusTasks>>

CleanupPort(l) ==
    /\ cleanup[l] = "port"
    /\ SetPort(EnvOf[l], None)
    /\ CleanupTo(l, "status")
    /\ UNCHANGED <<busVars, lifecycle, requests, stopping, jobs, statuses, assign,
                   statusTasks>>

CleanupStatus(l) ==
    /\ cleanup[l] = "status"
    /\ SetStatus(EnvOf[l], "Stopped")
    /\ CleanupTo(l, "done")
    /\ UNCHANGED <<busVars, lifecycle, requests, stopping, ports, jobs, assign,
                   statusTasks>>

\* The other steps of the sessions and of the browsers.
BusStep(l) ==
    /\ \/ CreatePipe(l) \/ AcceptFails(l) \/ BrowserConnects(l) \/ HandshakeOk(l)
       \/ HandshakeFails(l) \/ ConfigFails(l) \/ ConnectionLost(l) \/ BrowsersExit({l})
    /\ UNCHANGED kernelVars

Teardown == TeardownBus \/ TeardownJobs \/ TeardownPorts \/ TeardownStatuses \/ TeardownDone

LaunchStep(l) ==
    \/ ExecutableMissing(l) \/ ReadPort(l) \/ InsertPort(l) \/ NoFreePort(l)
    \/ SpawnBrowser(l) \/ SpawnFails(l) \/ ReleasePort(l) \/ ResolveEndpoint(l)

StopStep(e) == StopCheck(e) \/ StopSend(e) \/ StopJob(e) \/ StopPort(e) \/ StopStatus(e)

CleanupStep(l) == CleanupJob(l) \/ CleanupPort(l) \/ CleanupStatus(l)

Next ==
    \/ RuntimeStart \/ ContextInitialize \/ ContextDestroy \/ RuntimeShutdown
    \/ Teardown
    \/ StartEnvironments \/ StopEnvironments
    \/ \E l \in Launch :
          \/ LaunchStep(l) \/ AssignJob(l) \/ AssignFails(l) \/ CleanupStep(l)
          \/ SessionAnnounced(l) \/ SessionLost(l) \/ BusStep(l)
    \/ \E e \in Env : StopStep(e)
    \/ \E t \in statusTasks : RecordStatus(t)

Spec == Init /\ [][Next]_vars

\* What follows the Disconnect message of a stop is run, and so are the end of a
\* session and its clean-up.  The end of a session takes the map's write lock, and
\* that it gets it is assumed: ConnectionMap is about when it does not.  Nothing is
\* assumed of sends, of launches and teardowns, of the client or of live browsers.
SessionEnds(l) == (ConnectionLost(l) /\ ~PeerRuns(l) /\ UNCHANGED kernelVars) \/ SessionLost(l)

FairSpec ==
    /\ Spec
    /\ \A l \in Launch : WF_vars(CleanupStep(l)) /\ WF_vars(SessionEnds(l))
    /\ \A e \in Env : WF_vars(StopJob(e))

-----------------------------------------------------------------------------
(***************************************************************************)
(* Properties                                                              *)
(***************************************************************************)

\* The type invariant of the kernel's variables.
TypeOK ==
    /\ BusTypeOK
    /\ modulePhase \in ModulePhases /\ target \in ModulePhases
    /\ teardown \in TeardownStates
    /\ launch \in [Launch -> LaunchStates]
    /\ lport \in [Launch -> Port \cup {None}]
    /\ stop \in [Env -> StopStates]
    /\ ports \in [Env -> Port \cup {None}]
    /\ jobs \in [Env -> Launch \cup {None}]
    /\ statuses \in [Env -> Statuses \cup {None}]
    /\ assign \in [Launch -> {"none", "pending", "done", "failed"}]
    /\ statusTasks \subseteq Launch \X {"Running", "Stopped"}
    /\ cleanup \in [Launch -> CleanupStates]
    /\ stops \in 0 .. MaxStops /\ contexts \in 0 .. MaxContexts

\* No two environments have the same debugging port, whatever launches of a
\* batch, stops and late clean-ups do to the table (cdp.rs:43-53).
PortsInjective ==
    \A e, f \in Env : ports[e] # None /\ ports[e] = ports[f] => e = f

\* An environment's port is given back before it gets another: two launches of
\* one environment in a batch agree on it (cdp.rs:43-46).
PortStable ==
    [][\A e \in Env : ports[e] # None => ports'[e] \in {ports[e], None}]_vars

\* The endpoint about to be looked up for the client is the port its browser
\* was told to open, or gone (launcher.rs:58, 90-93), unless a batch launches an
\* environment twice.
EndpointIsMine ==
    ~DuplicatesInBatch =>
        \A l \in Launch : launch[l] = "resolve" => ports[EnvOf[l]] \in {lport[l], None}

\* A browser that was put into a job runs only while the job table still holds
\* that job: replaced, removed or cleared, the old process ends (job.rs:68-122).
\* So an environment has at most one such browser, and none is out of reach.
RunsOnlyWithJob ==
    \A l \in Launch :
        browser[l] = "running" /\ assign[l] = "done" => jobs[EnvOf[l]] = l

\* Without a context no environment holds a port, although clean-ups of old
\* sessions are still running (environment/mod.rs:165-174, 176-189).
PortsReleasedWithContext ==
    modulePhase # "ContextReady" /\ teardown = "none" => \A e \in Env : ports[e] = None

\* No port is forgotten: an environment has one only while a launch of it is on its
\* way, after a launch that spawned its browser until the session of that launch
\* ends (one given up before its loop began never does, and gives nothing back
\* before the context ends), or while a clean-up is still to come, with or without
\* a job in the table (cdp.rs:56-59, kernel/mod.rs:110-116, launcher.rs:53-68).
PortsAccountedFor ==
    \A e \in Env : ports[e] # None =>
        \E l \in Launch :
            /\ EnvOf[l] = e
            /\ \/ launch[l] \in {"start", "release"}
               \/ browser[l] # "none" /\ server[l] # "closed"
               \/ cleanup[l] \in {"job", "port"}

\* The sessions under the service behave as the event bus alone does.
BusRefined == BusSpec

\* Stopping an environment whose browser is tracked and connected reaches the
\* client as a disconnection: its job ends the process, its receive loop sees
\* the pipe close and announces it, if it gets the map's lock (launcher.rs:209-210,
\* manager.rs:325-348).
StopIsAnnounced ==
    \A l \in Launch :
        stop[EnvOf[l]] = "job" /\ jobs[EnvOf[l]] = l /\ server[l] = "receiving" /\ peer[l] = l
            ~> server[l] = "closed" /\ cleanup[l] = "done"

\* After the client has been told that an environment disconnected and every
\* task about it has run, its status is not Running (kernel/mod.rs:189-204).
DisconnectMarksStopped ==
    \A e \in Env :
        LET Settled ==
              /\ \A t \in statusTasks : EnvOf[t[1]] # e
              /\ \A l \in Launch : EnvOf[l] = e =>
                    cleanup[l] \in {"none", "done"} /\ server[l] \in {"off", "failed", "closed"}
        IN  Settled /\ announced[e] = "disconnected" => statuses[e] # "Running"
=============================================================================
