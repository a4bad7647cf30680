------------------------ MODULE KernelRuntime_proofs ------------------------
(***************************************************************************)
(* Proofs about KernelRuntime, for any environments, launches and ports:   *)
(* its sessions are those of EventBusSessions, so that what is proved of   *)
(* the event bus alone holds of it under the environment service; and the  *)
(* port table and the job table are kept as they should be.                *)
(***************************************************************************)
EXTENDS KernelRuntime, EventBusSessions_proofs

\* Closing some jobs ends running browsers and nothing else.
LEMMA KillAllIsExit ==
    ASSUME NEW B, browser \in [Launch -> {"none", "running", "exited"}],
           KillAll(B), UNCHANGED pipes
    PROVE  \E K \in SUBSET Launch : BrowsersExit(K)
<1> DEFINE K == {b \in Launch : b \in B /\ browser[b] = "running"}
<1>1. browser' = [b \in Launch |-> IF b \in K THEN "exited" ELSE browser[b]]
  BY DEF KillAll
<1>2. BrowsersExit(K)
  BY <1>1 DEF BrowsersExit, pipes
<1> QED
  BY <1>2

\* Every step of the environment service is a step of the sessions, or leaves
\* them alone.
LEMMA StepsOfSessions == BusTypeOK /\ [Next]_vars => [BusNext]_busVars
<1> SUFFICES ASSUME BusTypeOK, [Next]_vars
             PROVE  [BusNext]_busVars
  OBVIOUS
<1> DEFINE Exits == \E K \in SUBSET Launch : BrowsersExit(K)
<1>1. CASE RuntimeStart \/ ContextInitialize \/ ContextDestroy \/ RuntimeShutdown
  BY <1>1 DEF RuntimeStart, ContextInitialize, ContextDestroy, RuntimeShutdown, BeginTeardown
<1>2. CASE Teardown
  <2>1. CASE TeardownBus
    BY <2>1 DEF TeardownBus, BusNext
  <2>2. CASE TeardownJobs
    <3>1. Exits
      BY <2>2, KillAllIsExit DEF TeardownJobs, BusTypeOK
    <3> QED
      BY <3>1 DEF BusNext
  <2>3. CASE TeardownPorts \/ TeardownStatuses \/ TeardownDone
    BY <2>3 DEF TeardownPorts, TeardownStatuses, TeardownDone
  <2> QED
    BY <1>2, <2>1, <2>2, <2>3 DEF Teardown
<1>3. CASE StartEnvironments \/ StopEnvironments
  BY <1>3 DEF StartEnvironments, StopEnvironments
<1>4. ASSUME NEW l \in Launch, LaunchStep(l)
      PROVE  [BusNext]_busVars
  <2>1. CASE SpawnBrowser(l)
    BY <2>1 DEF SpawnBrowser, BusNext
  <2>2. CASE SpawnFails(l)
    BY <2>2 DEF SpawnFails, BusNext
  <2>3. CASE \/ ExecutableMissing(l) \/ ReadPort(l) \/ InsertPort(l) \/ NoFreePort(l)
             \/ ReleasePort(l) \/ ResolveEndpoint(l)
    BY <2>3 DEF ExecutableMissing, ReadPort, InsertPort, NoFreePort, ReleasePort,
                ResolveEndpoint
  <2> QED
    BY <1>4, <2>1, <2>2, <2>3 DEF LaunchStep
<1>5. ASSUME NEW l \in Launch, AssignJob(l)
      PROVE  [BusNext]_busVars
  <2>1. Exits
    BY <1>5, KillAllIsExit DEF AssignJob, PutJob, BusTypeOK
  <2> QED
    BY <2>1 DEF BusNext
<1>6. ASSUME NEW l \in Launch, AssignFails(l)
      PROVE  [BusNext]_busVars
  BY <1>6 DEF AssignFails
<1>7. ASSUME NEW l \in Launch, CleanupStep(l)
      PROVE  [BusNext]_busVars
  <2>1. CASE CleanupJob(l)
    <3>1. Exits
      BY <2>1, KillAllIsExit DEF CleanupJob, RemoveJob, PutJob, BusTypeOK
    <3> QED
      BY <3>1 DEF BusNext
  <2>2. CASE CleanupPort(l) \/ CleanupStatus(l)
    BY <2>2 DEF CleanupPort, CleanupStatus
  <2> QED
    BY <1>7, <2>1, <2>2 DEF CleanupStep
<1>8. ASSUME NEW l \in Launch, SessionAnnounced(l) \/ SessionLost(l)
      PROVE  [BusNext]_busVars
  BY <1>8 DEF SessionAnnounced, SessionLost, BusNext, SessionStep
<1>9. ASSUME NEW l \in Launch, BusStep(l)
      PROVE  [BusNext]_busVars
  BY <1>9 DEF BusStep, BusNext, SessionStep
<1>10. ASSUME NEW e \in Env, StopStep(e)
       PROVE  [BusNext]_busVars
  <2>1. CASE StopJob(e)
    <3>1. Exits
      BY <2>1, KillAllIsExit DEF StopJob, RemoveJob, PutJob, BusTypeOK
    <3> QED
      BY <3>1 DEF BusNext
  <2>2. CASE StopCheck(e) \/ StopSend(e) \/ StopPort(e) \/ StopStatus(e)
    BY <2>2 DEF StopCheck, StopSend, StopPort, StopStatus
  <2> QED
    BY <1>10, <2>1, <2>2 DEF StopStep
<1>11. ASSUME NEW t \in statusTasks, RecordStatus(t)
       PROVE  [BusNext]_busVars
  BY <1>11 DEF RecordStatus
<1>12. CASE UNCHANGED vars
  BY <1>12 DEF vars
<1> QED
  BY <1>1, <1>2, <1>3, <1>4, <1>5, <1>6, <1>7, <1>8, <1>9, <1>10, <1>11, <1>12 DEF Next

\* The sessions keep their types under the service.
LEMMA SessionTypes == Spec => []BusTypeOK
<1>1. Init => BusTypeOK
  BY EnvOfAssumption DEF Init, BusInit, BusTypeOK, ServerStates
<1>2. BusTypeOK /\ [Next]_vars => BusTypeOK'
  BY StepsOfSessions, BusTypeStep
<1> QED
  BY <1>1, <1>2, PTL DEF Spec

\* Under the environment service, with launches, stops, clean-ups and teardowns
\* in any order, the sessions behave as EventBusSessions says.
THEOREM SessionsRefined == Spec => BusRefined
<1>1. Init => BusInit
  BY DEF Init
<1> QED
  BY <1>1, StepsOfSessions, SessionTypes, PTL DEF Spec, BusRefined, BusSpec

\* So no receive loop of a launch ever takes away the connection of another.
THEOREM LoopsOwnTheirEntriesUnderService == Spec => []LoopOwnsEntry
  BY SessionsRefined, LoopsOwnTheirEntries DEF BusRefined

\* And the client's last news of an environment is "connected" exactly while one
\* of its loops has not announced its end, whatever stops, jobs and teardowns do.
THEOREM AnnouncementsAreTrueUnderService == Spec => []AnnouncedIffLive
  BY SessionsRefined, AnnouncementsAreTrue DEF BusRefined

-----------------------------------------------------------------------------
(***************************************************************************)
(* The tables.                                                             *)
(***************************************************************************)

\* The variables of the service that are not the sessions' keep their types.
ServiceTypeOK ==
    /\ modulePhase \in ModulePhases /\ target \in ModulePhases
    /\ teardown \in TeardownStates
    /\ launch \in [Launch -> LaunchStates]
    /\ lport \in [Launch -> Port \cup {None}]
    /\ stop \in [Env -> StopStates]
    /\ ports \in [Env -> Port \cup {None}]
    /\ jobs \in [Env -> Launch \cup {None}]
    /\ statuses \in [Env -> Statuses \cup {None}]
    /\ assign \in [Launch -> {"none", "pending", "done", "failed"}]
    /\ statusTasks \subseteq Launch \X {"Running", "Stopped"}
    /\ cleanup \in [Launch -> CleanupStates]
    /\ stops \in 0 .. MaxStops /\ contexts \in 0 .. MaxContexts

\* Every step keeps them.
LEMMA ServiceTypeStep == ServiceTypeOK /\ [Next]_vars => ServiceTypeOK'
<1> SUFFICES ASSUME ServiceTypeOK, [Next]_vars
             PROVE  ServiceTypeOK'
  OBVIOUS
<1> USE EnvOfAssumption, BoundAssumption
        DEF ServiceTypeOK, lifecycle, requests, tasks, stopping
<1>1. CASE RuntimeStart \/ ContextInitialize \/ ContextDestroy \/ RuntimeShutdown
  BY <1>1 DEF RuntimeStart, ContextInitialize, ContextDestroy, RuntimeShutdown,
              BeginTeardown, ModulePhases, TeardownStates
<1>2. CASE Teardown
  BY <1>2 DEF Teardown, TeardownBus, TeardownJobs, TeardownPorts, TeardownStatuses,
              TeardownDone, TeardownStates
<1>3. CASE StartEnvironments \/ StopEnvironments
  BY <1>3 DEF StartEnvironments, StopEnvironments, LaunchStates, StopStates
<1>4. ASSUME NEW l \in Launch, LaunchStep(l)
      PROVE  ServiceTypeOK'
  <2> USE DEF LaunchTo, LaunchStates
  <2>1. CASE ExecutableMissing(l) \/ NoFreePort(l)
    BY <2>1 DEF ExecutableMissing, NoFreePort
  <2>2. CASE ReadPort(l)
    BY <2>2 DEF ReadPort, UsePort
  <2>3. CASE InsertPort(l)
    BY <2>3 DEF InsertPort, UsePort, SetPort
  <2>4. CASE SpawnBrowser(l) \/ SpawnFails(l)
    BY <2>4 DEF SpawnBrowser, SpawnFails, SetStatus, Statuses
  <2>5. CASE ReleasePort(l) \/ ResolveEndpoint(l)
    BY <2>5 DEF ReleasePort, ResolveEndpoint, LaunchOver, SetPort
  <2> QED
    BY <1>4, <2>1, <2>2, <2>3, <2>4, <2>5 DEF LaunchStep
<1>5. ASSUME NEW l \in Launch, AssignJob(l) \/ AssignFails(l)
      PROVE  ServiceTypeOK'
  BY <1>5 DEF AssignJob, AssignFails, PutJob
<1>6. ASSUME NEW l \in Launch, CleanupStep(l)
      PROVE  ServiceTypeOK'
  BY <1>6 DEF CleanupStep, CleanupJob, CleanupPort, CleanupStatus, CleanupTo, RemoveJob,
              PutJob, SetPort, SetStatus, CleanupStates, Statuses
<1>7. ASSUME NEW l \in Launch, SessionAnnounced(l) \/ SessionLost(l)
      PROVE  ServiceTypeOK'
  BY <1>7 DEF SessionAnnounced, SessionLost, CleanupStates
<1>8. ASSUME NEW l \in Launch, BusStep(l)
      PROVE  ServiceTypeOK'
  BY <1>8 DEF BusStep, kernelVars
<1>9. ASSUME NEW e \in Env, StopStep(e)
      PROVE  ServiceTypeOK'
  BY <1>9 DEF StopStep, StopCheck, StopSend, StopJob, StopPort, StopStatus, StopTo,
              RemoveJob, PutJob, SetPort, SetStatus, StopStates, Statuses
<1>10. ASSUME NEW t \in statusTasks, RecordStatus(t)
       PROVE  ServiceTypeOK'
  BY <1>10 DEF RecordStatus, SetStatus, Statuses
<1>11. CASE UNCHANGED vars
  BY <1>11 DEF vars, kernelVars
<1> QED
  BY <1>1, <1>2, <1>3, <1>4, <1>5, <1>6, <1>7, <1>8, <1>9, <1>10, <1>11 DEF Next

\* Every table and every task keeps its type.
THEOREM KernelTypeCorrect == Spec => []TypeOK
<1>1. Init => ServiceTypeOK
  BY EnvOfAssumption, BoundAssumption
     DEF Init, ServiceTypeOK, ModulePhases, TeardownStates, LaunchStates, StopStates,
         CleanupStates
<1>2. ServiceTypeOK /\ BusTypeOK => TypeOK
  BY DEF ServiceTypeOK, TypeOK
<1> QED
  BY <1>1, <1>2, ServiceTypeStep, SessionTypes, PTL DEF Spec

\* A step takes a port only for an environment that has none, and only one that
\* no environment has; every other change of the table gives ports back.
LEMMA PortSteps ==
    ASSUME TypeOK, [Next]_vars
    PROVE  \/ \E e \in Env, p \in Port \ {ports[f] : f \in Env} :
                  ports[e] = None /\ ports' = [ports EXCEPT ![e] = p]
           \/ \E E \in SUBSET Env : ports' = [e \in Env |-> IF e \in E THEN None ELSE ports[e]]
<1> DEFINE Freed == \E E \in SUBSET Env :
                       ports' = [e \in Env |-> IF e \in E THEN None ELSE ports[e]]
<1> USE EnvOfAssumption DEF TypeOK
<1>1. ASSUME ports' = ports
      PROVE  Freed
  <2>1. ports' = [e \in Env |-> IF e \in {} THEN None ELSE ports[e]]
    BY <1>1
  <2> WITNESS {} \in SUBSET Env
  <2> QED
    BY <2>1
<1>2. ASSUME NEW e \in Env, SetPort(e, None)
      PROVE  Freed
  <2>1. ports' = [f \in Env |-> IF f \in {e} THEN None ELSE ports[f]]
    BY <1>2 DEF SetPort
  <2> QED
    BY <2>1
<1>3. CASE TeardownPorts
  <2>1. ports' = [e \in Env |-> IF e \in Env THEN None ELSE ports[e]]
    BY <1>3 DEF TeardownPorts
  <2> QED
    BY <2>1
<1>4. CASE \/ RuntimeStart \/ ContextInitialize \/ ContextDestroy \/ RuntimeShutdown
           \/ TeardownBus \/ TeardownJobs \/ TeardownStatuses \/ TeardownDone
           \/ StartEnvironments \/ StopEnvironments \/ UNCHANGED vars
  <2>1. ports' = ports
    BY <1>4 DEF RuntimeStart, ContextInitialize, ContextDestroy, RuntimeShutdown,
                BeginTeardown, TeardownBus, TeardownJobs, TeardownStatuses, TeardownDone,
                StartEnvironments, StopEnvironments, vars, kernelVars
  <2> QED
    BY <2>1, <1>1
<1>5. ASSUME NEW l \in Launch,
             \/ ExecutableMissing(l) \/ ReadPort(l) \/ NoFreePort(l) \/ SpawnBrowser(l)
             \/ SpawnFails(l) \/ ResolveEndpoint(l) \/ AssignJob(l) \/ AssignFails(l)
             \/ CleanupJob(l) \/ CleanupStatus(l) \/ SessionAnnounced(l) \/ SessionLost(l)
             \/ BusStep(l)
      PROVE  Freed
  <2>1. ports' = ports
    BY <1>5 DEF ExecutableMissing, ReadPort, NoFreePort, SpawnBrowser, SpawnFails,
                ResolveEndpoint, AssignJob, AssignFails, CleanupJob, CleanupStatus,
                SessionAnnounced, SessionLost, BusStep, kernelVars
  <2> QED
    BY <2>1, <1>1
<1>6. ASSUME NEW l \in Launch, ReleasePort(l) \/ CleanupPort(l)
      PROVE  Freed
  BY <1>6, <1>2 DEF ReleasePort, CleanupPort
<1>7. ASSUME NEW l \in Launch, InsertPort(l)
      PROVE  \/ Freed
             \/ \E e \in Env, p \in Port \ {ports[f] : f \in Env} :
                   ports[e] = None /\ ports' = [ports EXCEPT ![e] = p]
  BY <1>7, <1>1 DEF InsertPort, SetPort
<1>8. ASSUME NEW e \in Env, StopStep(e)
      PROVE  Freed
  <2>1. StopPort(e) \/ ports' = ports
    BY <1>8 DEF StopStep, StopCheck, StopSend, StopJob, StopStatus
  <2> QED
    BY <2>1, <1>1, <1>2 DEF StopPort
<1>9. ASSUME NEW t \in statusTasks, RecordStatus(t)
      PROVE  Freed
  BY <1>9, <1>1 DEF RecordStatus
<1> QED
  BY <1>3, <1>4, <1>5, <1>6, <1>7, <1>8, <1>9
     DEF Next, Teardown, LaunchStep, CleanupStep

\* No two environments ever have the same debugging port, for any number of
\* environments launched together over any range of ports.
THEOREM PortsAreDistinct == Spec => []PortsInjective
<1>1. Init => PortsInjective
  BY DEF Init, PortsInjective
<1>2. TypeOK /\ PortsInjective /\ [Next]_vars => PortsInjective'
  BY PortSteps, PortAssumption DEF TypeOK, PortsInjective
<1> QED
  BY <1>1, <1>2, KernelTypeCorrect, PTL DEF Spec

\* An environment's port changes only by being given back, although what a
\* launch saw under the read lock may be stale when it takes the write lock.
THEOREM PortsAreStable == Spec => PortStable
<1>1. TypeOK /\ [Next]_vars =>
        [\A e \in Env : ports[e] # None => ports'[e] \in {ports[e], None}]_vars
  BY PortSteps DEF TypeOK
<1> QED
  BY <1>1, KernelTypeCorrect, PTL DEF Spec, PortStable

\* The job table holds the job of every tracked browser that runs: whoever takes
\* a job out of the table, or replaces it, has ended its process.
THEOREM TrackedBrowsersOnly == Spec => []RunsOnlyWithJob
<1>1. Init => RunsOnlyWithJob
  BY DEF Init, BusInit, RunsOnlyWithJob
<1>2. TypeOK /\ RunsOnlyWithJob /\ [Next]_vars => RunsOnlyWithJob'
  <2> SUFFICES ASSUME TypeOK, RunsOnlyWithJob, [Next]_vars
               PROVE  RunsOnlyWithJob'
    OBVIOUS
  <2> USE EnvOfAssumption, NoneAssumption
          DEF RunsOnlyWithJob, TypeOK, BusTypeOK, pipes, tasks
  <2>1. CASE TeardownJobs
    BY <2>1 DEF TeardownJobs, KillAll
  <2>2. ASSUME NEW e \in Env, StopJob(e)
        PROVE  RunsOnlyWithJob'
    BY <2>2 DEF StopJob, RemoveJob, PutJob, KillAll
  <2>3. ASSUME NEW l \in Launch, CleanupJob(l)
        PROVE  RunsOnlyWithJob'
    BY <2>3 DEF CleanupJob, RemoveJob, PutJob, KillAll
  <2>4. ASSUME NEW l \in Launch, AssignJob(l)
        PROVE  RunsOnlyWithJob'
    BY <2>4 DEF AssignJob, PutJob, KillAll
  <2>5. ASSUME NEW l \in Launch, SpawnBrowser(l)
        PROVE  RunsOnlyWithJob'
    BY <2>5 DEF SpawnBrowser, LaunchBrowser, BrowserSpawned
  <2>6. ASSUME NEW l \in Launch, BusStep(l)
        PROVE  RunsOnlyWithJob'
    BY <2>6 DEF BusStep, kernelVars, CreatePipe, AcceptFails, BrowserConnects, HandshakeOk,
                HandshakeFails, ConfigFails, ConnectionLost, BrowsersExit
  <2>7. ASSUME NEW l \in Launch,
               \/ ExecutableMissing(l) \/ ReadPort(l) \/ InsertPort(l) \/ NoFreePort(l)
               \/ SpawnFails(l) \/ ReleasePort(l) \/ ResolveEndpoint(l) \/ AssignFails(l)
               \/ CleanupPort(l) \/ CleanupStatus(l)
        PROVE  RunsOnlyWithJob'
    BY <2>7 DEF ExecutableMissing, ReadPort, InsertPort, NoFreePort, SpawnFails, ReleasePort,
                ResolveEndpoint, AssignFails, CleanupPort, CleanupStatus,
                LaunchWithoutBrowser, busVars
  <2>8. ASSUME NEW l \in Launch, SessionAnnounced(l) \/ SessionLost(l)
        PROVE  RunsOnlyWithJob'
    BY <2>8 DEF SessionAnnounced, SessionLost, ConfigSent, AnnounceLost
  <2>9. ASSUME NEW e \in Env, StopCheck(e) \/ StopSend(e) \/ StopPort(e) \/ StopStatus(e)
        PROVE  RunsOnlyWithJob'
    BY <2>9 DEF StopCheck, StopSend, StopPort, StopStatus, busVars
  <2>10. ASSUME NEW t \in statusTasks, RecordStatus(t)
         PROVE  RunsOnlyWithJob'
    BY <2>10 DEF RecordStatus, busVars
  <2>11. CASE \/ RuntimeStart \/ ContextInitialize \/ ContextDestroy \/ RuntimeShutdown
              \/ TeardownBus \/ TeardownPorts \/ TeardownStatuses \/ TeardownDone
              \/ StartEnvironments \/ StopEnvironments \/ UNCHANGED vars
    BY <2>11 DEF RuntimeStart, ContextInitialize, ContextDestroy, RuntimeShutdown,
                 BeginTeardown, TeardownBus, DisconnectAll, TeardownPorts, TeardownStatuses,
                 TeardownDone, StartEnvironments, StopEnvironments, vars, busVars, kernelVars
  <2> QED
    BY <2>1, <2>2, <2>3, <2>4, <2>5, <2>6, <2>7, <2>8, <2>9, <2>10, <2>11
       DEF Next, Teardown, LaunchStep, CleanupStep, StopStep
<1> QED
  BY <1>1, <1>2, KernelTypeCorrect, PTL DEF Spec

-----------------------------------------------------------------------------
(***************************************************************************)
(* Contexts.  That no environment has a port between contexts depends on   *)
(* no launch being under way then: only a launch takes ports.              *)
(***************************************************************************)
NoPorts == \A e \in Env : ports[e] = None

CommandsWithinContext == Busy => modulePhase = "ContextReady" /\ teardown = "none"

ContextInv == /\ CommandsWithinContext
              /\ teardown \in {"statuses", "phase"} => NoPorts
              /\ PortsReleasedWithContext

\* Commands begin and end inside a context: what takes a port is part of one, and
\* a teardown begins when there is none.
LEMMA ContextStep == TypeOK /\ ContextInv /\ [Next]_vars => ContextInv'
<1> SUFFICES ASSUME TypeOK, ContextInv, [Next]_vars
             PROVE  ContextInv'
  OBVIOUS
<1> USE EnvOfAssumption DEF ContextInv, CommandsWithinContext, PortsReleasedWithContext,
                            NoPorts
<1>1. CASE RuntimeStart \/ ContextInitialize \/ ContextDestroy \/ RuntimeShutdown
  BY <1>1 DEF RuntimeStart, ContextInitialize, ContextDestroy, RuntimeShutdown,
              BeginTeardown, Busy, Launching, requests, stopping
<1>2. CASE Teardown
  <2>1. ~Busy /\ ~Busy'
    BY <1>2 DEF Teardown, TeardownBus, TeardownJobs, TeardownPorts, TeardownStatuses,
                TeardownDone, Busy, Launching, requests, stopping
  <2> QED
    BY <1>2, <2>1 DEF Teardown, TeardownBus, TeardownJobs, TeardownPorts,
                      TeardownStatuses, TeardownDone
<1>3. CASE StartEnvironments \/ StopEnvironments
  BY <1>3 DEF StartEnvironments, StopEnvironments, Accepting, lifecycle
<1>4. ASSUME NEW l \in Launch, LaunchStep(l)
      PROVE  ContextInv'
  <2>1. Busy
    BY <1>4 DEF LaunchStep, ExecutableMissing, ReadPort, InsertPort, NoFreePort, SpawnBrowser,
                SpawnFails, ReleasePort, ResolveEndpoint, Busy, Launching
  <2>2. UNCHANGED lifecycle
    BY <1>4 DEF LaunchStep, ExecutableMissing, ReadPort, InsertPort, NoFreePort, SpawnBrowser,
                SpawnFails, ReleasePort, ResolveEndpoint, lifecycle
  <2> QED
    BY <2>1, <2>2 DEF lifecycle
<1>5. ASSUME NEW e \in Env, StopStep(e)
      PROVE  ContextInv'
  <2>1. Busy
    BY <1>5 DEF StopStep, StopCheck, StopSend, StopJob, StopPort, StopStatus, Busy
  <2>2. UNCHANGED lifecycle
    BY <1>5 DEF StopStep, StopCheck, StopSend, StopJob, StopPort, StopStatus, lifecycle
  <2> QED
    BY <2>1, <2>2 DEF lifecycle
<1>6. ASSUME UNCHANGED lifecycle, UNCHANGED launch, UNCHANGED stop, NoPorts => NoPorts'
      PROVE  ContextInv'
  BY <1>6 DEF lifecycle, Busy, Launching
<1>7. ASSUME NEW l \in Launch,
             \/ AssignJob(l) \/ AssignFails(l) \/ CleanupStep(l)
             \/ SessionAnnounced(l) \/ SessionLost(l) \/ BusStep(l)
      PROVE  ContextInv'
  <2>1. UNCHANGED lifecycle /\ UNCHANGED launch /\ UNCHANGED stop
    BY <1>7 DEF AssignJob, AssignFails, CleanupStep, CleanupJob, CleanupPort, CleanupStatus,
                SessionAnnounced, SessionLost, BusStep, kernelVars, lifecycle, requests, stopping
  <2>2. NoPorts => NoPorts'
    BY <1>7 DEF AssignJob, AssignFails, CleanupStep, CleanupJob, CleanupPort, CleanupStatus,
                SessionAnnounced, SessionLost, BusStep, kernelVars, SetPort, TypeOK
  <2> QED
    BY <2>1, <2>2, <1>6
<1>8. ASSUME NEW t \in statusTasks, RecordStatus(t)
      PROVE  ContextInv'
  BY <1>8, <1>6 DEF RecordStatus, requests, stopping
<1>9. CASE UNCHANGED vars
  BY <1>9, <1>6 DEF vars, kernelVars, lifecycle
<1> QED
  BY <1>1, <1>2, <1>3, <1>4, <1>5, <1>7, <1>8, <1>9 DEF Next

\* Between contexts no environment holds a port, although clean-ups of sessions
\* that outlived their context go on.
THEOREM PortsReleased == Spec => []PortsReleasedWithContext
<1>1. Init => ContextInv
  BY DEF Init, ContextInv, CommandsWithinContext, PortsReleasedWithContext, Busy, Launching
<1>2. ContextInv => PortsReleasedWithContext
  BY DEF ContextInv
<1> QED
  BY <1>1, <1>2, ContextStep, KernelTypeCorrect, PTL DEF Spec

-----------------------------------------------------------------------------
(***************************************************************************)
(* Endpoints.  A launch finds its own port again because no other launch   *)
(* of its environment is under way: a batch is over before the next.       *)
(***************************************************************************)
OneLaunchPerEnv ==
    \A l, m \in Launch : Launching(l) /\ Launching(m) /\ EnvOf[l] = EnvOf[m] => l = m

KeepsItsPort ==
    \A l \in Launch :
        launch[l] \in {"start", "release", "resolve"} => ports[EnvOf[l]] \in {lport[l], None}

EndpointInv == ~DuplicatesInBatch => OneLaunchPerEnv /\ KeepsItsPort

\* While a launch is under way, others can only give its environment's port back.
LEMMA EndpointStep == TypeOK /\ EndpointInv /\ [Next]_vars => EndpointInv'
<1> SUFFICES ASSUME TypeOK, OneLaunchPerEnv, KeepsItsPort, ~DuplicatesInBatch, [Next]_vars
             PROVE  OneLaunchPerEnv' /\ KeepsItsPort'
  BY DEF EndpointInv
<1> USE EnvOfAssumption DEF TypeOK, OneLaunchPerEnv, KeepsItsPort, Launching
<1>1. CASE StartEnvironments
  BY <1>1 DEF StartEnvironments, Accepting, Busy, Distinct
<1>2. ASSUME NEW l \in Launch, LaunchStep(l)
      PROVE  OneLaunchPerEnv' /\ KeepsItsPort'
  <2> USE DEF LaunchTo
  <2>1. CASE ExecutableMissing(l) \/ NoFreePort(l)
    BY <2>1 DEF ExecutableMissing, NoFreePort
  <2>2. CASE ReadPort(l)
    BY <2>2 DEF ReadPort, UsePort
  <2>3. CASE InsertPort(l)
    BY <2>3 DEF InsertPort, UsePort, SetPort
  <2>4. CASE SpawnBrowser(l) \/ SpawnFails(l)
    BY <2>4 DEF SpawnBrowser, SpawnFails
  <2>5. CASE ReleasePort(l) \/ ResolveEndpoint(l)
    BY <2>5 DEF ReleasePort, ResolveEndpoint, LaunchOver, SetPort
  <2> QED
    BY <1>2, <2>1, <2>2, <2>3, <2>4, <2>5 DEF LaunchStep
<1>3. ASSUME UNCHANGED requests, \A e \in Env : ports'[e] \in {ports[e], None}
      PROVE  OneLaunchPerEnv' /\ KeepsItsPort'
  BY <1>3 DEF requests
<1>4. CASE \/ RuntimeStart \/ ContextInitialize \/ ContextDestroy \/ RuntimeShutdown
           \/ Teardown \/ StopEnvironments \/ UNCHANGED vars
  <2>1. UNCHANGED requests
    BY <1>4 DEF RuntimeStart, ContextInitialize, ContextDestroy, RuntimeShutdown,
                BeginTeardown, Teardown, TeardownBus, TeardownJobs, TeardownPorts,
                TeardownStatuses, TeardownDone, StopEnvironments, vars, kernelVars, requests
  <2>2. \A e \in Env : ports'[e] \in {ports[e], None}
    BY <1>4 DEF RuntimeStart, ContextInitialize, ContextDestroy, RuntimeShutdown,
                BeginTeardown, Teardown, TeardownBus, TeardownJobs, TeardownPorts,
                TeardownStatuses, TeardownDone, StopEnvironments, vars, kernelVars
  <2> QED
    BY <2>1, <2>2, <1>3
<1>5. ASSUME NEW l \in Launch,
             \/ AssignJob(l) \/ AssignFails(l) \/ CleanupStep(l)
             \/ SessionAnnounced(l) \/ SessionLost(l) \/ BusStep(l)
      PROVE  OneLaunchPerEnv' /\ KeepsItsPort'
  <2>1. UNCHANGED requests
    BY <1>5 DEF AssignJob, AssignFails, CleanupStep, CleanupJob, CleanupPort, CleanupStatus,
                SessionAnnounced, SessionLost, BusStep, kernelVars, requests
  <2>2. \A e \in Env : ports'[e] \in {ports[e], None}
    BY <1>5 DEF AssignJob, AssignFails, CleanupStep, CleanupJob, CleanupPort, CleanupStatus,
                SessionAnnounced, SessionLost, BusStep, kernelVars, SetPort
  <2> QED
    BY <2>1, <2>2, <1>3
<1>6. ASSUME NEW e \in Env, StopStep(e)
      PROVE  OneLaunchPerEnv' /\ KeepsItsPort'
  BY <1>6, <1>3 DEF StopStep, StopCheck, StopSend, StopJob, StopPort, StopStatus, SetPort
<1>7. ASSUME NEW t \in statusTasks, RecordStatus(t)
      PROVE  OneLaunchPerEnv' /\ KeepsItsPort'
  BY <1>7, <1>3 DEF RecordStatus
<1> QED
  BY <1>1, <1>2, <1>4, <1>5, <1>6, <1>7 DEF Next

\* The port looked up for the answer is the one the browser was given, or gone,
\* however many environments are launched together.
THEOREM EndpointsAreMine == Spec => []EndpointIsMine
<1>1. Init => EndpointInv
  BY DEF Init, EndpointInv, OneLaunchPerEnv, KeepsItsPort, Launching
<1>2. EndpointInv => EndpointIsMine
  BY DEF EndpointInv, KeepsItsPort, EndpointIsMine
<1> QED
  BY <1>1, <1>2, EndpointStep, KernelTypeCorrect, PTL DEF Spec

-----------------------------------------------------------------------------
(***************************************************************************)
(* Ports in use.  Whatever an environment's port is held for goes on to    *)
(* hold it until the port is given back.                                   *)
(***************************************************************************)
HoldsPort(l) ==
    \/ launch[l] \in {"start", "release"}
    \/ browser[l] # "none" /\ server[l] # "closed"
    \/ cleanup[l] \in {"job", "port"}

\* Closing jobs does not undo that a browser was spawned.
LEMMA KillAllKeepsSpawned ==
    ASSUME TypeOK, NEW B, KillAll(B), NEW l \in Launch, browser[l] # "none"
    PROVE  browser'[l] # "none"
BY DEF KillAll

\* A step takes no port and ends no reason to hold one, or it takes a port for the
\* launch it is a step of, or it gives a port back and ends at most one reason.
LEMMA PortHolders ==
    ASSUME TypeOK, [Next]_vars
    PROVE  \/ /\ \A e \in Env : ports'[e] \in {ports[e], None}
              /\ \A l \in Launch : HoldsPort(l) => HoldsPort(l)'
           \/ \E l \in Launch :
                 /\ HoldsPort(l)' \/ ports'[EnvOf[l]] = None
                 /\ \A e \in Env : e # EnvOf[l] => ports'[e] = ports[e]
                 /\ \A m \in Launch : m # l /\ HoldsPort(m) => HoldsPort(m)'
<1> USE EnvOfAssumption DEF TypeOK, BusTypeOK, HoldsPort
<1> DEFINE Keeps == /\ \A e \in Env : ports'[e] \in {ports[e], None}
                    /\ \A l \in Launch : HoldsPort(l) => HoldsPort(l)'
<1>1. CASE \/ RuntimeStart \/ ContextInitialize \/ ContextDestroy \/ RuntimeShutdown
           \/ StartEnvironments \/ StopEnvironments \/ UNCHANGED vars
  BY <1>1 DEF RuntimeStart, ContextInitialize, ContextDestroy, RuntimeShutdown,
              BeginTeardown, StartEnvironments, StopEnvironments, vars, busVars, kernelVars,
              requests, tasks
<1>2. CASE Teardown
  <2>1. CASE TeardownJobs
    BY <2>1, KillAllKeepsSpawned DEF TeardownJobs, pipes, requests, tasks
  <2>2. CASE TeardownBus \/ TeardownPorts \/ TeardownStatuses \/ TeardownDone
    BY <2>2 DEF TeardownBus, DisconnectAll, TeardownPorts, TeardownStatuses, TeardownDone,
                busVars, requests, tasks
  <2> QED
    BY <1>2, <2>1, <2>2 DEF Teardown
<1>3. ASSUME NEW l \in Launch, InsertPort(l) \/ ReleasePort(l) \/ CleanupPort(l)
      PROVE  /\ HoldsPort(l)' \/ ports'[EnvOf[l]] = None
             /\ \A e \in Env : e # EnvOf[l] => ports'[e] = ports[e]
             /\ \A m \in Launch : m # l /\ HoldsPort(m) => HoldsPort(m)'
  <2> USE DEF LaunchTo, SetPort, busVars, requests, tasks
  <2>1. CASE InsertPort(l)
    BY <2>1 DEF InsertPort, UsePort
  <2>2. CASE ReleasePort(l)
    BY <2>2 DEF ReleasePort, LaunchOver
  <2>3. CASE CleanupPort(l)
    BY <2>3 DEF CleanupPort, CleanupTo
  <2> QED
    BY <1>3, <2>1, <2>2, <2>3
<1>4. ASSUME NEW l \in Launch,
             \/ ExecutableMissing(l) \/ ReadPort(l) \/ NoFreePort(l) \/ ResolveEndpoint(l)
      PROVE  Keeps
  BY <1>4 DEF ExecutableMissing, ReadPort, UsePort, NoFreePort, ResolveEndpoint, LaunchOver,
              LaunchTo, busVars, tasks
<1>5. ASSUME NEW l \in Launch, SpawnBrowser(l) \/ SpawnFails(l)
      PROVE  Keeps
  BY <1>5 DEF SpawnBrowser, SpawnFails, LaunchTo, LaunchBrowser, LaunchWithoutBrowser,
              StartServer, BrowserSpawned, GoTo, tasks
<1>6. ASSUME NEW l \in Launch,
             AssignJob(l) \/ AssignFails(l) \/ CleanupJob(l) \/ CleanupStatus(l)
      PROVE  Keeps
  <2>1. CASE AssignJob(l)
    BY <2>1, KillAllKeepsSpawned DEF AssignJob, PutJob, pipes, requests
  <2>2. CASE CleanupJob(l)
    BY <2>2, KillAllKeepsSpawned DEF CleanupJob, RemoveJob, PutJob, CleanupTo, pipes, requests
  <2>3. CASE AssignFails(l) \/ CleanupStatus(l)
    BY <2>3 DEF AssignFails, CleanupStatus, CleanupTo, busVars, requests
  <2> QED
    BY <1>6, <2>1, <2>2, <2>3
<1>7. ASSUME NEW l \in Launch, SessionAnnounced(l) \/ SessionLost(l)
      PROVE  Keeps
  BY <1>7 DEF SessionAnnounced, SessionLost, ConfigSent, AnnounceLost, GoTo, requests
<1>8. ASSUME NEW l \in Launch, BusStep(l)
      PROVE  Keeps
  BY <1>8 DEF BusStep, kernelVars, CreatePipe, AcceptFails, BrowserConnects, HandshakeOk,
              HandshakeFails, ConfigFails, ConnectionLost, BrowsersExit, GoTo
<1>9. ASSUME NEW e \in Env, StopStep(e)
      PROVE  Keeps
  <2>1. CASE StopJob(e)
    BY <2>1, KillAllKeepsSpawned DEF StopJob, RemoveJob, PutJob, pipes, requests, tasks
  <2>2. CASE StopCheck(e) \/ StopSend(e) \/ StopPort(e) \/ StopStatus(e)
    BY <2>2 DEF StopCheck, StopSend, StopPort, StopStatus, SetPort, busVars, requests, tasks
  <2> QED
    BY <1>9, <2>1, <2>2 DEF StopStep
<1>10. ASSUME NEW t \in statusTasks, RecordStatus(t)
       PROVE  Keeps
  BY <1>10 DEF RecordStatus, busVars, requests
<1> HIDE DEF HoldsPort, TypeOK, BusTypeOK
<1> QED
  BY <1>1, <1>2, <1>3, <1>4, <1>5, <1>6, <1>7, <1>8, <1>9, <1>10
     DEF Next, LaunchStep, CleanupStep

\* No port is forgotten, for any environments and any order of launches, failed
\* spawns, stops, disconnections and late clean-ups.
THEOREM PortsComeBack == Spec => []PortsAccountedFor
<1>1. Init => PortsAccountedFor
  BY DEF Init, PortsAccountedFor
<1>2. PortsAccountedFor <=>
        \A e \in Env : ports[e] # None => \E l \in Launch : EnvOf[l] = e /\ HoldsPort(l)
  BY DEF PortsAccountedFor, HoldsPort
<1>3. TypeOK /\ PortsAccountedFor /\ [Next]_vars => PortsAccountedFor'
  <2> SUFFICES ASSUME TypeOK, PortsAccountedFor, [Next]_vars,
                      NEW e \in Env, ports'[e] # None
               PROVE  \E l \in Launch : EnvOf[l] = e /\ HoldsPort(l)'
    BY <1>2 DEF PortsAccountedFor, HoldsPort
  <2>1. CASE /\ \A f \in Env : ports'[f] \in {ports[f], None}
             /\ \A l \in Launch : HoldsPort(l) => HoldsPort(l)'
    <3>1. PICK l \in Launch : EnvOf[l] = e /\ HoldsPort(l)
      BY <1>2, <2>1
    <3> QED
      BY <2>1, <3>1
  <2>2. ASSUME NEW l \in Launch,
               HoldsPort(l)' \/ ports'[EnvOf[l]] = None,
               \A f \in Env : f # EnvOf[l] => ports'[f] = ports[f],
               \A m \in Launch : m # l /\ HoldsPort(m) => HoldsPort(m)'
        PROVE  \E m \in Launch : EnvOf[m] = e /\ HoldsPort(m)'
    <3>1. CASE e = EnvOf[l]
      BY <2>2, <3>1
    <3>2. CASE e # EnvOf[l]
      <4>1. PICK m \in Launch : EnvOf[m] = e /\ HoldsPort(m)
        BY <1>2, <2>2, <3>2
      <4> QED
        BY <2>2, <3>2, <4>1
    <3> QED
      BY <3>1, <3>2
  <2> QED
    BY <2>1, <2>2, PortHolders
<1> QED
  BY <1>1, <1>3, KernelTypeCorrect, PTL DEF Spec
=============================================================================
