-------------------------- MODULE AuthPropagation --------------------------
(***************************************************************************)
(* How the authentication state reaches the browsers: AuthRuntime and its  *)
(* AuthStateStore (src/services/auth/mod.rs), notify_auth_status_changed   *)
(* and handle_auth_request (src/infrastructure/eventbus/manager.rs), over  *)
(* the sessions of EventBusSessions.                                       *)
(*                                                                         *)
(* Commands and hooks run on the main task, each with the notification of  *)
(* the connected browsers it ends with; meanwhile every receive loop       *)
(* answers the AuthRequests of its own browser.  The contents of an        *)
(* AuthInfo are abstracted to the number of the change that stored it.     *)
(***************************************************************************)
EXTENDS EventBusSessions, Naturals

CONSTANTS
    MaxVersion,   \* bound: changes made by commands and new contexts
    MaxRequests   \* bound: AuthRequests browsers send

ASSUME NotANumber == None \notin Nat

VARIABLES
    authPhase,  \* AuthState.phase
    auth,       \* AuthStateStore.auth_info
    work,       \* where the main task is in the current command or hook
    goal,       \* the phase the module has when the hook is over
    pending,    \* environments the notification has still to reach
    notice,     \* the snapshot the notification carries
    askedAt,    \* what the store held when the open AuthRequest was sent
    snapshot,   \* what the receive loop has read to answer it
    told,       \* the last AuthResponse written to the connection
    toldBy,     \* whether that was a notification or an answer
    broken,     \* connections a write has failed on
    requests    \* AuthRequests sent so far

mainVars == <<authPhase, auth, work, goal, pending, notice>>
askVars  == <<askedAt, snapshot, requests>>
toldVars == <<told, toldBy, broken>>
vars     == <<busVars, mainVars, askVars, toldVars>>

AuthPhases == {"Dormant", "RuntimeStarted", "ContextReady", "RuntimeStopped"}

\* idle -> stored -> sweeping -> idle; a teardown comes by disconnected.
Work == {"idle", "disconnected", "stored", "sweeping"}

Init ==
    /\ BusInit
    /\ authPhase = "Dormant" /\ auth = 0
    /\ work = "idle" /\ goal = "Dormant" /\ pending = {} /\ notice = 0
    /\ askedAt = [l \in Launch |-> None]
    /\ snapshot = [l \in Launch |-> None]
    /\ requests = 0
    /\ told = [l \in Launch |-> 0]
    /\ toldBy = [l \in Launch |-> "nobody"]
    /\ broken = {}

(***************************************************************************)
(* Writing an AuthResponse to the connection of a session.                 *)
(***************************************************************************)

Tell(l, version, by) ==
    \/ /\ PeerRuns(l) /\ l \notin broken
       /\ told' = [told EXCEPT ![l] = version]
       /\ toldBy' = [toldBy EXCEPT ![l] = by]
       /\ UNCHANGED broken
    \/ broken' = broken \cup {l} /\ UNCHANGED <<told, toldBy>>

(***************************************************************************)
(* The main task.                                                          *)
(***************************************************************************)

\* on_runtime_start: nobody is connected yet, and nobody is notified.
RuntimeStart ==
    /\ authPhase = "Dormant"
    /\ authPhase' = "RuntimeStarted"
    /\ auth' = auth + 1
    /\ UNCHANGED <<busVars, work, goal, pending, notice, askVars, toldVars>>

\* AuthStateStore::replace and clear; the notification comes next.
Store(phaseAfter) ==
    /\ auth' = auth + 1
    /\ work' = "stored"
    /\ goal' = phaseAfter
    /\ UNCHANGED <<busVars, pending, notice, askVars, toldVars>>

\* Mutant of ExecuteCommand: the notification is left to a task of its own,
\* and the next command does not wait for it.
ExecuteCommandAtOnce ==
    /\ work \in {"idle", "sweeping"} /\ authPhase = "ContextReady" /\ auth < MaxVersion
    /\ IF work = "idle"
       THEN Store(authPhase)
       ELSE auth' = auth + 1 /\ UNCHANGED <<busVars, work, goal, pending, notice, askVars, toldVars>>
    /\ UNCHANGED authPhase

\* SetAuthState and ClearAuthState.
ExecuteCommand ==
    /\ work = "idle" /\ authPhase = "ContextReady" /\ auth < MaxVersion
    /\ Store(authPhase)
    /\ UNCHANGED authPhase

\* on_context_initialize: the phase first, then the state of the new context.
InitializeContext ==
    /\ work = "idle" /\ authPhase = "RuntimeStarted" /\ auth < MaxVersion
    /\ authPhase' = "ContextReady"
    /\ Store("ContextReady")

\* DestroyContext, or Shutdown without a context: hooks run in reverse order,
\* and the environment service has drained the connections when the one of
\* the authentication service is called.
Teardown ==
    /\ work = "idle"
    /\ \/ authPhase = "ContextReady" /\ goal' = "RuntimeStarted"
       \/ authPhase = "RuntimeStarted" /\ goal' = "RuntimeStopped"
    /\ DisconnectAll
    /\ work' = "disconnected"
    /\ UNCHANGED <<authPhase, auth, pending, notice, askVars, toldVars>>

\* on_context_destroy and on_runtime_shutdown begin with clear_auth_info.
ClearAuth ==
    /\ work = "disconnected"
    /\ Store(goal)
    /\ UNCHANGED authPhase

\* notify_auth_status_changed: who is connected, then what to tell them.
NotifyBegin ==
    /\ work = "stored"
    /\ pending' = {e \in Env : connections[e] # None}
    /\ notice' = auth
    /\ work' = "sweeping"
    /\ UNCHANGED <<busVars, authPhase, auth, goal, askVars, toldVars>>

\* Mutant of NotifyEnv: the first send that fails ends the notification.
NotifyEnvStopsAtError(e) ==
    /\ work = "sweeping" /\ e \in pending
    /\ IF connections[e] = None
       THEN UNCHANGED toldVars
       ELSE Tell(connections[e], notice, "notice")
    /\ pending' = IF connections[e] = None \/ broken' # broken THEN {} ELSE pending \ {e}
    /\ UNCHANGED <<busVars, authPhase, auth, work, goal, notice, askVars>>

\* send_event looks the environment up again and writes under the read lock;
\* environments that have gone and writes that fail are skipped.
NotifyEnv(e) ==
    /\ work = "sweeping" /\ e \in pending
    /\ pending' = pending \ {e}
    /\ IF connections[e] = None
       THEN UNCHANGED toldVars
       ELSE Tell(connections[e], notice, "notice")
    /\ UNCHANGED <<busVars, authPhase, auth, work, goal, notice, askVars>>

NotifyDone ==
    /\ work = "sweeping" /\ pending = {}
    /\ work' = "idle"
    /\ authPhase' = goal
    /\ UNCHANGED <<busVars, auth, goal, pending, notice, askVars, toldVars>>

\* Browsers are launched by commands, so between notifications and in a context.
Launching(l) ==
    /\ work = "idle" /\ authPhase = "ContextReady"
    /\ LaunchBrowser(l) \/ LaunchWithoutBrowser(l)
    /\ UNCHANGED <<mainVars, askVars, toldVars>>

(***************************************************************************)
(* Receive loops and browsers.                                             *)
(***************************************************************************)

\* A browser that has shaken hands asks; one question at a time.
SendAuthRequest(l) ==
    /\ server[l] \in {"configuring", "receiving"} /\ PeerRuns(l)
    /\ askedAt[l] = None /\ requests < MaxRequests
    /\ askedAt' = [askedAt EXCEPT ![l] = auth]
    /\ requests' = requests + 1
    /\ UNCHANGED <<busVars, mainVars, snapshot, toldVars>>

\* Mutant of ReadAuthRequest: requests are answered in a context only.
ReadAuthRequestInContext(l) ==
    /\ server[l] = "receiving" /\ authPhase = "ContextReady"
    /\ askedAt[l] # None /\ snapshot[l] = None
    /\ snapshot' = [snapshot EXCEPT ![l] = auth]
    /\ UNCHANGED <<busVars, mainVars, askedAt, requests, toldVars>>

\* Mutant of ReadAuthRequest: the answer is what the browser was last told.
ReadAuthRequestCached(l) ==
    /\ server[l] = "receiving"
    /\ askedAt[l] # None /\ snapshot[l] = None
    /\ snapshot' = [snapshot EXCEPT ![l] = told[l]]
    /\ UNCHANGED <<busVars, mainVars, askedAt, requests, toldVars>>

\* The loop reads the request and takes a snapshot of the store, whatever
\* the phase of the module.
ReadAuthRequest(l) ==
    /\ server[l] = "receiving"
    /\ askedAt[l] # None /\ snapshot[l] = None
    /\ snapshot' = [snapshot EXCEPT ![l] = auth]
    /\ UNCHANGED <<busVars, mainVars, askedAt, requests, toldVars>>

\* The answer goes to the connection directly, not through the map, and the
\* loop goes on whether it could be written or not.
AnswerAuthRequest(l) ==
    /\ snapshot[l] # None
    /\ Tell(l, snapshot[l], "answer")
    /\ snapshot' = [snapshot EXCEPT ![l] = None]
    /\ askedAt' = [askedAt EXCEPT ![l] = None]
    /\ UNCHANGED <<busVars, mainVars, requests>>

\* A loop that is answering does not read, so it does not see the end either.
\* A request it has not read is lost with the connection.
LoseConnection(l) ==
    /\ snapshot[l] = None
    /\ ConnectionLost(l)
    /\ askedAt' = [askedAt EXCEPT ![l] = None]
    /\ UNCHANGED <<mainVars, snapshot, requests, toldVars>>

AbandonSession(l) ==
    /\ ConfigFails(l)
    /\ askedAt' = [askedAt EXCEPT ![l] = None]
    /\ UNCHANGED <<mainVars, snapshot, requests, toldVars>>

OtherSessionStep(l) ==
    /\ \/ CreatePipe(l) \/ AcceptFails(l) \/ BrowserConnects(l)
       \/ HandshakeOk(l) \/ HandshakeFails(l) \/ ConfigSent(l) \/ AnnounceLost(l)
    /\ UNCHANGED <<mainVars, askVars, toldVars>>

BrowserExits(b) ==
    /\ BrowsersExit({b})
    /\ UNCHANGED <<mainVars, askVars, toldVars>>

MainStep ==
    \/ NotifyBegin \/ NotifyDone \/ ClearAuth
    \/ \E e \in Env : NotifyEnv(e)

Next ==
    \/ MainStep
    \/ RuntimeStart \/ InitializeContext \/ ExecuteCommand \/ Teardown
    \/ \E l \in Launch :
          \/ Launching(l) \/ BrowserExits(l) \/ OtherSessionStep(l)
          \/ SendAuthRequest(l) \/ ReadAuthRequest(l) \/ AnswerAuthRequest(l)
          \/ LoseConnection(l) \/ AbandonSession(l)

Spec == Init /\ [][Next]_vars

\* A loop that has something to read or to write goes on, and so does a
\* command; writes return, and the map's lock is had.  Browsers may be silent, or go.
SessionProgress(l) ==
    \/ ReadAuthRequest(l) \/ AnswerAuthRequest(l) \/ AbandonSession(l)
    \/ ConfigSent(l) /\ UNCHANGED <<mainVars, askVars, toldVars>>

FairSpec ==
    /\ Spec
    /\ WF_vars(MainStep)
    /\ \A l \in Launch : WF_vars(SessionProgress(l))

-----------------------------------------------------------------------------
(***************************************************************************)
(* Properties                                                              *)
(***************************************************************************)

\* The type invariant.
AuthTypeOK ==
    /\ BusTypeOK
    /\ authPhase \in AuthPhases /\ goal \in AuthPhases /\ work \in Work
    /\ auth \in Nat /\ notice \in Nat /\ requests \in Nat
    /\ pending \subseteq Env
    /\ askedAt \in [Launch -> Nat \cup {None}]
    /\ snapshot \in [Launch -> Nat \cup {None}]
    /\ told \in [Launch -> Nat]
    /\ toldBy \in [Launch -> {"nobody", "notice", "answer"}]
    /\ broken \subseteq Launch

InMap(l) == connections[EnvOf[l]] = l

\* Between commands no connected browser has been left with an old
\* notification, although browsers come, go and are relaunched while the
\* sweep over the connected environments is under way
\* (manager.rs:485-511): only an answer can be out of date.
NoticesReachEveryone ==
    work = "idle" =>
        \A l \in Launch :
            InMap(l) /\ l \notin broken /\ toldBy[l] = "notice" => told[l] = auth

\* A browser that is told something by a loop or a sweep is told at least what
\* it could have known when it asked, a notification never carries less than
\* the store holds, and an open question is answered once: the service is a
\* register that is written by the main task alone (auth/mod.rs:41-59,
\* manager.rs:460-511).
Register == INSTANCE AuthRegister WITH
    Reader <- Launch, NotAsked <- None,
    latest <- auth, asked <- askedAt, view <- told

IsRegister == Register!RegisterSpec

\* A browser's request is answered, in a context or out of it, unless its
\* session ends or never gets to a receive loop (manager.rs:305-325).
RequestsAnswered ==
    \A l \in Launch : askedAt[l] # None ~> askedAt[l] = None
=============================================================================
