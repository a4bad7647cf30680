--------------------------- MODULE SyncForwarding ---------------------------
(***************************************************************************)
(* Synchronized browsing: SyncRuntimeModule (src/services/sync/mod.rs),    *)
(* the setting it keeps in EventBusManager (sync_master and sync_slaves,   *)
(* each under a lock of its own), the roles it tells the browsers and the  *)
(* tasks that forward the input of the master to the slaves.               *)
(*                                                                         *)
(* Commands and hooks run on the main task.  Every input event a receive   *)
(* loop reads gets a task of its own, which reads the master, then the     *)
(* slaves, and then writes to the slaves.  Of the sessions only the map is *)
(* kept: which environments are connected (see EventBusSessions).          *)
(***************************************************************************)
EXTENDS Naturals, Sequences

CONSTANTS
    Env,          \* environments
    None,         \* Option::None
    MaxSettings,  \* bound: settings the bus has had
    MaxEvents     \* bound: input events

ASSUME NoneAssumption == None \notin Env

VARIABLES
    phase,      \* SyncModuleState.phase
    running,    \* SyncModuleState: master_env_id and slave_env_ids while
                \* sync_running, the setting NoSync otherwise
    master,     \* EventBusManager.sync_master
    slaves,     \* EventBusManager.sync_slaves
    work,       \* where the main task is in the current command or hook
    goal,       \* the phase the module has when it is over
    next,       \* the setting it is about to make
    tell,       \* environments it has still to tell their role
    connected,  \* environments in the connection map
    role,       \* the last SyncRole written to the connected browser
    unsure,     \* connected browsers whose role was lost sight of
    inputs,     \* the events forwarded to the connected browser
    task,       \* the tasks that forward, by the order of their events
    settings    \* every setting the bus has had

main    == <<phase, running, work, goal, next, tell>>
setting == <<master, slaves, settings>>
peers   == <<connected, role, unsure, inputs>>
vars    == <<main, setting, peers, task>>

Setting(m, S) == [master |-> m, slaves |-> S]
NoSync   == Setting(None, {})
Settings == [master : Env \cup {None}, slaves : SUBSET Env]
Roles    == {"none", "master", "slave"}
Phases   == {"Dormant", "RuntimeStarted", "ContextReady", "RuntimeStopped"}

\* start: idle -> assigning -> naming -> telling -> settling -> idle
\* stop:  idle -> releasing -> assigning -> settling -> idle
Work == {"idle", "releasing", "assigning", "naming", "telling", "settling"}

Events == 1 .. MaxEvents
Tasks  == [at : {"none", "received", "deciding", "forwarding", "over"},
           sender : Env \cup {None}, since : Nat,
           master : Env \cup {None}, slaves : SUBSET Env]
NoTask == [at |-> "none", sender |-> None, since |-> 0, master |-> None, slaves |-> {}]

Init ==
    /\ phase = "Dormant" /\ running = NoSync
    /\ master = None /\ slaves = {} /\ settings = <<NoSync>>
    /\ work = "idle" /\ goal = "Dormant" /\ next = NoSync /\ tell = {}
    /\ connected = {} /\ unsure = {}
    /\ role = [e \in Env |-> "none"]
    /\ inputs = [e \in Env |-> {}]
    /\ task = [i \in Events |-> NoTask]

InSetting(s) == s.slaves \cup ({s.master} \ {None})

(***************************************************************************)
(* Commands and hooks up to their first effect.                            *)
(***************************************************************************)

Reset(p) ==
    /\ phase' = p /\ goal' = p /\ running' = NoSync
    /\ UNCHANGED <<work, next, tell, setting, peers, task>>

RuntimeStart == phase = "Dormant" /\ Reset("RuntimeStarted")

\* on_context_initialize resets the module's own copy of the setting only.
InitializeContext == work = "idle" /\ phase = "RuntimeStarted" /\ Reset("ContextReady")

\* StartSync, also while a synchronization is running: the new setting simply
\* replaces the old one.
StartSync(m, S) ==
    /\ work = "idle" /\ phase = "ContextReady" /\ Len(settings) < MaxSettings
    /\ work' = "assigning"
    /\ next' = Setting(m, S) /\ tell' = S
    /\ UNCHANGED <<phase, goal, running, setting, peers, task>>

\* stop_sync reads the setting; only the main task changes it, so the two
\* reads of get_sync_state agree.
BeginStop(phaseAfter) ==
    /\ Len(settings) < MaxSettings
    /\ work' = "releasing" /\ goal' = phaseAfter
    /\ next' = NoSync
    /\ tell' = InSetting(Setting(master, slaves))
    /\ UNCHANGED <<phase, running, setting, peers, task>>

StopSync == work = "idle" /\ phase = "ContextReady" /\ BeginStop(phase)

\* Mutant of DestroyContext: the hook resets the module and forgets the bus.
DestroyContextLocally ==
    work = "idle" /\ phase = "ContextReady" /\ Reset("RuntimeStarted")

DestroyContext == work = "idle" /\ phase = "ContextReady" /\ BeginStop("RuntimeStarted")

Shutdown == work = "idle" /\ phase = "RuntimeStarted" /\ BeginStop("RuntimeStopped")

(***************************************************************************)
(* Telling the browsers their role.  A send to an environment that is not  *)
(* connected, or that fails, is ignored.                                   *)
(***************************************************************************)

SendRole(e, r) ==
    /\ \/ e \in connected /\ role' = [role EXCEPT ![e] = r] /\ unsure' = unsure \ {e}
       \/ e \in connected /\ unsure' = unsure \cup {e} /\ UNCHANGED role
       \/ e \notin connected /\ UNCHANGED <<role, unsure>>
    /\ UNCHANGED <<connected, inputs>>

\* Mutant of Release: the first send that fails ends the stop.
ReleaseStopsAtError(e) ==
    /\ work = "releasing" /\ e \in tell
    /\ SendRole(e, "none")
    /\ tell' = IF e \in unsure' \/ e \notin connected THEN {} ELSE tell \ {e}
    /\ UNCHANGED <<phase, running, work, goal, next, setting, task>>

\* stop_sync tells the browsers of the setting that is in force.
Release(e) ==
    /\ work = "releasing" /\ e \in tell
    /\ tell' = tell \ {e}
    /\ SendRole(e, "none")
    /\ UNCHANGED <<phase, running, work, goal, next, setting, task>>

\* set_sync_state has both write locks when it assigns.  A browser that plays a
\* part in the old setting and none in that of a StartSync is lost sight of here.
Assign ==
    /\ work = "assigning"
    /\ work' = IF next = NoSync THEN "settling" ELSE "naming"
    /\ master' = next.master /\ slaves' = next.slaves
    /\ settings' = Append(settings, next)
    /\ unsure' = IF next = NoSync THEN unsure
                 ELSE unsure \cup {e \in connected \ InSetting(next) : role[e] # "none"}
    /\ UNCHANGED <<phase, running, goal, next, tell, connected, role, inputs, task>>

NameMaster ==
    /\ work = "naming"
    /\ work' = "telling"
    /\ SendRole(next.master, "master")
    /\ UNCHANGED <<phase, running, goal, next, tell, setting, task>>

\* Mutant of TellSlave: a slave that is the master too keeps that part.
TellOtherSlave(e) ==
    /\ work = "telling" /\ e \in tell
    /\ tell' = tell \ {e}
    /\ IF e = next.master THEN UNCHANGED peers ELSE SendRole(e, "slave")
    /\ UNCHANGED <<phase, running, work, goal, next, setting, task>>

TellSlave(e) ==
    /\ work = "telling" /\ e \in tell
    /\ tell' = tell \ {e}
    /\ SendRole(e, "slave")
    /\ UNCHANGED <<phase, running, work, goal, next, setting, task>>

AllTold ==
    /\ tell = {}
    /\ \/ work = "telling" /\ work' = "settling"
       \/ work = "releasing" /\ work' = "assigning"
    /\ UNCHANGED <<phase, running, goal, next, tell, setting, peers, task>>

\* The module's own copy comes last, then the phase of a hook.
Settle ==
    /\ work = "settling"
    /\ work' = "idle" /\ phase' = goal
    /\ running' = next /\ next' = NoSync
    /\ UNCHANGED <<goal, tell, setting, peers, task>>

(***************************************************************************)
(* Forwarding.                                                             *)
(***************************************************************************)

Step(i, t) == task' = [task EXCEPT ![i] = t] /\ UNCHANGED <<main, setting>>

\* A receive loop reads SyncInputEvent or SyncPaste and spawns a task.
ReceiveInput(i, e) ==
    /\ task[i].at = "none" /\ \A j \in Events : j < i => task[j].at # "none"
    /\ e \in connected
    /\ Step(i, [NoTask EXCEPT !.at = "received", !.sender = e, !.since = Len(settings)])
    /\ UNCHANGED peers

\* The master, under its own lock.
ReadMaster(i) ==
    /\ task[i].at = "received"
    /\ Step(i, [task[i] EXCEPT !.at = "deciding", !.master = master])
    /\ UNCHANGED peers

\* Mutant of ReadSlaves: input of any browser is forwarded.
ReadSlavesOnly(i) ==
    /\ task[i].at = "deciding"
    /\ Step(i, [task[i] EXCEPT
                  !.at = IF slaves # {} THEN "forwarding" ELSE "over",
                  !.slaves = slaves])
    /\ UNCHANGED peers

\* The slaves, under theirs; then the decision.
ReadSlaves(i) ==
    /\ task[i].at = "deciding"
    /\ Step(i, [task[i] EXCEPT
                  !.at = IF task[i].master = task[i].sender /\ slaves # {}
                         THEN "forwarding" ELSE "over",
                  !.slaves = slaves])
    /\ UNCHANGED peers

\* send_to_envs writes to the slaves it finds under the read lock of the map;
\* any of the writes may fail.
Forward(i) ==
    /\ task[i].at = "forwarding"
    /\ \E written \in SUBSET (task[i].slaves \cap connected) :
          inputs' = [e \in Env |-> IF e \in written THEN inputs[e] \cup {i} ELSE inputs[e]]
    /\ Step(i, [task[i] EXCEPT !.at = "over"])
    /\ UNCHANGED <<connected, role, unsure>>

(***************************************************************************)
(* Browsers.  A browser that connects has no role and is not told one.     *)
(***************************************************************************)

Connect(e) ==
    /\ e \notin connected
    /\ connected' = connected \cup {e}
    /\ role' = [role EXCEPT ![e] = "none"]
    /\ inputs' = [inputs EXCEPT ![e] = {}]
    /\ UNCHANGED <<main, setting, unsure, task>>

\* A loop removes the entry of its environment, or disconnect_all those of all.
Disconnect(E) ==
    /\ E # {} /\ E \subseteq connected
    /\ connected' = connected \ E
    /\ unsure' = unsure \ E
    /\ UNCHANGED <<main, setting, role, inputs, task>>

MainStep ==
    \/ Assign \/ NameMaster \/ AllTold \/ Settle
    \/ \E e \in Env : TellSlave(e) \/ Release(e)

Command ==
    \/ RuntimeStart \/ InitializeContext \/ StopSync \/ DestroyContext \/ Shutdown
    \/ \E m \in Env, S \in SUBSET Env : StartSync(m, S)

TaskStep(i) ==
    \/ ReadMaster(i) \/ ReadSlaves(i) \/ Forward(i)
    \/ \E e \in Env : ReceiveInput(i, e)

Next ==
    \/ MainStep \/ Command
    \/ \E i \in Events : TaskStep(i)
    \/ \E e \in Env : Connect(e)
    \/ \E E \in SUBSET Env : Disconnect(E)

Spec == Init /\ [][Next]_vars

-----------------------------------------------------------------------------
(***************************************************************************)
(* Properties                                                              *)
(***************************************************************************)

\* The type invariant.
SyncTypeOK ==
    /\ phase \in Phases /\ goal \in Phases /\ work \in Work
    /\ running \in Settings /\ next \in Settings
    /\ master \in Env \cup {None} /\ slaves \subseteq Env /\ tell \subseteq Env
    /\ connected \subseteq Env /\ unsure \subseteq connected
    /\ role \in [Env -> Roles]
    /\ inputs \in [Env -> SUBSET Events]
    /\ task \in [Events -> Tasks]
    /\ settings \in Seq(Settings) /\ settings # <<>>

\* Between commands the copy of the setting that the module reports in its
\* health snapshot is the one the bus forwards by, in a context and out of it
\* (mod.rs:106-223), although two of the hooks reset the copy only.
ReportedSettingInForce == work = "idle" => running = Setting(master, slaves)

\* Since the time given, m was the master, and e a slave then or later.
InForce(since, m, e) ==
    \E j, k \in 1 .. Len(settings) :
        /\ since <= j /\ j <= k
        /\ settings[j].master = m /\ e \in settings[k].slaves

\* A browser is sent input only of a browser that was the master while the
\* event was handled, and only if it was a slave then or in a setting made since
\* (manager.rs:140-145, 181-193): never of a former master, never as a former
\* slave, and nothing that was typed after a stop, although the two halves of
\* the setting are read under different locks and used after both are released.
ForwardedWhileInForce ==
    \A e \in Env : \A i \in inputs[e] : InForce(task[i].since, task[i].sender, e)

\* Between commands a connected browser that plays a part plays the one the
\* setting gives it, so none does after a stop, a context or a shutdown; a slave's
\* part comes after a master's.  Excepted are the browsers a write did not reach
\* and those that a StartSync over a running synchronization left out: nothing
\* ever tells them (mod.rs:111-124, 139-152).
RolesFollowSetting ==
    work = "idle" =>
        \A e \in connected \ unsure : role[e] # "none" =>
            \/ e \in slaves /\ role[e] = "slave"
            \/ e \notin slaves /\ e = master /\ role[e] = "master"
=============================================================================
