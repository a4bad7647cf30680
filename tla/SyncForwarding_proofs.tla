------------------------ MODULE SyncForwarding_proofs ------------------------
(***************************************************************************)
(* Proofs about SyncForwarding, for any environments, settings and events: *)
(* types, the module's copy of the setting, the roles of the browsers and  *)
(* whose input they are sent.                                              *)
(***************************************************************************)
EXTENDS SyncForwarding, SequenceTheorems, TLAPS

\* The variables keep their types, and no part is played in NoSync.
TypeInv == SyncTypeOK /\ (master = None => slaves = {})

\* The setting in force is the last one; it is the one the module is making once
\* it is assigned, and the one it reports before that.
SettingInv ==
    /\ settings[Len(settings)] = Setting(master, slaves)
    /\ work \in {"idle", "releasing"} => running = Setting(master, slaves)
    /\ work \in {"naming", "telling", "settling"} => next = Setting(master, slaves)
    /\ work = "releasing" => next = NoSync
    /\ work \in {"naming", "telling"} => master # None
    /\ work \in {"idle", "settling"} => tell = {}
    /\ work = "assigning" => IF next = NoSync THEN tell = {} ELSE next.master # None

\* Out of a context nothing is synchronized.
PhaseInv ==
    /\ work = "idle" => goal = phase
    /\ work # "idle" => phase # "Dormant" /\ goal # "Dormant"
    /\ goal # "ContextReady" /\ work = "idle" => running = NoSync
    /\ goal # "ContextReady" /\ work # "idle" => next = NoSync

\* A browser that plays a part plays the one it has in the setting.
Follows(e) ==
    role[e] # "none" =>
        \/ e \in slaves /\ role[e] = "slave"
        \/ e \notin slaves /\ e = master /\ role[e] = "master"

\* While a command tells the browsers, those it has not come to may play
\* another part.
RoleInv ==
    /\ work \in {"assigning", "naming"} => tell = next.slaves
    /\ work = "telling" => tell \subseteq slaves
    /\ \A e \in connected \ unsure :
          /\ work \in {"idle", "releasing", "settling"} => Follows(e)
          /\ work = "releasing" /\ role[e] # "none" => e \in tell
          /\ work = "assigning" /\ next = NoSync => role[e] = "none"
          /\ work = "naming" /\ role[e] # "none" => e \in InSetting(next)
          /\ work = "telling" => Follows(e) \/ e \in tell

\* What a task has read it has read since it was spawned.
TaskInv ==
    /\ \A i \in Events :
          /\ task[i].at \in {"received", "deciding", "forwarding", "over"} =>
                task[i].since \in 1 .. Len(settings)
          /\ task[i].at = "deciding" =>
                \E j \in 1 .. Len(settings) :
                    task[i].since <= j /\ settings[j].master = task[i].master
          /\ task[i].at = "forwarding" =>
                \A e \in task[i].slaves : InForce(task[i].since, task[i].sender, e)
    /\ \A e \in Env : \A i \in inputs[e] :
          task[i].at = "over" /\ InForce(task[i].since, task[i].sender, e)

SyncInv == TypeInv /\ SettingInv /\ PhaseInv /\ RoleInv /\ TaskInv

\* Initially nothing is synchronized, connected or received.
LEMMA SyncInvInit == Init => SyncInv
<1> SUFFICES ASSUME Init PROVE SyncInv
  OBVIOUS
<1> USE NoneAssumption DEF Init, NoSync, Setting, Settings
<1>1. settings = <<NoSync>> /\ settings \in Seq(Settings) /\ Len(settings) = 1 /\ settings # <<>>
  BY DEF NoSync, Setting, Settings
<1>2. TypeInv
  BY <1>1 DEF TypeInv, SyncTypeOK, Phases, Work, Roles, Tasks, NoTask
<1>3. SettingInv /\ PhaseInv
  BY <1>1 DEF SettingInv, PhaseInv
<1>4. RoleInv
  BY DEF RoleInv
<1>5. TaskInv
  BY DEF TaskInv, NoTask
<1> QED
  BY <1>2, <1>3, <1>4, <1>5 DEF SyncInv

-----------------------------------------------------------------------------
(* Types. *)

\* A role written to one browser is its role, or that is lost sight of.
LEMMA SendRoleOne ==
    ASSUME SyncTypeOK, NEW e \in Env, NEW r \in Roles, SendRole(e, r)
    PROVE  /\ role' \in [Env -> Roles]
           /\ connected' = connected /\ inputs' = inputs /\ unsure' \subseteq connected
           /\ \A f \in Env : f # e => role'[f] = role[f] /\ (f \in unsure' <=> f \in unsure)
           /\ e \in connected \ unsure' => role'[e] = r
  BY DEF SendRole, SyncTypeOK

\* Every step keeps the types.
LEMMA TypeStep == TypeInv /\ SettingInv /\ RoleInv /\ [Next]_vars => TypeInv'
<1> SUFFICES ASSUME TypeInv, SettingInv, RoleInv, [Next]_vars PROVE TypeInv'
  OBVIOUS
<1> USE NoneAssumption DEF TypeInv, SyncTypeOK
<1>1. CASE Command
  <2>1. CASE RuntimeStart \/ InitializeContext
    BY <1>1, <2>1 DEF RuntimeStart, InitializeContext, Reset, setting, peers, Phases, Settings,
       NoSync, Setting
  <2>2. ASSUME NEW m \in Env, NEW S \in SUBSET Env, StartSync(m, S) PROVE TypeInv'
    BY <2>2 DEF StartSync, setting, peers, Work, Settings, Setting
  <2>3. CASE StopSync \/ DestroyContext \/ Shutdown
    BY <2>3 DEF StopSync, DestroyContext, Shutdown, BeginStop, setting, peers, Work, Phases,
       Settings, NoSync, Setting, InSetting
  <2> QED  BY <1>1, <2>1, <2>2, <2>3 DEF Command
<1>2. CASE MainStep
  <2>1. CASE Assign
    <3>1. settings' \in Seq(Settings) /\ settings' # <<>>
      BY <2>1 DEF Assign
    <3> QED
      BY <2>1, <3>1 DEF Assign, Work, Settings, NoSync, Setting, SettingInv, RoleInv
  <2>2. CASE NameMaster
    <3>1. next.master \in Env
      BY <2>2 DEF NameMaster, SettingInv, Setting, Settings
    <3> QED
      BY <2>2, <3>1, SendRoleOne DEF NameMaster, setting, Work, Roles
  <2>3. ASSUME NEW e \in Env, TellSlave(e) \/ Release(e) PROVE TypeInv'
    <3>1. \E r \in Roles : SendRole(e, r)
      BY <2>3 DEF TellSlave, Release, Roles
    <3> QED
      BY <2>3, <3>1, SendRoleOne DEF TellSlave, Release, setting
  <2>4. CASE AllTold \/ Settle
    BY <2>4 DEF AllTold, Settle, setting, peers, Work, Settings, NoSync, Setting
  <2> QED  BY <1>2, <2>1, <2>2, <2>3, <2>4 DEF MainStep
<1>3. ASSUME NEW i \in Events, TaskStep(i) PROVE TypeInv'
  <2>1. ASSUME NEW e \in Env, ReceiveInput(i, e) PROVE TypeInv'
    <3>1. Len(settings) \in Nat
      BY LenProperties
    <3> QED
      BY <2>1, <3>1 DEF ReceiveInput, Step, main, setting, peers, Tasks, NoTask
  <2>2. CASE ReadMaster(i)
    BY <2>2 DEF ReadMaster, Step, main, setting, peers, Tasks
  <2>3. CASE ReadSlaves(i)
    <3> DEFINE forwards == task[i].master = task[i].sender /\ slaves # {}
               t == [task[i] EXCEPT !.at = IF forwards THEN "forwarding" ELSE "over",
                                    !.slaves = slaves]
    <3>1. t \in Tasks
      <4>1. task[i] \in Tasks
        OBVIOUS
      <4>2. (IF forwards THEN "forwarding" ELSE "over") \in {"forwarding", "over"}
        OBVIOUS
      <4> HIDE DEF forwards
      <4> QED
        BY <4>1, <4>2 DEF Tasks
    <3>2. task' = [task EXCEPT ![i] = t] /\ UNCHANGED <<main, setting, peers>>
      BY <2>3 DEF ReadSlaves, Step
    <3> HIDE DEF t
    <3> QED
      BY <3>1, <3>2 DEF main, setting, peers
  <2>4. CASE Forward(i)
    <3>1. [task[i] EXCEPT !.at = "over"] \in Tasks
      BY DEF Tasks
    <3>2. inputs' \in [Env -> SUBSET Events]
      BY <2>4 DEF Forward
    <3>3. task' \in [Events -> Tasks] /\ UNCHANGED <<main, setting, connected, role, unsure>>
      BY <2>4, <3>1 DEF Forward, Step
    <3> QED
      BY <3>2, <3>3 DEF main, setting
  <2> QED  BY <1>3, <2>1, <2>2, <2>3, <2>4 DEF TaskStep
<1>4. ASSUME NEW e \in Env, Connect(e) PROVE TypeInv'
  BY <1>4 DEF Connect, main, setting, Roles
<1>5. ASSUME NEW E \in SUBSET Env, Disconnect(E) PROVE TypeInv'
  BY <1>5 DEF Disconnect, main, setting
<1>6. CASE UNCHANGED vars
  BY <1>6 DEF vars, main, setting, peers
<1> QED
  BY <1>1, <1>2, <1>3, <1>4, <1>5, <1>6 DEF Next

-----------------------------------------------------------------------------
(* The module's copy of the setting. *)

\* Every step keeps what is known of the setting and of the phases.
LEMMA SettingStep ==
    TypeInv /\ SettingInv /\ PhaseInv /\ [Next]_vars => SettingInv' /\ PhaseInv'
<1> SUFFICES ASSUME TypeInv, SettingInv, PhaseInv, [Next]_vars
             PROVE  SettingInv' /\ PhaseInv'
  OBVIOUS
<1> USE NoneAssumption DEF TypeInv, SyncTypeOK, SettingInv, PhaseInv
<1>1. CASE Command
  <2>1. CASE RuntimeStart \/ InitializeContext
    BY <1>1, <2>1 DEF RuntimeStart, InitializeContext, Reset, setting, Setting, NoSync
  <2>2. ASSUME NEW m \in Env, NEW S \in SUBSET Env, StartSync(m, S)
        PROVE  SettingInv' /\ PhaseInv'
    BY <2>2 DEF StartSync, setting, Setting, NoSync
  <2>3. CASE StopSync \/ DestroyContext \/ Shutdown
    BY <2>3 DEF StopSync, DestroyContext, Shutdown, BeginStop, setting
  <2> QED  BY <1>1, <2>1, <2>2, <2>3 DEF Command
<1>2. CASE MainStep
  <2>1. CASE Assign
    <3>1. settings'[Len(settings')] = next
      BY <2>1 DEF Assign
    <3>2. next = Setting(master', slaves') /\ (next # NoSync => master' # None)
      BY <2>1 DEF Assign, Setting, Settings
    <3> QED
      BY <2>1, <3>1, <3>2 DEF Assign, Setting
  <2>2. CASE NameMaster \/ AllTold
    BY <2>2 DEF NameMaster, AllTold, setting
  <2>3. ASSUME NEW e \in Env, TellSlave(e) \/ Release(e) PROVE SettingInv' /\ PhaseInv'
    BY <2>3 DEF TellSlave, Release, setting
  <2>4. CASE Settle
    BY <2>4 DEF Settle, setting
  <2> QED  BY <1>2, <2>1, <2>2, <2>3, <2>4 DEF MainStep
<1>3. CASE UNCHANGED <<main, setting>>
  BY <1>3 DEF main, setting
<1> QED
  BY <1>1, <1>2, <1>3
     DEF Next, TaskStep, ReceiveInput, ReadMaster, ReadSlaves, Forward, Step, Connect, Disconnect,
         vars

-----------------------------------------------------------------------------
(* The roles. *)

\* Every step keeps what is known of the roles.
LEMMA RoleStep ==
    TypeInv /\ SettingInv /\ PhaseInv /\ RoleInv /\ [Next]_vars => RoleInv'
<1> SUFFICES ASSUME TypeInv, SettingInv, PhaseInv, RoleInv, [Next]_vars PROVE RoleInv'
  OBVIOUS
<1> USE NoneAssumption DEF TypeInv, SyncTypeOK, SettingInv, PhaseInv, RoleInv, Follows
<1>1. CASE Command
  <2>1. CASE RuntimeStart \/ InitializeContext
    BY <1>1, <2>1 DEF RuntimeStart, InitializeContext, Reset, setting, peers
  <2>2. ASSUME NEW m \in Env, NEW S \in SUBSET Env, StartSync(m, S) PROVE RoleInv'
    BY <2>2 DEF StartSync, setting, peers, Setting, NoSync
  <2>3. CASE StopSync \/ DestroyContext \/ Shutdown
    BY <2>3 DEF StopSync, DestroyContext, Shutdown, BeginStop, setting, peers, Setting, NoSync,
       InSetting
  <2> QED  BY <1>1, <2>1, <2>2, <2>3 DEF Command
<1>2. CASE MainStep
  <2>1. CASE Assign
    BY <2>1 DEF Assign, InSetting, NoSync, Setting
  <2>2. CASE NameMaster
    <3>1. next.master = master /\ next.slaves = slaves /\ master \in Env
      BY <2>2 DEF NameMaster, Setting
    <3>2. SendRole(master, "master") /\ "master" \in Roles
      BY <2>2, <3>1 DEF NameMaster, Roles
    <3> QED
      BY <2>2, <3>1, <3>2, SendRoleOne DEF NameMaster, InSetting, setting
  <2>3. ASSUME NEW e \in Env, TellSlave(e) PROVE RoleInv'
    <3>1. SendRole(e, "slave") /\ "slave" \in Roles
      BY <2>3 DEF TellSlave, Roles
    <3> QED
      BY <2>3, <3>1, SendRoleOne DEF TellSlave, setting
  <2>4. ASSUME NEW e \in Env, Release(e) PROVE RoleInv'
    <3>1. SendRole(e, "none") /\ "none" \in Roles
      BY <2>4 DEF Release, Roles
    <3> QED
      BY <2>4, <3>1, SendRoleOne DEF Release, setting
  <2>5. CASE AllTold /\ work = "telling"
    BY <2>5 DEF AllTold, setting, peers
  <2>6. CASE AllTold /\ work = "releasing"
    <3>1. NoSync.slaves = {}
      BY DEF NoSync, Setting
    <3> QED
      BY <2>6, <3>1 DEF AllTold, setting, peers
  <2>7. CASE Settle
    BY <2>7 DEF Settle, setting, peers
  <2> QED  BY <1>2, <2>1, <2>2, <2>3, <2>4, <2>5, <2>6, <2>7 DEF MainStep, AllTold
<1>3. ASSUME NEW e \in Env, Connect(e) PROVE RoleInv'
  BY <1>3 DEF Connect, main, setting
<1>4. ASSUME NEW E \in SUBSET Env, Disconnect(E) PROVE RoleInv'
  BY <1>4 DEF Disconnect, main, setting
<1>5. CASE UNCHANGED <<main, setting, connected, role, unsure>>
  BY <1>5 DEF main, setting
<1> QED
  BY <1>1, <1>2, <1>3, <1>4, <1>5
     DEF Next, TaskStep, ReceiveInput, ReadMaster, ReadSlaves, Forward, Step, vars, peers

-----------------------------------------------------------------------------
(* Whose input is forwarded. *)

\* The settings are never rewritten.
LEMMA SettingsGrow ==
    ASSUME TypeInv, [Next]_vars
    PROVE  /\ Len(settings) \in Nat /\ Len(settings') \in Nat
           /\ Len(settings) <= Len(settings')
           /\ \A j \in 1 .. Len(settings) : settings'[j] = settings[j]
<1> USE DEF TypeInv, SyncTypeOK
<1>1. Len(settings) \in Nat
  OBVIOUS
<1>2. CASE Assign
  <2>1. settings' = Append(settings, next) /\ next \in Settings
    BY <1>2 DEF Assign
  <2> QED  BY <2>1
<1>3. CASE settings' = settings
  BY <1>1, <1>3
<1> QED
  BY <1>2, <1>3
     DEF Next, MainStep, NameMaster, TellSlave, Release, AllTold, Settle, Command, RuntimeStart,
         InitializeContext, Reset, StartSync, StopSync, DestroyContext, Shutdown, BeginStop,
         TaskStep, ReceiveInput, ReadMaster, ReadSlaves, Forward, Step, Connect, Disconnect,
         vars, setting

\* A task that steps keeps the origin of its event, and the others their state.
LEMMA TaskSteps ==
    ASSUME TypeInv, SettingInv, TaskInv, NEW i \in Events, TaskStep(i)
    PROVE  TaskInv'
<1> USE DEF TypeInv, SyncTypeOK, Step
<1>1. settings' = settings /\ Len(settings) \in Nat /\ Len(settings) >= 1
      /\ \A n \in Events : n # i => task'[n] = task[n]
  <2>1. Len(settings) \in Nat /\ Len(settings) # 0
    BY EmptySeq, LenProperties
  <2>2. settings' = settings /\ \E t : task' = [task EXCEPT ![i] = t]
    BY DEF TaskStep, ReceiveInput, ReadMaster, ReadSlaves, Forward, setting
  <2> QED
    BY <2>1, <2>2
<1>2. \A s, m, e : InForce(s, m, e)' <=> InForce(s, m, e)
  BY <1>1 DEF InForce
<1>3. CASE \E e \in Env : ReceiveInput(i, e)
  <2>1. task'[i].at = "received" /\ task'[i].since = Len(settings) /\ inputs' = inputs
    BY <1>3 DEF ReceiveInput, NoTask, peers
  <2>2. task[i].at = "none"
    BY <1>3 DEF ReceiveInput
  <2>3. \A e \in Env : i \notin inputs[e]
    BY <2>2 DEF TaskInv
  <2> QED
    BY <1>1, <1>2, <2>1, <2>3 DEF TaskInv
<1>4. CASE ReadMaster(i)
  <2>1. /\ task[i].at = "received" /\ task'[i].at = "deciding"
        /\ task'[i].since = task[i].since /\ task'[i].master = master
        /\ inputs' = inputs
    BY <1>4 DEF ReadMaster, Tasks, peers
  <2>2. settings[Len(settings)].master = master /\ task[i].since <= Len(settings)
    BY <2>1 DEF TaskInv, SettingInv, Setting
  <2>3. \A e \in Env : i \notin inputs[e]
    BY <2>1 DEF TaskInv
  <2> QED
    BY <1>1, <1>2, <2>1, <2>2, <2>3 DEF TaskInv
<1>5. CASE ReadSlaves(i)
  <2>1. /\ task[i].at = "deciding" /\ task'[i].at \in {"forwarding", "over"}
        /\ task'[i].since = task[i].since /\ task'[i].slaves = slaves
        /\ task'[i].sender = task[i].sender
        /\ task'[i].at = "forwarding" => task[i].master = task[i].sender
        /\ inputs' = inputs
    BY <1>5 DEF ReadSlaves, Tasks, peers
  <2>2. \A e \in Env : i \notin inputs[e]
    BY <2>1 DEF TaskInv
  <2>3. PICK j \in 1 .. Len(settings) :
            task[i].since <= j /\ settings[j].master = task[i].master
    BY <2>1 DEF TaskInv
  <2>4. settings[Len(settings)].slaves = slaves
    BY DEF SettingInv, Setting
  <2>5. task'[i].at = "forwarding" =>
            \A e \in slaves : InForce(task[i].since, task[i].sender, e)
    BY <1>1, <2>1, <2>3, <2>4 DEF InForce
  <2> QED
    BY <1>1, <1>2, <2>1, <2>2, <2>5 DEF TaskInv
<1>6. CASE Forward(i)
  <2>1. /\ task[i].at = "forwarding" /\ task'[i].at = "over"
        /\ task'[i].since = task[i].since /\ task'[i].sender = task[i].sender
    BY <1>6 DEF Forward, Tasks
  <2>2. \A e \in Env :
            \/ inputs'[e] = inputs[e]
            \/ inputs'[e] = inputs[e] \cup {i} /\ e \in task[i].slaves
    <3>1. PICK written \in SUBSET (task[i].slaves \cap connected) :
              inputs' = [e \in Env |-> IF e \in written THEN inputs[e] \cup {i} ELSE inputs[e]]
      BY <1>6 DEF Forward
    <3>2. ASSUME NEW e \in Env
          PROVE  \/ inputs'[e] = inputs[e]
                 \/ inputs'[e] = inputs[e] \cup {i} /\ e \in task[i].slaves
      <4>1. inputs'[e] = IF e \in written THEN inputs[e] \cup {i} ELSE inputs[e]
        BY <3>1
      <4>2. e \in written => e \in task[i].slaves
        OBVIOUS
      <4> QED
        BY <4>1, <4>2
    <3> QED
      BY <3>2
  <2> QED
    BY <1>1, <1>2, <2>1, <2>2 DEF TaskInv
<1> QED
  BY <1>3, <1>4, <1>5, <1>6 DEF TaskStep

\* Every step keeps what is known of the tasks and of what they forwarded.
LEMMA TaskInvStep == TypeInv /\ SettingInv /\ TaskInv /\ [Next]_vars => TaskInv'
<1> SUFFICES ASSUME TypeInv, SettingInv, TaskInv, [Next]_vars PROVE TaskInv'
  OBVIOUS
<1>1. CASE \E i \in Events : TaskStep(i)
  BY <1>1, TaskSteps
<1>2. CASE /\ task' = task
           /\ \A e \in Env : inputs'[e] = inputs[e] \/ inputs'[e] = {}
  <2>1. \A i \in Events : task[i].since \in Nat /\ task[i].sender \in Env \cup {None}
                          /\ task[i].slaves \subseteq Env
    BY DEF TypeInv, SyncTypeOK, Tasks
  <2>2. \A e \in Env : \A i \in Events :
            InForce(task[i].since, task[i].sender, e)
                => InForce(task[i].since, task[i].sender, e)'
    <3> SUFFICES ASSUME NEW e \in Env, NEW i \in Events,
                        InForce(task[i].since, task[i].sender, e)
                 PROVE  InForce(task[i].since, task[i].sender, e)'
      OBVIOUS
    <3> DEFINE s == task[i].since
               m == task[i].sender
    <3>1. s \in Nat /\ m \in Env \cup {None}
      BY <2>1
    <3>2. PICK j, k \in 1 .. Len(settings) :
              s <= j /\ j <= k /\ settings[j].master = m /\ e \in settings[k].slaves
      BY DEF InForce
    <3>3. /\ j \in 1 .. Len(settings') /\ k \in 1 .. Len(settings')
          /\ settings'[j] = settings[j] /\ settings'[k] = settings[k]
      BY SettingsGrow
    <3> QED
      BY <1>2, <3>2, <3>3 DEF InForce
  <2>3. inputs \in [Env -> SUBSET Events]
    BY DEF TypeInv, SyncTypeOK
  <2> QED
    BY <1>2, <2>1, <2>2, <2>3, SettingsGrow DEF TaskInv
<1> QED
  BY <1>1, <1>2
     DEF Next, MainStep, Assign, NameMaster, SendRole, TellSlave, Release, AllTold, Settle,
         Command, RuntimeStart, InitializeContext, Reset, StartSync, StopSync, DestroyContext,
         Shutdown, BeginStop, Connect, Disconnect, vars, peers, TypeInv, SyncTypeOK

-----------------------------------------------------------------------------
(* The theorems. *)

\* The inductive invariant.
LEMMA SyncInvariant == Spec => []SyncInv
<1>1. SyncInv /\ [Next]_vars => SyncInv'
  BY TypeStep, SettingStep, RoleStep, TaskInvStep DEF SyncInv
<1> QED
  BY SyncInvInit, <1>1, PTL DEF Spec

\* The commands of the module, its hooks, the tasks and the browsers keep the
\* types (mod.rs:60-223, manager.rs:134-213).
THEOREM SyncTypeCorrect == Spec => []SyncTypeOK
<1>1. SyncInv => SyncTypeOK
  BY DEF SyncInv, TypeInv
<1> QED
  BY SyncInvariant, <1>1, PTL

\* The health snapshot reports the setting by which input is forwarded, although
\* hooks reset the module's copy alone (mod.rs:171-223).
THEOREM ReportIsRight == Spec => []ReportedSettingInForce
<1>1. SyncInv => ReportedSettingInForce
  BY DEF SyncInv, SettingInv, ReportedSettingInForce
<1> QED
  BY SyncInvariant, <1>1, PTL

\* Browsers play the parts of the setting, none after a stop, unless a write did
\* not reach them or a new StartSync left them out (mod.rs:106-162).
THEOREM RolesAreRight == Spec => []RolesFollowSetting
<1>1. SyncInv => RolesFollowSetting
  BY DEF SyncInv, RoleInv, Follows, RolesFollowSetting
<1> QED
  BY SyncInvariant, <1>1, PTL

\* However the two reads of a task fall among the assignments, a browser is sent
\* the input of no former master, and none as a former slave (manager.rs:180-213).
THEOREM ForwardingIsRight == Spec => []ForwardedWhileInForce
<1>1. SyncInv => ForwardedWhileInForce
  BY DEF SyncInv, TaskInv, ForwardedWhileInForce
<1> QED
  BY SyncInvariant, <1>1, PTL
=============================================================================
