------------------------- MODULE RuntimeHost_proofs -------------------------
(***************************************************************************)
(* Proofs about RuntimeHost, for any number of modules, any hooks that may *)
(* fail and any number of frames.                                          *)
(***************************************************************************)
EXTENDS RuntimeHost, TLAPS

\* Publishing keeps the channel a queue of events.
LEMMA EmitType ==
  ASSUME NEW n \in EventNames, NEW c \in Nat, events \in Seq(Events), Emit(n, c)
  PROVE  events' \in Seq(Events)
  BY DEF Emit, Event, Events

\* Taking the oldest event keeps the channel and the history queues of events.
LEMMA ForwardType ==
  ASSUME events \in Seq(Events), delivered \in Seq(Events), events # <<>>
  PROVE  Tail(events) \in Seq(Events) /\ Append(delivered, Head(events)) \in Seq(Events)
  OBVIOUS

\* A hook that succeeds moves one module between phases.
LEMMA HookType ==
  ASSUME TypeOK, NEW p \in ModulePhases, HookOk(p)
  PROVE  modPhase' \in [Modules -> ModulePhases]
  BY DEF TypeOK, ValuesOK, HookOk

\* A sweep step changes a module, its position and its verdict.
LEMMA SweepType ==
  ASSUME TypeOK, NEW h, NEW p \in ModulePhases, Sweep(h, p)
  PROVE  /\ modPhase' \in [Modules -> ModulePhases]
         /\ at' \in 0 .. NumModules + 1
<1>1. modPhase' \in [Modules -> ModulePhases]
  BY HookType DEF TypeOK, ValuesOK, Sweep, HookErr
<1>2. at' \in 0 .. NumModules + 1
  BY ModulesAssumption DEF TypeOK, ValuesOK, Sweep
<1> QED
  BY <1>1, <1>2

\* An answer with one of the codes is a reply.
LEMMA AnswerType ==
  ASSUME NEW code \in Codes, request' \in Requests, Answer(code)
  PROVE  task' = "replying" /\ task' \in Tasks /\ reply' \in Replies
  BY DEF Answer, Tasks, Replies

\* Reading a frame takes one from the client and counts it, if it is a request.
LEMMA ReadType ==
  ASSUME TypeOK, NEW topic \in Topics, ReadRequest(topic)
  PROVE  /\ request' \in Requests
         /\ unread' \in Nat /\ submitted' \in Nat
         /\ received' \in Nat /\ answered' \in Nat
         /\ acked' \subseteq Nat /\ delivered' \in Seq(Events)
<1>1. unread' \in Nat /\ received' \in Nat
  BY DEF TypeOK, ValuesOK, ReadRequest, Read
<1>2. request' \in Requests
  BY DEF ReadRequest, Requests
<1> QED
  BY <1>1, <1>2 DEF TypeOK, ValuesOK, ReadRequest, Read

\* The two ways a shutdown request ends: an answer, or the end of run().
LEMMA ShutdownResultType ==
  ASSUME TypeOK, NEW ok, request' \in Requests, ShutdownResult(ok)
  PROVE  task' \in {"replying", "exited", "exited_error"} /\ reply' \in Replies
<1>1. CASE request' = "disconnect"
  BY <1>1 DEF TypeOK, ValuesOK, ShutdownResult
<1>2. CASE request' # "disconnect" /\ ok
  <2>1. Answer("ok")
    BY <1>2 DEF ShutdownResult
  <2> QED
    BY <2>1, AnswerType DEF Codes
<1>3. CASE request' # "disconnect" /\ ~ok
  <2>1. Answer("Module")
    BY <1>3 DEF ShutdownResult
  <2> QED
    BY <2>1, AnswerType DEF Codes
<1> QED
  BY <1>1, <1>2, <1>3

\* The beginning of a shutdown, or its end when there is nothing to stop.
LEMMA BeginShutdownType ==
  ASSUME TypeOK, request' \in Requests, BeginShutdown
  PROVE  /\ phase' \in RuntimePhases /\ at' \in 0 .. NumModules + 1
         /\ task' \in Tasks \ {"starting", "initializing"} /\ reply' \in Replies
<1>1. CASE phase \in {"Stopped", "ShuttingDown"}
  <2>1. ShutdownResult(TRUE) /\ UNCHANGED <<phase, at>>
    BY <1>1 DEF BeginShutdown
  <2> QED
    BY <2>1, ShutdownResultType DEF TypeOK, ValuesOK, Tasks
<1>2. CASE phase \notin {"Stopped", "ShuttingDown"}
  <2>1. at' = NumModules /\ UNCHANGED reply /\ phase' = "ShuttingDown"
    BY <1>2 DEF BeginShutdown
  <2>2. task' \in {"stop_context", "stop_modules"}
    BY <1>2 DEF BeginShutdown
  <2> QED
    BY <2>1, <2>2, ModulesAssumption DEF TypeOK, ValuesOK, RuntimePhases, Tasks
<1> QED
  BY <1>1, <1>2

\* The flags stay Booleans.
LEMMA FlagsStep ==
  ASSUME FlagsOK, [Next]_vars
  PROVE  FlagsOK'
<1> USE DEF FlagsOK, host, loop, client, history
<1>1. CASE StartModule \/ RollbackStart \/ StartFails \/ StartDone
  BY <1>1 DEF StartModule, RollbackStart, Sweep, StartFails, StartDone
<1>2. CASE Handle
  BY <1>2 DEF Handle, DropNonRequest, BadFrame, RefuseBeforeHandshake, RefuseRequest,
              HandleHandshake, HandleQuery, HandleCommand, HandleInitialize, HandleDestroy,
              HandleShutdown, BeginShutdown, Admitted, ReadRequest, NoEffect
<1>3. CASE PeerDisconnected
  BY <1>3 DEF PeerDisconnected, BeginShutdown
<1>4. CASE InitializeModule \/ RollbackInitialize \/ InitializeFails \/ InitializeDone
  BY <1>4 DEF InitializeModule, RollbackInitialize, Sweep, InitializeFails, InitializeDone
<1>5. CASE DestroyModule \/ DestroyFails \/ DestroyDone
  BY <1>5 DEF DestroyModule, Sweep, DestroyFails, DestroyDone
<1>6. CASE StopContextModule \/ StopContextDone \/ StopModule \/ ShutdownDone
  BY <1>6 DEF StopContextModule, StopContextDone, StopModule, Sweep, ShutdownDone
<1>7. CASE SendReply \/ ForwardEvent \/ WriteFails
  BY <1>7 DEF SendReply, ForwardEvent, WriteFails
<1>8. CASE Submit \/ Close \/ ServiceEmits \/ UNCHANGED vars
  BY <1>8 DEF Submit, Close, ServiceEmits, vars
<1> QED
  BY <1>1, <1>2, <1>3, <1>4, <1>5, <1>6, <1>7, <1>8 DEF Next, MainStep

\* The initial state has its types.
LEMMA TypeInit == Init => TypeOK
<1>1. Init => FlagsOK
  BY DEF Init, FlagsOK
<1>2. Init => request \in Requests /\ reply \in Replies
  BY DEF Init, NoReply, Requests, Codes, Replies
<1>3. Init => modPhase \in [Modules -> ModulePhases]
  BY DEF Init, ModulePhases
<1>4. Init => at \in 0 .. NumModules + 1
  BY ModulesAssumption DEF Init
<1>5. Init => ValuesOK
  BY <1>2, <1>3, <1>4 DEF Init, ValuesOK, RuntimePhases, Tasks, NoContext
<1> QED
  BY <1>1, <1>5 DEF TypeOK

\* Every field keeps its type: the type invariant is inductive by itself.
THEOREM HostTypeCorrect == Spec => []TypeOK
<1> USE ModulesAssumption
<1>1. Init => TypeOK
  BY TypeInit
<1>2. TypeOK /\ [Next]_vars => TypeOK'
  <2> SUFFICES ASSUME TypeOK, [Next]_vars
               PROVE  ValuesOK'
    BY FlagsStep DEF TypeOK
  <2> USE DEF host, loop, client, history
  <2>1. CASE StartModule
    <3>1. modPhase' \in [Modules -> ModulePhases]
      BY <2>1, HookType DEF TypeOK, ValuesOK, StartModule, HookErr, ModulePhases
    <3>2. at' \in 0 .. NumModules + 1 /\ (task' = task => at' # 0)
      <4>1. \/ at <= NumModules /\ at' = at + 1
            \/ at' = at - 1 /\ task' = "start_rollback"
        BY <2>1 DEF StartModule
      <4>2. at \in 0 .. NumModules + 1 /\ at # 0
        BY <2>1 DEF StartModule, TypeOK, ValuesOK
      <4>3. task # "start_rollback"
        BY <2>1 DEF StartModule
      <4> QED
        BY <4>1, <4>2, <4>3
    <3>3. task' \in Tasks /\ (task' = task \/ task' \in {"start_rollback", "init_rollback"})
      BY <2>1 DEF TypeOK, ValuesOK, StartModule, Tasks
    <3> QED
      BY <2>1, <3>1, <3>2, <3>3 DEF TypeOK, ValuesOK, StartModule
  <2>2. CASE RollbackStart
    BY <2>2, SweepType DEF TypeOK, ValuesOK, RollbackStart, ModulePhases
  <2>3. CASE StartFails
    BY <2>3 DEF TypeOK, ValuesOK, StartFails, Tasks
  <2>4. CASE StartDone
    <3>1. events' \in Seq(Events)
      BY <2>4, EmitType DEF TypeOK, ValuesOK, StartDone, EventNames, NoContext
    <3> QED
      BY <2>4, <3>1 DEF TypeOK, ValuesOK, StartDone, Tasks, RuntimePhases
  <2>5. CASE Handle
    <3>1. CASE DropNonRequest \/ BadFrame
      <4>1. unread' \in Nat
        BY <3>1 DEF TypeOK, ValuesOK, DropNonRequest, BadFrame, Read
      <4> QED
        BY <3>1, <4>1 DEF TypeOK, ValuesOK, DropNonRequest, BadFrame, Tasks
    <3>2. CASE RefuseBeforeHandshake
      BY <3>2, ReadType, AnswerType DEF TypeOK, ValuesOK, RefuseBeforeHandshake, NoEffect, Codes
    <3>3. CASE RefuseRequest
      BY <3>3, ReadType, AnswerType DEF TypeOK, ValuesOK, RefuseRequest, Admitted, NoEffect, Codes
    <3>4. CASE HandleHandshake \/ HandleQuery
      BY <3>4, ReadType, AnswerType
         DEF TypeOK, ValuesOK, HandleHandshake, HandleQuery, Admitted, NoEffect, Codes, Topics
    <3>5. CASE HandleCommand
      BY <3>5, ReadType, AnswerType
         DEF TypeOK, ValuesOK, HandleCommand, Admitted, NoEffect, Codes, Topics
    <3>6. CASE HandleInitialize
      BY <3>6, ReadType, AnswerType
         DEF TypeOK, ValuesOK, HandleInitialize, Admitted, Codes, Topics, RuntimePhases, Tasks
    <3>7. CASE HandleDestroy
      BY <3>7, ReadType, AnswerType
         DEF TypeOK, ValuesOK, HandleDestroy, Admitted, Codes, Topics, RuntimePhases, Tasks
    <3>8. CASE HandleShutdown
      <4>1. request' \in Requests
        BY <3>8, ReadType DEF HandleShutdown, Admitted, Topics
      <4> QED
        BY <3>8, <4>1, ReadType, BeginShutdownType
           DEF TypeOK, ValuesOK, HandleShutdown, Admitted, Topics
    <3> QED
      BY <2>5, <3>1, <3>2, <3>3, <3>4, <3>5, <3>6, <3>7, <3>8 DEF Handle
  <2>6. CASE PeerDisconnected
    <3>1. request' \in Requests
      BY <2>6 DEF PeerDisconnected, Requests
    <3> QED
      BY <2>6, <3>1, BeginShutdownType DEF TypeOK, ValuesOK, PeerDisconnected
  <2>7. CASE InitializeModule
    <3>1. modPhase' \in [Modules -> ModulePhases]
      BY <2>7, HookType DEF TypeOK, ValuesOK, InitializeModule, ModulePhases
    <3>2. at' \in 0 .. NumModules + 1 /\ (task' = task => at' # 0)
      <4>1. \/ at <= NumModules /\ at' = at + 1
            \/ at' = at - 1 /\ task' = "init_rollback"
        BY <2>7 DEF InitializeModule
      <4>2. at \in 0 .. NumModules + 1 /\ at # 0
        BY <2>7 DEF InitializeModule, TypeOK, ValuesOK
      <4>3. task # "init_rollback"
        BY <2>7 DEF InitializeModule
      <4> QED
        BY <4>1, <4>2, <4>3
    <3>3. task' \in Tasks /\ (task' = task \/ task' \in {"start_rollback", "init_rollback"})
      BY <2>7 DEF TypeOK, ValuesOK, InitializeModule, Tasks
    <3> QED
      BY <2>7, <3>1, <3>2, <3>3 DEF TypeOK, ValuesOK, InitializeModule
  <2>8. CASE RollbackInitialize
    BY <2>8, SweepType DEF TypeOK, ValuesOK, RollbackInitialize, ModulePhases
  <2>9. CASE InitializeFails
    BY <2>9, AnswerType DEF TypeOK, ValuesOK, InitializeFails, RuntimePhases, Codes
  <2>10. CASE InitializeDone
    <3>1. events' \in Seq(Events)
      BY <2>10, EmitType DEF TypeOK, ValuesOK, InitializeDone, EventNames
    <3> QED
      BY <2>10, <3>1, AnswerType DEF TypeOK, ValuesOK, InitializeDone, RuntimePhases, Codes
  <2>11. CASE DestroyModule
    BY <2>11, SweepType DEF TypeOK, ValuesOK, DestroyModule, ModulePhases
  <2>12. CASE DestroyFails
    BY <2>12, AnswerType DEF TypeOK, ValuesOK, DestroyFails, RuntimePhases, Codes
  <2>13. CASE DestroyDone
    <3>1. events' \in Seq(Events)
      BY <2>13, EmitType DEF TypeOK, ValuesOK, DestroyDone, EventNames
    <3> QED
      BY <2>13, <3>1, AnswerType DEF TypeOK, ValuesOK, DestroyDone, RuntimePhases, Codes,
                                     NoContext
  <2>14. CASE StopContextModule \/ StopModule
    BY <2>14, SweepType DEF TypeOK, ValuesOK, StopContextModule, StopModule, ModulePhases
  <2>15. CASE StopContextDone
    BY <2>15 DEF TypeOK, ValuesOK, StopContextDone, Tasks, NoContext
  <2>16. CASE ShutdownDone
    <3>1. events' \in Seq(Events)
      BY <2>16, EmitType DEF TypeOK, ValuesOK, ShutdownDone, EventNames, NoContext
    <3>2. task' \in Tasks \ {"starting", "initializing"} /\ reply' \in Replies
      BY <2>16, ShutdownResultType DEF TypeOK, ValuesOK, ShutdownDone, Tasks
    <3> QED
      BY <2>16, <3>1, <3>2 DEF TypeOK, ValuesOK, ShutdownDone, RuntimePhases
  <2>17. CASE SendReply
    <3>1. request' \in Requests /\ reply' \in Replies
      BY <2>17 DEF SendReply, NoReply, Requests, Codes, Replies
    <3> QED
      BY <2>17, <3>1 DEF TypeOK, ValuesOK, SendReply, Tasks
  <2>18. CASE ForwardEvent
    BY <2>18, ForwardType DEF TypeOK, ValuesOK, ForwardEvent
  <2>19. CASE WriteFails
    BY <2>19, ForwardType DEF TypeOK, ValuesOK, WriteFails, Tasks
  <2>20. CASE Submit
    BY <2>20 DEF TypeOK, ValuesOK, Submit
  <2>23. CASE Close
    BY <2>23 DEF TypeOK, ValuesOK, Close
  <2>21. CASE ServiceEmits
    <3>1. events' \in Seq(Events)
      BY <2>21, EmitType DEF TypeOK, ValuesOK, ServiceEmits, EventNames, NoContext
    <3> QED
      BY <2>21, <3>1 DEF TypeOK, ValuesOK, ServiceEmits
  <2>22. CASE UNCHANGED vars
    BY <2>22 DEF TypeOK, ValuesOK, vars
  <2> QED
    BY <2>1, <2>2, <2>3, <2>4, <2>5, <2>6, <2>7, <2>8, <2>9, <2>10, <2>11, <2>12,
       <2>13, <2>14, <2>15, <2>16, <2>17, <2>18, <2>19, <2>20, <2>21, <2>22,
       <2>23        DEF Next, MainStep
<1> QED
  BY <1>1, <1>2, PTL DEF Spec

-----------------------------------------------------------------------------
(***************************************************************************)
(* Safety.  What the host says of itself is only right because a sweep     *)
(* runs over all modules before the next phase is entered: the invariant   *)
(* adds how far each sweep has come (SweepsInOrder) and what state the     *)
(* host is in between two requests (SettledBetweenRequests).               *)
(***************************************************************************)

\* The main task has not entered its loop yet: nothing is claimed but order.
LEMMA HostInit == Init => HostInv
<1> SUFFICES ASSUME Init PROVE HostInv
  OBVIOUS
<1>1. TypeOK
  BY TypeInit
<1>2. SweepsInOrder
  BY ModulesAssumption DEF Init, SweepsInOrder, Modules
<1>3. SettledBetweenRequests /\ AnswerMatchesState /\ CleanExitIsStopped
  BY DEF Init, SettledBetweenRequests, AnswerMatchesState, CleanExitIsStopped
<1> QED
  BY <1>1, <1>2, <1>3 DEF HostInv, Init

\* The conjuncts other than the type, which HostTypeCorrect gives.
HostRest == /\ contextId = context
            /\ SweepsInOrder /\ SettledBetweenRequests
            /\ AnswerMatchesState /\ CleanExitIsStopped

\* Every step of the main task, the client and the services preserves them.
LEMMA HostStep ==
  ASSUME HostInv, TypeOK', [Next]_vars
  PROVE  HostRest'
<1> USE ModulesAssumption
        DEF HostInv, HostRest, TypeOK, ValuesOK, FlagsOK, SweepsInOrder,
            SettledBetweenRequests, AnswerMatchesState, CleanExitIsStopped, AllModules,
            NoContext, Modules, host, loop, client, history
<1>1. CASE StartModule
  <2>1. CASE task' = "start_rollback"
    BY <1>1, <2>1 DEF StartModule
  <2>2. CASE HookOk("RuntimeStarted") /\ at' = at + 1 /\ UNCHANGED task
    BY <1>1, <2>2 DEF StartModule, HookOk
  <2> QED
    BY <1>1, <2>1, <2>2 DEF StartModule
<1>2. CASE RollbackStart
  BY <1>2 DEF RollbackStart, Sweep, HookOk, HookErr
<1>3. CASE StartFails
  BY <1>3 DEF StartFails
<1>4. CASE StartDone
  BY <1>4 DEF StartDone
<1>5. CASE DropNonRequest
  BY <1>5 DEF DropNonRequest, Read
<1>6. CASE BadFrame
  BY <1>6 DEF BadFrame, Read
<1>7. CASE RefuseBeforeHandshake
  BY <1>7 DEF RefuseBeforeHandshake, Answer, Admitted, ReadRequest, Read, NoEffect, Topics
<1>8. CASE RefuseRequest
  BY <1>8 DEF RefuseRequest, Answer, Admitted, ReadRequest, Read, NoEffect, Topics
<1>9. CASE HandleHandshake
  BY <1>9 DEF HandleHandshake, Answer, Admitted, ReadRequest, Read, NoEffect, Topics
<1>10. CASE HandleQuery
  BY <1>10 DEF HandleQuery, Answer, Admitted, ReadRequest, Read, NoEffect, Topics
<1>11. CASE HandleCommand
  BY <1>11 DEF HandleCommand, Answer, Admitted, ReadRequest, Read, NoEffect, Topics
<1>12. CASE HandleInitialize
  <2>1. CASE task' = "initializing"
    <3>1. sequence' = sequence + 1 /\ request' = "initialize_context"
      BY <1>12, <2>1 DEF HandleInitialize, Answer, Admitted, ReadRequest
    <3>2. sequence' > 1
      BY <3>1
    <3>3. /\ task = "idle" /\ phase = "Uninitialized"
          /\ phase' = "Initializing" /\ ~lastError' /\ at' = 1
          /\ context' = context /\ contextId' = contextId /\ modPhase' = modPhase
      BY <1>12, <2>1 DEF HandleInitialize, Answer, Admitted, ReadRequest, Read
    <3>4. context = NoContext /\ contextId = context
      BY <3>3
    <3>5. SweepsInOrder'
      <4>1. \A m \in Modules : ~(m < at')
        BY <3>3
      <4> QED
        BY ONLY <2>1, <3>1, <3>2, <3>3, <3>4, <4>1 DEF SweepsInOrder, NoContext
    <3> QED
      BY ONLY <2>1, <3>3, <3>4, <3>5
         DEF HostRest, SettledBetweenRequests, AnswerMatchesState, CleanExitIsStopped
  <2>2. CASE task' # "initializing"
    <3>1. /\ task = "idle" /\ task' = "replying"
          /\ UNCHANGED <<phase, context, contextId, lastError, sequence, modPhase>>
      BY <1>12, <2>2 DEF HandleInitialize, Answer, Admitted, ReadRequest, Read
    <3>2. \/ reply' = [topic |-> "initialize_context", code |-> "AlreadyInitialized"]
          \/ reply' = [topic |-> "initialize_context", code |-> "InvalidState"]
      BY <1>12, <2>2 DEF HandleInitialize, Answer, Admitted, ReadRequest
    <3> QED
      BY <3>1, <3>2
  <2> QED
    BY <2>1, <2>2
<1>13. CASE HandleDestroy
  BY <1>13 DEF HandleDestroy, Answer, Admitted, ReadRequest, Read, NoEffect, Topics
<1>14. CASE HandleShutdown
  BY <1>14 DEF HandleShutdown, BeginShutdown, ShutdownResult, Answer, Admitted, ReadRequest, Read
<1>15. CASE PeerDisconnected
  BY <1>15 DEF PeerDisconnected, BeginShutdown, ShutdownResult, Answer
<1>16. CASE InitializeModule
  BY <1>16 DEF InitializeModule, HookOk, HookErr
<1>17. CASE RollbackInitialize
  BY <1>17 DEF RollbackInitialize, Sweep, HookOk, HookErr
<1>18. CASE InitializeFails
  BY <1>18 DEF InitializeFails, Answer
<1>19. CASE InitializeDone
  BY <1>19 DEF InitializeDone, Answer
<1>20. CASE DestroyModule
  BY <1>20 DEF DestroyModule, Sweep, HookOk, HookErr
<1>21. CASE DestroyFails
  BY <1>21 DEF DestroyFails, Answer
<1>22. CASE DestroyDone
  BY <1>22 DEF DestroyDone, Answer
<1>23. CASE StopContextModule
  BY <1>23 DEF StopContextModule, Sweep, HookOk, HookErr
<1>24. CASE StopContextDone
  BY <1>24 DEF StopContextDone
<1>25. CASE StopModule
  BY <1>25 DEF StopModule, Sweep, HookOk, HookErr
<1>26. CASE ShutdownDone
  BY <1>26 DEF ShutdownDone, ShutdownResult, Answer
<1>27. CASE SendReply
  BY <1>27 DEF SendReply
<1>28. CASE ForwardEvent
  BY <1>28 DEF ForwardEvent
<1>29. CASE WriteFails
  BY <1>29 DEF WriteFails
<1>30. CASE Submit
  BY <1>30 DEF Submit
<1>31. CASE Close
  BY <1>31 DEF Close
<1>32. CASE ServiceEmits
  BY <1>32 DEF ServiceEmits
<1>33. CASE UNCHANGED vars
  BY <1>33 DEF vars
<1> QED
  BY <1>1, <1>2, <1>3, <1>4, <1>5, <1>6, <1>7, <1>8, <1>9,
     <1>10, <1>11, <1>12, <1>13, <1>14, <1>15, <1>16, <1>17, <1>18,
     <1>19, <1>20, <1>21, <1>22, <1>23, <1>24, <1>25, <1>26, <1>27,
     <1>28, <1>29, <1>30, <1>31, <1>32, <1>33
     DEF Next, MainStep, Handle

\* The strengthened invariant holds throughout, for any number of modules and
\* whichever hooks fail.
THEOREM HostInvariant == Spec => []HostInv
<1>1. HostInv /\ TypeOK' /\ [Next]_vars => HostInv'
  BY HostStep DEF HostInv, HostRest
<1> QED
  BY <1>1, HostInit, HostTypeCorrect, PTL DEF Spec

\* Between requests the two records of the context agree with the phase
\* (host.rs: initialize, destroy and shut down), whatever failed before.
THEOREM ContextsAgree == Spec => []ContextAgrees
<1>1. HostInv => ContextAgrees
  BY DEF HostInv, SettledBetweenRequests, ContextAgrees
<1> QED
  BY <1>1, HostInvariant, PTL

\* Between requests all modules are where the host's phase says, unless an
\* error is on record (module.rs: the sweeps and their rollbacks).
THEOREM ModulesFollow == Spec => []ModulesFollowHost
<1>1. HostInv => ModulesFollowHost
  BY DEF HostInv, SettledBetweenRequests, ModulesFollowHost
<1> QED
  BY <1>1, HostInvariant, PTL

\* A successful answer is only given when the whole of the request was done in
\* every module, and an error leaves the host where the answer says.
THEOREM AnswersAreTrue == Spec => []AnswerMatchesState
<1>1. HostInv => AnswerMatchesState
  BY DEF HostInv
<1> QED
  BY <1>1, HostInvariant, PTL

\* run() returns Ok only after every module has been stopped (bootstrap.rs:48-58).
THEOREM CleanExits == Spec => []CleanExitIsStopped
<1>1. HostInv => CleanExitIsStopped
  BY DEF HostInv
<1> QED
  BY <1>1, HostInvariant, PTL

-----------------------------------------------------------------------------
(***************************************************************************)
(* The two rollbacks and the sweeps that take a context away: while one is *)
(* under way, the modules it has passed have given the context up.         *)
(***************************************************************************)
GivenUp(m) == modPhase[m] # "ContextReady"

NoneReadyWithoutContext ==
    /\ task \in {"starting", "start_rollback", "stop_modules"} => \A m \in Modules : GivenUp(m)
    /\ task \in {"idle", "replying"} /\ context = NoContext => \A m \in Modules : GivenUp(m)
    /\ task = "initializing" => \A m \in Modules : m >= at => GivenUp(m)
    /\ task \in {"init_rollback", "destroying", "stop_context"} =>
          \A m \in Modules : m > at => GivenUp(m)

ContextRollbackInv == "destroy" \notin Faults => NoneReadyWithoutContext

\* Every step of a sweep that cannot fail adds one module to those passed.
LEMMA ContextRollbackStep ==
  ASSUME HostInv, ContextRollbackInv, [Next]_vars
  PROVE  ContextRollbackInv'
<1> SUFFICES ASSUME "destroy" \notin Faults
             PROVE  NoneReadyWithoutContext'
  BY DEF ContextRollbackInv
<1>0. NoneReadyWithoutContext
  BY DEF ContextRollbackInv
<1>a. /\ at \in 0 .. NumModules + 1 /\ modPhase \in [1 .. NumModules -> ModulePhases]
      /\ NumModules \in Nat
      /\ task \in {"starting", "initializing"} => at # 0
      /\ task = "initializing" => sequence \in Nat /\ sequence > 1
      /\ task \in {"initializing", "init_rollback"} => context = NoContext
      /\ task = "destroying" => context # NoContext
  BY ModulesAssumption DEF HostInv, TypeOK, ValuesOK, Modules, SweepsInOrder
<1> HIDE DEF HostInv
<1> USE <1>0, <1>a DEF NoneReadyWithoutContext, GivenUp, NoContext, Modules, host, loop,
                       client, history
<1>1. CASE StartModule
  BY <1>1 DEF StartModule, HookOk, HookErr
<1>2. CASE RollbackStart
  BY <1>2 DEF RollbackStart, Sweep, HookOk, HookErr
<1>3. CASE StartFails \/ StartDone \/ DropNonRequest \/ BadFrame
  BY <1>3 DEF StartFails, StartDone, DropNonRequest, BadFrame, Read
<1>4. CASE RefuseBeforeHandshake \/ RefuseRequest \/ HandleHandshake \/ HandleQuery
           \/ HandleCommand
  BY <1>4 DEF RefuseBeforeHandshake, RefuseRequest, HandleHandshake, HandleQuery,
              HandleCommand, Answer, Admitted, ReadRequest, Read, NoEffect
<1>5. CASE HandleInitialize
  <2>1. /\ task = "idle" /\ task' \in {"initializing", "replying"}
        /\ UNCHANGED <<context, modPhase>>
    BY <1>5 DEF HandleInitialize, Answer, Admitted, ReadRequest, Read
  <2>2. CASE context = NoContext
    BY ONLY <1>0, <2>1, <2>2 DEF NoneReadyWithoutContext, GivenUp
  <2>3. CASE context # NoContext
    <3>1. task' = "replying"
      BY <1>5, <2>3 DEF HandleInitialize, Answer, HostInv, SettledBetweenRequests,
                        Admitted, ReadRequest, Read
    <3> QED
      BY ONLY <2>1, <2>3, <3>1 DEF NoneReadyWithoutContext, GivenUp
  <2> QED
    BY <2>2, <2>3
<1>6. CASE HandleDestroy
  BY <1>6 DEF HandleDestroy, Answer, Admitted, ReadRequest, Read
<1>7. CASE HandleShutdown
  BY <1>7 DEF HandleShutdown, BeginShutdown, ShutdownResult, Answer, Admitted, ReadRequest,
              Read
<1>8. CASE PeerDisconnected
  BY <1>8 DEF PeerDisconnected, BeginShutdown, ShutdownResult, Answer
<1>9. CASE InitializeModule
  BY <1>9 DEF InitializeModule, HookOk, HookErr
<1>10. CASE RollbackInitialize
  BY <1>10 DEF RollbackInitialize, Sweep, HookOk, HookErr
<1>11. CASE InitializeFails \/ InitializeDone
  BY <1>11 DEF InitializeFails, InitializeDone, Answer
<1>12. CASE DestroyModule \/ StopContextModule
  BY <1>12 DEF DestroyModule, StopContextModule, Sweep, HookOk, HookErr
<1>13. CASE DestroyFails \/ DestroyDone
  BY <1>13 DEF DestroyFails, DestroyDone, Answer
<1>14. CASE StopContextDone
  BY <1>14 DEF StopContextDone
<1>15. CASE StopModule
  BY <1>15 DEF StopModule, Sweep, HookOk, HookErr
<1>16. CASE ShutdownDone
  BY <1>16 DEF ShutdownDone, ShutdownResult, Answer
<1>17. CASE SendReply \/ ForwardEvent \/ WriteFails
  BY <1>17 DEF SendReply, ForwardEvent, WriteFails
<1>18. CASE Submit \/ Close \/ ServiceEmits \/ UNCHANGED vars
  BY <1>18 DEF Submit, Close, ServiceEmits, vars
<1> QED
  BY <1>1, <1>2, <1>3, <1>4, <1>5, <1>6, <1>7, <1>8, <1>9, <1>10, <1>11, <1>12, <1>13,
     <1>14, <1>15, <1>16, <1>17, <1>18
     DEF Next, MainStep, Handle

\* No module accepts commands while the runtime has no context, unless giving a
\* context up can fail (module.rs:64-116).
THEOREM NoCommandsWithoutContext == Spec => []CommandsNeedContext
<1>1. Init => ContextRollbackInv
  BY DEF Init, ContextRollbackInv, NoneReadyWithoutContext, GivenUp, Modules
<1>2. ContextRollbackInv => CommandsNeedContext
  BY DEF ContextRollbackInv, NoneReadyWithoutContext, GivenUp, CommandsNeedContext
<1> QED
  BY <1>1, <1>2, ContextRollbackStep, HostInvariant, PTL DEF Spec

Untouched(m) == modPhase[m] \in {"Dormant", "RuntimeStopped"}

StartRollbackInv ==
    "shutdown" \notin Faults =>
        /\ task = "starting" => \A m \in Modules : m >= at => Untouched(m)
        /\ task = "start_rollback" => \A m \in Modules : m > at => Untouched(m)
        /\ task = "exited_error" /\ phase = "Booting" => \A m \in Modules : Untouched(m)

\* The modules a start has not reached are untouched, and those its rollback has
\* passed are stopped; once the loop is entered the phase is no longer Booting.
LEMMA StartRollbackStep ==
  ASSUME HostInv, StartRollbackInv, [Next]_vars
  PROVE  StartRollbackInv'
<1>a. /\ at \in 0 .. NumModules + 1 /\ modPhase \in [1 .. NumModules -> ModulePhases]
      /\ NumModules \in Nat
      /\ task = "starting" => at # 0
  BY ModulesAssumption DEF HostInv, TypeOK, ValuesOK, Modules
<1>b. task \notin {"starting", "start_rollback", "exited_error"} => phase # "Booting"
  BY DEF HostInv, TypeOK, ValuesOK, Tasks, SweepsInOrder, SettledBetweenRequests,
         CleanExitIsStopped
<1> HIDE DEF HostInv
<1> USE <1>a, <1>b DEF StartRollbackInv, Untouched, Modules, host, loop, client, history
<1>1. CASE StartModule
  BY <1>1 DEF StartModule, HookOk, HookErr
<1>2. CASE RollbackStart
  BY <1>2 DEF RollbackStart, Sweep, HookOk, HookErr
<1>3. CASE StartFails \/ StartDone \/ DropNonRequest \/ BadFrame
  BY <1>3 DEF StartFails, StartDone, DropNonRequest, BadFrame, Read
<1>4. CASE RefuseBeforeHandshake \/ RefuseRequest \/ HandleHandshake \/ HandleQuery
           \/ HandleCommand \/ HandleInitialize \/ HandleDestroy
  BY <1>4 DEF RefuseBeforeHandshake, RefuseRequest, HandleHandshake, HandleQuery,
              HandleCommand, HandleInitialize, HandleDestroy, Answer, Admitted, ReadRequest,
              Read
<1>5. CASE HandleShutdown \/ PeerDisconnected
  BY <1>5 DEF HandleShutdown, PeerDisconnected, BeginShutdown, ShutdownResult, Answer,
              Admitted, ReadRequest, Read
<1>6. CASE InitializeModule \/ RollbackInitialize \/ InitializeFails \/ InitializeDone
  BY <1>6 DEF InitializeModule, RollbackInitialize, InitializeFails, InitializeDone, Answer
<1>7. CASE DestroyModule \/ DestroyFails \/ DestroyDone \/ StopContextModule
           \/ StopContextDone \/ StopModule
  BY <1>7 DEF DestroyModule, DestroyFails, DestroyDone, StopContextModule, StopContextDone,
              StopModule, Answer
<1>8. CASE ShutdownDone
  BY <1>8 DEF ShutdownDone, ShutdownResult, Answer
<1>9. CASE SendReply \/ ForwardEvent \/ WriteFails
  BY <1>9 DEF SendReply, ForwardEvent, WriteFails
<1>10. CASE Submit \/ Close \/ ServiceEmits \/ UNCHANGED vars
  BY <1>10 DEF Submit, Close, ServiceEmits, vars
<1> QED
  BY <1>1, <1>2, <1>3, <1>4, <1>5, <1>6, <1>7, <1>8, <1>9, <1>10 DEF Next, MainStep, Handle

\* A start that fails leaves no module started, unless stopping one can fail
\* (module.rs:48-62).
THEOREM FailedStarts == Spec => []FailedStartLeavesNothing
<1>1. Init => StartRollbackInv
  BY DEF Init, StartRollbackInv, Untouched, Modules
<1>2. StartRollbackInv => FailedStartLeavesNothing
  BY DEF StartRollbackInv, Untouched, FailedStartLeavesNothing
<1> QED
  BY <1>1, <1>2, StartRollbackStep, HostInvariant, PTL DEF Spec

-----------------------------------------------------------------------------
(***************************************************************************)
(* The handshake.  That nothing happens before it needs also what is on    *)
(* its way: no sweep over a context, no event of one, no such answer.      *)
(***************************************************************************)
GateInv ==
    ~handshake =>
        /\ sequence = 1 /\ context = NoContext /\ acked = {} /\ delivered = <<>>
        /\ task \notin {"initializing", "init_rollback", "destroying", "stop_context"}
        /\ reply # [topic |-> "initialize_context", code |-> "ok"]
        /\ \A i \in 1 .. Len(events) : events[i].context = NoContext

\* An event without a context keeps the channel free of context events.
LEMMA PlainEvent ==
  ASSUME events \in Seq(Events), NEW n \in EventNames, Emit(n, NoContext),
         \A i \in 1 .. Len(events) : events[i].context = NoContext
  PROVE  \A i \in 1 .. Len(events') : events'[i].context = NoContext
  BY DEF Emit, Event, Events, NoContext

\* Every step before the handshake that is not the handshake keeps them.
LEMMA GateStep ==
  ASSUME HostInv, GateInv, [Next]_vars
  PROVE  GateInv'
<1> SUFFICES ASSUME ~handshake'
             PROVE  GateInv'
  BY DEF GateInv
<1>a. /\ events \in Seq(Events)
      /\ task = "stop_modules" => request # "initialize_context"
  BY DEF HostInv, TypeOK, ValuesOK, SweepsInOrder
<1> USE <1>a DEF GateInv, NoContext, host, loop, client, history
<1>1. CASE StartModule \/ RollbackStart \/ StartFails
  BY <1>1 DEF StartModule, RollbackStart, StartFails
<1>2. CASE StartDone
  <2>1. \A i \in 1 .. Len(events') : events'[i].context = NoContext
    BY <1>2, PlainEvent DEF StartDone, EventNames
  <2> QED
    BY <1>2, <2>1 DEF StartDone
<1>3. CASE DropNonRequest \/ BadFrame
  BY <1>3 DEF DropNonRequest, BadFrame, Read
<1>4. CASE RefuseBeforeHandshake \/ RefuseRequest
  BY <1>4 DEF RefuseBeforeHandshake, RefuseRequest, Answer, Admitted, ReadRequest, NoEffect
<1>5. CASE \/ HandleHandshake \/ HandleQuery \/ HandleCommand \/ HandleInitialize
           \/ HandleDestroy \/ HandleShutdown
  BY <1>5 DEF HandleHandshake, HandleQuery, HandleCommand, HandleInitialize, HandleDestroy,
              HandleShutdown, Admitted
<1>6. CASE PeerDisconnected
  BY <1>6 DEF PeerDisconnected, BeginShutdown, ShutdownResult, Answer
<1>7. CASE InitializeModule \/ RollbackInitialize \/ InitializeFails \/ InitializeDone
  BY <1>7 DEF InitializeModule, RollbackInitialize, InitializeFails, InitializeDone
<1>8. CASE DestroyModule \/ DestroyFails \/ DestroyDone \/ StopContextModule
           \/ StopContextDone
  BY <1>8 DEF DestroyModule, DestroyFails, DestroyDone, StopContextModule, StopContextDone
<1>9. CASE StopModule
  BY <1>9 DEF StopModule
<1>10. CASE ShutdownDone
  <2>1. \A i \in 1 .. Len(events') : events'[i].context = NoContext
    <3>1. CASE Emit("runtime.stopped", NoContext)
      BY <1>10, <3>1, PlainEvent DEF ShutdownDone, EventNames
    <3>2. CASE UNCHANGED events
      BY <1>10, <3>2 DEF ShutdownDone
    <3> QED
      BY <1>10, <3>1, <3>2 DEF ShutdownDone
  <2> QED
    BY <1>10, <2>1 DEF ShutdownDone, ShutdownResult, Answer
<1>11. CASE SendReply
  BY <1>11 DEF SendReply, NoReply
<1>12. CASE ForwardEvent
  <2>1. events # <<>> /\ events' = Tail(events)
    BY <1>12 DEF ForwardEvent
  <2>2. /\ Head(events) = events[1] /\ 1 \in 1 .. Len(events)
        /\ \A i \in 1 .. Len(Tail(events)) :
              i + 1 \in 1 .. Len(events) /\ Tail(events)[i] = events[i + 1]
    BY <2>1
  <2> QED
    BY <1>12, <2>1, <2>2 DEF ForwardEvent
<1>13. CASE WriteFails
  <2>1. CASE task = "replying"
    BY <1>13, <2>1 DEF WriteFails
  <2>2. CASE task = "idle"
    <3>1. /\ events # <<>> /\ events' = Tail(events)
      BY <1>13, <2>2 DEF WriteFails
    <3>2. \A i \in 1 .. Len(Tail(events)) :
             i + 1 \in 1 .. Len(events) /\ Tail(events)[i] = events[i + 1]
      BY <3>1
    <3> QED
      BY <1>13, <3>1, <3>2 DEF WriteFails
  <2> QED
    BY <1>13, <2>1, <2>2 DEF WriteFails
<1>14. CASE Submit \/ Close \/ UNCHANGED vars
  BY <1>14 DEF Submit, Close, vars
<1>15. CASE ServiceEmits
  <2>1. ~handshake
    BY <1>15 DEF ServiceEmits
  <2>2. \A i \in 1 .. Len(events') : events'[i].context = NoContext
    BY <1>15, <2>1, PlainEvent DEF ServiceEmits, EventNames
  <2> QED
    BY <1>15, <2>1, <2>2 DEF ServiceEmits
<1> QED
  BY <1>1, <1>2, <1>3, <1>4, <1>5, <1>6, <1>7, <1>8, <1>9, <1>10, <1>11, <1>12, <1>13,
     <1>14, <1>15
     DEF Next, MainStep, Handle

\* Until a handshake has succeeded, nothing a client sends has an effect on
\* contexts (bootstrap.rs:79-90).
THEOREM HandshakeGates == Spec => []NothingBeforeHandshake
<1>1. Init => GateInv
  BY DEF Init, GateInv, NoReply
<1>2. GateInv => NothingBeforeHandshake
  BY DEF GateInv, NothingBeforeHandshake
<1> QED
  BY <1>1, <1>2, GateStep, HostInvariant, PTL DEF Spec

-----------------------------------------------------------------------------
(***************************************************************************)
(* The events of contexts.  The channel holds other events between them,   *)
(* so the invariant speaks of neighbours: events with a context that have  *)
(* none between them.  The last one delivered, or Opening, counts as the   *)
(* one in front of the queue, at index 0.                                  *)
(***************************************************************************)
Initialized(c) == Event("runtime.context_initialized", c)
Destroyed(c)   == Event("runtime.context_destroyed", c)

Opening == Destroyed(NoContext)

Follows(e, f) ==
    \/ \E c \in Nat \ {0} : e = Initialized(c) /\ f = Destroyed(c)
    \/ \E c \in Nat, d \in Nat \ {0} : e = Destroyed(c) /\ f = Initialized(d) /\ c < d

Seat(p, q, i) == IF i = 0 THEN p ELSE q[i]

Marked(q, i) == i = 0 \/ q[i].context # NoContext

Neighbours(q, i, j) ==
    /\ i < j /\ Marked(q, i)
    /\ \A k \in 1 .. Len(q) : i < k /\ k < j => q[k].context = NoContext

InOrder(p, q) ==
    \A i \in 0 .. Len(q), j \in 1 .. Len(q) :
        Neighbours(q, i, j) /\ Marked(q, j) => Follows(Seat(p, q, i), q[j])

IsLast(p, q, e) ==
    \E i \in 0 .. Len(q) : Neighbours(q, i, Len(q) + 1) /\ e = Seat(p, q, i)

\* Cells of an extended queue.
LEMMA AppendCells ==
  ASSUME NEW q \in Seq(Events), NEW e \in Events
  PROVE  /\ Append(q, e) \in Seq(Events) /\ Len(Append(q, e)) = Len(q) + 1 /\ Len(q) \in Nat
         /\ \A i \in 1 .. Len(q) : Append(q, e)[i] = q[i]
         /\ Append(q, e)[Len(q) + 1] = e
  OBVIOUS

\* An event without a context changes neither the order nor the last one.
LEMMA AppendPlain ==
  ASSUME NEW p, NEW q \in Seq(Events), NEW e \in Events, e.context = NoContext
  PROVE  /\ InOrder(p, q) => InOrder(p, Append(q, e))
         /\ \A l : IsLast(p, Append(q, e), l) => IsLast(p, q, l)
<1> DEFINE r == Append(q, e)
<1>1. /\ r \in Seq(Events) /\ Len(r) = Len(q) + 1 /\ Len(q) \in Nat
      /\ \A i \in 1 .. Len(q) : r[i] = q[i]
      /\ r[Len(q) + 1] = e
  BY AppendCells
<1> HIDE DEF r
<1>2. ASSUME InOrder(p, q) PROVE InOrder(p, r)
  <2> SUFFICES ASSUME NEW i \in 0 .. Len(r), NEW j \in 1 .. Len(r),
                      Neighbours(r, i, j), Marked(r, j)
               PROVE  Follows(Seat(p, r, i), r[j])
    BY DEF InOrder
  <2>1. i \in 0 .. Len(q) /\ j \in 1 .. Len(q)
    BY <1>1 DEF Marked, Neighbours
  <2>2. Neighbours(q, i, j) /\ Marked(q, j)
    BY <1>1, <2>1 DEF Neighbours, Marked
  <2>3. Seat(p, r, i) = Seat(p, q, i) /\ r[j] = q[j]
    BY <1>1, <2>1 DEF Seat
  <2> QED
    BY <1>2, <2>1, <2>2, <2>3 DEF InOrder
<1>3. ASSUME NEW l, IsLast(p, r, l) PROVE IsLast(p, q, l)
  <2>1. PICK i \in 0 .. Len(r) : Neighbours(r, i, Len(r) + 1) /\ l = Seat(p, r, i)
    BY <1>3 DEF IsLast
  <2>2. i \in 0 .. Len(q)
    BY <1>1, <2>1 DEF Marked, Neighbours
  <2>3. Neighbours(q, i, Len(q) + 1)
    BY <1>1, <2>1, <2>2 DEF Neighbours, Marked
  <2>4. Seat(p, r, i) = Seat(p, q, i)
    BY <1>1, <2>2 DEF Seat
  <2> QED
    BY <2>1, <2>2, <2>3, <2>4 DEF IsLast
<1> QED
  BY <1>2, <1>3 DEF r

\* An event of a context that follows the last one keeps the order, and is the
\* last one then.
LEMMA AppendMarked ==
  ASSUME NEW p, NEW q \in Seq(Events), NEW e \in Events, e.context # NoContext,
         InOrder(p, q), \A l : IsLast(p, q, l) => Follows(l, e)
  PROVE  /\ InOrder(p, Append(q, e))
         /\ \A l : IsLast(p, Append(q, e), l) => l = e
<1> DEFINE r == Append(q, e)
<1>1. /\ r \in Seq(Events) /\ Len(r) = Len(q) + 1 /\ Len(q) \in Nat
      /\ \A i \in 1 .. Len(q) : r[i] = q[i]
      /\ r[Len(q) + 1] = e
  BY AppendCells
<1> HIDE DEF r
<1>2. ASSUME NEW i \in 0 .. Len(r), NEW j \in 1 .. Len(r), Neighbours(r, i, j), Marked(r, j)
      PROVE  Follows(Seat(p, r, i), r[j])
  <2>0. i \in 0 .. Len(q)
    BY <1>1, <1>2 DEF Neighbours
  <2>1. Seat(p, r, i) = Seat(p, q, i)
    BY <1>1, <2>0 DEF Seat
  <2>2. CASE j \in 1 .. Len(q)
    <3>1. Neighbours(q, i, j) /\ Marked(q, j) /\ r[j] = q[j]
      BY <1>1, <1>2, <2>0, <2>2 DEF Neighbours, Marked
    <3> QED
      BY <2>0, <2>1, <2>2, <3>1 DEF InOrder
  <2>3. CASE j = Len(q) + 1
    <3>1. Neighbours(q, i, Len(q) + 1)
      BY <1>1, <1>2, <2>0, <2>3 DEF Neighbours, Marked
    <3>2. IsLast(p, q, Seat(p, q, i))
      BY <2>0, <3>1 DEF IsLast
    <3> QED
      BY <1>1, <2>1, <2>3, <3>2
  <2> QED
    BY <1>1, <2>2, <2>3
<1>3. ASSUME NEW l, IsLast(p, r, l) PROVE l = e
  <2>1. PICK i \in 0 .. Len(r) : Neighbours(r, i, Len(r) + 1) /\ l = Seat(p, r, i)
    BY <1>3 DEF IsLast
  <2>2. i = Len(r)
    <3>1. Len(r) \in 1 .. Len(r) /\ r[Len(r)].context # NoContext
      BY <1>1
    <3> QED
      BY <1>1, <2>1, <3>1 DEF Neighbours
  <2> QED
    BY <1>1, <2>1, <2>2 DEF Seat
<1> QED
  BY <1>2, <1>3 DEF r, InOrder

\* Cells of a queue that has lost its head.
LEMMA TailCells ==
  ASSUME NEW q \in Seq(Events), q # <<>>
  PROVE  /\ Tail(q) \in Seq(Events) /\ Len(q) \in Nat \ {0} /\ Len(Tail(q)) = Len(q) - 1
         /\ \A i \in 1 .. Len(q) - 1 : Tail(q)[i] = q[i + 1]
         /\ Head(q) = q[1]
  OBVIOUS

\* An event without a context that is taken off changes neither the order nor
\* the last one.
LEMMA TailPlain ==
  ASSUME NEW p, NEW q \in Seq(Events), q # <<>>, Head(q).context = NoContext
  PROVE  /\ InOrder(p, q) => InOrder(p, Tail(q))
         /\ \A l : IsLast(p, Tail(q), l) => IsLast(p, q, l)
<1> DEFINE r == Tail(q)
           Old(i) == IF i = 0 THEN 0 ELSE i + 1
<1>1. /\ r \in Seq(Events) /\ Len(q) \in Nat \ {0} /\ Len(r) = Len(q) - 1
      /\ \A i \in 1 .. Len(r) : r[i] = q[i + 1]
      /\ q[1].context = NoContext
  BY TailCells
<1> HIDE DEF r
<1>2. ASSUME NEW i \in 0 .. Len(r), NEW j \in 1 .. Len(r) + 1, Neighbours(r, i, j)
      PROVE  /\ Old(i) \in 0 .. Len(q) /\ Neighbours(q, Old(i), j + 1)
             /\ Seat(p, r, i) = Seat(p, q, Old(i))
  <2>1. Old(i) \in 0 .. Len(q) /\ Old(i) < j + 1 /\ Seat(p, r, i) = Seat(p, q, Old(i))
    BY <1>1, <1>2 DEF Neighbours, Seat
  <2>2. Marked(q, Old(i))
    <3>1. CASE i = 0
      BY <3>1 DEF Marked
    <3>2. CASE i # 0
      <4>1. i \in 1 .. Len(r) /\ r[i].context # NoContext
        BY <1>1, <1>2, <3>2 DEF Neighbours, Marked
      <4> QED
        BY <1>1, <3>2, <4>1 DEF Marked
    <3> QED
      BY <3>1, <3>2
  <2>3. ASSUME NEW k \in 1 .. Len(q), Old(i) < k, k < j + 1
        PROVE  q[k].context = NoContext
    <3>1. CASE k = 1
      BY <1>1, <3>1
    <3>2. CASE k # 1
      <4>1. k - 1 \in 1 .. Len(r) /\ i < k - 1 /\ k - 1 < j /\ (k - 1) + 1 = k
        BY <1>1, <2>3, <3>2
      <4>2. r[k - 1].context = NoContext /\ r[k - 1] = q[k]
        BY <1>1, <1>2, <4>1 DEF Neighbours
      <4> QED
        BY <4>2
    <3> QED
      BY <3>1, <3>2
  <2> QED
    BY <2>1, <2>2, <2>3 DEF Neighbours
<1>3. ASSUME InOrder(p, q) PROVE InOrder(p, r)
  <2> SUFFICES ASSUME NEW i \in 0 .. Len(r), NEW j \in 1 .. Len(r),
                      Neighbours(r, i, j), Marked(r, j)
               PROVE  Follows(Seat(p, r, i), r[j])
    BY DEF InOrder
  <2>1. /\ Old(i) \in 0 .. Len(q) /\ Neighbours(q, Old(i), j + 1)
        /\ Seat(p, r, i) = Seat(p, q, Old(i))
    BY <1>1, <1>2
  <2>2. j + 1 \in 1 .. Len(q) /\ r[j] = q[j + 1] /\ Marked(q, j + 1)
    BY <1>1 DEF Marked
  <2> QED
    BY <1>3, <2>1, <2>2 DEF InOrder
<1>4. ASSUME NEW l, IsLast(p, r, l) PROVE IsLast(p, q, l)
  <2>1. PICK i \in 0 .. Len(r) : Neighbours(r, i, Len(r) + 1) /\ l = Seat(p, r, i)
    BY <1>4 DEF IsLast
  <2>2. /\ Old(i) \in 0 .. Len(q) /\ Neighbours(q, Old(i), Len(q) + 1)
        /\ l = Seat(p, q, Old(i))
    <3>1. Len(r) + 1 \in 1 .. Len(r) + 1 /\ (Len(r) + 1) + 1 = Len(q) + 1
      BY <1>1
    <3> QED
      BY <1>2, <2>1, <3>1
  <2> QED
    BY <2>2 DEF IsLast
<1> QED
  BY <1>3, <1>4 DEF r

\* An event of a context that is taken off followed the one before, and takes
\* its place.
LEMMA TailMarked ==
  ASSUME NEW p, NEW q \in Seq(Events), q # <<>>, Head(q).context # NoContext, InOrder(p, q)
  PROVE  /\ Follows(p, Head(q))
         /\ InOrder(Head(q), Tail(q))
         /\ \A l : IsLast(Head(q), Tail(q), l) => IsLast(p, q, l)
<1> DEFINE r == Tail(q)
           h == Head(q)
<1>1. /\ r \in Seq(Events) /\ Len(q) \in Nat \ {0} /\ Len(r) = Len(q) - 1
      /\ \A i \in 1 .. Len(r) : r[i] = q[i + 1]
      /\ h = q[1]
  BY TailCells
<1>2. Follows(p, h)
  <2>1. Neighbours(q, 0, 1) /\ Marked(q, 1)
    BY <1>1 DEF Neighbours, Marked
  <2>2. 0 \in 0 .. Len(q) /\ 1 \in 1 .. Len(q) /\ Seat(p, q, 0) = p
    BY <1>1 DEF Seat
  <2> QED
    BY <1>1, <2>1, <2>2 DEF InOrder
<1> HIDE DEF r, h
<1>3. ASSUME NEW i \in 0 .. Len(r), NEW j \in 1 .. Len(r) + 1, Neighbours(r, i, j)
      PROVE  /\ i + 1 \in 0 .. Len(q) /\ Neighbours(q, i + 1, j + 1)
             /\ Seat(h, r, i) = Seat(p, q, i + 1)
  <2>1. i + 1 \in 0 .. Len(q) /\ i + 1 < j + 1 /\ Seat(h, r, i) = Seat(p, q, i + 1)
    BY <1>1, <1>3 DEF Neighbours, Seat
  <2>2. Marked(q, i + 1)
    <3>1. CASE i = 0
      BY <1>1, <3>1 DEF Marked, h
    <3>2. CASE i # 0
      BY <1>1, <1>3, <3>2 DEF Neighbours, Marked
    <3> QED
      BY <3>1, <3>2
  <2>3. ASSUME NEW k \in 1 .. Len(q), i + 1 < k, k < j + 1
        PROVE  q[k].context = NoContext
    <3>1. k - 1 \in 1 .. Len(r) /\ i < k - 1 /\ k - 1 < j /\ (k - 1) + 1 = k
      BY <1>1, <2>3
    <3>2. r[k - 1].context = NoContext /\ r[k - 1] = q[k]
      BY <1>1, <1>3, <3>1 DEF Neighbours
    <3> QED
      BY <3>2
  <2> QED
    BY <2>1, <2>2, <2>3 DEF Neighbours
<1>4. InOrder(h, r)
  <2> SUFFICES ASSUME NEW i \in 0 .. Len(r), NEW j \in 1 .. Len(r),
                      Neighbours(r, i, j), Marked(r, j)
               PROVE  Follows(Seat(h, r, i), r[j])
    BY DEF InOrder
  <2>1. /\ i + 1 \in 0 .. Len(q) /\ Neighbours(q, i + 1, j + 1)
        /\ Seat(h, r, i) = Seat(p, q, i + 1)
    BY <1>1, <1>3
  <2>2. j + 1 \in 1 .. Len(q) /\ r[j] = q[j + 1] /\ Marked(q, j + 1)
    BY <1>1 DEF Marked
  <2> QED
    BY <2>1, <2>2 DEF InOrder
<1>5. ASSUME NEW l, IsLast(h, r, l) PROVE IsLast(p, q, l)
  <2>1. PICK i \in 0 .. Len(r) : Neighbours(r, i, Len(r) + 1) /\ l = Seat(h, r, i)
    BY <1>5 DEF IsLast
  <2>2. /\ i + 1 \in 0 .. Len(q) /\ Neighbours(q, i + 1, Len(q) + 1)
        /\ l = Seat(p, q, i + 1)
    <3>1. Len(r) + 1 \in 1 .. Len(r) + 1 /\ (Len(r) + 1) + 1 = Len(q) + 1
      BY <1>1
    <3> QED
      BY <1>3, <2>1, <3>1
  <2> QED
    BY <2>2 DEF IsLast
<1> QED
  BY <1>2, <1>4, <1>5 DEF r, h

Latest == IF delivered = <<>> THEN Opening ELSE delivered[Len(delivered)]

\* What the last event says of the host's context, unless it is being stopped.
Current(e) ==
    /\ context # NoContext => e = Initialized(context)
    /\ context = NoContext /\ phase \notin {"ShuttingDown", "Stopped", "Failed"} =>
          \E c \in Nat :
              /\ e = Destroyed(c) /\ c < sequence
              /\ task \in {"initializing", "init_rollback"} => c < sequence - 1

EventsInv ==
    /\ ContextEventsAlternate /\ context < sequence
    /\ ~Exited => /\ InOrder(Latest, events)
                  /\ \A e : IsLast(Latest, events, e) => Current(e)

\* A delivered event that follows the one before keeps them alternating.
LEMMA AlternateAppend ==
  ASSUME delivered \in Seq(Events), ContextEventsAlternate, NEW h \in Events,
         Follows(Latest, h), delivered' = Append(delivered, h)
  PROVE  ContextEventsAlternate' /\ Latest' = h
<1> DEFINE n == Len(delivered)
<1>1. /\ n \in Nat /\ Len(delivered') = n + 1 /\ delivered'[n + 1] = h
      /\ \A i \in 1 .. n : delivered'[i] = delivered[i]
      /\ delivered' # <<>> /\ (delivered = <<>> <=> n = 0)
  OBVIOUS
<1>2. Latest' = h
  BY <1>1 DEF Latest
<1>3. \/ h.name = "runtime.context_destroyed" /\ Latest.name = "runtime.context_initialized"
         /\ h.context = Latest.context
      \/ h.name = "runtime.context_initialized" /\ Latest.name = "runtime.context_destroyed"
         /\ h.context > Latest.context
  BY DEF Follows, Initialized, Destroyed, Event
<1>4. IF (n + 1) % 2 = 1
      THEN /\ h.name = "runtime.context_initialized"
           /\ n + 1 > 1 => h.context > delivered[n].context
      ELSE /\ h.name = "runtime.context_destroyed"
           /\ h.context = delivered[n].context
  <2>1. CASE n = 0
    <3>1. Latest.name = "runtime.context_destroyed"
      BY <1>1, <2>1 DEF Latest, Opening, Destroyed, Event
    <3> QED
      BY <1>3, <2>1, <3>1
  <2>2. CASE n # 0
    <3>1. n \in 1 .. n /\ Latest = delivered[n]
      BY <1>1, <2>2 DEF Latest
    <3>2. (n + 1) % 2 = 1 <=> n % 2 # 1
      BY <1>1
    <3>3. IF n % 2 = 1 THEN Latest.name = "runtime.context_initialized"
                       ELSE Latest.name = "runtime.context_destroyed"
      BY <3>1 DEF ContextEventsAlternate
    <3> QED
      BY <1>1, <1>3, <2>2, <3>1, <3>2, <3>3
  <2> QED
    BY <2>1, <2>2
<1>5. ASSUME NEW i \in 1 .. n + 1
      PROVE  IF i % 2 = 1
             THEN /\ delivered'[i].name = "runtime.context_initialized"
                  /\ i > 1 => delivered'[i].context > delivered'[i - 1].context
             ELSE /\ delivered'[i].name = "runtime.context_destroyed"
                  /\ delivered'[i].context = delivered'[i - 1].context
  <2>1. CASE i = n + 1
    <3>1. CASE n = 0
      BY <1>1, <1>4, <2>1, <3>1
    <3>2. CASE n # 0
      <4>1. n \in 1 .. n /\ i - 1 = n /\ delivered'[n] = delivered[n]
        BY <1>1, <2>1, <3>2
      <4> QED
        BY <1>1, <1>4, <2>1, <4>1
    <3> QED
      BY <3>1, <3>2
  <2>2. CASE i \in 1 .. n
    <3>1. delivered'[i] = delivered[i]
      BY <1>1, <2>2
    <3>2. CASE i = 1
      BY <2>2, <3>1, <3>2 DEF ContextEventsAlternate
    <3>3. CASE i # 1
      <4>1. i - 1 \in 1 .. n /\ delivered'[i - 1] = delivered[i - 1]
        BY <1>1, <2>2, <3>3
      <4> QED
        BY <2>2, <3>1, <4>1 DEF ContextEventsAlternate
    <3> QED
      BY <3>2, <3>3
  <2> QED
    BY <1>1, <2>1, <2>2
<1> QED
  BY <1>1, <1>2, <1>5 DEF ContextEventsAlternate

\* The steps that publish nothing about a context leave the last event current.
LEMMA CurrentKept ==
  ASSUME HostInv, [Next]_vars, ~InitializeDone, ~DestroyDone, ~Exited', NEW e, Current(e)
  PROVE  Current(e)'
<1>a. /\ sequence \in Nat \ {0} /\ context \in Nat
      /\ task \in {"initializing", "init_rollback"} => phase = "Initializing" /\ context = NoContext
      /\ task = "destroying" => context # NoContext
      /\ task \in {"starting", "start_rollback"} => phase = "Booting" /\ context = NoContext
      /\ task = "stop_context" => phase = "ShuttingDown"
      /\ task = "idle" /\ phase = "Uninitialized" => context = NoContext
  BY DEF HostInv, TypeOK, ValuesOK, SweepsInOrder, SettledBetweenRequests
<1> HIDE DEF HostInv
<1> USE <1>a DEF Current, Initialized, Destroyed, Event, NoContext, host, loop, client, history
<1>1. CASE StartModule \/ RollbackStart \/ StartFails \/ StartDone
  BY <1>1 DEF StartModule, RollbackStart, StartFails, StartDone
<1>2. CASE DropNonRequest \/ BadFrame
  BY <1>2 DEF DropNonRequest, BadFrame, Exited, Read
<1>3. CASE RefuseBeforeHandshake \/ RefuseRequest \/ HandleHandshake \/ HandleQuery \/ HandleCommand
  BY <1>3 DEF RefuseBeforeHandshake, RefuseRequest, HandleHandshake, HandleQuery,
              HandleCommand, Answer, NoEffect
<1>4. CASE HandleInitialize
  BY <1>4 DEF HandleInitialize, Answer, Admitted, ReadRequest, Read
<1>5. CASE HandleDestroy
  BY <1>5 DEF HandleDestroy, Answer
<1>6. CASE HandleShutdown \/ PeerDisconnected
  BY <1>6 DEF HandleShutdown, PeerDisconnected, BeginShutdown, ShutdownResult, Answer
<1>7. CASE InitializeModule \/ RollbackInitialize \/ InitializeFails
  BY <1>7 DEF InitializeModule, RollbackInitialize, InitializeFails, Answer
<1>8. CASE DestroyModule \/ DestroyFails
  BY <1>8 DEF DestroyModule, DestroyFails, Answer
<1>9. CASE StopContextModule \/ StopContextDone \/ StopModule
  BY <1>9 DEF StopContextModule, StopContextDone, StopModule
<1>10. CASE ShutdownDone
  BY <1>10 DEF ShutdownDone, ShutdownResult, Answer
<1>11. CASE SendReply \/ ForwardEvent \/ WriteFails
  BY <1>11 DEF SendReply, ForwardEvent, WriteFails, Exited
<1>12. CASE Submit \/ Close \/ ServiceEmits \/ UNCHANGED vars
  BY <1>12 DEF Submit, Close, ServiceEmits, vars
<1> QED
  BY <1>1, <1>2, <1>3, <1>4, <1>5, <1>6, <1>7, <1>8, <1>9, <1>10, <1>11, <1>12
     DEF Next, MainStep, Handle

\* What the steps do to the channel and to what has been delivered.
LEMMA ChannelSteps ==
  ASSUME HostInv, [Next]_vars
  PROVE  \/ UNCHANGED <<events, delivered>>
         \/ InitializeDone \/ DestroyDone \/ ForwardEvent
         \/ UNCHANGED delivered /\ Exited'
         \/ UNCHANGED delivered /\ \E n \in EventNames : Emit(n, NoContext)
<1> USE DEF EventNames, host, loop, client, history
<1>1. CASE StartModule \/ RollbackStart \/ StartFails \/ StartDone
  BY <1>1 DEF StartModule, RollbackStart, StartFails, StartDone
<1>2. CASE Handle
  BY <1>2 DEF Handle, DropNonRequest, BadFrame, RefuseBeforeHandshake, RefuseRequest,
              HandleHandshake, HandleQuery, HandleCommand, HandleInitialize, HandleDestroy,
              HandleShutdown, Admitted, ReadRequest, NoEffect
<1>3. CASE PeerDisconnected
  BY <1>3 DEF PeerDisconnected
<1>4. CASE InitializeModule \/ RollbackInitialize \/ InitializeFails
           \/ DestroyModule \/ DestroyFails
  BY <1>4 DEF InitializeModule, RollbackInitialize, InitializeFails, DestroyModule, DestroyFails
<1>5. CASE StopContextModule \/ StopContextDone \/ StopModule \/ ShutdownDone
  BY <1>5 DEF StopContextModule, StopContextDone, StopModule, ShutdownDone
<1>6. CASE SendReply \/ WriteFails
  BY <1>6 DEF SendReply, WriteFails, Exited
<1>7. CASE Submit \/ Close \/ ServiceEmits \/ UNCHANGED vars
  BY <1>7 DEF Submit, Close, ServiceEmits, vars
<1> QED
  BY <1>1, <1>2, <1>3, <1>4, <1>5, <1>6, <1>7 DEF Next, MainStep

\* Publishing an event of the host's context, or of none any more.
LEMMA ContextPublished ==
  ASSUME HostInv, EventsInv, InitializeDone \/ DestroyDone
  PROVE  /\ UNCHANGED delivered
         /\ InOrder(Latest, events')
         /\ \A e : IsLast(Latest, events', e) => Current(e)'
<1>1. /\ events \in Seq(Events) /\ context \in Nat /\ sequence \in Nat \ {0} /\ ~Exited
      /\ UNCHANGED delivered
  BY DEF HostInv, TypeOK, ValuesOK, InitializeDone, DestroyDone, Exited, history
<1>2. /\ context < sequence
      /\ InOrder(Latest, events) /\ \A e : IsLast(Latest, events, e) => Current(e)
  BY <1>1 DEF EventsInv
<1>3. CASE InitializeDone
  <2>0. PICK n : n = sequence - 1
    OBVIOUS
  <2> DEFINE e == Initialized(n)
  <2>1. /\ task = "initializing" /\ context = NoContext /\ phase = "Initializing"
        /\ sequence > 1 /\ events' = Append(events, e) /\ context' = n
    BY <1>3, <2>0 DEF HostInv, SweepsInOrder, InitializeDone, Emit, Initialized
  <2>2. e \in Events /\ e.context # NoContext /\ n \in Nat \ {0}
    BY <1>1, <2>0, <2>1 DEF Initialized, Event, Events, EventNames, NoContext
  <2>3. ASSUME NEW l, IsLast(Latest, events, l) PROVE Follows(l, e)
    <3>1. PICK c \in Nat : l = Destroyed(c) /\ c < n
      BY <1>2, <2>0, <2>1, <2>3 DEF Current
    <3> QED
      BY <2>2, <3>1 DEF Follows
  <2>4. InOrder(Latest, events') /\ \A l : IsLast(Latest, events', l) => l = e
    BY <1>1, <1>2, <2>1, <2>2, <2>3, AppendMarked
  <2>5. ASSUME NEW l, IsLast(Latest, events', l) PROVE Current(l)'
    <3>1. l = Initialized(context')
      BY <2>1, <2>4, <2>5
    <3> QED
      BY <2>1, <2>2, <3>1 DEF Current, NoContext, Initialized, Event
  <2> QED
    BY <1>1, <2>4, <2>5
<1>4. CASE DestroyDone
  <2>0. PICK n : n = context
    OBVIOUS
  <2> DEFINE e == Destroyed(n)
  <2>1. /\ n # NoContext /\ events' = Append(events, e)
        /\ context' = NoContext /\ sequence' = sequence /\ task' = "replying"
    BY <1>4, <2>0 DEF HostInv, SweepsInOrder, DestroyDone, Emit, Destroyed, Answer
  <2>2. e \in Events /\ e.context # NoContext /\ n \in Nat \ {0} /\ n < sequence
    BY <1>1, <1>2, <2>0, <2>1 DEF Destroyed, Event, Events, EventNames, NoContext
  <2>3. ASSUME NEW l, IsLast(Latest, events, l) PROVE Follows(l, e)
    <3>1. l = Initialized(n)
      BY <1>2, <2>0, <2>1, <2>3 DEF Current
    <3> QED
      BY <2>2, <3>1 DEF Follows
  <2>4. InOrder(Latest, events') /\ \A l : IsLast(Latest, events', l) => l = e
    BY <1>1, <1>2, <2>1, <2>2, <2>3, AppendMarked
  <2>5. ASSUME NEW l, IsLast(Latest, events', l) PROVE Current(l)'
    <3>1. l = Destroyed(n)
      BY <2>4, <2>5
    <3> QED
      BY <2>1, <2>2, <3>1 DEF Current, NoContext
  <2> QED
    BY <1>1, <2>4, <2>5
<1> QED
  BY <1>3, <1>4

\* The host's context is one whose number has been drawn.
LEMMA ContextDrawn ==
  ASSUME HostInv, [Next]_vars, context < sequence
  PROVE  context' < sequence'
<1>a. /\ sequence \in Nat \ {0} /\ context \in Nat
  BY DEF HostInv, TypeOK, ValuesOK
<1> USE <1>a DEF NoContext, host
<1>1. CASE UNCHANGED <<context, sequence>>
  BY <1>1
<1>2. CASE HandleInitialize
  BY <1>2 DEF HandleInitialize
<1>3. CASE InitializeDone \/ DestroyDone \/ StopContextDone
  BY <1>3 DEF InitializeDone, DestroyDone, StopContextDone
<1>4. CASE StartModule \/ RollbackStart \/ StartFails \/ StartDone \/ PeerDisconnected
  BY <1>4 DEF StartModule, RollbackStart, StartFails, StartDone, PeerDisconnected
<1>5. CASE DropNonRequest \/ BadFrame \/ RefuseBeforeHandshake \/ RefuseRequest
           \/ HandleHandshake \/ HandleQuery \/ HandleCommand \/ HandleDestroy \/ HandleShutdown
  BY <1>5 DEF DropNonRequest, BadFrame, RefuseBeforeHandshake, RefuseRequest, HandleHandshake,
              HandleQuery, HandleCommand, HandleDestroy, HandleShutdown, NoEffect
<1>6. CASE InitializeModule \/ RollbackInitialize \/ InitializeFails \/ DestroyModule
           \/ DestroyFails \/ StopContextModule \/ StopModule \/ ShutdownDone
  BY <1>6 DEF InitializeModule, RollbackInitialize, InitializeFails, DestroyModule,
              DestroyFails, StopContextModule, StopModule, ShutdownDone
<1>7. CASE SendReply \/ ForwardEvent \/ WriteFails \/ Submit \/ Close \/ ServiceEmits
           \/ UNCHANGED vars
  BY <1>7 DEF SendReply, ForwardEvent, WriteFails, Submit, Close, ServiceEmits, vars
<1> QED
  BY <1>2, <1>3, <1>4, <1>5, <1>6, <1>7 DEF Next, MainStep, Handle

\* Nothing is delivered once run() has returned.
LEMMA ExitIsFinal ==
  ASSUME HostInv, [Next]_vars, Exited
  PROVE  Exited' /\ UNCHANGED delivered
<1>1. CASE MainStep
  BY <1>1 DEF Exited, MainStep, Handle, StartModule, RollbackStart, StartFails, StartDone,
     DropNonRequest, BadFrame, RefuseBeforeHandshake, RefuseRequest, HandleHandshake, HandleQuery,
     HandleCommand, HandleInitialize, HandleDestroy, HandleShutdown, Admitted, ReadRequest, Read,
     PeerDisconnected, InitializeModule, RollbackInitialize, InitializeFails, InitializeDone,
     DestroyModule, DestroyFails, DestroyDone, StopContextModule, StopContextDone, StopModule,
     ShutdownDone, SendReply, ForwardEvent, WriteFails
<1>2. CASE Submit \/ Close \/ ServiceEmits \/ UNCHANGED vars
  BY <1>2 DEF Submit, Close, ServiceEmits, vars, loop, history, Exited
<1> QED
  BY <1>1, <1>2 DEF Next

\* The order of the context events is kept by every step.
LEMMA EventsStep ==
  ASSUME HostInv, HostInv', EventsInv, [Next]_vars
  PROVE  EventsInv'
<1>1. /\ events \in Seq(Events) /\ delivered \in Seq(Events)
      /\ events' \in Seq(Events) /\ ContextEventsAlternate
  BY DEF HostInv, TypeOK, ValuesOK, EventsInv
<1>2. context' < sequence'
  BY ContextDrawn DEF EventsInv
<1>3. CASE Exited' /\ UNCHANGED delivered
  BY <1>1, <1>2, <1>3 DEF EventsInv, ContextEventsAlternate
<1> SUFFICES ASSUME ~(Exited' /\ UNCHANGED delivered) PROVE EventsInv'
  BY <1>3
<1>4. /\ ~Exited
      /\ InOrder(Latest, events) /\ \A e : IsLast(Latest, events, e) => Current(e)
  BY ExitIsFinal DEF EventsInv
<1>5. UNCHANGED delivered => ContextEventsAlternate' /\ Latest' = Latest
  BY <1>1 DEF ContextEventsAlternate, Latest
<1>6. CASE InitializeDone \/ DestroyDone
  <2>1. /\ UNCHANGED delivered
        /\ InOrder(Latest, events')
        /\ \A e : IsLast(Latest, events', e) => Current(e)'
    BY <1>6, ContextPublished
  <2> QED
    BY <1>2, <1>5, <2>1 DEF EventsInv
<1>7. CASE ~InitializeDone /\ ~DestroyDone
  <2>0. ASSUME NEW e, Current(e), ~Exited' PROVE Current(e)'
    BY <1>7, <2>0, CurrentKept
  <2>1. CASE UNCHANGED <<events, delivered>>
    BY <1>2, <1>4, <1>5, <2>0, <2>1 DEF EventsInv
  <2>2. CASE UNCHANGED delivered /\ \E n \in EventNames : Emit(n, NoContext)
    <3>1. PICK n \in EventNames : Emit(n, NoContext)
      BY <2>2
    <3> DEFINE e == Event(n, NoContext)
    <3>2. e \in Events /\ e.context = NoContext /\ events' = Append(events, e)
      BY <3>1 DEF Emit, Event, Events, NoContext
    <3>3. /\ InOrder(Latest, events')
          /\ \A l : IsLast(Latest, events', l) => IsLast(Latest, events, l)
      BY <1>1, <1>4, <3>2, AppendPlain
    <3> QED
      BY <1>2, <1>4, <1>5, <2>0, <2>2, <3>3 DEF EventsInv
  <2>3. CASE ForwardEvent
    <3>1. /\ events # <<>> /\ events' = Tail(events)
          /\ delivered' = IF Head(events).context # NoContext
                          THEN Append(delivered, Head(events)) ELSE delivered
      BY <2>3 DEF ForwardEvent
    <3>2. CASE Head(events).context = NoContext
      <4>1. /\ InOrder(Latest, events')
            /\ \A l : IsLast(Latest, events', l) => IsLast(Latest, events, l)
        BY <1>1, <1>4, <3>1, <3>2, TailPlain
      <4> QED
        BY <1>2, <1>4, <1>5, <2>0, <3>1, <3>2, <4>1 DEF EventsInv
    <3>3. CASE Head(events).context # NoContext
      <4>1. /\ Follows(Latest, Head(events)) /\ InOrder(Head(events), events')
            /\ \A l : IsLast(Head(events), events', l) => IsLast(Latest, events, l)
        BY <1>1, <1>4, <3>1, <3>3, TailMarked
      <4>2. Head(events) \in Events /\ delivered' = Append(delivered, Head(events))
        BY <1>1, <3>1, <3>3
      <4>3. ContextEventsAlternate' /\ Latest' = Head(events)
        BY <1>1, <4>1, <4>2, AlternateAppend
      <4> QED
        BY <1>2, <1>4, <2>0, <4>1, <4>3 DEF EventsInv
    <3> QED
      BY <3>2, <3>3
  <2> QED
    BY <1>7, <2>1, <2>2, <2>3, ChannelSteps
<1> QED
  BY <1>6, <1>7

\* The client sees contexts open and close in turn, under growing numbers
\* (events.rs; host.rs:217, 232, 348).
THEOREM ContextEventsInTurn == Spec => []ContextEventsAlternate
<1>1. Init => EventsInv
  <2> SUFFICES ASSUME Init PROVE EventsInv
    OBVIOUS
  <2>1. events = <<>> /\ delivered = <<>> /\ context = NoContext /\ sequence = 1
        /\ task = "starting" /\ Len(events) = 0 /\ Len(delivered) = 0
    BY DEF Init
  <2>2. ContextEventsAlternate /\ context < sequence
    BY <2>1 DEF ContextEventsAlternate, NoContext
  <2>3. InOrder(Latest, events)
    BY <2>1 DEF InOrder
  <2>4. ASSUME NEW e, IsLast(Latest, events, e) PROVE Current(e)
    <3>1. e = Destroyed(NoContext)
      BY <2>1, <2>4 DEF IsLast, Seat, Latest, Opening
    <3> QED
      BY <2>1, <3>1 DEF Current, NoContext
  <2> QED
    BY <2>2, <2>3, <2>4 DEF EventsInv
<1>2. EventsInv => ContextEventsAlternate
  BY DEF EventsInv
<1> QED
  BY <1>1, <1>2, EventsStep, HostInvariant, PTL DEF Spec

-----------------------------------------------------------------------------
(***************************************************************************)
(* The answer before the event.  Every context in the channel has been     *)
(* acknowledged to the client, or its acknowledgement is being written.    *)
(***************************************************************************)
Promised ==
    IF task = "replying" /\ reply = [topic |-> "initialize_context", code |-> "ok"]
    THEN {context} ELSE {}

AckInv ==
    /\ AnsweredBeforeEvent
    /\ ~Exited =>
          /\ context # NoContext => context \in acked \cup Promised
          /\ \A i \in 1 .. Len(events) :
                events[i].context # NoContext => events[i].context \in acked \cup Promised

\* While the main task runs, what was promised is acknowledged or still promised.
LEMMA PromiseKept ==
  ASSUME HostInv, [Next]_vars, ~Exited'
  PROVE  /\ acked \cup Promised \subseteq (acked \cup Promised)'
         /\ context' # NoContext => context' = context \/ context' \in (acked \cup Promised)'
<1> USE DEF Promised, host, loop, client, history
<1>1. CASE SendReply
  BY <1>1 DEF SendReply, Exited
<1>2. CASE InitializeDone
  BY <1>2 DEF InitializeDone, Answer, HostInv, SweepsInOrder
<1>3. CASE DestroyDone \/ StopContextDone
  BY <1>3 DEF DestroyDone, StopContextDone, NoContext
<1>4. CASE WriteFails \/ BadFrame
  BY <1>4 DEF WriteFails, BadFrame, Exited
<1>5. CASE StartModule \/ RollbackStart \/ StartFails \/ StartDone \/ PeerDisconnected
  BY <1>5 DEF StartModule, RollbackStart, StartFails, StartDone, PeerDisconnected
<1>6. CASE DropNonRequest \/ RefuseBeforeHandshake \/ RefuseRequest
           \/ HandleHandshake \/ HandleQuery \/ HandleCommand
  BY <1>6 DEF DropNonRequest, RefuseBeforeHandshake, RefuseRequest, HandleHandshake,
              HandleQuery, HandleCommand, NoEffect, Admitted, ReadRequest, Read
<1>7. CASE HandleInitialize \/ HandleDestroy \/ HandleShutdown
  BY <1>7 DEF HandleInitialize, HandleDestroy, HandleShutdown, Admitted, ReadRequest, Read
<1>8. CASE InitializeModule \/ RollbackInitialize \/ InitializeFails \/ DestroyModule
           \/ DestroyFails \/ StopContextModule \/ StopModule \/ ShutdownDone
  BY <1>8 DEF InitializeModule, RollbackInitialize, InitializeFails, DestroyModule,
              DestroyFails, StopContextModule, StopModule, ShutdownDone
<1>9. CASE ForwardEvent \/ Submit \/ Close \/ ServiceEmits \/ UNCHANGED vars
  BY <1>9 DEF ForwardEvent, Submit, Close, ServiceEmits, vars
<1> QED
  BY <1>1, <1>2, <1>3, <1>4, <1>5, <1>6, <1>7, <1>8, <1>9 DEF Next, MainStep, Handle

\* Acknowledgements stay.
LEMMA AckedStays ==
  ASSUME [Next]_vars
  PROVE  acked \subseteq acked'
<1> USE DEF host, loop, client, history
<1>1. CASE Handle
  BY <1>1 DEF Handle, DropNonRequest, BadFrame, RefuseBeforeHandshake, RefuseRequest,
              HandleHandshake, HandleQuery, HandleCommand, HandleInitialize, HandleDestroy,
              HandleShutdown, Admitted, ReadRequest
<1>2. CASE StartModule \/ RollbackStart \/ StartFails \/ StartDone \/ PeerDisconnected
  BY <1>2 DEF StartModule, RollbackStart, StartFails, StartDone, PeerDisconnected
<1>3. CASE InitializeModule \/ RollbackInitialize \/ InitializeFails \/ InitializeDone
           \/ DestroyModule \/ DestroyFails \/ DestroyDone
  BY <1>3 DEF InitializeModule, RollbackInitialize, InitializeFails, InitializeDone,
              DestroyModule, DestroyFails, DestroyDone
<1>4. CASE StopContextModule \/ StopContextDone \/ StopModule \/ ShutdownDone
  BY <1>4 DEF StopContextModule, StopContextDone, StopModule, ShutdownDone
<1>5. CASE SendReply \/ ForwardEvent \/ WriteFails \/ Submit \/ Close \/ ServiceEmits
           \/ UNCHANGED vars
  BY <1>5 DEF SendReply, ForwardEvent, WriteFails, Submit, Close, ServiceEmits, vars
<1> QED
  BY <1>1, <1>2, <1>3, <1>4, <1>5 DEF Next, MainStep

\* Every step keeps the channel to contexts that are acknowledged or promised.
LEMMA AckStep ==
  ASSUME HostInv, AckInv, [Next]_vars
  PROVE  AckInv'
<1>1. /\ events \in Seq(Events) /\ delivered \in Seq(Events) /\ acked \subseteq acked'
  BY AckedStays DEF HostInv, TypeOK, ValuesOK
<1>2. UNCHANGED delivered => AnsweredBeforeEvent'
  BY <1>1 DEF AckInv, AnsweredBeforeEvent
<1>3. CASE Exited' /\ UNCHANGED delivered
  BY <1>2, <1>3 DEF AckInv
<1> SUFFICES ASSUME ~(Exited' /\ UNCHANGED delivered) PROVE AckInv'
  BY <1>3
<1> DEFINE Known == acked \cup Promised
<1>4. /\ ~Exited /\ (context # NoContext => context \in Known)
      /\ \A i \in 1 .. Len(events) : events[i].context # NoContext => events[i].context \in Known
  BY ExitIsFinal DEF AckInv
<1>5. /\ ForwardEvent => task = "idle" /\ ~Exited'
      /\ InitializeDone \/ DestroyDone => ~Exited' /\ UNCHANGED delivered
  BY DEF ForwardEvent, InitializeDone, DestroyDone, Answer, Exited, loop, history
<1>6. ~Exited'
  <2>1. CASE UNCHANGED delivered
    BY <2>1
  <2>2. CASE ~UNCHANGED delivered
    BY <1>5, <2>2, ChannelSteps
  <2> QED
    BY <2>1, <2>2
<1>7. Known \subseteq Known' /\ (context' # NoContext => context' \in Known')
  BY <1>4, <1>6, PromiseKept
<1> HIDE DEF Known
<1>8. CASE UNCHANGED <<events, delivered>>
  BY <1>2, <1>4, <1>7, <1>8 DEF AckInv, Known
<1>9. CASE UNCHANGED delivered /\ \E n \in EventNames, c \in Nat :
                                     Emit(n, c) /\ (c # NoContext => c \in Known')
  <2>1. PICK n \in EventNames, c \in Nat : Emit(n, c) /\ (c # NoContext => c \in Known')
    BY <1>9
  <2>2. /\ Event(n, c) \in Events /\ Event(n, c).context = c
        /\ events' = Append(events, Event(n, c))
    BY <2>1 DEF Emit, Event, Events
  <2>3. \A i \in 1 .. Len(events') :
           events'[i].context # NoContext => events'[i].context \in Known'
    BY <1>1, <1>4, <1>7, <2>1, <2>2, AppendCells
  <2> QED
    BY <1>2, <1>7, <1>9, <2>3 DEF AckInv, Known
<1>10. CASE InitializeDone
  <2>1. Emit("runtime.context_initialized", context') /\ context' \in Nat /\ UNCHANGED delivered
    BY <1>10, <1>5 DEF InitializeDone, HostInv, TypeOK, ValuesOK, SweepsInOrder
  <2> QED
    BY <1>7, <1>9, <2>1 DEF EventNames
<1>11. CASE DestroyDone
  <2>1. Emit("runtime.context_destroyed", context) /\ context \in Nat /\ UNCHANGED delivered
    BY <1>11, <1>5 DEF DestroyDone, HostInv, TypeOK, ValuesOK
  <2> QED
    BY <1>4, <1>7, <1>9, <2>1 DEF EventNames
<1>12. CASE ForwardEvent
  <2>1. /\ events # <<>> /\ events' = Tail(events) /\ task = "idle"
        /\ delivered' = IF Head(events).context # NoContext
                        THEN Append(delivered, Head(events)) ELSE delivered
    BY <1>12 DEF ForwardEvent
  <2>2. /\ Len(events) \in Nat \ {0} /\ Len(Tail(events)) = Len(events) - 1
        /\ \A i \in 1 .. Len(events) - 1 : Tail(events)[i] = events[i + 1]
        /\ Head(events) = events[1] /\ Head(events) \in Events
    BY <1>1, <2>1, TailCells
  <2>3. \A i \in 1 .. Len(events') :
           events'[i].context # NoContext => events'[i].context \in Known'
    BY <1>4, <1>7, <2>1, <2>2
  <2>4. Known = acked
    BY <2>1 DEF Known, Promised
  <2>5. AnsweredBeforeEvent'
    <3>1. CASE Head(events).context = NoContext
      BY <1>2, <2>1, <3>1
    <3>2. CASE Head(events).context # NoContext
      <4>1. Head(events).context \in acked'
        BY <1>1, <1>4, <2>2, <2>4, <3>2
      <4>2. delivered' = Append(delivered, Head(events))
        BY <2>1, <3>2
      <4> QED
        BY <1>1, <2>2, <4>1, <4>2, AppendCells DEF AckInv, AnsweredBeforeEvent
    <3> QED
      BY <3>1, <3>2
  <2> QED
    BY <1>7, <2>3, <2>5 DEF AckInv, Known
<1> QED
  BY <1>6, <1>8, <1>9, <1>10, <1>11, <1>12, ChannelSteps DEF NoContext

\* The client has been answered before it sees the event of the context it asked
\* for (bootstrap.rs:38-69: one loop writes answers and events).
THEOREM AnswersComeFirst == Spec => []AnsweredBeforeEvent
<1>1. Init => AckInv
  BY DEF Init, AckInv, AnsweredBeforeEvent, NoContext
<1>2. AckInv => AnsweredBeforeEvent
  BY DEF AckInv
<1> QED
  BY <1>1, <1>2, AckStep, HostInvariant, PTL DEF Spec

-----------------------------------------------------------------------------
(***************************************************************************)
(* The contract with the client: every step of the host is a step of       *)
(* RuntimeLifecycle or leaves its variables alone.  Which request is in    *)
(* hand, and whether an answer is, must be known for that.                 *)
(***************************************************************************)
HandInv ==
    /\ task \in {"starting", "start_rollback", "idle"} => request = "none"
    /\ task = "replying" => reply # NoReply
    /\ task \notin {"replying", "exited_error"} => reply = NoReply

LEMMA StageOfTask ==
    ASSUME NEW t, NEW p
    PROVE  /\ t = "exited" => StageOf(t, p) = "ended"
           /\ t = "exited_error" => StageOf(t, p) = "aborted"
           /\ t \notin {"exited", "exited_error"} =>
                 /\ p = "Booting" => StageOf(t, p) = "starting"
                 /\ p \in {"Uninitialized", "Initializing", "Ready", "Destroying"} =>
                       StageOf(t, p) = "serving"
                 /\ p = "ShuttingDown" => StageOf(t, p) = "stopping"
                 /\ p = "Stopped" => StageOf(t, p) = "stopped"
                 /\ p = "Failed" => StageOf(t, p) = "failed"
BY DEF StageOf

\* A reply is not the absence of one.
LEMMA RepliesAreReplies ==
    ASSUME NEW topic, NEW code, topic # "none"
    PROVE  [topic |-> topic, code |-> code] # NoReply
<1>1. [topic |-> topic, code |-> code].topic = topic /\ NoReply.topic = "none"
  BY DEF NoReply
<1> QED
  BY <1>1

LEMMA HandStep ==
    ASSUME HandInv, HostInv, [Next]_vars
    PROVE  HandInv'
<1> USE DEF HandInv, host, loop, client, history
<1>1. CASE StartModule \/ RollbackStart \/ StartFails \/ StartDone
  BY <1>1 DEF StartModule, RollbackStart, StartFails, StartDone, Sweep
<1>2. CASE DropNonRequest \/ BadFrame
  BY <1>2 DEF DropNonRequest, BadFrame, Read
<1>3. ASSUME NEW topic \in Topics, NEW code, ReadRequest(topic), Answer(code)
      PROVE  HandInv'
  <2>1. task' = "replying" /\ reply' = [topic |-> topic, code |-> code] /\ topic # "none"
    BY <1>3 DEF ReadRequest, Answer, Topics
  <2> QED
    BY <2>1, RepliesAreReplies
<1>4. CASE RefuseBeforeHandshake \/ RefuseRequest \/ HandleHandshake \/ HandleQuery \/ HandleCommand
  <2>1. \E topic \in Topics : \E code : ReadRequest(topic) /\ Answer(code)
    BY <1>4 DEF RefuseBeforeHandshake, RefuseRequest, HandleHandshake, HandleQuery,
                HandleCommand, Admitted, Topics
  <2> QED
    BY <1>3, <2>1
<1>5. CASE HandleInitialize
  <2>1. CASE task' = "initializing"
    BY <1>5, <2>1 DEF HandleInitialize, Admitted, ReadRequest, Read, Answer
  <2>2. CASE task' # "initializing"
    <3>1. \E code : ReadRequest("initialize_context") /\ Answer(code)
      BY <1>5, <2>2 DEF HandleInitialize, Admitted
    <3> QED
      BY <1>3, <3>1 DEF Topics
  <2> QED
    BY <2>1, <2>2
<1>6. CASE HandleDestroy
  <2>1. CASE task' = "destroying"
    BY <1>6, <2>1 DEF HandleDestroy, Admitted, ReadRequest, Read, Answer
  <2>2. CASE task' # "destroying"
    <3>1. \E code : ReadRequest("destroy_context") /\ Answer(code)
      BY <1>6, <2>2 DEF HandleDestroy, Admitted
    <3> QED
      BY <1>3, <3>1 DEF Topics
  <2> QED
    BY <2>1, <2>2
<1>7. CASE HandleShutdown
  <2>1. CASE task' \in {"stop_context", "stop_modules"}
    BY <1>7, <2>1 DEF HandleShutdown, BeginShutdown, ShutdownResult, Admitted, ReadRequest, Read,
                      Answer
  <2>2. CASE task' \notin {"stop_context", "stop_modules"}
    <3>1. ReadRequest("shutdown") /\ Answer("ok")
      BY <1>7, <2>2 DEF HandleShutdown, BeginShutdown, ShutdownResult, Admitted, ReadRequest
    <3> QED
      BY <1>3, <3>1 DEF Topics
  <2> QED
    BY <2>1, <2>2
<1>8. CASE PeerDisconnected
  BY <1>8 DEF PeerDisconnected, BeginShutdown, ShutdownResult
<1>9. CASE InitializeModule \/ RollbackInitialize \/ DestroyModule \/ StopContextModule
           \/ StopContextDone \/ StopModule
  BY <1>9 DEF InitializeModule, RollbackInitialize, DestroyModule, StopContextModule,
              StopContextDone, StopModule, Sweep
<1>10. CASE InitializeFails \/ InitializeDone \/ DestroyFails \/ DestroyDone
  <2>1. request # "none" /\ request' = request
    BY <1>10 DEF HostInv, SweepsInOrder, InitializeFails, InitializeDone, DestroyFails, DestroyDone
  <2>2. task' = "replying" /\ \E code : reply' = [topic |-> request, code |-> code]
    BY <1>10, <2>1 DEF InitializeFails, InitializeDone, DestroyFails, DestroyDone, Answer
  <2> QED
    BY <2>1, <2>2, RepliesAreReplies
<1>11. CASE ShutdownDone
  <2>1. request \in {"shutdown", "disconnect"} /\ request' = request /\ reply = NoReply
    BY <1>11 DEF HostInv, SweepsInOrder, ShutdownDone
  <2>2. CASE request = "shutdown"
    <3>1. task' = "replying" /\ \E code : reply' = [topic |-> "shutdown", code |-> code]
      BY <1>11, <2>1, <2>2 DEF ShutdownDone, ShutdownResult, Answer
    <3> QED
      BY <3>1, RepliesAreReplies
  <2>3. CASE request = "disconnect"
    <3>1. task' \in {"exited", "exited_error"} /\ reply' = NoReply
      BY <1>11, <2>1, <2>3 DEF ShutdownDone, ShutdownResult
    <3> QED
      BY <3>1
  <2> QED
    BY <2>1, <2>2, <2>3
<1>12. CASE SendReply \/ ForwardEvent \/ WriteFails
  BY <1>12 DEF SendReply, ForwardEvent, WriteFails
<1>13. CASE Submit \/ Close \/ ServiceEmits \/ UNCHANGED vars
  BY <1>13 DEF Submit, Close, ServiceEmits, vars
<1> QED
  BY <1>1, <1>2, <1>4, <1>5, <1>6, <1>7, <1>8, <1>9, <1>10, <1>11, <1>12, <1>13
     DEF Next, MainStep, Handle

LifeStep == [Lifecycle!LifeNext]_(Lifecycle!lifeVars)

\* What a step of the host leaves alone when it says and answers nothing.
LEMMA QuietStep ==
    ASSUME UNCHANGED <<StageOf(task, phase), context, Drawn, request, reply, events, delivered>>
    PROVE  LifeStep
BY DEF LifeStep, Lifecycle!lifeVars

\* Between two requests the stage is one in which requests are taken.
LEMMA StageBetweenRequests ==
    ASSUME HostInv, task \in {"idle", "replying"}
    PROVE  /\ StageOf(task, phase) \in {"serving", "stopped", "failed"}
           /\ phase \in {"Uninitialized", "Ready", "Failed", "Stopped"}
           /\ phase \in {"Uninitialized", "Ready"} <=> StageOf(task, phase) = "serving"
           /\ phase = "Stopped" <=> StageOf(task, phase) = "stopped"
           /\ phase = "Ready" <=> context # NoContext
BY StageOfTask DEF HostInv, SettledBetweenRequests

LEMMA TakeRequest ==
    ASSUME HostInv, HandInv, NEW topic, ReadRequest(topic),
           UNCHANGED <<context, delivered>>, Drawn' = Drawn
    PROVE  Lifecycle!Take(topic)
<1>1. task = "idle" /\ request' = topic
  BY DEF ReadRequest, Read
<1>2. request = "none" /\ StageOf(task, phase) \in {"serving", "stopped", "failed"}
  BY <1>1, StageBetweenRequests DEF HandInv
<1> QED
  BY <1>1, <1>2 DEF Lifecycle!Take, Lifecycle!NoRequest

\* A request that is answered at once, without effect.
LEMMA AnsweredAtOnce ==
    ASSUME HostInv, HandInv, NEW topic \in Topics, ReadRequest(topic),
           NEW code \in Lifecycle!AtOnce(topic), Answer(code), NoEffect
    PROVE  LifeStep
<1>1. /\ task = "idle" /\ request' = topic /\ task' = "replying"
      /\ reply' = [topic |-> topic, code |-> code]
      /\ UNCHANGED <<phase, context, sequence, events, delivered>>
  BY DEF ReadRequest, Read, Answer, NoEffect, host
<1>2. Drawn' = Drawn
  BY <1>1 DEF Drawn
<1>3. Lifecycle!Take(topic)
  BY <1>1, <1>2, TakeRequest
<1>4. StageOf(task, phase)' = StageOf(task, phase)
  <2>1. phase \in {"Uninitialized", "Ready", "Failed", "Stopped"}
    BY <1>1, StageBetweenRequests
  <2> QED
    BY <1>1, <2>1, StageOfTask
<1>5. Lifecycle!AnswerWith(code)
  BY <1>1 DEF Lifecycle!AnswerWith
<1>6. topic \in {"handshake", "query", "command", "unsupported",
                 "initialize_context", "destroy_context", "shutdown"}
  BY DEF Topics
<1>7. Lifecycle!AnswerAtOnce
  BY <1>1, <1>3, <1>4, <1>5, <1>6 DEF Lifecycle!AnswerAtOnce
<1> QED
  BY <1>7 DEF LifeStep, Lifecycle!LifeNext

\* Refusals and answers that take nothing but a look.
LEMMA PlainCodes ==
    /\ \A topic \in Topics : {"HandshakeRequired", "Decode"} \subseteq Lifecycle!AtOnce(topic)
    /\ \A topic \in {"handshake", "query", "command", "unsupported"} :
          {"ok", "InvalidState", "Service"} \subseteq Lifecycle!AtOnce(topic)
BY DEF Lifecycle!AtOnce, Topics

LEMMA HandlerLifeStep ==
    ASSUME HostInv, HandInv, Handle
    PROVE  LifeStep
<1> USE DEF host, loop, client, history
<1>1. CASE DropNonRequest
  BY <1>1, QuietStep DEF DropNonRequest, Read, Drawn
<1>2. CASE BadFrame
  <2>1. /\ task = "idle" /\ request = "none" /\ task' = "exited_error"
        /\ UNCHANGED <<phase, context, sequence, request, reply, events, delivered>>
    BY <1>2 DEF BadFrame, Read, HandInv
  <2>2. Drawn' = Drawn
    BY <2>1 DEF Drawn
  <2>3. StageOf(task, phase) \in {"serving", "stopped", "failed"}
        /\ StageOf(task, phase)' = "aborted"
    BY <2>1, StageBetweenRequests, StageOfTask
  <2>4. Lifecycle!Abort
    BY <2>1, <2>2, <2>3 DEF Lifecycle!Abort, Lifecycle!NoRequest
  <2> QED
    BY <2>4 DEF LifeStep, Lifecycle!LifeNext
<1>3. CASE RefuseBeforeHandshake
  <2>1. PICK topic \in Topics : ReadRequest(topic) /\ Answer("HandshakeRequired") /\ NoEffect
    BY <1>3 DEF RefuseBeforeHandshake
  <2> QED
    BY <2>1, PlainCodes, AnsweredAtOnce
<1>4. CASE RefuseRequest
  <2>1. PICK topic \in Topics :
          /\ ReadRequest(topic) /\ NoEffect
          /\ Answer(IF topic = "unsupported" THEN "InvalidState" ELSE "Decode")
    BY <1>4 DEF RefuseRequest, Admitted
  <2>2. CASE topic = "unsupported"
    BY <2>1, <2>2, PlainCodes, AnsweredAtOnce
  <2>3. CASE topic # "unsupported"
    BY <2>1, <2>3, PlainCodes, AnsweredAtOnce
  <2> QED
    BY <2>2, <2>3
<1>5. CASE HandleHandshake
  <2>1. ReadRequest("handshake") /\ Answer("ok") /\ NoEffect /\ "handshake" \in Topics
    BY <1>5 DEF HandleHandshake, Admitted, Topics
  <2> QED
    BY <2>1, PlainCodes, AnsweredAtOnce
<1>6. CASE HandleQuery
  <2>1. ReadRequest("query") /\ Answer("ok") /\ NoEffect /\ "query" \in Topics
    BY <1>6 DEF HandleQuery, Admitted, Topics
  <2> QED
    BY <2>1, PlainCodes, AnsweredAtOnce
<1>7. CASE HandleCommand
  <2>1. PICK code \in {"ok", "Service", "InvalidState"} :
          ReadRequest("command") /\ Answer(code) /\ NoEffect /\ "command" \in Topics
    BY <1>7 DEF HandleCommand, Admitted, Topics
  <2> QED
    BY <2>1, PlainCodes, AnsweredAtOnce
<1>8. CASE HandleInitialize
  <2>1. ReadRequest("initialize_context") /\ task = "idle"
    BY <1>8 DEF HandleInitialize, Admitted, ReadRequest, Read
  <2>2. CASE phase = "Uninitialized"
    <3>1. /\ request' = "initialize_context" /\ task' = "initializing"
          /\ phase' = "Initializing" /\ sequence' = sequence + 1
          /\ UNCHANGED <<context, reply, events, delivered>>
      BY <1>8, <2>2 DEF HandleInitialize, Admitted, ReadRequest
    <3>2. Drawn' = Drawn
      <4>1. Drawn' = sequence' - 2 /\ Drawn = sequence - 1
        BY <2>1, <3>1 DEF Drawn
      <4>2. sequence \in Nat
        BY DEF HostInv, TypeOK, ValuesOK
      <4> QED
        BY <3>1, <4>1, <4>2
    <3>3. Lifecycle!Take("initialize_context")
      BY <2>1, <3>1, <3>2, TakeRequest
    <3>4. StageOf(task, phase) = "serving" /\ StageOf(task, phase)' = "serving"
      BY <2>1, <2>2, <3>1, StageOfTask
    <3>5. context = NoContext
      BY <2>1, <2>2, StageBetweenRequests
    <3>6. Lifecycle!TakeInitialize
      BY <3>1, <3>3, <3>4, <3>5 DEF Lifecycle!TakeInitialize, Lifecycle!Nothing, NoContext
    <3> QED
      BY <3>6 DEF LifeStep, Lifecycle!LifeNext
  <2>3. CASE phase # "Uninitialized"
    <3> DEFINE code == IF phase = "Ready" THEN "AlreadyInitialized" ELSE "InvalidState"
    <3>1. Answer(code) /\ NoEffect
      BY <1>8, <2>3 DEF HandleInitialize, NoEffect
    <3>2. code \in Lifecycle!AtOnce("initialize_context")
      <4>1. phase = "Ready" => context # NoContext
        BY <2>1, StageBetweenRequests
      <4>2. phase # "Ready" => StageOf(task, phase) # "serving"
        BY <2>1, <2>3, StageBetweenRequests
      <4> QED
        BY <4>1, <4>2 DEF Lifecycle!AtOnce, Lifecycle!Nothing, NoContext
    <3> HIDE DEF code
    <3>3. "initialize_context" \in Topics
      BY DEF Topics
    <3> QED
      BY <2>1, <3>1, <3>2, <3>3, AnsweredAtOnce
  <2> QED
    BY <2>2, <2>3
<1>9. CASE HandleDestroy
  <2>1. ReadRequest("destroy_context") /\ task = "idle"
    BY <1>9 DEF HandleDestroy, Admitted, ReadRequest, Read
  <2>2. CASE context # NoContext
    <3>1. /\ request' = "destroy_context" /\ task' = "destroying"
          /\ phase' = "Destroying"
          /\ UNCHANGED <<context, sequence, reply, events, delivered>>
      BY <1>9, <2>2 DEF HandleDestroy, Admitted, ReadRequest
    <3>2. Drawn' = Drawn
      BY <2>1, <3>1 DEF Drawn
    <3>3. Lifecycle!Take("destroy_context")
      BY <2>1, <3>1, <3>2, TakeRequest
    <3>4. StageOf(task, phase) = "serving" /\ StageOf(task, phase)' = "serving"
      BY <2>1, <2>2, <3>1, StageOfTask, StageBetweenRequests
    <3>5. Lifecycle!TakeDestroy
      BY <2>2, <3>1, <3>3, <3>4 DEF Lifecycle!TakeDestroy, Lifecycle!Nothing, NoContext
    <3> QED
      BY <3>5 DEF LifeStep, Lifecycle!LifeNext
  <2>3. CASE context = NoContext
    <3>1. Answer("NotInitialized") /\ NoEffect
      BY <1>9, <2>3 DEF HandleDestroy, NoEffect
    <3>2. "NotInitialized" \in Lifecycle!AtOnce("destroy_context")
      BY <2>3 DEF Lifecycle!AtOnce, Lifecycle!Nothing, NoContext
    <3>3. "destroy_context" \in Topics
      BY DEF Topics
    <3> QED
      BY <2>1, <3>1, <3>2, <3>3, AnsweredAtOnce
  <2> QED
    BY <2>2, <2>3
<1>10. CASE HandleShutdown
  <2>1. ReadRequest("shutdown") /\ task = "idle"
    BY <1>10 DEF HandleShutdown, Admitted, ReadRequest, Read
  <2>2. phase \in {"Uninitialized", "Ready", "Failed", "Stopped"}
    BY <2>1, StageBetweenRequests
  <2>3. CASE phase = "Stopped"
    <3>1. Answer("ok") /\ NoEffect
      BY <1>10, <2>1, <2>3 DEF HandleShutdown, BeginShutdown, ShutdownResult, NoEffect, ReadRequest
    <3>2. "ok" \in Lifecycle!AtOnce("shutdown")
      <4>1. StageOf(task, phase) = "stopped"
        BY <2>1, <2>3, StageBetweenRequests
      <4> QED
        BY <4>1 DEF Lifecycle!AtOnce
    <3>3. "shutdown" \in Topics
      BY DEF Topics
    <3> QED
      BY <2>1, <3>1, <3>2, <3>3, AnsweredAtOnce
  <2>4. CASE phase # "Stopped"
    <3>1. /\ request' = "shutdown" /\ task' \in {"stop_context", "stop_modules"}
          /\ phase' = "ShuttingDown"
          /\ UNCHANGED <<context, sequence, reply, events, delivered>>
      BY <1>10, <2>2, <2>4 DEF HandleShutdown, BeginShutdown, Admitted, ReadRequest
    <3>2. Drawn' = Drawn
      BY <2>1, <3>1 DEF Drawn
    <3>3. Lifecycle!Take("shutdown")
      BY <2>1, <3>1, <3>2, TakeRequest
    <3>4. StageOf(task, phase) \in {"serving", "failed"} /\ StageOf(task, phase)' = "stopping"
      BY <2>1, <2>2, <2>4, <3>1, StageOfTask
    <3>5. Lifecycle!TakeShutdown
      BY <3>1, <3>3, <3>4 DEF Lifecycle!TakeShutdown
    <3> QED
      BY <3>5 DEF LifeStep, Lifecycle!LifeNext
  <2> QED
    BY <2>3, <2>4
<1> QED
  BY <1>1, <1>2, <1>3, <1>4, <1>5, <1>6, <1>7, <1>8, <1>9, <1>10 DEF Handle

\* What has been done takes effect for the client when the sweep is over.
LEMMA SweepLifeStep ==
    ASSUME HostInv, HandInv, NEW topic, request = topic, request' = topic, reply = NoReply,
           StageOf(task, phase) = "serving", StageOf(task, phase)' = "serving",
           UNCHANGED delivered,
           NEW code, reply' = [topic |-> topic, code |-> code],
           \/ /\ topic = "initialize_context" /\ code = "ok" /\ context = NoContext
              /\ context' > Drawn /\ Drawn' = context'
              /\ events' = Append(events, Event("runtime.context_initialized", context'))
           \/ /\ topic = "initialize_context" /\ code = "Module" /\ context = NoContext
              /\ Drawn' > Drawn /\ UNCHANGED <<context, events>>
           \/ /\ topic = "destroy_context" /\ code = "ok" /\ context # NoContext
              /\ context' = NoContext /\ Drawn' = Drawn
              /\ events' = Append(events, Event("runtime.context_destroyed", context))
           \/ /\ topic = "destroy_context" /\ code = "Module" /\ context # NoContext
              /\ Drawn' = Drawn /\ UNCHANGED <<context, events>>
    PROVE  LifeStep
<1> USE DEF Lifecycle!InHand, Lifecycle!NoAnswer, NoReply, Lifecycle!Nothing, NoContext,
            Lifecycle!AnswerWith, Lifecycle!Say, Event
<1>1. CASE topic = "initialize_context" /\ code = "ok"
  <2>1. Lifecycle!Open
    BY <1>1 DEF Lifecycle!Open, Lifecycle!Opened
  <2> QED
    BY <2>1 DEF LifeStep, Lifecycle!LifeNext
<1>2. CASE topic = "initialize_context" /\ code = "Module"
  <2>1. Lifecycle!OpenFails
    BY <1>2 DEF Lifecycle!OpenFails
  <2> QED
    BY <2>1 DEF LifeStep, Lifecycle!LifeNext
<1>3. CASE topic = "destroy_context" /\ code = "ok"
  <2>1. Lifecycle!Close
    BY <1>3 DEF Lifecycle!Close, Lifecycle!Closed
  <2> QED
    BY <2>1 DEF LifeStep, Lifecycle!LifeNext
<1>4. CASE topic = "destroy_context" /\ code = "Module"
  <2>1. Lifecycle!CloseFails
    BY <1>4 DEF Lifecycle!CloseFails
  <2> QED
    BY <2>1 DEF LifeStep, Lifecycle!LifeNext
<1> QED
  BY <1>1, <1>2, <1>3, <1>4

LEMMA HostLifeStep ==
    ASSUME HostInv, HandInv, [Next]_vars
    PROVE  LifeStep
<1> USE DEF host, loop, client, history
<1>1. CASE StartModule \/ RollbackStart
  <2>1. /\ phase = "Booting" /\ task \in {"starting", "start_rollback"}
        /\ task' \in {"starting", "start_rollback"}
        /\ UNCHANGED <<phase, context, sequence, request, reply, events, delivered>>
    BY <1>1 DEF StartModule, RollbackStart, HostInv, SweepsInOrder
  <2>2. StageOf(task, phase)' = StageOf(task, phase)
    BY <2>1, StageOfTask
  <2> QED
    BY <2>1, <2>2, QuietStep DEF Drawn
<1>2. CASE StartFails
  <2>1. /\ phase = "Booting" /\ task = "start_rollback" /\ task' = "exited_error"
        /\ request = "none"
        /\ UNCHANGED <<phase, context, sequence, request, reply, events, delivered>>
    BY <1>2 DEF StartFails, HostInv, SweepsInOrder, HandInv
  <2>2. StageOf(task, phase) = "starting" /\ StageOf(task, phase)' = "aborted" /\ Drawn' = Drawn
    BY <2>1, StageOfTask DEF Drawn
  <2>3. Lifecycle!Abort
    BY <2>1, <2>2 DEF Lifecycle!Abort, Lifecycle!NoRequest
  <2> QED
    BY <2>3 DEF LifeStep, Lifecycle!LifeNext
<1>3. CASE StartDone
  <2>1. /\ phase = "Booting" /\ task = "starting" /\ task' = "idle" /\ phase' = "Uninitialized"
        /\ events' = Append(events, Event("runtime.started", NoContext))
        /\ UNCHANGED <<context, sequence, request, reply, delivered>>
    BY <1>3 DEF StartDone, Emit, HostInv, SweepsInOrder
  <2>2. StageOf(task, phase) = "starting" /\ StageOf(task, phase)' = "serving" /\ Drawn' = Drawn
    BY <2>1, StageOfTask DEF Drawn
  <2>3. Lifecycle!Start
    BY <2>1, <2>2 DEF Lifecycle!Start, Lifecycle!Say, Lifecycle!Notice, Lifecycle!Nothing,
                      NoContext, Event
  <2> QED
    BY <2>3 DEF LifeStep, Lifecycle!LifeNext
<1>4. CASE Handle
  BY <1>4, HandlerLifeStep
<1>5. CASE PeerDisconnected
  <2>1. /\ task = "idle" /\ request' = "disconnect" /\ request = "none"
        /\ UNCHANGED <<context, sequence, events, delivered>>
    BY <1>5 DEF PeerDisconnected, HandInv
  <2>2. phase \in {"Uninitialized", "Ready", "Failed", "Stopped"}
    BY <2>1, StageBetweenRequests
  <2>3. task' \notin {"initializing", "init_rollback"} /\ reply' = reply
    BY <1>5, <2>2 DEF PeerDisconnected, BeginShutdown, ShutdownResult
  <2>4. Drawn' = Drawn
    BY <2>1, <2>3 DEF Drawn
  <2>5. Lifecycle!Take("disconnect")
    BY <2>1, <2>4, StageBetweenRequests DEF Lifecycle!Take, Lifecycle!NoRequest
  <2>6. CASE phase = "Stopped"
    <3>1. task' = "exited"
      BY <1>5, <2>6 DEF PeerDisconnected, BeginShutdown, ShutdownResult
    <3>2. StageOf(task, phase) = "stopped" /\ StageOf(task, phase)' = "ended"
      BY <2>1, <2>6, <3>1, StageOfTask
    <3>3. Lifecycle!LeaveStopped
      BY <2>1, <2>3, <2>5, <3>2 DEF Lifecycle!LeaveStopped
    <3> QED
      BY <3>3 DEF LifeStep, Lifecycle!LifeNext
  <2>7. CASE phase # "Stopped"
    <3>1. task' \in {"stop_context", "stop_modules"} /\ phase' = "ShuttingDown"
      BY <1>5, <2>2, <2>7 DEF PeerDisconnected, BeginShutdown
    <3>2. StageOf(task, phase) \in {"serving", "failed"} /\ StageOf(task, phase)' = "stopping"
      BY <2>1, <2>2, <2>7, <3>1, StageOfTask
    <3>3. Lifecycle!TakeShutdown
      BY <2>1, <2>3, <2>5, <3>2 DEF Lifecycle!TakeShutdown
    <3> QED
      BY <3>3 DEF LifeStep, Lifecycle!LifeNext
  <2> QED
    BY <2>6, <2>7
<1>6. CASE InitializeModule \/ RollbackInitialize
  <2>1. /\ task \in {"initializing", "init_rollback"} /\ task' \in {"initializing", "init_rollback"}
        /\ phase = "Initializing"
        /\ UNCHANGED <<phase, context, sequence, request, reply, events, delivered>>
    BY <1>6 DEF InitializeModule, RollbackInitialize, HostInv, SweepsInOrder
  <2>2. StageOf(task, phase)' = StageOf(task, phase)
    BY <2>1, StageOfTask
  <2> QED
    BY <2>1, <2>2, QuietStep DEF Drawn
<1>7. CASE InitializeFails \/ InitializeDone
  <2>1. /\ task \in {"initializing", "init_rollback"} /\ task' = "replying"
        /\ phase = "Initializing" /\ phase' \in {"Uninitialized", "Ready"}
        /\ context = NoContext /\ request = "initialize_context" /\ request' = request
        /\ reply = NoReply /\ UNCHANGED <<sequence, delivered>>
    BY <1>7 DEF InitializeFails, InitializeDone, Answer, HostInv, SweepsInOrder, HandInv
  <2>2. StageOf(task, phase) = "serving" /\ StageOf(task, phase)' = "serving"
    BY <2>1, StageOfTask
  <2>3. Drawn = sequence - 2 /\ Drawn' = sequence - 1 /\ sequence \in Nat
    BY <2>1 DEF Drawn, HostInv, TypeOK, ValuesOK
  <2>4. CASE InitializeFails
    <3>1. /\ reply' = [topic |-> "initialize_context", code |-> "Module"]
          /\ UNCHANGED <<context, events>>
      BY <2>1, <2>4 DEF InitializeFails, Answer
    <3>2. Drawn' > Drawn
      BY <2>3
    <3> QED
      BY <2>1, <2>2, <3>1, <3>2, SweepLifeStep
  <2>5. CASE InitializeDone
    <3>1. /\ reply' = [topic |-> "initialize_context", code |-> "ok"]
          /\ context' = sequence - 1
          /\ events' = Append(events, Event("runtime.context_initialized", context'))
      BY <2>1, <2>5 DEF InitializeDone, Answer, Emit
    <3>2. context' > Drawn /\ Drawn' = context'
      BY <2>3, <3>1
    <3> QED
      BY <2>1, <2>2, <3>1, <3>2, SweepLifeStep
  <2> QED
    BY <1>7, <2>4, <2>5
<1>8. CASE DestroyModule
  <2>1. UNCHANGED <<task, phase, context, sequence, request, reply, events, delivered>>
    BY <1>8 DEF DestroyModule
  <2> QED
    BY <2>1, QuietStep DEF Drawn
<1>9. CASE DestroyFails \/ DestroyDone
  <2>1. /\ task = "destroying" /\ task' = "replying"
        /\ phase = "Destroying" /\ phase' \in {"Uninitialized", "Ready"}
        /\ context # NoContext /\ request = "destroy_context" /\ request' = request
        /\ reply = NoReply /\ UNCHANGED <<sequence, delivered>>
    BY <1>9 DEF DestroyFails, DestroyDone, Answer, HostInv, SweepsInOrder, HandInv
  <2>2. StageOf(task, phase) = "serving" /\ StageOf(task, phase)' = "serving"
    BY <2>1, StageOfTask
  <2>3. Drawn' = Drawn
    BY <2>1 DEF Drawn
  <2>4. CASE DestroyFails
    <3>1. /\ reply' = [topic |-> "destroy_context", code |-> "Module"]
          /\ UNCHANGED <<context, events>>
      BY <2>1, <2>4 DEF DestroyFails, Answer
    <3> QED
      BY <2>1, <2>2, <2>3, <3>1, SweepLifeStep
  <2>5. CASE DestroyDone
    <3>1. /\ reply' = [topic |-> "destroy_context", code |-> "ok"]
          /\ context' = NoContext
          /\ events' = Append(events, Event("runtime.context_destroyed", context))
      BY <2>1, <2>5 DEF DestroyDone, Answer, Emit
    <3> QED
      BY <2>1, <2>2, <2>3, <3>1, SweepLifeStep
  <2> QED
    BY <1>9, <2>4, <2>5
<1>10. CASE StopContextModule \/ StopModule
  <2>1. UNCHANGED <<task, phase, context, sequence, request, reply, events, delivered>>
    BY <1>10 DEF StopContextModule, StopModule
  <2> QED
    BY <2>1, QuietStep DEF Drawn
<1>11. CASE StopContextDone
  <2>1. /\ task = "stop_context" /\ task' = "stop_modules" /\ phase = "ShuttingDown"
        /\ context' = NoContext
        /\ UNCHANGED <<phase, sequence, request, reply, events, delivered>>
    BY <1>11 DEF StopContextDone, HostInv, SweepsInOrder
  <2>2. StageOf(task, phase) = "stopping" /\ StageOf(task, phase)' = "stopping" /\ Drawn' = Drawn
    BY <2>1, StageOfTask DEF Drawn
  <2>3. Lifecycle!Withdraw
    BY <2>1, <2>2 DEF Lifecycle!Withdraw, Lifecycle!Nothing, NoContext
  <2> QED
    BY <2>3 DEF LifeStep, Lifecycle!LifeNext
<1>12. CASE ShutdownDone
  <2>1. /\ task = "stop_modules" /\ phase = "ShuttingDown" /\ context = NoContext
        /\ request \in {"shutdown", "disconnect"} /\ request' = request /\ reply = NoReply
        /\ UNCHANGED <<context, sequence, delivered>>
    BY <1>12 DEF ShutdownDone, HostInv, SweepsInOrder, HandInv
  <2>2. StageOf(task, phase) = "stopping"
    BY <2>1, StageOfTask
  <2>3. task' \in {"replying", "exited", "exited_error"}
    BY <1>12 DEF ShutdownDone, ShutdownResult, Answer
  <2>4. Drawn' = Drawn
    BY <2>1, <2>3 DEF Drawn
  <2>5. CASE ~failed
    <3>1. /\ phase' = "Stopped" /\ events' = Append(events, Event("runtime.stopped", NoContext))
          /\ ShutdownResult(TRUE)
      BY <1>12, <2>5 DEF ShutdownDone, Emit
    <3>2. CASE request = "shutdown"
      <4>1. task' = "replying" /\ reply' = [topic |-> "shutdown", code |-> "ok"]
        BY <2>1, <3>1, <3>2 DEF ShutdownResult, Answer
      <4>2. StageOf(task, phase)' = "stopped"
        BY <3>1, <4>1, StageOfTask
      <4>3. Lifecycle!Stop
        BY <2>1, <2>2, <2>4, <3>1, <3>2, <4>1, <4>2
           DEF Lifecycle!Stop, Lifecycle!InHand, Lifecycle!NoAnswer, NoReply, Lifecycle!Nothing,
               NoContext, Lifecycle!AnswerWith, Lifecycle!Say, Lifecycle!Notice, Event
      <4> QED
        BY <4>3 DEF LifeStep, Lifecycle!LifeNext
    <3>3. CASE request = "disconnect"
      <4>1. task' = "exited" /\ reply' = reply
        BY <2>1, <3>1, <3>3 DEF ShutdownResult
      <4>2. StageOf(task, phase)' = "ended"
        BY <4>1, StageOfTask
      <4>3. Lifecycle!Stop
        BY <2>1, <2>2, <2>4, <3>1, <3>3, <4>1, <4>2
           DEF Lifecycle!Stop, Lifecycle!InHand, Lifecycle!NoAnswer, NoReply, Lifecycle!Nothing,
               NoContext, Lifecycle!Say, Lifecycle!Notice, Event
      <4> QED
        BY <4>3 DEF LifeStep, Lifecycle!LifeNext
    <3> QED
      BY <2>1, <3>2, <3>3
  <2>6. CASE failed
    <3>1. phase' = "Failed" /\ UNCHANGED events /\ ShutdownResult(FALSE)
      BY <1>12, <2>6 DEF ShutdownDone
    <3>2. CASE request = "shutdown"
      <4>1. task' = "replying" /\ reply' = [topic |-> "shutdown", code |-> "Module"]
        BY <2>1, <3>1, <3>2 DEF ShutdownResult, Answer
      <4>2. StageOf(task, phase)' = "failed"
        BY <3>1, <4>1, StageOfTask
      <4>3. Lifecycle!StopFails
        BY <2>1, <2>2, <2>4, <3>1, <3>2, <4>1, <4>2
           DEF Lifecycle!StopFails, Lifecycle!InHand, Lifecycle!NoAnswer, NoReply,
               Lifecycle!Nothing, NoContext, Lifecycle!AnswerWith
      <4> QED
        BY <4>3 DEF LifeStep, Lifecycle!LifeNext
    <3>3. CASE request = "disconnect"
      <4>1. task' = "exited_error" /\ reply' = reply
        BY <2>1, <3>1, <3>3 DEF ShutdownResult
      <4>2. StageOf(task, phase)' = "aborted"
        BY <4>1, StageOfTask
      <4>3. Lifecycle!StopFails
        BY <2>1, <2>2, <2>4, <3>1, <3>3, <4>1, <4>2
           DEF Lifecycle!StopFails, Lifecycle!InHand, Lifecycle!NoAnswer, NoReply,
               Lifecycle!Nothing, NoContext
      <4> QED
        BY <4>3 DEF LifeStep, Lifecycle!LifeNext
    <3> QED
      BY <2>1, <3>2, <3>3
  <2> QED
    BY <2>5, <2>6
<1>13. CASE SendReply
  <2> DEFINE over == reply = [topic |-> "shutdown", code |-> "ok"]
  <2>1. /\ task = "replying" /\ task' = IF over THEN "exited" ELSE "idle"
        /\ request' = "none" /\ reply' = NoReply /\ reply # NoReply
        /\ UNCHANGED <<phase, context, sequence, events, delivered>>
    BY <1>13 DEF SendReply, HandInv
  <2>2. Drawn' = Drawn
    BY <2>1 DEF Drawn
  <2>3. StageOf(task, phase) \in {"serving", "stopped", "failed"}
        /\ phase \in {"Uninitialized", "Ready", "Failed", "Stopped"}
    BY <2>1, StageBetweenRequests
  <2>4. over => StageOf(task, phase) = "stopped" /\ StageOf(task, phase)' = "ended"
    <3>1. over => phase = "Stopped"
      BY <2>1 DEF HostInv, AnswerMatchesState
    <3> QED
      BY <2>1, <3>1, StageOfTask
  <2>5. ~over => StageOf(task, phase)' = StageOf(task, phase)
    BY <2>1, <2>3, StageOfTask
  <2>6. Lifecycle!WriteAnswer
    BY <2>1, <2>2, <2>3, <2>4, <2>5
       DEF Lifecycle!WriteAnswer, Lifecycle!NoAnswer, NoReply, Lifecycle!NoRequest
  <2> QED
    BY <2>6 DEF LifeStep, Lifecycle!LifeNext
<1>14. CASE ForwardEvent
  <2>1. /\ task = "idle" /\ request = "none" /\ events # <<>> /\ events' = Tail(events)
        /\ delivered' = IF Head(events).context # NoContext
                        THEN Append(delivered, Head(events)) ELSE delivered
        /\ UNCHANGED <<task, phase, context, sequence, request, reply>>
    BY <1>14 DEF ForwardEvent, HandInv
  <2>2. Drawn' = Drawn
    BY <2>1 DEF Drawn
  <2>3. StageOf(task, phase) \in {"serving", "stopped", "failed"}
    BY <2>1, StageBetweenRequests
  <2>4. Lifecycle!TellNews
    BY <2>1, <2>2, <2>3
       DEF Lifecycle!TellNews, Lifecycle!NoRequest, Lifecycle!Nothing, NoContext
  <2> QED
    BY <2>4 DEF LifeStep, Lifecycle!LifeNext
<1>15. CASE WriteFails
  <2>1. /\ task \in {"idle", "replying"} /\ task' = "exited_error"
        /\ request = "none" \/ reply # NoReply
        /\ events' = events \/ (events # <<>> /\ events' = Tail(events))
        /\ UNCHANGED <<phase, context, sequence, request, reply, delivered>>
    BY <1>15 DEF WriteFails, HandInv
  <2>2. Drawn' = Drawn
    BY <2>1 DEF Drawn
  <2>3. StageOf(task, phase) \in {"serving", "stopped", "failed"}
        /\ StageOf(task, phase)' = "aborted"
    BY <2>1, StageBetweenRequests, StageOfTask
  <2>4. Lifecycle!Abort
    BY <2>1, <2>2, <2>3
       DEF Lifecycle!Abort, Lifecycle!NoRequest, Lifecycle!NoAnswer, NoReply
  <2> QED
    BY <2>4 DEF LifeStep, Lifecycle!LifeNext
<1>16. CASE Submit \/ Close \/ UNCHANGED vars
  <2>1. UNCHANGED <<task, phase, context, sequence, request, reply, events, delivered>>
    BY <1>16 DEF Submit, Close, vars
  <2> QED
    BY <2>1, QuietStep DEF Drawn
<1>17. CASE ServiceEmits
  <2>1. /\ task \notin {"exited", "exited_error"}
        /\ events' = Append(events, Event("service", NoContext))
        /\ UNCHANGED <<task, phase, context, sequence, request, reply, delivered>>
    BY <1>17 DEF ServiceEmits, Exited, Emit
  <2>2. Drawn' = Drawn
    BY <2>1 DEF Drawn
  <2>3. StageOf(task, phase) \notin {"ended", "aborted"}
    <3>1. phase \in RuntimePhases
      BY DEF HostInv, TypeOK, ValuesOK
    <3> QED
      BY <2>1, <3>1, StageOfTask DEF RuntimePhases
  <2>4. Lifecycle!ServiceNews
    BY <2>1, <2>2, <2>3
       DEF Lifecycle!ServiceNews, Lifecycle!Say, Lifecycle!Notice, Lifecycle!Nothing, NoContext, Event
  <2> QED
    BY <2>4 DEF LifeStep, Lifecycle!LifeNext
<1> QED
  BY <1>1, <1>2, <1>3, <1>4, <1>5, <1>6, <1>7, <1>8, <1>9, <1>10, <1>11, <1>12, <1>13,
     <1>14, <1>15, <1>16, <1>17
     DEF Next, MainStep

\* To its client the runtime is the machine of RuntimeLifecycle, for any number
\* of modules and whichever hooks fail: each request takes effect, and is
\* answered, in one moment or not at all, the client is told of every context
\* that opens and closes in that order, and the end comes between requests.
THEOREM HostIsLifecycle == Spec => IsLifecycle
<1>1. Init => Lifecycle!LifeInit /\ HandInv
  <2> SUFFICES ASSUME Init PROVE Lifecycle!LifeInit /\ HandInv
    OBVIOUS
  <2>1. HandInv
    BY DEF Init, HandInv
  <2>2. StageOf(task, phase) = "starting" /\ Drawn = 0
    BY StageOfTask DEF Init, Drawn
  <2>3. Lifecycle!LifeInit
    BY <2>2 DEF Init, Lifecycle!LifeInit, Lifecycle!Nothing, NoContext, Lifecycle!NoRequest,
                Lifecycle!NoAnswer, NoReply
  <2> QED
    BY <2>1, <2>3
<1>2. Spec => []HandInv
  <2>1. HandInv /\ HostInv /\ [Next]_vars => HandInv'
    BY HandStep
  <2> QED
    BY <1>1, <2>1, HostInvariant, PTL DEF Spec
<1>3. HostInv /\ HandInv /\ [Next]_vars => [Lifecycle!LifeNext]_(Lifecycle!lifeVars)
  BY HostLifeStep DEF LifeStep
<1> QED
  BY <1>1, <1>2, <1>3, HostInvariant, PTL DEF Spec, IsLifecycle, Lifecycle!LifeSpec
=============================================================================
