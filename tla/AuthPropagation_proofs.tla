----------------------- MODULE AuthPropagation_proofs -----------------------
(***************************************************************************)
(* Proofs about AuthPropagation, for any environments, launches and any    *)
(* number of changes and requests: it implements AuthRegister, and no      *)
(* connected browser is left with an old notification.                     *)
(***************************************************************************)
EXTENDS AuthPropagation, EventBusSessions_proofs

\* The variables that are not the sessions' keep their types.
AuthStateOK ==
    /\ authPhase \in AuthPhases /\ goal \in AuthPhases /\ work \in Work
    /\ auth \in Nat /\ notice \in Nat /\ requests \in Nat
    /\ pending \subseteq Env
    /\ askedAt \in [Launch -> Nat \cup {None}]
    /\ snapshot \in [Launch -> Nat \cup {None}]
    /\ told \in [Launch -> Nat]
    /\ toldBy \in [Launch -> {"nobody", "notice", "answer"}]
    /\ broken \subseteq Launch

\* What is in flight is not from the future, and not older than its question;
\* a sweep carries the present state.
InFlightOK ==
    /\ work = "sweeping" => notice = auth
    /\ \A l \in Launch :
          /\ snapshot[l] # None => server[l] = "receiving"
          /\ snapshot[l] # None => askedAt[l] # None
          /\ snapshot[l] # None => snapshot[l] \in askedAt[l] .. auth
          /\ askedAt[l] # None => askedAt[l] <= auth

\* A connected browser whose last news is a notification has the present state,
\* or the sweep has still to come to it; who has not been entered in the map
\* has been told nothing.
NoticesOK ==
    \A l \in Launch :
        /\ toldBy[l] # "nobody" =>
              server[l] \in {"configuring", "receiving", "closing", "closed", "abandoned"}
        /\ InMap(l) /\ l \notin broken /\ toldBy[l] = "notice" =>
              \/ told[l] = auth
              \/ work = "stored"
              \/ work = "sweeping" /\ EnvOf[l] \in pending

\* Before the runtime has started there are no sessions.
DormantOK ==
    /\ work # "idle" => goal # "Dormant"
    /\ authPhase = "Dormant" => work = "idle" /\ \A l \in Launch : server[l] = "off"

AuthInv == BusInv /\ AuthStateOK /\ InFlightOK /\ NoticesOK /\ DormantOK

\* Commands, hooks and loops do nothing to a session that the bus does not do.
LEMMA AuthStepsOfSessions == [Next]_vars => [BusNext]_busVars
<1> SUFFICES ASSUME [Next]_vars PROVE [BusNext]_busVars
  OBVIOUS
<1>1. CASE MainStep
  BY <1>1 DEF MainStep, NotifyBegin, NotifyDone, ClearAuth, Store, NotifyEnv
<1>2. CASE RuntimeStart \/ InitializeContext \/ ExecuteCommand
  BY <1>2 DEF RuntimeStart, InitializeContext, ExecuteCommand, Store
<1>3. CASE Teardown
  BY <1>3 DEF Teardown, BusNext
<1>4. ASSUME NEW l \in Launch, Launching(l) PROVE [BusNext]_busVars
  BY <1>4 DEF Launching, BusNext
<1>5. ASSUME NEW l \in Launch, BrowserExits(l) PROVE [BusNext]_busVars
  <2>1. {l} \in SUBSET Launch /\ BrowsersExit({l})
    BY <1>5 DEF BrowserExits
  <2> QED
    BY <2>1 DEF BusNext
<1>6. ASSUME NEW l \in Launch, OtherSessionStep(l) PROVE [BusNext]_busVars
  BY <1>6 DEF OtherSessionStep, BusNext, SessionStep
<1>7. ASSUME NEW l \in Launch,
             SendAuthRequest(l) \/ ReadAuthRequest(l) \/ AnswerAuthRequest(l)
      PROVE  [BusNext]_busVars
  BY <1>7 DEF SendAuthRequest, ReadAuthRequest, AnswerAuthRequest
<1>8. ASSUME NEW l \in Launch, LoseConnection(l) \/ AbandonSession(l)
      PROVE  [BusNext]_busVars
  BY <1>8 DEF LoseConnection, AbandonSession, BusNext, SessionStep
<1>9. CASE UNCHANGED vars
  BY <1>9 DEF vars
<1> QED
  BY <1>1, <1>2, <1>3, <1>4, <1>5, <1>6, <1>7, <1>8, <1>9 DEF Next

\* Initially nothing is stored, asked or told.
LEMMA AuthInvInit == Init => AuthInv
<1> SUFFICES ASSUME Init PROVE AuthInv
  OBVIOUS
<1>1. BusInv
  BY InvInit DEF Init
<1> QED
  BY <1>1, NotANumber, NoneAssumption
     DEF Init, BusInit, AuthInv, AuthStateOK, InFlightOK, NoticesOK, DormantOK, AuthPhases, Work

\* What is written to a connection comes to it alone, or breaks it.
LEMMA TellOne ==
    ASSUME AuthStateOK, NEW l \in Launch, NEW v \in Nat, NEW by \in {"notice", "answer"},
           Tell(l, v, by)
    PROVE  /\ told' \in [Launch -> Nat]
           /\ toldBy' \in [Launch -> {"nobody", "notice", "answer"}]
           /\ broken' \subseteq Launch /\ broken \subseteq broken'
           /\ \A m \in Launch : m # l => told'[m] = told[m] /\ toldBy'[m] = toldBy[m]
           /\ l \notin broken' => told'[l] = v /\ toldBy'[l] = by
           /\ toldBy'[l] \in {toldBy[l], by}
           /\ l \in broken' => told' = told
           /\ told' = told \/ told' = [told EXCEPT ![l] = v]
  BY DEF Tell, AuthStateOK

\* The sessions keep their own invariant.
LEMMA BusPart == BusInv /\ [Next]_vars => BusInv'
  BY AuthStepsOfSessions, BusTypeStep, PipesStep, EntriesStep, AnnouncementsStep DEF BusInv

\* Steps of the main task other than the sends.
LEMMA MainKeepsInv ==
    ASSUME AuthInv,
           \/ RuntimeStart \/ InitializeContext \/ ExecuteCommand \/ Teardown
           \/ NotifyBegin \/ NotifyDone \/ ClearAuth
    PROVE  AuthStateOK' /\ InFlightOK' /\ NoticesOK' /\ DormantOK'
<1> USE NotANumber, NoneAssumption, EnvOfAssumption
        DEF AuthInv, AuthStateOK, InFlightOK, NoticesOK, DormantOK, InMap, Work, AuthPhases,
            busVars, mainVars, askVars, toldVars
<1>1. CASE RuntimeStart
  <2>1. AuthStateOK' /\ InFlightOK' /\ DormantOK'
    BY <1>1 DEF RuntimeStart
  <2>2. NoticesOK'
    BY <1>1 DEF RuntimeStart
  <2> QED  BY <2>1, <2>2
<1>2. CASE InitializeContext \/ ExecuteCommand \/ ClearAuth
  <2>1. AuthStateOK' /\ InFlightOK' /\ DormantOK'
    BY <1>2 DEF InitializeContext, ExecuteCommand, ClearAuth, Store
  <2>2. NoticesOK'
    BY <1>2 DEF InitializeContext, ExecuteCommand, ClearAuth, Store
  <2> QED  BY <2>1, <2>2
<1>3. CASE Teardown
  <2>1. AuthStateOK' /\ InFlightOK' /\ DormantOK'
    BY <1>3 DEF Teardown, DisconnectAll
  <2>2. NoticesOK'
    BY <1>3 DEF Teardown, DisconnectAll
  <2> QED  BY <2>1, <2>2
<1>4. CASE NotifyBegin
  BY <1>4 DEF NotifyBegin
<1>5. CASE NotifyDone
  BY <1>5 DEF NotifyDone
<1> QED
  BY <1>1, <1>2, <1>3, <1>4, <1>5

\* A notification brings the connection it is written to up to date.
LEMMA NotifyKeepsInv ==
    ASSUME AuthInv, NEW e \in Env, NotifyEnv(e)
    PROVE  AuthStateOK' /\ InFlightOK' /\ NoticesOK' /\ DormantOK'
<1> USE NotANumber, NoneAssumption, EnvOfAssumption
        DEF AuthInv, AuthStateOK, InFlightOK, NoticesOK, DormantOK, InMap, busVars, askVars, toldVars
<1>1. CASE connections[e] = None
  BY <1>1 DEF NotifyEnv
<1>2. CASE connections[e] # None
  <2> DEFINE l == connections[e]
  <2>1. /\ l \in Launch /\ EnvOf[l] = e
        /\ server[l] \in {"configuring", "receiving", "abandoned"}
    BY <1>2 DEF BusInv, BusTypeOK, NoDeadEntry
  <2>2. Tell(l, notice, "notice")
    BY <1>2 DEF NotifyEnv
  <2>3. /\ told' \in [Launch -> Nat]
        /\ toldBy' \in [Launch -> {"nobody", "notice", "answer"}]
        /\ broken' \subseteq Launch /\ broken \subseteq broken'
        /\ \A m \in Launch : m # l => told'[m] = told[m] /\ toldBy'[m] = toldBy[m]
        /\ l \notin broken' => told'[l] = notice /\ toldBy'[l] = "notice"
    BY <2>1, <2>2, TellOne
  <2>4. AuthStateOK' /\ InFlightOK' /\ DormantOK'
    BY <2>3 DEF NotifyEnv
  <2>5. \A m \in Launch :
           InMap(m) /\ m \notin broken' /\ toldBy'[m] = "notice" =>
              \/ told'[m] = auth
              \/ work = "sweeping" /\ EnvOf[m] \in pending'
    BY <2>1, <2>3 DEF NotifyEnv
  <2>6. \A m \in Launch : toldBy'[m] # "nobody" =>
              server[m] \in {"configuring", "receiving", "closing", "closed", "abandoned"}
    BY <2>1, <2>3
  <2>7. NoticesOK'
    BY <2>5, <2>6 DEF NotifyEnv
  <2> QED
    BY <2>4, <2>7
<1> QED
  BY <1>1, <1>2

\* Questions and answers.
LEMMA LoopKeepsInv ==
    ASSUME AuthInv, NEW l \in Launch,
           SendAuthRequest(l) \/ ReadAuthRequest(l) \/ AnswerAuthRequest(l)
    PROVE  AuthStateOK' /\ InFlightOK' /\ NoticesOK' /\ DormantOK'
<1> USE NotANumber, NoneAssumption, EnvOfAssumption
        DEF AuthInv, AuthStateOK, InFlightOK, NoticesOK, DormantOK, InMap, busVars, mainVars, toldVars
<1>1. CASE SendAuthRequest(l)
  <2>1. AuthStateOK' /\ InFlightOK' /\ DormantOK'
    BY <1>1 DEF SendAuthRequest
  <2>2. NoticesOK'
    BY <1>1 DEF SendAuthRequest
  <2> QED  BY <2>1, <2>2
<1>2. CASE ReadAuthRequest(l)
  <2>1. AuthStateOK' /\ InFlightOK' /\ DormantOK'
    BY <1>2 DEF ReadAuthRequest
  <2>2. NoticesOK'
    BY <1>2 DEF ReadAuthRequest
  <2> QED  BY <2>1, <2>2
<1>3. CASE AnswerAuthRequest(l)
  <2>1. snapshot[l] \in Nat /\ Tell(l, snapshot[l], "answer") /\ server[l] = "receiving"
    BY <1>3 DEF AnswerAuthRequest
  <2>2. /\ told' \in [Launch -> Nat]
        /\ toldBy' \in [Launch -> {"nobody", "notice", "answer"}]
        /\ broken' \subseteq Launch /\ broken \subseteq broken'
        /\ \A m \in Launch : m # l => told'[m] = told[m] /\ toldBy'[m] = toldBy[m]
        /\ l \notin broken' => toldBy'[l] = "answer"
    BY <2>1, TellOne
  <2>3. AuthStateOK' /\ InFlightOK' /\ DormantOK'
    BY <1>3, <2>2 DEF AnswerAuthRequest
  <2>4. NoticesOK'
    BY <1>3, <2>1, <2>2 DEF AnswerAuthRequest
  <2> QED  BY <2>3, <2>4
<1> QED
  BY <1>1, <1>2, <1>3

\* Sessions come and go.
LEMMA SessionKeepsInv ==
    ASSUME AuthInv, NEW l \in Launch,
           \/ Launching(l) \/ BrowserExits(l) \/ OtherSessionStep(l)
           \/ LoseConnection(l) \/ AbandonSession(l)
    PROVE  AuthStateOK' /\ InFlightOK' /\ NoticesOK' /\ DormantOK'
<1> USE NotANumber, NoneAssumption, EnvOfAssumption
        DEF AuthInv, AuthStateOK, InFlightOK, NoticesOK, DormantOK, InMap, mainVars, askVars, toldVars,
            GoTo, BusInv, BusTypeOK
<1>1. CASE Launching(l)
  BY <1>1 DEF Launching, LaunchBrowser, LaunchWithoutBrowser, StartServer
<1>2. CASE BrowserExits(l)
  BY <1>2 DEF BrowserExits, BrowsersExit
<1>3. CASE LoseConnection(l)
  <2>1. AuthStateOK' /\ InFlightOK' /\ DormantOK'
    BY <1>3 DEF LoseConnection, ConnectionLost
  <2>2. NoticesOK'
    BY <1>3 DEF LoseConnection, ConnectionLost
  <2> QED  BY <2>1, <2>2
<1>4. CASE AbandonSession(l)
  <2>1. AuthStateOK' /\ InFlightOK' /\ DormantOK'
    BY <1>4 DEF AbandonSession, ConfigFails
  <2>2. NoticesOK'
    BY <1>4 DEF AbandonSession, ConfigFails
  <2> QED  BY <2>1, <2>2
<1>5. CASE OtherSessionStep(l)
  <2>1. AuthStateOK'
    BY <1>5 DEF OtherSessionStep
  <2>2. CASE CreatePipe(l) \/ AcceptFails(l) \/ BrowserConnects(l) \/ HandshakeFails(l)
    <3>1. InFlightOK' /\ DormantOK'
      BY <1>5, <2>2 DEF OtherSessionStep, CreatePipe, AcceptFails, BrowserConnects, HandshakeFails
    <3>2. NoticesOK'
      BY <1>5, <2>2 DEF OtherSessionStep, CreatePipe, AcceptFails, BrowserConnects, HandshakeFails
    <3> QED  BY <2>1, <3>1, <3>2
  <2>3. CASE HandshakeOk(l)
    <3>1. InFlightOK' /\ DormantOK'
      BY <1>5, <2>3 DEF OtherSessionStep, HandshakeOk
    <3>2. NoticesOK'
      BY <1>5, <2>3 DEF OtherSessionStep, HandshakeOk
    <3> QED  BY <2>1, <3>1, <3>2
  <2>4. CASE ConfigSent(l) \/ AnnounceLost(l)
    <3>1. InFlightOK' /\ DormantOK'
      BY <1>5, <2>4 DEF OtherSessionStep, ConfigSent, AnnounceLost
    <3>2. NoticesOK'
      BY <1>5, <2>4 DEF OtherSessionStep, ConfigSent, AnnounceLost
    <3> QED  BY <2>1, <3>1, <3>2
  <2> QED
    BY <1>5, <2>2, <2>3, <2>4 DEF OtherSessionStep
<1> QED
  BY <1>1, <1>2, <1>3, <1>4, <1>5

\* The strengthened invariant is inductive.
LEMMA AuthInvStep == AuthInv /\ [Next]_vars => AuthInv'
<1> SUFFICES ASSUME AuthInv, [Next]_vars
             PROVE  AuthInv'
  OBVIOUS
<1>1. BusInv'
  BY BusPart DEF AuthInv
<1>2. CASE UNCHANGED vars
  BY <1>1, <1>2 DEF vars, busVars, mainVars, askVars, toldVars, AuthInv, AuthStateOK, InFlightOK,
                    NoticesOK, DormantOK, InMap
<1>3. CASE Next
  <2>1. CASE MainStep
    BY <1>1, <2>1, MainKeepsInv, NotifyKeepsInv DEF MainStep, AuthInv
  <2>2. CASE RuntimeStart \/ InitializeContext \/ ExecuteCommand \/ Teardown
    BY <1>1, <2>2, MainKeepsInv DEF AuthInv
  <2>3. ASSUME NEW l \in Launch,
               SendAuthRequest(l) \/ ReadAuthRequest(l) \/ AnswerAuthRequest(l)
        PROVE  AuthInv'
    BY <1>1, <2>3, LoopKeepsInv DEF AuthInv
  <2>4. ASSUME NEW l \in Launch,
               \/ Launching(l) \/ BrowserExits(l) \/ OtherSessionStep(l)
               \/ LoseConnection(l) \/ AbandonSession(l)
        PROVE  AuthInv'
    BY <1>1, <2>4, SessionKeepsInv DEF AuthInv
  <2> QED
    BY <1>3, <2>1, <2>2, <2>3, <2>4 DEF Next
<1> QED
  BY <1>2, <1>3

\* The strengthened invariant holds throughout.
LEMMA AuthInvariant == Spec => []AuthInv
  BY AuthInvInit, AuthInvStep, PTL DEF Spec

\* Every field of the service keeps its type.
THEOREM AuthTypeCorrect == Spec => []AuthTypeOK
<1>1. AuthInv => AuthTypeOK
  BY DEF AuthInv, AuthStateOK, AuthTypeOK, BusInv
<1> QED
  BY <1>1, AuthInvariant, PTL

\* When a command or a hook is over, every connected browser whose last news is
\* a notification knows the present state, however many browsers come and go
\* while they are being notified.
THEOREM NoticesAreComplete == Spec => []NoticesReachEveryone
<1>1. AuthInv => NoticesReachEveryone
  BY DEF AuthInv, NoticesOK, NoticesReachEveryone
<1> QED
  BY <1>1, AuthInvariant, PTL

-----------------------------------------------------------------------------
(***************************************************************************)
(* The register.  latest, asked and view of AuthRegister are auth, askedAt *)
(* and told; a step that changes none of them is a stutter.                *)
(***************************************************************************)

\* A step of the service writes the register, asks, answers, drops a question,
\* notifies one reader, or leaves the register alone.
LEMMA RegisterStep ==
    AuthInv /\ [Next]_vars => [Register!RegisterNext]_(Register!registerVars)
<1> SUFFICES ASSUME AuthInv, [Next]_vars
             PROVE  [Register!RegisterNext]_(Register!registerVars)
  OBVIOUS
<1> USE DEF Register!registerVars
<1>1. CASE RuntimeStart \/ InitializeContext \/ ExecuteCommand \/ ClearAuth
  <2>1. Register!Write
    BY <1>1 DEF RuntimeStart, InitializeContext, ExecuteCommand, ClearAuth, Store,
                askVars, toldVars, Register!Write
  <2> QED
    BY <2>1 DEF Register!RegisterNext
<1>2. CASE Teardown \/ NotifyBegin \/ NotifyDone
  BY <1>2 DEF Teardown, NotifyBegin, NotifyDone, askVars, toldVars
<1>3. ASSUME NEW e \in Env, NotifyEnv(e)
      PROVE  [Register!RegisterNext]_(Register!registerVars)
  <2>1. CASE told' = told
    BY <1>3, <2>1 DEF NotifyEnv, askVars
  <2>2. CASE told' # told
    <3>1. connections[e] # None /\ Tell(connections[e], notice, "notice")
      BY <1>3, <2>2 DEF NotifyEnv, toldVars
    <3>2. connections[e] \in Launch
      BY <3>1 DEF AuthInv, BusInv, BusTypeOK
    <3>3. told' = [told EXCEPT ![connections[e]] = auth]
      BY <1>3, <2>2, <3>1 DEF Tell, NotifyEnv, AuthInv, InFlightOK
    <3>4. Register!Notify(connections[e])
      BY <1>3, <3>3 DEF NotifyEnv, askVars, Register!Notify
    <3> QED
      BY <3>2, <3>4 DEF Register!RegisterNext
  <2> QED
    BY <2>1, <2>2
<1>4. ASSUME NEW l \in Launch, SendAuthRequest(l)
      PROVE  [Register!RegisterNext]_(Register!registerVars)
  <2>1. Register!Ask(l)
    BY <1>4 DEF SendAuthRequest, mainVars, toldVars, Register!Ask
  <2> QED
    BY <2>1 DEF Register!RegisterNext
<1>5. ASSUME NEW l \in Launch, ReadAuthRequest(l)
      PROVE  [Register!RegisterNext]_(Register!registerVars)
  BY <1>5 DEF ReadAuthRequest, mainVars, toldVars
<1>6. ASSUME NEW l \in Launch, AnswerAuthRequest(l)
      PROVE  [Register!RegisterNext]_(Register!registerVars)
  <2>1. askedAt[l] # None /\ snapshot[l] \in askedAt[l] .. auth
    BY <1>6 DEF AnswerAuthRequest, AuthInv, InFlightOK
  <2>2. CASE told' = told
    <3>1. Register!Drop(l)
      BY <1>6, <2>1, <2>2 DEF AnswerAuthRequest, mainVars, Register!Drop
    <3> QED
      BY <3>1 DEF Register!RegisterNext
  <2>3. CASE told' # told
    <3>1. told' = [told EXCEPT ![l] = snapshot[l]]
      BY <1>6, <2>3 DEF AnswerAuthRequest, Tell
    <3>2. Register!Reply(l)
      BY <1>6, <2>1, <3>1 DEF AnswerAuthRequest, mainVars, Register!Reply
    <3> QED
      BY <3>2 DEF Register!RegisterNext
  <2> QED
    BY <2>2, <2>3
<1>7. ASSUME NEW l \in Launch, LoseConnection(l) \/ AbandonSession(l)
      PROVE  [Register!RegisterNext]_(Register!registerVars)
  <2>1. UNCHANGED <<auth, told>>
    BY <1>7 DEF LoseConnection, AbandonSession, mainVars, toldVars
  <2>2. askedAt' = [askedAt EXCEPT ![l] = None]
    BY <1>7 DEF LoseConnection, AbandonSession
  <2>3. CASE askedAt[l] = None
    <3>1. askedAt' = askedAt
      BY <2>2, <2>3 DEF AuthInv, AuthStateOK
    <3> QED
      BY <2>1, <3>1
  <2>4. CASE askedAt[l] # None
    <3>1. Register!Drop(l)
      BY <2>1, <2>2, <2>4 DEF Register!Drop
    <3> QED
      BY <3>1 DEF Register!RegisterNext
  <2> QED
    BY <2>3, <2>4
<1>8. ASSUME NEW l \in Launch, Launching(l) \/ BrowserExits(l) \/ OtherSessionStep(l)
      PROVE  [Register!RegisterNext]_(Register!registerVars)
  BY <1>8 DEF Launching, BrowserExits, OtherSessionStep, mainVars, askVars, toldVars
<1>9. CASE UNCHANGED vars
  BY <1>9 DEF vars, mainVars, askVars, toldVars
<1> QED
  BY <1>1, <1>2, <1>3, <1>4, <1>5, <1>6, <1>7, <1>8, <1>9 DEF Next, MainStep

\* To its readers the service is a register written by the main task alone: a
\* notification carries the present state, an answer a state not older than
\* its question.
THEOREM ServiceIsRegister == Spec => IsRegister
<1>1. Init => Register!RegisterInit
  BY DEF Init, Register!RegisterInit
<1> QED
  BY <1>1, RegisterStep, AuthInvariant, PTL DEF Spec, IsRegister, Register!RegisterSpec
=============================================================================
