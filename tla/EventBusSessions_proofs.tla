---------------------- MODULE EventBusSessions_proofs ----------------------
(***************************************************************************)
(* Proofs about EventBusSessions, for any environments, any launches and   *)
(* any assignment of launches to environments.                             *)
(***************************************************************************)
EXTENDS EventBusSessions, TLAPS

\* Every step of a session or a browser keeps the types.
LEMMA BusTypeStep == BusTypeOK /\ [BusNext]_busVars => BusTypeOK'
<1> SUFFICES ASSUME BusTypeOK, [BusNext]_busVars
             PROVE  BusTypeOK'
  OBVIOUS
<1> USE EnvOfAssumption DEF BusTypeOK, ServerStates, GoTo
<1>1. ASSUME NEW l \in Launch, CreatePipe(l) \/ AcceptFails(l) \/ ConfigFails(l)
      PROVE  BusTypeOK'
  BY <1>1 DEF CreatePipe, AcceptFails, ConfigFails
<1>2. ASSUME NEW l \in Launch, BrowserConnects(l)
      PROVE  BusTypeOK'
  BY <1>2 DEF BrowserConnects
<1>3. ASSUME NEW l \in Launch, HandshakeOk(l) \/ HandshakeFails(l)
      PROVE  BusTypeOK'
  BY <1>3 DEF HandshakeOk, HandshakeFails
<1>4. ASSUME NEW l \in Launch, ConfigSent(l) \/ AnnounceLost(l)
      PROVE  BusTypeOK'
  BY <1>4 DEF ConfigSent, AnnounceLost
<1>5. ASSUME NEW l \in Launch, ConnectionLost(l)
      PROVE  BusTypeOK'
  BY <1>5 DEF ConnectionLost
<1>6. ASSUME NEW l \in Launch, LaunchBrowser(l) \/ LaunchWithoutBrowser(l)
      PROVE  BusTypeOK'
  BY <1>6 DEF LaunchBrowser, LaunchWithoutBrowser, StartServer, BrowserSpawned
<1>7. ASSUME NEW B \in SUBSET Launch, BrowsersExit(B)
      PROVE  BusTypeOK'
  BY <1>7 DEF BrowsersExit
<1>8. CASE DisconnectAll
  BY <1>8 DEF DisconnectAll
<1>9. CASE UNCHANGED busVars
  BY <1>9 DEF busVars
<1> QED
  BY <1>1, <1>2, <1>3, <1>4, <1>5, <1>6, <1>7, <1>8, <1>9 DEF BusNext, SessionStep

\* Every variable keeps its type: the type invariant is inductive by itself.
THEOREM BusTypeCorrect == BusSpec => []BusTypeOK
<1>1. BusInit => BusTypeOK
  BY EnvOfAssumption DEF BusInit, BusTypeOK, ServerStates
<1> QED
  BY <1>1, BusTypeStep, PTL DEF BusSpec

-----------------------------------------------------------------------------
(***************************************************************************)
(* Safety.  Pipe exclusivity is inductive only together with NoDeadEntry:  *)
(* a map entry keeps a pipe alive, so one must know which sessions the map *)
(* can hold.  The announcements follow from exclusivity, because only the  *)
(* session that has the pipe can announce.                                 *)
(***************************************************************************)
BusInv == BusTypeOK /\ OnePipePerEnv /\ NoDeadEntry /\ AnnouncedIffLive

\* The map holds an entry only for a session of that environment, whose pipe
\* is therefore the only one.
LEMMA InvInit == BusInit => BusInv
  BY EnvOfAssumption, NoneAssumption
     DEF BusInit, BusInv, BusTypeOK, ServerStates, OnePipePerEnv, NoDeadEntry,
         AnnouncedIffLive, HoldsPipe

\* A step keeps the pipes of an environment exclusive: only CreatePipe opens
\* one, when no other is open, and only HandshakeOk adds to the map.
LEMMA PipesStep ==
  ASSUME BusInv, [BusNext]_busVars
  PROVE  OnePipePerEnv'
<1> USE EnvOfAssumption, NoneAssumption
        DEF BusInv, BusTypeOK, OnePipePerEnv, HoldsPipe, GoTo
<1>1. ASSUME NEW l \in Launch, CreatePipe(l)
      PROVE  OnePipePerEnv'
  BY <1>1 DEF CreatePipe
<1>2. ASSUME NEW l \in Launch,
             AcceptFails(l) \/ HandshakeFails(l) \/ ConfigFails(l) \/ AnnounceLost(l)
      PROVE  OnePipePerEnv'
  BY <1>2 DEF AcceptFails, HandshakeFails, ConfigFails, AnnounceLost
<1>3. ASSUME NEW l \in Launch, BrowserConnects(l) \/ ConfigSent(l)
      PROVE  OnePipePerEnv'
  BY <1>3 DEF BrowserConnects, ConfigSent
<1>4. ASSUME NEW l \in Launch, HandshakeOk(l)
      PROVE  OnePipePerEnv'
  BY <1>4 DEF HandshakeOk
<1>5. ASSUME NEW l \in Launch, ConnectionLost(l)
      PROVE  OnePipePerEnv'
  BY <1>5 DEF ConnectionLost
<1>6. ASSUME NEW l \in Launch, LaunchBrowser(l) \/ LaunchWithoutBrowser(l)
      PROVE  OnePipePerEnv'
  BY <1>6 DEF LaunchBrowser, LaunchWithoutBrowser, StartServer, BrowserSpawned
<1>7. ASSUME NEW B \in SUBSET Launch, BrowsersExit(B)
      PROVE  OnePipePerEnv'
  BY <1>7 DEF BrowsersExit
<1>8. CASE DisconnectAll
  BY <1>8 DEF DisconnectAll
<1>9. CASE UNCHANGED busVars
  BY <1>9 DEF busVars
<1> QED
  BY <1>1, <1>2, <1>3, <1>4, <1>5, <1>6, <1>7, <1>8, <1>9 DEF BusNext, SessionStep

\* A step leaves no entry of an ended session: a loop that ends owned the
\* entry it removes.
LEMMA EntriesStep ==
  ASSUME BusInv, [BusNext]_busVars
  PROVE  NoDeadEntry'
<1> USE EnvOfAssumption, NoneAssumption
        DEF BusInv, BusTypeOK, NoDeadEntry, GoTo
<1>1. ASSUME NEW l \in Launch, CreatePipe(l) \/ AcceptFails(l) \/ BrowserConnects(l)
                               \/ HandshakeFails(l) \/ AnnounceLost(l)
      PROVE  NoDeadEntry'
  BY <1>1 DEF CreatePipe, AcceptFails, BrowserConnects, HandshakeFails, AnnounceLost
<1>2. ASSUME NEW l \in Launch, HandshakeOk(l)
      PROVE  NoDeadEntry'
  BY <1>2 DEF HandshakeOk
<1>3. ASSUME NEW l \in Launch, ConfigSent(l) \/ ConfigFails(l)
      PROVE  NoDeadEntry'
  BY <1>3 DEF ConfigSent, ConfigFails
<1>4. ASSUME NEW l \in Launch, ConnectionLost(l)
      PROVE  NoDeadEntry'
  BY <1>4 DEF ConnectionLost
<1>5. ASSUME NEW l \in Launch, LaunchBrowser(l) \/ LaunchWithoutBrowser(l)
      PROVE  NoDeadEntry'
  BY <1>5 DEF LaunchBrowser, LaunchWithoutBrowser, StartServer, BrowserSpawned
<1>6. ASSUME NEW B \in SUBSET Launch, BrowsersExit(B)
      PROVE  NoDeadEntry'
  BY <1>6 DEF BrowsersExit
<1>7. CASE DisconnectAll
  BY <1>7 DEF DisconnectAll
<1>8. CASE UNCHANGED busVars
  BY <1>8 DEF busVars
<1> QED
  BY <1>1, <1>2, <1>3, <1>4, <1>5, <1>6, <1>7, <1>8 DEF BusNext, SessionStep

\* A step keeps the announcements in line with the loops: a session that ends
\* is the only one of its environment that has a pipe.
LEMMA AnnouncementsStep ==
  ASSUME BusInv, [BusNext]_busVars
  PROVE  AnnouncedIffLive'
<1> USE EnvOfAssumption, NoneAssumption
        DEF BusInv, BusTypeOK, AnnouncedIffLive, GoTo
<1>1. ASSUME NEW l \in Launch, CreatePipe(l) \/ AcceptFails(l) \/ BrowserConnects(l)
                               \/ HandshakeOk(l) \/ HandshakeFails(l) \/ ConfigFails(l)
      PROVE  AnnouncedIffLive'
  BY <1>1 DEF CreatePipe, AcceptFails, BrowserConnects, HandshakeOk, HandshakeFails,
              ConfigFails
<1>2. ASSUME NEW l \in Launch, ConfigSent(l)
      PROVE  AnnouncedIffLive'
  BY <1>2 DEF ConfigSent
<1>3. ASSUME NEW l \in Launch, ConnectionLost(l)
      PROVE  AnnouncedIffLive'
  BY <1>3 DEF ConnectionLost
<1>4. ASSUME NEW l \in Launch, AnnounceLost(l)
      PROVE  AnnouncedIffLive'
  <2>1. \A m \in Launch : EnvOf[m] = EnvOf[l] /\ server[m] \in {"receiving", "closing"}
            => m = l
    BY <1>4 DEF AnnounceLost, OnePipePerEnv, HoldsPipe
  <2> QED
    BY <1>4, <2>1 DEF AnnounceLost
<1>5. ASSUME NEW l \in Launch, LaunchBrowser(l) \/ LaunchWithoutBrowser(l)
      PROVE  AnnouncedIffLive'
  BY <1>5 DEF LaunchBrowser, LaunchWithoutBrowser, StartServer, BrowserSpawned
<1>6. ASSUME NEW B \in SUBSET Launch, BrowsersExit(B)
      PROVE  AnnouncedIffLive'
  BY <1>6 DEF BrowsersExit
<1>7. CASE DisconnectAll
  BY <1>7 DEF DisconnectAll
<1>8. CASE UNCHANGED busVars
  BY <1>8 DEF busVars
<1> QED
  BY <1>1, <1>2, <1>3, <1>4, <1>5, <1>6, <1>7, <1>8 DEF BusNext, SessionStep

\* The strengthened invariant holds throughout.
THEOREM BusInvariant == BusSpec => []BusInv
<1>1. BusTypeOK /\ BusInv /\ [BusNext]_busVars /\ BusTypeOK' => BusInv'
  BY PipesStep, EntriesStep, AnnouncementsStep DEF BusInv
<1> QED
  BY <1>1, InvInit, BusTypeCorrect, PTL DEF BusSpec

\* At most one session of an environment ever has its pipe, whatever number of
\* launches of it there are.
THEOREM PipesAreExclusive == BusSpec => []OnePipePerEnv
<1>1. BusInv => OnePipePerEnv
  BY DEF BusInv
<1> QED
  BY <1>1, BusInvariant, PTL

\* No receive loop ever removes the map entry of another session.
THEOREM LoopsOwnTheirEntries == BusSpec => []LoopOwnsEntry
<1>1. BusInv => LoopOwnsEntry
  BY EnvOfAssumption, NoneAssumption
     DEF BusInv, BusTypeOK, OnePipePerEnv, NoDeadEntry, LoopOwnsEntry, HoldsPipe
<1> QED
  BY <1>1, BusInvariant, PTL

\* The connection map never keeps a session whose receive loop has ended.
THEOREM EntriesAreAlive == BusSpec => []NoDeadEntry
<1>1. BusInv => NoDeadEntry
  BY DEF BusInv
<1> QED
  BY <1>1, BusInvariant, PTL

\* What the client was last told of an environment is what its loops are doing.
THEOREM AnnouncementsAreTrue == BusSpec => []AnnouncedIffLive
<1>1. BusInv => AnnouncedIffLive
  BY DEF BusInv
<1> QED
  BY <1>1, BusInvariant, PTL
=============================================================================
