-------------------------- MODULE EventBusSessions --------------------------
(***************************************************************************)
(* The sessions between the runtime and the browsers it launches:          *)
(* EventBusManager::create_server and start_server of                      *)
(* src/infrastructure/eventbus/manager.rs over the named pipes of          *)
(* transport.rs and the handshake of connection.rs.                        *)
(*                                                                         *)
(* Each launch request starts one server task, which listens on the pipe   *)
(* of its environment, takes one connection, shakes hands, enters it in    *)
(* the connection map, sends the configuration, announces the environment  *)
(* and hands the connection to a receive loop.  A launch also spawns one   *)
(* browser process, so a member of Launch names a request, its server task *)
(* and session, and its browser.  The pipe is named after the environment  *)
(* alone: which browser connects to which server is not fixed.             *)
(***************************************************************************)
CONSTANTS
    Env,       \* environments
    Launch,    \* launch requests over the life of the process
    EnvOf,     \* the environment a launch request is for
    None       \* Option::None, for a map without an entry

ASSUME EnvOfAssumption == EnvOf \in [Launch -> Env]
ASSUME NoneAssumption  == None \notin Launch

VARIABLES
    server,       \* where the server task or receive loop of a launch is
    peer,         \* the browser at the other end of its pipe
    browser,      \* the browser process a launch spawned
    connections,  \* EventBusManager.connections, by environment
    announced     \* the last eventbus.connection_status of an environment

busVars == <<server, peer, browser, connections, announced>>

ServerStates == {"off", "creating", "listening", "accepted", "configuring",
                 "receiving", "closing", "failed", "abandoned", "closed"}

BusInit ==
    /\ server = [l \in Launch |-> "off"]
    /\ peer = [l \in Launch |-> None]
    /\ browser = [l \in Launch |-> "none"]
    /\ connections = [e \in Env |-> None]
    /\ announced = [e \in Env |-> "never"]

\* A pipe instance exists as long as a task or the map holds its connection.
HoldsPipe(l) ==
    \/ server[l] \in {"listening", "accepted", "configuring", "receiving", "closing"}
    \/ connections[EnvOf[l]] = l

Connected(b) == \E l \in Launch : peer[l] = b /\ HoldsPipe(l)

PeerRuns(l) == peer[l] # None /\ browser[peer[l]] = "running"

GoTo(l, state) == server' = [server EXCEPT ![l] = state]

\* EventBusManager::start_server spawns the server task.
StartServer(l) ==
    /\ server[l] = "off"
    /\ GoTo(l, "creating")

(***************************************************************************)
(* PipeServer::accept.                                                     *)
(***************************************************************************)

\* Mutant of CreatePipe: the pipe is created without first_pipe_instance.
CreateAnyPipe(l) ==
    /\ server[l] = "creating"
    /\ GoTo(l, "listening")
    /\ UNCHANGED <<peer, browser, connections, announced>>

\* first_pipe_instance(true): creation succeeds only if no instance exists.
CreatePipe(l) ==
    /\ server[l] = "creating"
    /\ \A other \in Launch : EnvOf[other] = EnvOf[l] => ~HoldsPipe(other)
    /\ GoTo(l, "listening")
    /\ UNCHANGED <<peer, browser, connections, announced>>

\* Creating the pipe or waiting for a client fails; the result goes to a
\* channel whose receiver the launcher has dropped.
AcceptFails(l) ==
    /\ server[l] \in {"creating", "listening"}
    /\ GoTo(l, "failed")
    /\ UNCHANGED <<peer, browser, connections, announced>>

\* Any running browser of the environment may be the one that connects.
BrowserConnects(l) ==
    /\ server[l] = "listening"
    /\ \E b \in Launch :
          /\ EnvOf[b] = EnvOf[l] /\ browser[b] = "running" /\ ~Connected(b)
          /\ peer' = [peer EXCEPT ![l] = b]
    /\ GoTo(l, "accepted")
    /\ UNCHANGED <<browser, connections, announced>>

(***************************************************************************)
(* create_server after accept.                                             *)
(***************************************************************************)

\* Mutant of HandshakeOk: the environment is announced when it is entered in
\* the map, before it has its configuration.
HandshakeOkAnnounces(l) ==
    /\ server[l] = "accepted"
    /\ connections' = [connections EXCEPT ![EnvOf[l]] = l]
    /\ announced' = [announced EXCEPT ![EnvOf[l]] = "connected"]
    /\ GoTo(l, "configuring")
    /\ UNCHANGED <<peer, browser>>

\* The handshake is answered and the connection enters the map.  The browser
\* may be gone by then, as it may when the environment is announced below.
HandshakeOk(l) ==
    /\ server[l] = "accepted"
    /\ connections' = [connections EXCEPT ![EnvOf[l]] = l]
    /\ GoTo(l, "configuring")
    /\ UNCHANGED <<peer, browser, announced>>

\* recv fails, the first frame is not a handshake, or the answer is not sent.
HandshakeFails(l) ==
    /\ server[l] = "accepted"
    /\ GoTo(l, "failed")
    /\ peer' = [peer EXCEPT ![l] = None]
    /\ UNCHANGED <<browser, connections, announced>>

\* LaunchConfig and FingerprintApply are sent, "connected" is announced and
\* the receive loop is spawned.
ConfigSent(l) ==
    /\ server[l] = "configuring"
    /\ announced' = [announced EXCEPT ![EnvOf[l]] = "connected"]
    /\ GoTo(l, "receiving")
    /\ UNCHANGED <<peer, browser, connections>>

\* A send fails and `?` leaves create_server: the entry stays in the map, and
\* no loop will ever read from the connection.
ConfigFails(l) ==
    /\ server[l] = "configuring"
    /\ GoTo(l, "abandoned")
    /\ UNCHANGED <<peer, browser, connections, announced>>

(***************************************************************************)
(* The receive loop.                                                       *)
(***************************************************************************)

\* Mutant of ConnectionLost: the entry is left in the map.
ConnectionLostKeepsEntry(l) ==
    /\ server[l] = "receiving"
    /\ GoTo(l, "closing")
    /\ UNCHANGED <<peer, browser, connections, announced>>

\* recv fails (the peer went away, or sent a frame that does not decode): the
\* loop removes whatever the map holds for its environment.
ConnectionLost(l) ==
    /\ server[l] = "receiving"
    /\ connections' = [connections EXCEPT ![EnvOf[l]] = None]
    /\ GoTo(l, "closing")
    /\ UNCHANGED <<peer, browser, announced>>

\* "disconnected" is announced and the loop ends, dropping its connection.
AnnounceLost(l) ==
    /\ server[l] = "closing"
    /\ announced' = [announced EXCEPT ![EnvOf[l]] = "disconnected"]
    /\ GoTo(l, "closed")
    /\ peer' = [peer EXCEPT ![l] = None]
    /\ UNCHANGED <<browser, connections>>

(***************************************************************************)
(* disconnect_all drains the map under its write lock.  It does not stop   *)
(* server tasks or receive loops.                                          *)
(***************************************************************************)
DisconnectAll ==
    /\ connections' = [e \in Env |-> None]
    /\ UNCHANGED <<server, peer, browser, announced>>

\* The browser processes: spawned by the launcher, ended by themselves or by
\* the system, which ends several at once when their jobs are closed.
BrowserSpawned(l) ==
    /\ browser[l] = "none"
    /\ browser' = [browser EXCEPT ![l] = "running"]

BrowsersExit(B) ==
    /\ \A b \in B : browser[b] = "running"
    /\ browser' = [b \in Launch |-> IF b \in B THEN "exited" ELSE browser[b]]
    /\ UNCHANGED <<server, peer, connections, announced>>

\* The launcher starts the server and spawns the browser in one go, or only
\* the server when the spawn fails.
LaunchBrowser(l) ==
    /\ StartServer(l) /\ BrowserSpawned(l)
    /\ UNCHANGED <<peer, connections, announced>>

LaunchWithoutBrowser(l) ==
    /\ StartServer(l)
    /\ UNCHANGED <<peer, browser, connections, announced>>

SessionStep(l) ==
    \/ CreatePipe(l) \/ AcceptFails(l) \/ BrowserConnects(l)
    \/ HandshakeOk(l) \/ HandshakeFails(l) \/ ConfigSent(l) \/ ConfigFails(l)
    \/ ConnectionLost(l) \/ AnnounceLost(l)

BusNext ==
    \/ \E l \in Launch : SessionStep(l) \/ LaunchBrowser(l) \/ LaunchWithoutBrowser(l)
    \/ \E B \in SUBSET Launch : BrowsersExit(B)
    \/ DisconnectAll

BusSpec == BusInit /\ [][BusNext]_busVars

\* A receive loop is woken when its peer is gone, and then runs to its end: on the
\* way it takes the map's write lock, and that it gets it is assumed here
\* (ConnectionMap is about when it does not).  Nothing forces a live peer to shake
\* hands, or a pipe to fail.
LoopStep(l) == (ConnectionLost(l) /\ ~PeerRuns(l)) \/ AnnounceLost(l)

FairBusSpec == BusSpec /\ \A l \in Launch : WF_busVars(LoopStep(l))

-----------------------------------------------------------------------------
(***************************************************************************)
(* Properties                                                              *)
(***************************************************************************)

\* The type invariant.
BusTypeOK ==
    /\ server \in [Launch -> ServerStates]
    /\ peer \in [Launch -> Launch \cup {None}]
    /\ browser \in [Launch -> {"none", "running", "exited"}]
    /\ connections \in [Env -> Launch \cup {None}]
    /\ announced \in [Env -> {"never", "connected", "disconnected"}]

\* At most one session of an environment has its pipe, however launches,
\* drained maps and late loops overlap (transport.rs:46-48).
OnePipePerEnv ==
    \A l, m \in Launch :
        EnvOf[l] = EnvOf[m] /\ HoldsPipe(l) /\ HoldsPipe(m) => l = m

\* A receive loop removes the entry of its environment by name alone
\* (manager.rs:331-334): it never takes away the entry of another session.
LoopOwnsEntry ==
    \A l \in Launch :
        server[l] = "receiving" => connections[EnvOf[l]] \in {l, None}

\* An entry of the map is a session being configured, one whose loop is
\* running, or one abandoned after a failed send; never one whose loop ended.
NoDeadEntry ==
    \A e \in Env : connections[e] # None =>
        /\ EnvOf[connections[e]] = e
        /\ server[connections[e]] \in {"configuring", "receiving", "abandoned"}

\* The client's last news of an environment is "connected" exactly while one
\* of its receive loops has not announced its end (manager.rs:294, 336-344):
\* announcements alternate, also across relaunches of the environment.
AnnouncedIffLive ==
    \A e \in Env : announced[e] = "connected" <=>
        \E l \in Launch : EnvOf[l] = e /\ server[l] \in {"receiving", "closing"}

\* When the browser of a receiving session is gone, the environment leaves the
\* map and its loop announces the end, if the loop gets the map's lock
\* (manager.rs:325-350).
DeadPeerForgotten ==
    \A l \in Launch :
        server[l] = "receiving" /\ ~PeerRuns(l) ~>
            server[l] = "closed" /\ connections[EnvOf[l]] # l
=============================================================================
