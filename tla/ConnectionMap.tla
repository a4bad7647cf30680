---------------------------- MODULE ConnectionMap ----------------------------
(***************************************************************************)
(* The connection map of EventBusManager under load                        *)
(* (src/infrastructure/eventbus/manager.rs): the lock on the map, the      *)
(* calls that wait for it, and the writes that callers make while they     *)
(* hold it.  A write waits for the browser to read what was written        *)
(* before, and everyone who wants the lock waits with it.                  *)
(*                                                                         *)
(* The lock is tokio's RwLock: many readers or one writer, granted in the  *)
(* order of the requests, so that a writer that waits keeps out the        *)
(* readers that come after it.                                             *)
(***************************************************************************)
EXTENDS Naturals, Sequences

CONSTANTS
    Env,      \* environments
    Caller,   \* tasks: the main task, server tasks, loops, forwarding tasks
    Calls,    \* what each of them calls
    None,     \* no caller
    Reading   \* environments whose browsers keep reading, or go away

ASSUME NoneAssumption    == None \notin Caller
ASSUME ReadingAssumption == Reading \subseteq Env

VARIABLES
    op,           \* what a caller is doing
    at,           \* "idle", "waiting" for the lock, or "writing"
    todo,         \* the environments it has still to write to, enter or remove
    queue,        \* requests for the lock, in their order
    readers,      \* callers that hold a read guard
    writer,       \* the caller that holds the write guard
    connections,  \* environments in the map
    pending       \* connections with a write that has not been read

lock == <<queue, readers, writer>>
vars == <<op, at, todo, lock, connections, pending>>

\* send, send_to_envs, broadcast and disconnect take the lock to read, and so do
\* the calls that only look; disconnect_all and the changes of one entry write.
\* A session enters the map first and then sends its configuration, without the
\* map; an answer goes to the connection without the map altogether.
Changes == {"insert", "remove", "drain"}
Ops     == {"none", "send", "configure", "answer"} \cup Changes

Init ==
    /\ op = [c \in Caller |-> "none"]
    /\ at = [c \in Caller |-> "idle"]
    /\ todo = [c \in Caller |-> {}]
    /\ queue = <<>> /\ readers = {} /\ writer = None
    /\ connections = {} /\ pending = {}

Becomes(c, a, E) == at' = [at EXCEPT ![c] = a] /\ todo' = [todo EXCEPT ![c] = E]

(***************************************************************************)
(* Calls.                                                                  *)
(***************************************************************************)

Request(c, o, E) ==
    /\ at[c] = "idle" /\ o \in Calls[c]
    /\ op' = [op EXCEPT ![c] = o]
    /\ Becomes(c, "waiting", E)
    /\ queue' = Append(queue, c)
    /\ UNCHANGED <<readers, writer, connections, pending>>

Send(c, E)   == Request(c, "send", E)
Insert(c, e) == Request(c, "insert", {e})
Remove(c, e) == Request(c, "remove", {e})
DrainAll(c)  == Request(c, "drain", {})

\* Mutant of Answer: the answer is sent by way of the map.
AnswerByMap(c, e) == Request(c, "answer", {e})

\* handle_auth_request writes to the connection that its loop has.
Answer(c, e) ==
    /\ at[c] = "idle" /\ "answer" \in Calls[c]
    /\ op' = [op EXCEPT ![c] = "answer"]
    /\ Becomes(c, "writing", {e})
    /\ UNCHANGED <<lock, connections, pending>>

(***************************************************************************)
(* The lock.                                                               *)
(***************************************************************************)

Grantable(c) ==
    /\ writer = None
    /\ op[c] \in Changes => readers = {}

\* Mutant of GrantRead: the connections are cloned and the guard is dropped
\* before anything is written, as send_request does.
GrantReadReleases ==
    \E c \in Caller :
        /\ queue # <<>> /\ c = Head(queue) /\ Grantable(c) /\ op[c] \notin Changes
        /\ queue' = Tail(queue)
        /\ Becomes(c, "writing", todo[c] \cap connections)
        /\ UNCHANGED <<op, readers, writer, connections, pending>>

\* A reader finds the connections of its environments; the others fail.
GrantRead ==
    \E c \in Caller :
        /\ queue # <<>> /\ c = Head(queue) /\ Grantable(c) /\ op[c] \notin Changes
        /\ queue' = Tail(queue) /\ readers' = readers \cup {c}
        /\ Becomes(c, "writing", todo[c] \cap connections)
        /\ UNCHANGED <<op, writer, connections, pending>>

\* create_server enters the connection, drops the guard and goes on to write the
\* configuration.
GrantInsert ==
    \E c \in Caller :
        /\ queue # <<>> /\ c = Head(queue) /\ Grantable(c) /\ op[c] = "insert"
        /\ queue' = Tail(queue)
        /\ connections' = connections \cup todo[c]
        /\ Becomes(c, "writing", todo[c]) /\ op' = [op EXCEPT ![c] = "configure"]
        /\ UNCHANGED <<readers, writer, pending>>

\* A loop removes its entry at once.
GrantRemove ==
    \E c \in Caller :
        /\ queue # <<>> /\ c = Head(queue) /\ Grantable(c) /\ op[c] = "remove"
        /\ queue' = Tail(queue)
        /\ connections' = connections \ todo[c]
        /\ Becomes(c, "idle", {}) /\ op' = [op EXCEPT ![c] = "none"]
        /\ UNCHANGED <<readers, writer, pending>>

\* disconnect_all keeps the guard while it writes to every connection it drains.
GrantDrain ==
    \E c \in Caller :
        /\ queue # <<>> /\ c = Head(queue) /\ Grantable(c) /\ op[c] = "drain"
        /\ queue' = Tail(queue) /\ writer' = c
        /\ connections' = {}
        /\ Becomes(c, "writing", connections)
        /\ UNCHANGED <<op, readers, pending>>

Grant == GrantRead \/ GrantInsert \/ GrantRemove \/ GrantDrain

(***************************************************************************)
(* Writes.  The pipe takes a frame when it has none to deliver.            *)
(***************************************************************************)

\* Mutant of Write: the map is looked up again, under a guard of its own, for
\* every environment of a send.
WriteLocksAgain(c, e) ==
    /\ at[c] = "writing" /\ e \in todo[c] /\ e \notin pending
    /\ pending' = pending \cup {e}
    /\ IF op[c] = "send" /\ todo[c] # {e}
       THEN Becomes(c, "waiting", todo[c] \ {e}) /\ queue' = Append(queue, c)
       ELSE Becomes(c, "writing", todo[c] \ {e}) /\ UNCHANGED queue
    /\ UNCHANGED <<op, readers, writer, connections>>

Write(c, e) ==
    /\ at[c] = "writing" /\ e \in todo[c] /\ e \notin pending
    /\ pending' = pending \cup {e}
    /\ Becomes(c, "writing", todo[c] \ {e})
    /\ UNCHANGED <<op, lock, connections>>

\* A write that fails is reported for its environment; the others go on.
WriteFails(c, e) ==
    /\ at[c] = "writing" /\ e \in todo[c]
    /\ Becomes(c, "writing", todo[c] \ {e})
    /\ UNCHANGED <<op, lock, connections, pending>>

\* The guard is dropped when the call returns.
Return(c) ==
    /\ at[c] = "writing" /\ todo[c] = {}
    /\ Becomes(c, "idle", {}) /\ op' = [op EXCEPT ![c] = "none"]
    /\ readers' = readers \ {c}
    /\ writer' = IF writer = c THEN None ELSE writer
    /\ UNCHANGED <<queue, connections, pending>>

\* The browser reads, or its end of the pipe is gone.
BrowserReads(e) ==
    /\ e \in pending
    /\ pending' = pending \ {e}
    /\ UNCHANGED <<op, at, todo, lock, connections>>

CallerStep(c) ==
    \/ \E E \in SUBSET Env : Send(c, E)
    \/ \E e \in Env : Insert(c, e) \/ Remove(c, e) \/ Answer(c, e)
    \/ DrainAll(c)
    \/ \E e \in Env : Write(c, e) \/ WriteFails(c, e)
    \/ Return(c)

Next ==
    \/ Grant
    \/ \E c \in Caller : CallerStep(c)
    \/ \E e \in Env : BrowserReads(e)

Spec == Init /\ [][Next]_vars

\* A pipe that can be written wakes every task that waits for it, and they take
\* their turns.  Not every browser need read.
FairSpec ==
    /\ Spec
    /\ WF_vars(Grant)
    /\ \A c \in Caller : WF_vars(Return(c))
    /\ \A c \in Caller, e \in Env : SF_vars(Write(c, e))
    /\ \A e \in Reading : WF_vars(BrowserReads(e))

-----------------------------------------------------------------------------
(***************************************************************************)
(* Properties                                                              *)
(***************************************************************************)

\* The type invariant: a task waits for one thing at a time.
MapTypeOK ==
    /\ op \in [Caller -> Ops]
    /\ at \in [Caller -> {"idle", "waiting", "writing"}]
    /\ todo \in [Caller -> SUBSET Env]
    /\ queue \in Seq(Caller)
    /\ readers \subseteq Caller /\ writer \in Caller \cup {None}
    /\ connections \subseteq Env /\ pending \subseteq Env
    /\ \A c \in Caller : at[c] = "waiting" => \E i \in 1 .. Len(queue) : queue[i] = c

\* Nothing is sent to a connection that is no longer the map's: from the look-up
\* of a send to its last write, no loop removes an entry it goes to, and no
\* disconnect_all tells such a browser to go first, however long a browser keeps
\* the send waiting (manager.rs:147-178, 332-334, 375-381, 399-458).
SendsToConnected ==
    \A c \in Caller : op[c] = "send" /\ at[c] = "writing" => todo[c] \subseteq connections

Held == (readers \cup {writer}) \ {None}

\* When calls are waiting, either the first can have the lock, or somebody who
\* holds it is writing: callers never wait for one another in a circle, only for
\* browsers (manager.rs:147-178, 375-381, 399-458).
WaitOnlyForBrowsers ==
    queue # <<>> =>
        \/ Grantable(Head(queue))
        \/ \E c \in Held : at[c] = "writing"

\* A call returns, whatever the others do, unless somebody comes to write to a
\* browser that has stopped reading: a stop, disconnect_all and a session that
\* enters the map and sends its configuration included
\* (manager.rs:147-178, 268-292, 332-334, 375-458).
CallsReturn ==
    LET Stalled == \E d \in Caller : at[d] = "writing" /\ todo[d] \cap (pending \ Reading) # {}
    IN  \A c \in Caller : at[c] # "idle" ~> (at[c] = "idle" \/ Stalled)

\* A browser that reads gets the answers to its questions even while another has
\* stopped reading and holds up the map.  Its configuration it may not get: that
\* comes after the entry into the map (manager.rs:305-325, 472-483).
AnswersReturn ==
    \A c \in Caller : (op[c] = "answer" /\ at[c] # "idle" /\ todo[c] \subseteq Reading)
                          ~> at[c] = "idle"
=============================================================================
