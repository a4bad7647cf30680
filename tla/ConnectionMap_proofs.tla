------------------------ MODULE ConnectionMap_proofs ------------------------
(***************************************************************************)
(* Proofs about ConnectionMap, for any callers and environments: nobody    *)
(* waits for the map in a circle, and nothing is sent to a connection that *)
(* is no longer in the map.                                                *)
(***************************************************************************)
EXTENDS ConnectionMap, SequenceTheorems, TLAPS

\* The types; who waits is in the queue, once, and who is in the queue waits.
QueueInv ==
    /\ MapTypeOK
    /\ \A i \in 1 .. Len(queue) : at[queue[i]] = "waiting"
    /\ \A i, j \in 1 .. Len(queue) : queue[i] = queue[j] => i = j

\* Who holds a guard is writing, and who is sending holds one; a writer is alone,
\* and has drained the map.
GuardInv ==
    /\ \A c \in Caller : op[c] = "send" /\ at[c] = "writing" => c \in readers
    /\ \A c \in readers : at[c] = "writing" /\ op[c] \notin Changes
    /\ writer # None => at[writer] = "writing" /\ op[writer] = "drain" /\ readers = {}

MapInv == QueueInv /\ GuardInv /\ SendsToConnected

\* Initially nobody wants the map.
LEMMA MapInvInit == Init => MapInv
<1> SUFFICES ASSUME Init PROVE MapInv
  OBVIOUS
<1>1. queue = <<>> /\ queue \in Seq(Caller) /\ Len(queue) = 0
  BY DEF Init, lock
<1> QED
  BY <1>1 DEF Init, MapInv, QueueInv, GuardInv, SendsToConnected, MapTypeOK, Ops, Changes

\* What Append and Tail do to the queue.
LEMMA QueueGrows ==
    ASSUME NEW c \in Caller, queue \in Seq(Caller), queue' = Append(queue, c)
    PROVE  /\ queue' \in Seq(Caller) /\ Len(queue) \in Nat /\ Len(queue') = Len(queue) + 1
           /\ \A i \in 1 .. Len(queue) : queue'[i] = queue[i]
           /\ queue'[Len(queue) + 1] = c
  OBVIOUS

LEMMA QueueShrinks ==
    ASSUME queue \in Seq(Caller), queue # <<>>, queue' = Tail(queue)
    PROVE  /\ queue' \in Seq(Caller) /\ Len(queue) \in Nat /\ Len(queue) >= 1
           /\ Len(queue') = Len(queue) - 1
           /\ \A i \in 1 .. Len(queue') : queue'[i] = queue[i + 1]
           /\ Head(queue) = queue[1] /\ Head(queue) \in Caller
<1>1. Len(queue) \in Nat /\ Len(queue) >= 1
  BY EmptySeq
<1> QED
  BY <1>1, HeadTailProperties

\* Asking for the lock.
LEMMA RequestKeepsInv ==
    ASSUME MapInv, NEW c \in Caller, NEW o \in Ops, NEW E \in SUBSET Env, Request(c, o, E)
    PROVE  MapInv'
<1> USE DEF MapInv, QueueInv, MapTypeOK, Request, Becomes
<1>1. /\ queue' \in Seq(Caller) /\ Len(queue) \in Nat /\ Len(queue') = Len(queue) + 1
      /\ \A i \in 1 .. Len(queue) : queue'[i] = queue[i]
      /\ queue'[Len(queue) + 1] = c
  BY QueueGrows
<1>2. \A i \in 1 .. Len(queue) : queue[i] \in Caller /\ queue[i] # c
  <2> SUFFICES ASSUME NEW i \in 1 .. Len(queue) PROVE queue[i] \in Caller /\ queue[i] # c
    OBVIOUS
  <2>1. queue[i] \in Caller
    BY ElementOfSeq
  <2> QED
    BY <2>1
<1>3. c \notin readers /\ c # writer
  BY NoneAssumption DEF GuardInv
<1>4. MapTypeOK'
  <2>1. \A d \in Caller : at'[d] = "waiting" => \E i \in 1 .. Len(queue') : queue'[i] = d
    <3> SUFFICES ASSUME NEW d \in Caller, at'[d] = "waiting"
                 PROVE  \E i \in 1 .. Len(queue') : queue'[i] = d
      OBVIOUS
    <3>1. CASE d = c
      BY <1>1, <3>1
    <3>2. CASE d # c
      <4>1. PICK i \in 1 .. Len(queue) : queue[i] = d
        BY <3>2
      <4> QED
        BY <1>1, <4>1
    <3> QED
      BY <3>1, <3>2
  <2> QED
    BY <1>1, <2>1
<1>5. QueueInv'
  <2>1. \A i \in 1 .. Len(queue') : at'[queue'[i]] = "waiting"
    <3> SUFFICES ASSUME NEW i \in 1 .. Len(queue') PROVE at'[queue'[i]] = "waiting"
      OBVIOUS
    <3>1. CASE i = Len(queue) + 1
      BY <1>1, <3>1
    <3>2. CASE i \in 1 .. Len(queue)
      BY <1>1, <1>2, <3>2
    <3> QED
      BY <1>1, <3>1, <3>2
  <2>2. \A i, j \in 1 .. Len(queue') : queue'[i] = queue'[j] => i = j
    BY <1>1, <1>2
  <2> QED
    BY <1>4, <2>1, <2>2
<1>6. GuardInv' /\ SendsToConnected'
  BY <1>3, NoneAssumption DEF GuardInv, SendsToConnected
<1> QED
  BY <1>5, <1>6

\* Granting it to the first of the queue.
LEMMA GrantKeepsInv == ASSUME MapInv, Grant PROVE MapInv'
<1> USE DEF MapInv, QueueInv, MapTypeOK, Becomes
<1>1. PICK c \in Caller :
          /\ queue # <<>> /\ c = Head(queue) /\ Grantable(c) /\ queue' = Tail(queue)
          /\ \/ /\ op[c] \notin Changes /\ readers' = readers \cup {c}
                /\ Becomes(c, "writing", todo[c] \cap connections)
                /\ UNCHANGED <<op, writer, connections, pending>>
             \/ /\ op[c] = "insert" /\ connections' = connections \cup todo[c]
                /\ Becomes(c, "writing", todo[c]) /\ op' = [op EXCEPT ![c] = "configure"]
                /\ UNCHANGED <<readers, writer, pending>>
             \/ /\ op[c] = "remove" /\ connections' = connections \ todo[c]
                /\ Becomes(c, "idle", {}) /\ op' = [op EXCEPT ![c] = "none"]
                /\ UNCHANGED <<readers, writer, pending>>
             \/ /\ op[c] = "drain" /\ writer' = c
                /\ connections' = {}
                /\ Becomes(c, "writing", connections)
                /\ UNCHANGED <<op, readers, pending>>
  BY DEF Grant, GrantRead, GrantInsert, GrantRemove, GrantDrain
<1>2. /\ queue' \in Seq(Caller) /\ Len(queue) \in Nat /\ Len(queue) >= 1
      /\ Len(queue') = Len(queue) - 1
      /\ \A i \in 1 .. Len(queue') : queue'[i] = queue[i + 1]
      /\ queue[1] = c
  BY <1>1, QueueShrinks
<1>3. /\ at'[c] # "waiting" /\ at' \in [Caller -> {"idle", "waiting", "writing"}]
      /\ \A d \in Caller : d # c => at'[d] = at[d] /\ todo'[d] = todo[d]
      /\ todo' \in [Caller -> SUBSET Env] /\ connections' \subseteq Env
  <2>1. \A a \in {"idle", "writing"}, E \in SUBSET Env : Becomes(c, a, E) =>
            /\ at'[c] # "waiting" /\ at' \in [Caller -> {"idle", "waiting", "writing"}]
            /\ \A d \in Caller : d # c => at'[d] = at[d] /\ todo'[d] = todo[d]
            /\ todo' \in [Caller -> SUBSET Env]
    OBVIOUS
  <2>2. \E a \in {"idle", "writing"}, E \in SUBSET Env : Becomes(c, a, E)
    <3>1. todo[c] \cap connections \in SUBSET Env /\ todo[c] \in SUBSET Env /\ connections \in SUBSET Env /\ {} \in SUBSET Env
      OBVIOUS
    <3> HIDE DEF Becomes
    <3> QED
      BY <1>1, <3>1
  <2>3. connections' \subseteq Env
    <3>1. todo[c] \in SUBSET Env
      OBVIOUS
    <3> HIDE DEF Becomes
    <3> QED
      BY <1>1, <3>1
  <2> QED
    BY <2>1, <2>2, <2>3
<1>4. at[c] = "waiting" /\ c \notin readers /\ writer = None
  BY <1>1, <1>2 DEF GuardInv, Grantable
<1>5. MapTypeOK'
  <2>1. \A d \in Caller : at'[d] = "waiting" => \E i \in 1 .. Len(queue') : queue'[i] = d
    <3> SUFFICES ASSUME NEW d \in Caller, at'[d] = "waiting"
                 PROVE  \E i \in 1 .. Len(queue') : queue'[i] = d
      OBVIOUS
    <3>1. d # c /\ at[d] = "waiting"
      BY <1>3
    <3>2. PICK i \in 1 .. Len(queue) : queue[i] = d
      BY <3>1
    <3>3. i - 1 \in 1 .. Len(queue') /\ queue'[i - 1] = d
      BY <1>2, <3>1, <3>2
    <3> QED
      BY <3>3
  <2>2. readers' \subseteq Caller /\ writer' \in Caller \cup {None} /\ pending' = pending
    BY <1>1
  <2>3. op' \in [Caller -> Ops]
    <3>1. op' = op \/ op' = [op EXCEPT ![c] = "none"] \/ op' = [op EXCEPT ![c] = "configure"]
      BY <1>1
    <3> QED
      BY <3>1 DEF Ops
  <2> QED
    BY <1>2, <1>3, <2>1, <2>2, <2>3
<1>6. QueueInv'
  <2>1. \A i \in 1 .. Len(queue') : i + 1 \in 1 .. Len(queue) /\ queue[i + 1] \in Caller
                                   /\ queue[i + 1] # c
    <3> SUFFICES ASSUME NEW i \in 1 .. Len(queue')
                 PROVE  i + 1 \in 1 .. Len(queue) /\ queue[i + 1] \in Caller /\ queue[i + 1] # c
      OBVIOUS
    <3>1. i + 1 \in 1 .. Len(queue) /\ 1 \in 1 .. Len(queue) /\ i + 1 # 1
      BY <1>2
    <3>2. queue[i + 1] \in Caller
      BY <3>1, ElementOfSeq
    <3> QED
      BY <1>2, <3>1, <3>2
  <2>2. \A i \in 1 .. Len(queue') : at'[queue'[i]] = "waiting"
    BY <1>2, <1>3, <2>1
  <2>3. \A i, j \in 1 .. Len(queue') : queue'[i] = queue'[j] => i = j
    BY <1>2, <2>1
  <2> QED
    BY <1>5, <2>2, <2>3
<1>7. GuardInv' /\ SendsToConnected'
  <2>1. CASE /\ op[c] \notin Changes /\ readers' = readers \cup {c}
             /\ Becomes(c, "writing", todo[c] \cap connections)
             /\ UNCHANGED <<op, writer, connections, pending>>
    <3>1. at'[c] = "writing" /\ todo'[c] = todo[c] \cap connections
      BY <2>1
    <3> HIDE DEF Becomes
    <3> QED
      BY <1>3, <1>4, <2>1, <3>1 DEF GuardInv, SendsToConnected
  <2>2. CASE /\ op[c] \in {"insert", "remove"}
             /\ op' \in {[op EXCEPT ![c] = "none"], [op EXCEPT ![c] = "configure"]}
             /\ UNCHANGED <<readers, writer, pending>>
    <3>1. readers = {}
      BY <1>1, <2>2 DEF Grantable, Changes
    <3>2. \A d \in Caller : ~(op'[d] = "send" /\ at'[d] = "writing")
      BY <1>3, <2>2, <3>1 DEF GuardInv
    <3> QED
      BY <1>4, <2>2, <3>1, <3>2 DEF GuardInv, SendsToConnected
  <2>3. CASE /\ op[c] = "drain" /\ writer' = c
             /\ Becomes(c, "writing", connections)
             /\ UNCHANGED <<op, readers, pending>>
    <3>1. at'[c] = "writing" /\ readers = {}
      BY <1>1, <2>3 DEF Grantable, Changes
    <3> HIDE DEF Becomes
    <3>2. \A d \in Caller : ~(op'[d] = "send" /\ at'[d] = "writing")
      BY <1>3, <2>3, <3>1 DEF GuardInv
    <3> QED
      BY <2>3, <3>1, <3>2 DEF GuardInv, SendsToConnected
  <2> HIDE DEF Becomes
  <2> QED
    BY <1>1, <2>1, <2>2, <2>3
<1> QED
  BY <1>6, <1>7

\* Writing, returning, and what the browsers do.
LEMMA WriteKeepsInv ==
    ASSUME MapInv,
           \/ \E c \in Caller : Return(c) \/ \E e \in Env : Answer(c, e) \/ Write(c, e) \/ WriteFails(c, e)
           \/ \E e \in Env : BrowserReads(e)
           \/ UNCHANGED vars
    PROVE  MapInv'
<1> USE NoneAssumption
        DEF MapInv, QueueInv, MapTypeOK, GuardInv, SendsToConnected, Becomes, Ops, Changes, lock
<1>0. \A i \in 1 .. Len(queue) : queue[i] \in Caller
  BY ElementOfSeq
<1>1. ASSUME NEW c \in Caller, NEW e \in Env, Answer(c, e) PROVE MapInv'
  <2>1. /\ at[c] = "idle" /\ at' = [at EXCEPT ![c] = "writing"]
        /\ op' = [op EXCEPT ![c] = "answer"] /\ todo' = [todo EXCEPT ![c] = {e}]
        /\ UNCHANGED <<queue, readers, writer, connections, pending>>
    BY <1>1 DEF Answer
  <2>2. MapTypeOK'
    BY <2>1
  <2>3. \A i \in 1 .. Len(queue) : queue[i] # c
    BY <2>1
  <2>4. QueueInv'
    BY <1>0, <2>1, <2>2, <2>3
  <2>5. GuardInv' /\ SendsToConnected'
    BY <1>1 DEF Answer
  <2> QED
    BY <2>4, <2>5
<1>2. ASSUME NEW c \in Caller, NEW e \in Env, Write(c, e) \/ WriteFails(c, e) PROVE MapInv'
  <2>1. /\ at[c] = "writing" /\ at' = at /\ todo' = [todo EXCEPT ![c] = todo[c] \ {e}]
        /\ pending' \subseteq Env /\ UNCHANGED <<op, queue, readers, writer, connections>>
    BY <1>2 DEF Write, WriteFails
  <2>2. QueueInv'
    BY <2>1
  <2>3. GuardInv'
    BY <2>1
  <2>4. SendsToConnected'
    BY <2>1
  <2> QED
    BY <2>2, <2>3, <2>4
<1>3. ASSUME NEW c \in Caller, Return(c) PROVE MapInv'
  <2>1. QueueInv'
    BY <1>0, <1>3 DEF Return
  <2>2. GuardInv' /\ SendsToConnected'
    BY <1>3 DEF Return
  <2> QED
    BY <2>1, <2>2
<1>4. ASSUME NEW e \in Env, BrowserReads(e) PROVE MapInv'
  BY <1>4 DEF BrowserReads
<1>5. CASE UNCHANGED vars
  BY <1>5 DEF vars
<1> QED
  BY <1>1, <1>2, <1>3, <1>4, <1>5

\* The inductive invariant.
LEMMA MapInvariant == Spec => []MapInv
<1>1. MapInv /\ [Next]_vars => MapInv'
  <2> SUFFICES ASSUME MapInv, [Next]_vars PROVE MapInv'
    OBVIOUS
  <2>1. ASSUME NEW c \in Caller, NEW E \in SUBSET Env, Send(c, E) PROVE MapInv'
    BY <2>1, RequestKeepsInv DEF Send, Ops, Changes
  <2>2. ASSUME NEW c \in Caller, NEW e \in Env, Insert(c, e) \/ Remove(c, e) PROVE MapInv'
    BY <2>2, RequestKeepsInv DEF Insert, Remove, Ops, Changes
  <2>3. ASSUME NEW c \in Caller, DrainAll(c) PROVE MapInv'
    BY <2>3, RequestKeepsInv DEF DrainAll, Ops, Changes
  <2> QED
    BY <2>1, <2>2, <2>3, GrantKeepsInv, WriteKeepsInv DEF Next, CallerStep
<1> QED
  BY MapInvInit, <1>1, PTL DEF Spec

\* The calls of the manager keep the types, and who waits for the map is queued
\* (manager.rs:147-178, 268-292, 332-334, 375-458).
THEOREM MapTypeCorrect == Spec => []MapTypeOK
<1>1. MapInv => MapTypeOK
  BY DEF MapInv, QueueInv
<1> QED
  BY MapInvariant, <1>1, PTL

\* For any number of callers, whatever a send still has to write goes to a
\* connection of the map: no removal and no disconnect_all comes between its
\* look-up and its last write (manager.rs:147-178, 332-334, 375-381, 399-458).
THEOREM SendsReachTheConnected == Spec => []SendsToConnected
<1>1. MapInv => SendsToConnected
  BY DEF MapInv
<1> QED
  BY MapInvariant, <1>1, PTL

\* No number of callers can wait for one another: if the first of the queue
\* cannot have the map, somebody who holds it is writing to a browser.
THEOREM NoCircularWait == Spec => []WaitOnlyForBrowsers
<1>1. MapInv => WaitOnlyForBrowsers
  <2> SUFFICES ASSUME MapInv, ~Grantable(Head(queue)) PROVE \E c \in Held : at[c] = "writing"
    BY DEF WaitOnlyForBrowsers
  <2>1. writer # None \/ readers # {}
    BY DEF Grantable
  <2>2. CASE writer # None
    BY <2>2 DEF MapInv, GuardInv, Held
  <2>3. CASE readers # {}
    BY <2>3, NoneAssumption DEF MapInv, QueueInv, MapTypeOK, GuardInv, Held
  <2> QED
    BY <2>1, <2>2, <2>3
<1> QED
  BY MapInvariant, <1>1, PTL
=============================================================================
