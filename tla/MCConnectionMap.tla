-------------------------- MODULE MCConnectionMap --------------------------
(***************************************************************************)
(* Instances of ConnectionMap.                                             *)
(***************************************************************************)
EXTENDS ConnectionMap, TLC

CONSTANTS main, session, forwarder

\* The main task sends and empties the map, a session enters its environment,
\* answers and goes, and the task of an input event sends.
CallsOfTasks ==
    (main :> {"send", "drain"}) @@ (session :> {"insert", "remove", "answer"})
        @@ (forwarder :> {"send"})
=============================================================================
