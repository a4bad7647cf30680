------------------------ MODULE MCEventBusSessions ------------------------
(***************************************************************************)
(* Instances of EventBusSessions: launches dealt out to environments.      *)
(***************************************************************************)
EXTENDS EventBusSessions, TLC

CONSTANTS e1, l1, l2, l3

\* One environment launched three times: one session may be ending while one runs
\* and one starts.
EnvOfThrice == (l1 :> e1) @@ (l2 :> e1) @@ (l3 :> e1)
=============================================================================
