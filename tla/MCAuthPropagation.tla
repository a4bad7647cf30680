------------------------- MODULE MCAuthPropagation -------------------------
(***************************************************************************)
(* Instances of AuthPropagation.                                           *)
(***************************************************************************)
EXTENDS AuthPropagation, TLC

CONSTANTS e1, e2, l1, l2

\* Two environments, each launched once.
EnvOfEach == (l1 :> e1) @@ (l2 :> e2)
=============================================================================
