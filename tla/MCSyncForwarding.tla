-------------------------- MODULE MCSyncForwarding --------------------------
(***************************************************************************)
(* Instances of SyncForwarding: environments are interchangeable.          *)
(***************************************************************************)
EXTENDS SyncForwarding, TLC

EnvSymmetry == Permutations(Env)
=============================================================================
