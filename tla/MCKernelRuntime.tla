-------------------------- MODULE MCKernelRuntime --------------------------
(***************************************************************************)
(* Instances of KernelRuntime.                                             *)
(***************************************************************************)
EXTENDS KernelRuntime, TLC

CONSTANTS e1, e2, l1, l2, p1, p2

\* One environment, launched once or twice.
EnvOfOne   == l1 :> e1
EnvOfTwice == (l1 :> e1) @@ (l2 :> e1)

\* Two environments side by side.
EnvOfBoth == (l1 :> e1) @@ (l2 :> e2)

\* Ports are interchangeable, and so are the launches of one environment.
PortSymmetry   == Permutations({p1, p2})
LaunchSymmetry == Permutations({l1, l2})
TwiceSymmetry  == PortSymmetry \cup LaunchSymmetry

\* Two environments may be swapped together with their launches.
SwapEnvs     == (e1 :> e2) @@ (e2 :> e1) @@ (l1 :> l2) @@ (l2 :> l1)
BothSymmetry == PortSymmetry \cup {SwapEnvs}
=============================================================================
