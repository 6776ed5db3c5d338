------------------------------- MODULE MCStartup -------------------------------
(***************************************************************************)
(* Instances of Startup for TLC: two replicas, every setup call allowed to *)
(* fail.                                                                   *)
(***************************************************************************)
EXTENDS Startup, TLC

CONSTANTS p1, p2

MCProcs == {p1, p2}

MCSymmetry == Permutations(MCProcs)

MCMayFailAll == Fallible

=============================================================================
