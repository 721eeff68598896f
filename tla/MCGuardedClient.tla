--------------------------- MODULE MCGuardedClient ---------------------------
(***************************************************************************)
(* Instances of GuardedClient: callers and keys are interchangeable.       *)
(***************************************************************************)
EXTENDS GuardedClient, TLC

Symmetry == Permutations(Callers) \cup Permutations(Keys)
=============================================================================
