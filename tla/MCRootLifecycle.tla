-------------------------- MODULE MCRootLifecycle --------------------------
(***************************************************************************)
(* RootLifecycle for TLC.  No definition tells devices or contents apart.  *)
(***************************************************************************)
EXTENDS RootLifecycle, TLC

Symmetry == Permutations(Device) \cup Permutations(Content)

=============================================================================
