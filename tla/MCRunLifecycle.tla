-------------------------- MODULE MCRunLifecycle --------------------------
(***************************************************************************)
(* RunLifecycle on small instances.  Streams are interchangeable.          *)
(***************************************************************************)
EXTENDS RunLifecycle, TLC

Symmetry == Permutations(Streams)

=============================================================================
