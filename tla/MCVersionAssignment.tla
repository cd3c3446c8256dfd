---------------------------- MODULE MCVersionAssignment ----------------------------
(* Model checking of VersionAssignment on small instances. *)
EXTENDS VersionAssignment, TLC

\* Sound where only safety is checked; the liveness properties are checked without it.
Symmetric == Permutations(CommitProxy)
=====================================================================================
