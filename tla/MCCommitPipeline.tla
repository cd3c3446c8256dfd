----------------------------- MODULE MCCommitPipeline -----------------------------
(* Model checking of CommitPipeline on small instances. *)
EXTENDS CommitPipeline, TLC

\* Sound where only safety is checked; the liveness properties are checked without it.
Symmetric == Permutations(CommitProxy) \cup Permutations(TLog)
====================================================================================
