------------------------------- MODULE MCMovableState -------------------------------
(* Model checking of MovableState on small instances. *)
EXTENDS MovableState, TLC

\* Recoveries are interchangeable, and so are the coordinator sets but the first.
Symmetric == Permutations(Process) \cup Permutations(Quorum \ {First})
======================================================================================
