------------------------------ MODULE MCCoordinatedState ------------------------------
(* Model checking of CoordinatedState, and of the inductive invariant of its *)
(* proofs, on small instances.                                               *)
EXTENDS CoordinatedStateProofs, TLC

\* Coordinators and clients are interchangeable; UIDs are ordered and are not.
Symmetric == Permutations(Coordinator) \cup Permutations(Client)
=======================================================================================
