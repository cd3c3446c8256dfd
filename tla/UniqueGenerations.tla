---------------------------- MODULE UniqueGenerations ----------------------------
(***************************************************************************)
(* struct UniqueGeneration of CoordinationInterface.h: a generation number *)
(* with a UID that breaks ties, ordered lexicographically.  The default    *)
(* constructor gives generation 0 and the all-zero UID; every other UID    *)
(* comes from randomUniqueID(), so it is positive and, up to the collision *)
(* probability of 128 random bits, unique.                                 *)
(***************************************************************************)
EXTENDS Naturals

UniqueGeneration == [generation : Nat, uid : Nat]

Zero == [generation |-> 0, uid |-> 0]

\* operator<, from which the other comparisons of the struct are derived.
Before(a, b) ==
    \/ a.generation < b.generation
    \/ a.generation = b.generation /\ a.uid < b.uid

AtMost(a, b) == ~ Before(b, a)

\* std::max on generations: the first argument unless it is smaller.
Later(a, b) == IF Before(a, b) THEN b ELSE a

\* std::max on the plain generation numbers (conflictGen).
MaxNat(m, n) == IF m < n THEN n ELSE m
==================================================================================
