------------------------------- MODULE MCResolution -------------------------------
(* Model checking of Resolution on small instances. *)
EXTENDS Resolution, TLC

\* Resolver 0 is special, the proxies are interchangeable.
Symmetric == Permutations(CommitProxy)

\* Resolvers disagree about any batch and any reply is lost; locks come between transactions
\* that are not lock aware; proxies are held back for a proxy that needs their batch.
Scenarios == {
    [batches |-> 3, conflicting |-> 1..3, lossy |-> 1..3, kinds |-> {"none", "aware"}],
    [batches |-> 4, conflicting |-> {2}, lossy |-> {}, kinds |-> {"plain", "lock", "unlock"}],
    [batches |-> 4, conflicting |-> {}, lossy |-> {2, 3}, kinds |-> {"none", "aware"}],
    [batches |-> 5, conflicting |-> {}, lossy |-> {}, kinds |-> {"aware"}]}
====================================================================================
