------------------------------ MODULE MCStorageServer ------------------------------
EXTENDS StorageServer

Upto(ops, push, recover, crash, read) ==
    [ops |-> ops, push |-> push, recover |-> recover, crash |-> crash, read |-> read]

\* A recovery and a crash with the longest log; a reader with a recovery about it; every
\* mutation; two recoveries.
Scenarios ==
    {Upto({"add"}, 4, 1, 1, 0), Upto({"none", "add"}, 2, 1, 0, 1),
     Upto(Op, 2, 1, 1, 0), Upto({"add"}, 2, 2, 1, 0)}
=============================================================================
