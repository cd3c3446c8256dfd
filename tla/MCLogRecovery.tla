------------------------------ MODULE MCLogRecovery ------------------------------
EXTENDS LogRecovery, TLC
CONSTANTS l1, l2, l3

Symmetric == Permutations(Log)

Upto(kill, restart, death, read, information, store) ==
    [k \in Bounded |-> CASE k = "kill" -> kill [] k = "restart" -> restart [] k = "death" -> death
                         [] k = "read" -> read [] k = "info" -> information [] k = "store" -> store]

\* A log is lost; a log restarts; a read version is asked for; or the storage
\* servers consume generations and logs hear of the recoveries.
Scenarios == {Upto(1, 0, 0, 0, 0, 0), Upto(0, 1, 0, 0, 0, 0), Upto(0, 0, 0, 1, 0, 0),
              Upto(0, 0, 0, 0, 2, 1)}

\* A log is lost or restarts, or the recovery dies.
Faults == {Upto(1, 0, 1, 0, 0, 0), Upto(0, 1, 1, 0, 0, 0)}
=============================================================================
