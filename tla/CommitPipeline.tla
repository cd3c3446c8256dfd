------------------------------ MODULE CommitPipeline ------------------------------
(***************************************************************************)
(* The life of commit batches within one epoch: the commit proxies push    *)
(* them to the transaction logs, report them to the master and answer the  *)
(* clients; the GRV proxies hand out read versions from what the master    *)
(* was told.                                                               *)
(*                                                                         *)
(* A batch gets its version in one step (VersionAssignment shows how) and  *)
(* its resolution is ready at any later time.  A rejected batch takes part *)
(* in the local order of its proxy and has no version.  A transaction log  *)
(* accepts pushes along the chain of versions and makes a prefix of what   *)
(* it accepted durable; its answer to a push may take any time.            *)
(***************************************************************************)
EXTENDS Integers, Sequences, FiniteSets

CONSTANTS CommitProxy, GrvProxy, TLog,
          AntiQuorum,                  \* tLogWriteAntiQuorum
          LastEpochEnd,
          RecoveryTransactionVersion,
          Gap,                         \* distances between consecutive versions
          ReadLife,                    \* MAX_READ_TRANSACTION_LIFE_VERSIONS
          MaxBatches                   \* bound: batches per proxy

ASSUME TLogAssumption == IsFiniteSet(TLog) /\ TLog # {} /\ AntiQuorum \in 0 .. Cardinality(TLog) - 1
ASSUME EpochAssumption ==
    /\ LastEpochEnd \in Nat
    /\ RecoveryTransactionVersion \in Nat
    /\ LastEpochEnd < RecoveryTransactionVersion
ASSUME WindowAssumption == ReadLife \in Nat \ {0} /\ Gap \subseteq Nat \ {0}
ASSUME BatchAssumption == MaxBatches \in Nat

VARIABLES
    version,           \* the last version the master assigned, or -1
    liveCommitted,     \* MasterData::liveCommittedVersion, -1 at first
    batch,             \* per commit proxy: its batches in local order
    logging,           \* per commit proxy: latestLocalCommitBatchLogging
    committed,         \* per commit proxy: committedVersion
    pushed,            \* the pushes sent to the logs
    logVersion,        \* per log: the last version it accepted
    durable,           \* per log: queueCommittedVersion
    known,             \* per log: knownCommittedVersion
    grv,               \* per GRV proxy: the read version request in progress
    acked              \* history: the highest version a client was told of

vars == <<version, liveCommitted, batch, logging, committed, pushed, logVersion, durable, known,
          grv, acked>>

invalidVersion == -1

Stage == {"resolving", "logging", "reporting", "answering", "done", "rejecting", "rejected"}

Batch == [stage : Stage, prevVersion : Int, version : Int]

Push == [prevVersion : Nat, version : Nat, known : Nat]

Grv == [stage : {"idle", "asked", "served"}, floor : Int, version : Int]

TypeOK ==
    /\ version \in Nat \cup {invalidVersion}
    /\ liveCommitted \in Nat \cup {invalidVersion}
    /\ batch \in [CommitProxy -> Seq(Batch)]
    /\ logging \in [CommitProxy -> Nat]
    /\ committed \in [CommitProxy -> Nat]
    /\ pushed \in SUBSET Push
    /\ logVersion \in [TLog -> Nat]
    /\ durable \in [TLog -> Nat]
    /\ known \in [TLog -> Nat]
    /\ grv \in [GrvProxy -> Grv]
    /\ acked \in Nat \cup {invalidVersion}

NoGrv == [stage |-> "idle", floor |-> invalidVersion, version |-> invalidVersion]

Init ==
    /\ version = invalidVersion
    /\ liveCommitted = invalidVersion
    /\ batch = [p \in CommitProxy |-> <<>>]
    /\ logging = [p \in CommitProxy |-> 0]
    /\ committed = [p \in CommitProxy |-> RecoveryTransactionVersion]
    /\ pushed = {}
    /\ logVersion = [l \in TLog |-> LastEpochEnd]
    /\ durable = [l \in TLog |-> LastEpochEnd]
    /\ known = [l \in TLog |-> 0]
    /\ grv = [g \in GrvProxy |-> NoGrv]
    /\ acked = invalidVersion

LargerOf(a, b) == IF a >= b THEN a ELSE b

SetStage(p, n, stage) == batch' = [batch EXCEPT ![p][n].stage = stage]
-----------------------------------------------------------------------------
(***************************************************************************)
(* The commit proxies, one action per phase of commitBatchImpl.            *)
(***************************************************************************)

\* The recovery transaction is the first of the epoch; until it is answered, the
\* proxies get no other transactions and start no empty batches.
Accepting == version = invalidVersion \/ acked # invalidVersion

\* Pre-resolution: the batch gets the next version of the chain.
GetVersion(p) ==
    /\ Accepting
    /\ Len(batch[p]) < MaxBatches
    /\ \E gap \in Gap :
          LET first == version = invalidVersion
              prev == IF first THEN LastEpochEnd ELSE version
              next == IF first THEN RecoveryTransactionVersion ELSE version + gap
          IN  /\ version' = next
              /\ batch' = [batch EXCEPT ![p] = Append(@, [stage |-> "resolving",
                                                          prevVersion |-> prev, version |-> next])]
    /\ UNCHANGED <<liveCommitted, logging, committed, pushed, logVersion, durable, known, grv, acked>>

\* A batch that queued for too long is rejected before it asks for a version.
\* The first batch carries the recovery transaction and is never rejected.
Reject(p) ==
    /\ Len(batch[p]) < MaxBatches
    /\ acked # invalidVersion
    /\ batch' = [batch EXCEPT ![p] = Append(@, [stage |-> "rejecting",
                                                prevVersion |-> invalidVersion,
                                                version |-> invalidVersion])]
    /\ UNCHANGED <<version, liveCommitted, logging, committed, pushed, logVersion, durable, known,
                   grv, acked>>

\* It still waits for its turn in the local order.
FinishReject(p, n) ==
    /\ batch[p][n].stage = "rejecting"
    /\ logging[p] = n - 1
    /\ logging' = [logging EXCEPT ![p] = n]
    /\ SetStage(p, n, "rejected")
    /\ UNCHANGED <<version, liveCommitted, committed, pushed, logVersion, durable, known, grv, acked>>

\* Mutant: the window is not looked at.
InWindowAlways(p, v) == TRUE

\* The versions a proxy may push reach this far beyond what it knows committed.
InWindow(p, v) == committed[p] >= v - ReadLife

\* Mutant: the push says that the version before its own is committed.
PostResolutionOptimistic(p, n) ==
    LET b == batch[p][n]
    IN  /\ b.stage = "resolving"
        /\ logging[p] = n - 1
        /\ InWindow(p, b.version)
        /\ pushed' = pushed \cup {[prevVersion |-> b.prevVersion, version |-> b.version,
                                   known |-> b.prevVersion]}
        /\ logging' = [logging EXCEPT ![p] = n]
        /\ SetStage(p, n, "logging")
        /\ UNCHANGED <<version, liveCommitted, committed, logVersion, durable, known, grv, acked>>

\* Post-resolution: in the local order, the batch is pushed to the logs.
PostResolution(p, n) ==
    LET b == batch[p][n]
    IN  /\ b.stage = "resolving"
        /\ logging[p] = n - 1
        /\ InWindow(p, b.version)
        /\ pushed' = pushed \cup {[prevVersion |-> b.prevVersion, version |-> b.version,
                                   known |-> committed[p]]}
        /\ logging' = [logging EXCEPT ![p] = n]
        /\ SetStage(p, n, "logging")
        /\ UNCHANGED <<version, liveCommitted, committed, logVersion, durable, known, grv, acked>>

\* The master's answer to getLiveCommittedVersion.
LiveCommitted ==
    IF liveCommitted = invalidVersion THEN RecoveryTransactionVersion ELSE liveCommitted

\* Mutant: the answer of the master is not used.
PollCommittedInVain(p, n) ==
    /\ batch[p][n].stage = "resolving"
    /\ logging[p] = n - 1
    /\ ~ InWindow(p, batch[p][n].version)
    /\ liveCommitted' = LiveCommitted
    /\ UNCHANGED <<version, batch, logging, committed, pushed, logVersion, durable, known, grv, acked>>

\* While the window is exhausted the proxy asks the master what is committed.
PollCommitted(p, n) ==
    LET b == batch[p][n]
    IN  /\ b.stage = "resolving"
        /\ logging[p] = n - 1
        /\ ~ InWindow(p, b.version)
        /\ liveCommitted' = LiveCommitted
        /\ committed' = [committed EXCEPT ![p] = LargerOf(@, LiveCommitted)]
        /\ UNCHANGED <<version, batch, logging, pushed, logVersion, durable, known, grv, acked>>

\* Enough logs have made version v durable.
Logged(v) == Cardinality({l \in TLog : durable[l] >= v}) >= Cardinality(TLog) - AntiQuorum

\* Mutant: a version that is itself known to be committed counts as logged.
MayAnswerEarly(p, v) == Logged(v) \/ committed[p] >= v

\* The push was answered, or something later is known to be committed.
MayAnswer(p, v) == Logged(v) \/ committed[p] >= v + 1

\* A later batch of this proxy has not reported yet.
MustReport(p, v) == v >= committed[p]

\* The push was answered, or a later version is known to be committed.  The
\* batch reports to the master unless a later one of this proxy did.
TransactionLogging(p, n) ==
    LET b == batch[p][n]
    IN  /\ b.stage = "logging"
        /\ MayAnswer(p, b.version)
        /\ SetStage(p, n, IF MustReport(p, b.version) THEN "reporting" ELSE "answering")
        /\ UNCHANGED <<version, liveCommitted, logging, committed, pushed, logVersion, durable,
                       known, grv, acked>>

\* The clients learn the outcome.
Reply(p, n) ==
    LET b == batch[p][n]
    IN  /\ b.stage = "answering"
        /\ committed' = [committed EXCEPT ![p] = LargerOf(@, b.version)]
        /\ acked' = LargerOf(acked, b.version)
        /\ SetStage(p, n, "done")
        /\ UNCHANGED <<version, liveCommitted, logging, pushed, logVersion, durable, known, grv>>
-----------------------------------------------------------------------------
(***************************************************************************)
(* The master, the logs and the GRV proxies.                               *)
(***************************************************************************)

\* Mutant: the master takes the version before the reported one.
ServeReportStale(p, n) ==
    /\ batch[p][n].stage = "reporting"
    /\ liveCommitted' = LargerOf(liveCommitted, batch[p][n].prevVersion)
    /\ SetStage(p, n, "answering")
    /\ UNCHANGED <<version, logging, committed, pushed, logVersion, durable, known, grv, acked>>

\* reportLiveCommittedVersion, and its answer to the batch.
ServeReport(p, n) ==
    LET b == batch[p][n]
    IN  /\ b.stage = "reporting"
        /\ liveCommitted' = LargerOf(liveCommitted, b.version)
        /\ SetStage(p, n, "answering")
        /\ UNCHANGED <<version, logging, committed, pushed, logVersion, durable, known, grv, acked>>

\* tLogCommit waits for prevVersion and takes a push that is not a duplicate.
TLogCommit(l, m) ==
    /\ logVersion[l] = m.prevVersion
    /\ logVersion' = [logVersion EXCEPT ![l] = m.version]
    /\ known' = [known EXCEPT ![l] = LargerOf(@, m.known)]
    /\ UNCHANGED <<version, liveCommitted, batch, logging, committed, pushed, durable, grv, acked>>

\* doQueueCommit: what the log had accepted when the commit of its queue began
\* is durable.
QueueCommit(l, v) ==
    /\ durable[l] < v
    /\ v <= logVersion[l]
    /\ durable' = [durable EXCEPT ![l] = v]
    /\ UNCHANGED <<version, liveCommitted, batch, logging, committed, pushed, logVersion, known,
                   grv, acked>>

\* A client asks for a read version, once the recovery accepts transactions.
AskReadVersion(g) ==
    /\ grv[g].stage = "idle"
    /\ acked # invalidVersion
    /\ grv' = [grv EXCEPT ![g] = [stage |-> "asked", floor |-> acked, version |-> invalidVersion]]
    /\ UNCHANGED <<version, liveCommitted, batch, logging, committed, pushed, logVersion, durable,
                   known, acked>>

\* The master answers getLiveCommittedVersion.
ServeReadVersion(g) ==
    /\ grv[g].stage = "asked"
    /\ liveCommitted' = LiveCommitted
    /\ grv' = [grv EXCEPT ![g].stage = "served", ![g].version = LiveCommitted]
    /\ UNCHANGED <<version, batch, logging, committed, pushed, logVersion, durable, known, acked>>

\* The client has its read version; the GRV proxy is free again.
SendReadVersion(g) ==
    /\ grv[g].stage = "served"
    /\ grv' = [grv EXCEPT ![g] = NoGrv]
    /\ UNCHANGED <<version, liveCommitted, batch, logging, committed, pushed, logVersion, durable,
                   known, acked>>

Next ==
    \/ \E p \in CommitProxy :
          \/ GetVersion(p) \/ Reject(p)
          \/ \E n \in 1 .. Len(batch[p]) :
                \/ FinishReject(p, n) \/ PostResolution(p, n) \/ PollCommitted(p, n)
                \/ TransactionLogging(p, n) \/ ServeReport(p, n) \/ Reply(p, n)
    \/ \E l \in TLog, m \in pushed : TLogCommit(l, m) \/ QueueCommit(l, m.version)
    \/ \E g \in GrvProxy : AskReadVersion(g) \/ ServeReadVersion(g) \/ SendReadVersion(g)

Spec == Init /\ [][Next]_vars

\* The processes are up for the whole epoch: a failure of one of them ends it.
\* Nobody has to start a batch, and nothing is assumed of the GRV proxies.
Fairness ==
    /\ \A p \in CommitProxy : \A n \in 1 .. MaxBatches :
          WF_vars(/\ n <= Len(batch[p])
                  /\ \/ FinishReject(p, n) \/ PostResolution(p, n) \/ PollCommitted(p, n)
                     \/ TransactionLogging(p, n) \/ ServeReport(p, n) \/ Reply(p, n))
    /\ \A l \in TLog :
          /\ WF_vars(\E m \in pushed : TLogCommit(l, m))
          /\ WF_vars(\E m \in pushed : QueueCommit(l, m.version))

FairSpec == Spec /\ Fairness
-----------------------------------------------------------------------------
(***************************************************************************)
(* Correctness.                                                            *)
(***************************************************************************)

\* getLiveCommittedVersion promises "a version which (1) is committed, and (2)
\* is >= the latest version reported committed (by a commit response) when this
\* request was sent".
ReadVersionIsCurrent ==
    \A g \in GrvProxy : grv[g].stage = "served" =>
        Logged(grv[g].version) /\ grv[g].version >= grv[g].floor

\* What a client was told of survives: its version, which may have skipped the
\* answer of the logs, is durable.
AckedIsDurable == acked # invalidVersion => Logged(acked)

\* "We also maintain the invariant that master's committed version >=
\* self->committedVersion": beyond the version the epoch began with.
MasterKnowsFirst ==
    \A p \in CommitProxy :
        committed[p] > RecoveryTransactionVersion => committed[p] <= liveCommitted

\* "Storage servers mustn't make durable versions which are not fully
\* committed": a log that accepted version v proves that everything more than
\* ReadLife before v is durable.
SemiCommittedBounded ==
    \A l \in TLog :
        \A m \in pushed :
            m.version <= logVersion[l] - ReadLife /\ m.version > RecoveryTransactionVersion
                => Logged(m.version)

\* What a log keeps as knownCommittedVersion, from which a recovery starts, is
\* committed, although it comes from a proxy that may have learned of it from
\* the master only.
KnownIsCommitted ==
    \A l \in TLog : known[l] > RecoveryTransactionVersion => Logged(known[l])

\* The versions that proxies, master and logs take for committed: they have their types,
\* the master is never behind a proxy, and a log's are committed.
KnownInv == TypeOK /\ MasterKnowsFirst /\ KnownIsCommitted

\* The batch is further from the version before it than the window is wide.  The
\* recovery transaction is not: the proxies begin with its version.
TooWide(b) == b.prevVersion > LastEpochEnd /\ b.version - b.prevVersion > ReadLife

\* Batch n of proxy p, or a batch that goes before it in the local order, is such a
\* batch or has a later version than one.
BeyondWindow(p, n) ==
    \E k \in 1 .. n : \E q \in CommitProxy : \E j \in DOMAIN batch[q] :
        TooWide(batch[q][j]) /\ batch[q][j].version <= batch[p][k].version

\* Every batch is answered: the proxies wait for each other through the chain
\* of versions, the local order and the window, and never in a circle.  The
\* exception is a gap between versions above MAX_READ_TRANSACTION_LIFE_VERSIONS,
\* which the master calls the "Maximum possible version gap" but which figureVersion
\* can exceed: the batch then waits for a version that only it can commit.
BatchesFinish ==
    \A p \in CommitProxy : \A n \in 1 .. MaxBatches :
        (n <= Len(batch[p]) /\ ~ BeyondWindow(p, n))
            ~> (n <= Len(batch[p]) /\ batch[p][n].stage \in {"done", "rejected"})
=====================================================================================
