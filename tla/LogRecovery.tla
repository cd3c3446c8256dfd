-------------------------------- MODULE LogRecovery --------------------------------
(***************************************************************************)
(* Replacing the transaction logs: clusterRecoveryCore with epochEnd,      *)
(* getDurableVersion and newEpoch of the log system, the logs' side of it  *)
(* (tLogLock, tLogStart, rejoinClusterController, restorePersistentState)  *)
(* and what goes on meanwhile: proxies of every epoch that push and answer *)
(* clients, GRV proxies that confirm their epoch, storage servers that     *)
(* consume old generations, logs and recoveries that die.                  *)
(*                                                                         *)
(* The recoveries are tried one after the other or at the same time.  They *)
(* meet only in the coordinated state, of which this module uses what      *)
(* ExclusiveState promises: a write succeeds only if nothing was written   *)
(* since the read it is based on.                                          *)
(*                                                                         *)
(* A version stands for the mutations of all tags, so it can be read back  *)
(* only if no replica set lies among the logs that miss it.  The policy is *)
(* "any ReplicationFactor logs".  One region, no backup workers, no forced *)
(* recovery.                                                               *)
(***************************************************************************)
EXTENDS Integers, Sequences, FiniteSets, FiniteSetsExt

CONSTANTS Log,                  \* the logs of a generation
          ReplicationFactor, WriteAntiQuorum,
          Attempts,             \* bound on the recoveries
          MAX_VERSIONS_IN_FLIGHT,
          Window,               \* what proxies log beyond the committed version
          MaxPushes,            \* bound on the versions that are pushed
          Budgets               \* bounds on what may happen any number of times

\* A log set must be able to lose the anti-quorum and still hold every replica set.
ASSUME SizesAssumption ==
    /\ IsFiniteSet(Log)
    /\ WriteAntiQuorum \in Nat
    /\ ReplicationFactor \in (WriteAntiQuorum + 1)..Cardinality(Log)

\* Versions an epoch logs beyond its committed one must stay below the next epoch's.
ASSUME FlightAssumption ==
    Window \in Nat /\ MAX_VERSIONS_IN_FLIGHT \in Nat /\ MAX_VERSIONS_IN_FLIGHT > Window

Recovery == 1..Attempts
Gen == 0..Attempts          \* the generation a recovery recruits has its number
None == -1

\* What is bounded: logs lost and logs restarted, recoveries that die for a reason
\* outside this module, read versions, registrations seen by logs, and moves of the
\* storage servers.
Bounded == {"kill", "restart", "death", "read", "info", "store"}

ASSUME BudgetsAssumption == Attempts \in Nat /\ Budgets \subseteq [Bounded -> Nat]

\* No more logs are lost for ever than replication makes up for, the anti-quorum
\* counting as lost: it may never have had what was answered.
ASSUME LossAssumption ==
    \A budget \in Budgets : budget["kill"] + WriteAntiQuorum < ReplicationFactor

VARIABLES
    cstate,     \* the DBCoreState kept by the coordinators
    writes,     \* the number of its modifications
    mgr,        \* the cluster controller's recoveries
    gen,        \* of each generation: start, end of the one before, older ones, recoveryCount
    log,        \* the logs of each generation
    sent,       \* what the proxies of a generation pushed: knownCommittedVersion of each version
    committed,  \* the version the proxies of a generation answered last; None before it accepts commits
    info,       \* what a recovery registered last (ServerDBInfo): recoveryCount and logs to keep
    stored,     \* the storage servers made everything up to here durable and popped it
    reader,     \* a request for a read version
    left        \* how often each of these may still happen

vars == <<cstate, writes, mgr, gen, log, sent, committed, info, stored, reader, left>>

N == Cardinality(Log)

NoLog == [state |-> "none", version |-> None, durable |-> None, stopped |-> FALSE, finished |-> FALSE]

NoGen == [at |-> None, known |-> None, old |-> <<>>, count |-> 0]

NoReader == [phase |-> "idle", gen |-> 0, version |-> 0, floor |-> 0, confirmed |-> {}]

IdleMgr == [phase |-> "idle", prev |-> [count |-> 0, gen |-> 0, old |-> <<>>], place |-> 0,
            ends |-> [l \in Log |-> None]]

DeadMgr == [IdleMgr EXCEPT !.phase = "dead"]

\* A database that has been created: generation 0 has its first version.
Init ==
    /\ cstate = [count |-> 0, gen |-> 0, old |-> <<>>]
    /\ writes = 0
    /\ mgr = [r \in Recovery |-> IdleMgr]
    /\ gen = [g \in Gen |-> IF g = 0 THEN [NoGen EXCEPT !.at = 0, !.known = 0] ELSE NoGen]
    /\ log = [g \in Gen |-> [l \in Log |->
                 IF g = 0 THEN [NoLog EXCEPT !.state = "up", !.version = 1, !.durable = 1] ELSE NoLog]]
    /\ sent = [g \in Gen |-> IF g = 0 THEN <<0>> ELSE <<>>]
    /\ committed = [g \in Gen |-> IF g = 0 THEN 1 ELSE None]
    /\ info = [r \in Recovery |-> [count |-> None, keep |-> {}]]
    /\ stored = 0
    /\ reader = NoReader
    /\ left \in Budgets

Spend(k) == left[k] > 0 /\ left' = [left EXCEPT ![k] = @ - 1]

-----------------------------------------------------------------------------
(* Versions of a generation.                                               *)

\* Mutant: the recovery transaction is the next version.
NextRecoveryTransactionVersion(g) == gen[g].at + 1

\* readTransactionSystemState: the version of the recovery transaction.
RecoveryTransactionVersion(g) ==
    IF gen[g].at = 0 THEN 1 ELSE gen[g].at + MAX_VERSIONS_IN_FLIGHT

LastSent(g) == RecoveryTransactionVersion(g) + Len(sent[g]) - 1

NextVersion(g, v) == IF v = gen[g].at THEN RecoveryTransactionVersion(g) ELSE v + 1

\* A log's knownCommittedVersion when it is at version v.
KnownCommitted(g, v) ==
    IF v < gen[g].at THEN gen[g].known
    ELSE IF v = gen[g].at THEN gen[g].at
    ELSE sent[g][v - RecoveryTransactionVersion(g) + 1]

\* The versions a log of g that got as far as e can have entries for.
Covers(g, e, v) ==
    \/ gen[g].known < v /\ v <= gen[g].at /\ v <= e
    \/ RecoveryTransactionVersion(g) <= v /\ v <= e

\* Enough logs that no replica set is left out.
ReadQuorum(S) == N - Cardinality(S) < ReplicationFactor

\* A peek cursor passes version v of one generation.
Peekable(g, v) == ReadQuorum({l \in Log : log[g][l].state = "up" /\ Covers(g, log[g][l].version, v)})

Accepted(g) == committed[g] # None

-----------------------------------------------------------------------------
(* The commit path.                                                        *)

\* Not counting the first version of a generation.
Pushes == MapThenSumSet(LAMBDA g : Max({Len(sent[g]) - 1, 0}), Gen)

\* Mutant: the push claims that its own version is committed.
PushOptimistic(g) ==
    /\ Accepted(g)
    /\ Pushes < MaxPushes
    /\ LastSent(g) < committed[g] + Window
    /\ sent' = [sent EXCEPT ![g] = Append(@, LastSent(g) + 1)]
    /\ UNCHANGED <<cstate, writes, mgr, gen, log, committed, info, stored, reader, left>>

\* A proxy pushes the next version with what it knows to be committed.  Nothing
\* tells the proxies of an epoch that it is over.
Push(g) ==
    /\ Accepted(g)
    /\ Pushes < MaxPushes
    /\ LastSent(g) < committed[g] + Window
    /\ sent' = [sent EXCEPT ![g] = Append(@, committed[g])]
    /\ UNCHANGED <<cstate, writes, mgr, gen, log, committed, info, stored, reader, left>>

TLogCommit(g, l) ==
    LET q == log[g][l] IN
    /\ q.state = "up"
    /\ ~ q.stopped
    /\ NextVersion(g, q.version) <= LastSent(g)
    /\ log' = [log EXCEPT ![g][l].version = NextVersion(g, q.version)]
    /\ UNCHANGED <<cstate, writes, mgr, gen, sent, committed, info, stored, reader, left>>

\* doQueueCommit.
QueueCommit(g, l) ==
    LET q == log[g][l] IN
    /\ q.state = "up"
    /\ q.durable < q.version
    /\ log' = [log EXCEPT ![g][l].durable = q.version]
    /\ UNCHANGED <<cstate, writes, mgr, gen, sent, committed, info, stored, reader, left>>

\* Mutant: one log fewer is waited for.
LoggedEarly(g, v) == Cardinality({l \in Log : log[g][l].durable >= v}) >= N - WriteAntiQuorum - 1

Logged(g, v) == Cardinality({l \in Log : log[g][l].durable >= v}) >= N - WriteAntiQuorum

\* The push is complete: the master is told and the client gets its answer.
Answer(g) ==
    /\ Accepted(g)
    /\ committed[g] < LastSent(g)
    /\ Logged(g, committed[g] + 1)
    /\ committed' = [committed EXCEPT ![g] = @ + 1]
    /\ UNCHANGED <<cstate, writes, mgr, gen, log, sent, info, stored, reader, left>>

-----------------------------------------------------------------------------
(* Read versions.                                                          *)

Answered == Max({committed[g] : g \in Gen})

\* getLiveCommittedVersion: the master's answer, at the earliest.
AskReadVersion(g) ==
    /\ reader.phase = "idle"
    /\ Spend("read")
    /\ Accepted(g)
    /\ reader' = [phase |-> "confirming", gen |-> g, version |-> committed[g],
                  floor |-> Answered, confirmed |-> {}]
    /\ UNCHANGED <<cstate, writes, mgr, gen, log, sent, committed, info, stored>>

ConfirmRunning(l) ==
    LET q == log[reader.gen][l] IN
    /\ reader.phase = "confirming"
    /\ l \notin reader.confirmed
    /\ q.state = "up"
    /\ ~ q.stopped
    /\ reader' = [reader EXCEPT !.confirmed = @ \cup {l}]
    /\ UNCHANGED <<cstate, writes, mgr, gen, log, sent, committed, info, stored, left>>

\* Mutant: one log too few.
EpochLiveFewer(S) == Cardinality(S) >= ReplicationFactor - 1

\* confirmEpochLive: the logs that answered satisfy the policy.
EpochLive(S) == Cardinality(S) >= ReplicationFactor

SendReadVersion ==
    /\ reader.phase = "confirming"
    /\ EpochLive(reader.confirmed)
    /\ reader' = [reader EXCEPT !.phase = "done"]
    /\ UNCHANGED <<cstate, writes, mgr, gen, log, sent, committed, info, stored, left>>

-----------------------------------------------------------------------------
(* Ending the old epoch.                                                   *)

Chain(c) == {c.gen} \cup {c.old[i].gen : i \in DOMAIN c.old}

Ending(r) == mgr[r].phase \in {"locking", "recruiting"}

\* The recovery ends with an error or is cancelled.  Logs it recruited that are not
\* in the coordinated state are known to nobody.
Dies(r) ==
    /\ mgr' = [mgr EXCEPT ![r] = DeadMgr]
    /\ IF Accepted(r) THEN UNCHANGED <<gen, log, sent>>
       ELSE /\ gen' = [gen EXCEPT ![r] = NoGen]
            /\ log' = [log EXCEPT ![r] = [l \in Log |-> NoLog]]
            /\ sent' = [sent EXCEPT ![r] = <<>>]

Die(r) ==
    /\ Spend("death")
    /\ mgr[r].phase \notin {"idle", "dead"}
    /\ Dies(r)
    /\ UNCHANGED <<cstate, writes, committed, info, stored, reader>>

\* A log of the new generation failed or refuses commits: cluster_recovery_failed,
\* tlog_failed or, by way of the proxies, tlog_stopped.  A restarted log is another
\* one to the recovery that recruited it.
LogFailed(r) ==
    /\ mgr[r].phase \notin {"idle", "dead"}
    /\ \E l \in Log : log[r][l].state \in {"down", "gone"} \/ log[r][l].stopped
    /\ Dies(r)
    /\ UNCHANGED <<cstate, writes, committed, info, stored, reader, left>>

\* cstate.read().  Attempts are used in order, which is only a matter of names.
ReadCState(r) ==
    /\ mgr[r].phase = "idle"
    /\ \A q \in 1..(r - 1) : mgr[q].phase # "idle"
    /\ mgr' = [mgr EXCEPT ![r] = [IdleMgr EXCEPT !.phase = "locking", !.prev = cstate, !.place = writes]]
    /\ UNCHANGED <<cstate, writes, gen, log, sent, committed, info, stored, reader, left>>

\* tLogLock begins: the log is stopped at its version.
TLogStop(r, l) ==
    LET g == mgr[r].prev.gen IN
    /\ Ending(r)
    /\ log[g][l].state = "up"
    /\ ~ log[g][l].stopped
    /\ log' = [log EXCEPT ![g][l].stopped = TRUE]
    /\ UNCHANGED <<cstate, writes, mgr, gen, sent, committed, info, stored, reader, left>>

LockReady(q) == q.stopped /\ q.durable = q.version

\* tLogLock answers once what it has is durable.
TLogLockReply(r, l) ==
    LET q == log[mgr[r].prev.gen][l] IN
    /\ Ending(r)
    /\ mgr[r].ends[l] = None
    /\ q.state = "up"
    /\ LockReady(q)
    /\ mgr' = [mgr EXCEPT ![r].ends[l] = q.version]
    /\ UNCHANGED <<cstate, writes, gen, log, sent, committed, info, stored, reader, left>>

TooManyFailures(results) ==
    LET unresponsive == N - Cardinality(results) IN
    \/ Cardinality(results) <= WriteAntiQuorum
    \/ unresponsive + WriteAntiQuorum >= ReplicationFactor

\* The k-th of the ends, in ascending order and counted from zero.
Kth(ends, results, k) ==
    CHOOSE v \in {ends[l] : l \in results} :
        /\ Cardinality({l \in results : ends[l] < v}) <= k
        /\ Cardinality({l \in results : ends[l] <= v}) > k

SafeBegin(results) == Min({WriteAntiQuorum, Cardinality(results) - 1})

SafeEnd(results) == Max({ReplicationFactor - (N - Cardinality(results)), 1})

\* getDurableVersion: where the epoch ends for a set of answers; with an earlier
\* result only if that one can no longer be read.
DurableEnd(ends, results) == Kth(ends, results, SafeBegin(results))

\* Mutant: the first result is final.
RestartsNever(ends, results, lastEnd) == lastEnd = None

Restarts(ends, results, lastEnd) ==
    \/ lastEnd = None
    \/ /\ SafeEnd(results) - 1 < Cardinality(results)
       /\ Kth(ends, results, SafeEnd(results) - 1) < lastEnd

\* epochEnd: results are the answers of logs that are not seen as failed, rightly or
\* wrongly.  They give a first or an earlier end; whatever was recruited for a later
\* one is dropped.
EpochEnd(r, results) ==
    LET m == mgr[r]
        end == DurableEnd(m.ends, results)
        known == Max({KnownCommitted(m.prev.gen, m.ends[l]) : l \in results} \cup {gen[r].known, 0})
        capped == Min({known, end})
    IN  /\ Ending(r)
        /\ \A l \in results : m.ends[l] # None
        /\ ~ TooManyFailures(results)
        /\ Restarts(m.ends, results, gen[r].at)
        /\ gen[r].at = None \/ end < gen[r].at
        /\ gen' = [gen EXCEPT ![r] =
              [at |-> end, known |-> capped, count |-> 0,
               old |-> <<[gen |-> m.prev.gen, end |-> capped + 1, at |-> end]>> \o m.prev.old]]
        /\ log' = [log EXCEPT ![r] = [l \in Log |-> NoLog]]
        /\ UNCHANGED <<cstate, writes, mgr, sent, committed, info, stored, reader, left>>

-----------------------------------------------------------------------------
(* The new epoch.                                                          *)

\* setExclusive of the coordinated state; the loser ends with
\* coordinated_state_conflict.
WriteCState(r, new) ==
    /\ mgr[r].place = writes
    /\ cstate' = new
    /\ writes' = writes + 1

\* cstate.write(recoveryCount + 1): from here on no other recovery can succeed
\* without this one's knowledge.
LockCState(r) ==
    LET m == mgr[r]
        new == [m.prev EXCEPT !.count = @ + 1]
    IN  /\ m.phase = "locking"
        /\ \/ /\ WriteCState(r, new)
              /\ mgr' = [mgr EXCEPT ![r].phase = "recruiting", ![r].place = writes + 1]
              /\ info' = [info EXCEPT ![r] = [count |-> new.count, keep |-> Chain(m.prev)]]
              /\ UNCHANGED <<gen, log, sent>>
           \/ /\ m.place # writes
              /\ Dies(r)
              /\ UNCHANGED <<cstate, writes, info>>
        /\ UNCHANGED <<committed, stored, reader, left>>

\* newEpoch: tLogStart of each new log copies what may not be committed of the old
\* generation; the logs are used when all have answered.
NewEpoch(r) ==
    LET m == mgr[r] IN
    /\ m.phase = "recruiting"
    /\ gen[r].at # None
    /\ \A l \in Log : log[r][l].state = "none"
    /\ gen[r].known < gen[r].at => Peekable(m.prev.gen, gen[r].at)
    /\ log' = [log EXCEPT ![r] = [l \in Log |->
          [NoLog EXCEPT !.state = "up", !.version = gen[r].at, !.durable = gen[r].known]]]
    /\ UNCHANGED <<cstate, writes, mgr, gen, sent, committed, info, stored, reader, left>>

\* recoverFrom is done and the recovery transaction is sent; epochEnd is cancelled.
RecoveryTransaction(r) ==
    LET m == mgr[r] IN
    /\ m.phase = "recruiting"
    /\ \A l \in Log : log[r][l].state = "up"
    /\ mgr' = [mgr EXCEPT ![r].phase = "transaction"]
    /\ gen' = [gen EXCEPT ![r].count = m.prev.count + 2]
    /\ sent' = [sent EXCEPT ![r] = <<gen[r].at>>]
    /\ info' = [info EXCEPT ![r].keep = @ \cup {r}]
    /\ UNCHANGED <<cstate, writes, log, committed, stored, reader, left>>

\* toCoreState.
CoreState(r) ==
    [count |-> gen[r].count, gen |-> r,
     old |-> IF \A l \in Log : log[r][l].finished THEN <<>> ELSE gen[r].old]

\* Mutant: the new generation is written with its recovery transaction, whatever
\* another recovery has written.
WriteNewCStateBlindly(r) ==
    /\ mgr[r].phase = "transaction"
    /\ cstate' = CoreState(r)
    /\ writes' = writes + 1
    /\ mgr' = [mgr EXCEPT ![r] = [IdleMgr EXCEPT !.phase = "accepting", !.place = writes + 1]]
    /\ committed' = [committed EXCEPT ![r] = RecoveryTransactionVersion(r)]
    /\ info' = [info EXCEPT ![r] = [count |-> gen[r].count, keep |-> Chain(CoreState(r))]]
    /\ UNCHANGED <<gen, log, sent, stored, reader, left>>

\* trackTlogRecovery writes the new generation; clients are told of the proxies.
WriteNewCState(r) ==
    LET m == mgr[r] IN
    /\ m.phase = "transaction"
    /\ Logged(r, RecoveryTransactionVersion(r))
    /\ \/ /\ WriteCState(r, CoreState(r))
          /\ mgr' = [mgr EXCEPT ![r] = [IdleMgr EXCEPT !.phase = "accepting", !.place = writes + 1]]
          /\ committed' = [committed EXCEPT ![r] = RecoveryTransactionVersion(r)]
          /\ info' = [info EXCEPT ![r] = [count |-> gen[r].count, keep |-> Chain(CoreState(r))]]
          /\ UNCHANGED <<gen, log, sent>>
       \/ /\ m.place # writes
          /\ Dies(r)
          /\ UNCHANGED <<cstate, writes, committed, info>>
    /\ UNCHANGED <<stored, reader, left>>

\* The later writes of trackTlogRecovery, with fewer old generations.
UpdateCState(r) ==
    /\ mgr[r].phase = "accepting"
    /\ cstate # CoreState(r)
    /\ \/ /\ WriteCState(r, CoreState(r))
          /\ mgr' = [mgr EXCEPT ![r].place = writes + 1]
          /\ info' = [info EXCEPT ![r].keep = Chain(CoreState(r))]
          /\ UNCHANGED <<gen, log, sent>>
       \/ /\ mgr[r].place # writes
          /\ Dies(r)
          /\ UNCHANGED <<cstate, writes, info>>
    /\ UNCHANGED <<committed, stored, reader, left>>

-----------------------------------------------------------------------------
(* Old generations are consumed.                                           *)

\* The cursor of a storage server reads version v through generation g.
Readable(g, v) ==
    \/ Peekable(g, v)
    \/ \E i \in DOMAIN gen[g].old : v < gen[g].old[i].end /\ Peekable(gen[g].old[i].gen, v)

Versions(g) == {v \in 1..LastSent(g) : \E h \in Gen : Accepted(h) /\ Covers(h, LastSent(h), v)}

\* The storage servers make durable and pop versions.  They keep a window of versions in
\* memory, so what is durable is at most what the logs know to be committed.
StorageDurable(g) ==
    /\ Spend("store")
    /\ Accepted(g)
    /\ \E l \in Log :
          LET known == KnownCommitted(g, log[g][l].version) IN
          /\ log[g][l].state = "up"
          /\ stored < known
          /\ \A v \in Versions(g) : stored < v /\ v <= known => Readable(g, v)
          /\ stored' = known
    /\ UNCHANGED <<cstate, writes, mgr, gen, log, sent, committed, info, reader>>

\* tLogPop, of the version after what is stored, and doQueueCommit send recoveryComplete.
RecoveryFinished(g, l) ==
    LET q == log[g][l] IN
    /\ q.state = "up"
    /\ ~ q.stopped
    /\ ~ q.finished
    /\ stored + 1 > gen[g].at
    /\ KnownCommitted(g, q.durable) >= gen[g].at
    /\ gen[g].old # <<>>
    /\ log' = [log EXCEPT ![g][l].finished = TRUE]
    /\ UNCHANGED <<cstate, writes, mgr, gen, sent, committed, info, stored, reader, left>>

\* The oldest generation's recoverAt that not every tag has been popped beyond:
\* a generation goes when the one after it has been reached.
Unpopped(old) ==
    Min({old[i].at : i \in {j \in DOMAIN old : j = 1 \/ old[j - 1].at >= stored + 1}})

\* purgeOldRecoveredGenerations, before the next write of the core state: the list is
\* cut before the first generation that is not needed.
Purge(r) ==
    LET old == gen[r].old
        Unneeded(i) == old[i].at < Unpopped(old)
    IN  /\ mgr[r].phase = "accepting"
        /\ \E i \in DOMAIN old :
              LET kept == SubSeq(old, 1, i - 1) IN
              /\ Unneeded(i)
              /\ \A j \in 1..(i - 1) : ~ Unneeded(j)
              /\ gen' = [gen EXCEPT ![r].old = kept]
              /\ info' = [info EXCEPT ![r].keep = {r} \cup {kept[j].gen : j \in DOMAIN kept}]
        /\ UNCHANGED <<cstate, writes, mgr, log, sent, committed, stored, reader, left>>

-----------------------------------------------------------------------------
(* What happens to a log.                                                  *)

Displaced(r, g) == g \notin info[r].keep /\ info[r].count >= gen[g].count

\* rejoinClusterController with what some recovery registered: the log is removed
\* with its data, or at least stopped.
SeeInfo(r, g, l) ==
    LET q == log[g][l] IN
    /\ Spend("info")
    /\ Accepted(g)
    /\ info[r].count # None
    /\ q.state = "up"
    /\ \/ /\ Displaced(r, g)
          /\ log' = [log EXCEPT ![g][l].state = "gone"]
       \/ /\ ~ Displaced(r, g)
          /\ info[r].count > gen[g].count
          /\ ~ q.stopped
          /\ log' = [log EXCEPT ![g][l].stopped = TRUE]
    /\ UNCHANGED <<cstate, writes, mgr, gen, sent, committed, info, stored, reader>>

Crash(g, l) ==
    /\ Spend("restart")
    /\ log[g][l].state = "up"
    /\ log' = [log EXCEPT ![g][l].state = "down"]
    /\ UNCHANGED <<cstate, writes, mgr, gen, sent, committed, info, stored, reader>>

\* restorePersistentState: what was in the queue, at least all that was durable.  The
\* log only serves what it has.
Restart(g, l) ==
    LET q == log[g][l] IN
    /\ q.state = "down"
    /\ \E v \in {q.durable} \cup {u \in q.durable..q.version : Covers(g, q.version, u)} :
          log' = [log EXCEPT ![g][l] = [q EXCEPT !.state = "up", !.version = v, !.durable = v,
                                                 !.stopped = TRUE]]
    /\ UNCHANGED <<cstate, writes, mgr, gen, sent, committed, info, stored, reader, left>>

\* A log is lost for ever; a generation survives so many.
Kill(g, l) ==
    /\ Spend("kill")
    /\ log[g][l].state \in {"up", "down"}
    /\ Accepted(g)
    /\ log' = [log EXCEPT ![g][l].state = "gone"]
    /\ UNCHANGED <<cstate, writes, mgr, gen, sent, committed, info, stored, reader>>

-----------------------------------------------------------------------------
Next ==
    \/ \E g \in Gen : Push(g) \/ Answer(g) \/ AskReadVersion(g) \/ StorageDurable(g)
    \/ SendReadVersion
    \/ \E l \in Log : ConfirmRunning(l)
    \/ \E g \in Gen, l \in Log :
          \/ TLogCommit(g, l) \/ QueueCommit(g, l) \/ RecoveryFinished(g, l)
          \/ Crash(g, l) \/ Restart(g, l) \/ Kill(g, l)
    \/ \E r \in Recovery :
          \/ ReadCState(r) \/ LockCState(r) \/ NewEpoch(r) \/ RecoveryTransaction(r)
          \/ \E results \in SUBSET Log : EpochEnd(r, results)
          \/ WriteNewCState(r) \/ UpdateCState(r) \/ Purge(r) \/ Die(r) \/ LogFailed(r)
    \/ \E r \in Recovery, l \in Log : TLogStop(r, l) \/ TLogLockReply(r, l)
    \/ \E r \in Recovery, g \in Gen, l \in Log : SeeInfo(r, g, l)

Spec == Init /\ [][Next]_vars

\* Messages arrive, queues commit, logs that can restart do, and the failure
\* monitor ends up with the truth.
Fairness ==
    /\ \A g \in Gen, l \in Log : /\ WF_vars(TLogCommit(g, l))
                                 /\ WF_vars(QueueCommit(g, l))
                                 /\ WF_vars(Restart(g, l))
    /\ \A r \in Recovery :
          /\ \A l \in Log : WF_vars(TLogStop(r, l)) /\ WF_vars(TLogLockReply(r, l))
          /\ WF_vars(EpochEnd(r, {l \in Log : mgr[r].ends[l] # None
                                             /\ log[mgr[r].prev.gen][l].state = "up"}))
          /\ WF_vars(LockCState(r))
          /\ WF_vars(NewEpoch(r))
          /\ WF_vars(RecoveryTransaction(r))
          /\ WF_vars(WriteNewCState(r))
          /\ WF_vars(LogFailed(r))

FairSpec == Spec /\ Fairness

-----------------------------------------------------------------------------
(* Properties.                                                             *)

CoreStates == [count : Nat, gen : Gen, old : Seq([gen : Gen, end : Nat, at : Nat])]

\* The variables have their types.
TypeOK ==
    /\ cstate \in CoreStates
    /\ writes \in Nat
    /\ mgr \in [Recovery -> [phase : {"idle", "locking", "recruiting", "transaction", "accepting", "dead"},
                             prev : CoreStates, place : Nat, ends : [Log -> Nat \cup {None}]]]
    /\ gen \in [Gen -> [at : Nat \cup {None}, known : Nat \cup {None}, count : Nat,
                        old : Seq([gen : Gen, end : Nat, at : Nat])]]
    /\ log \in [Gen -> [Log -> [state : {"none", "up", "down", "gone"}, version : Nat \cup {None},
                                durable : Nat \cup {None}, stopped : BOOLEAN, finished : BOOLEAN]]]
    /\ sent \in [Gen -> Seq(Nat)]
    /\ committed \in [Gen -> Nat \cup {None}]
    /\ info \in [Recovery -> [count : Nat \cup {None}, keep : SUBSET Gen]]
    /\ stored \in Nat
    /\ reader \in [phase : {"idle", "confirming", "done"}, gen : Gen, version : Nat, floor : Nat,
                   confirmed : SUBSET Log]
    /\ left \in [Bounded -> Nat]

\* A replica of every tag's mutations of version v is on a log that still exists.
Kept(g, v) ==
    ReadQuorum({l \in Log : log[g][l].state \in {"up", "down"} /\ Covers(g, log[g][l].durable, v)})

\* Whoever recovers from the coordinated state finds version v.
Survives(v) ==
    \/ v <= stored
    \/ Kept(cstate.gen, v)
    \/ \E i \in DOMAIN cstate.old : v < cstate.old[i].end /\ Kept(cstate.old[i].gen, v)

AnsweredVersions(g) == IF Accepted(g) THEN RecoveryTransactionVersion(g)..committed[g] ELSE {}

\* No commit a client was told of is lost, by whichever proxy, however late: it is
\* in the storage servers or in the generations the coordinated state names, below
\* the point where the next one took over.
AnsweredSurvives == \A g \in Gen : \A v \in AnsweredVersions(g) : Survives(v)

\* A read version is at least every version that had been answered when it was
\* asked for, also by the proxies of a later epoch the GRV proxy knows nothing of.
ReadVersionIsCurrent == reader.phase = "done" => reader.version >= reader.floor

\* What a log told storage servers is known to be committed is never undone by the
\* recovery that replaces it; they make it durable and cannot roll it back.
KnownIsKept ==
    \A i \in DOMAIN cstate.old : \A l \in Log :
        LET q == log[cstate.old[i].gen][l]
        IN  q.state # "none" => KnownCommitted(cstate.old[i].gen, q.version) <= cstate.old[i].at

\* A new generation begins beyond every version that a log of the generation before
\* it ever held, so that a storage server can tell what to roll back.
VersionsNotReused ==
    \A i \in DOMAIN cstate.old : \A l \in Log :
        log[cstate.old[i].gen][l].version <
            RecoveryTransactionVersion(IF i = 1 THEN cstate.gen ELSE cstate.old[i - 1].gen)

\* Of two generations that accepted commits one is an ancestor of the other: no two
\* recoveries replace the same logs.
ImmediateSuccessors ==
    \A g, h \in Gen \ {0} :
        Accepted(g) /\ Accepted(h) /\ g # h /\ gen[g].old # <<>> /\ gen[h].old # <<>>
            => gen[g].old[1].gen # gen[h].old[1].gen

\* What recoveries leave behind: the variables have their types, and the generations
\* that accepted commits form a line.
RecoveryInv == TypeOK /\ ImmediateSuccessors

\* The end that a recovery gives the epoch before it takes nothing back: neither what
\* clients were answered nor what storage servers were told is committed.
KeptInv == AnsweredSurvives /\ KnownIsKept

\* A recovery ends, one way or the other, as long as no more logs are lost than the
\* replication allows: the end of the old epoch it settles for can be read.
RecoveryEnds ==
    \A r \in Recovery :
        mgr[r].phase \in {"locking", "recruiting", "transaction"} ~> mgr[r].phase \in {"accepting", "dead"}

=============================================================================
