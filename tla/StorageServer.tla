------------------------------- MODULE StorageServer -------------------------------
(***************************************************************************)
(* A storage server between the transaction logs and its engine: update,   *)
(* which peeks the logs and applies what they return to the versioned map, *)
(* updateStorage, which moves old versions to the engine, getValueQ, the   *)
(* rollback by reboot after a recovery of the cluster, and restarts.       *)
(*                                                                         *)
(* One key is followed.  Its value is the sequence of the versions whose   *)
(* atomic operations made it, so an operation that is lost, applied twice  *)
(* or applied to a stale value is seen.  The logs are the environment, of  *)
(* which proxies and recoveries promise what LogPush and LogRecover state. *)
(***************************************************************************)
EXTENDS Integers, Sequences, FiniteSets, FiniteSetsExt

CONSTANTS MAX_READ_TRANSACTION_LIFE_VERSIONS,
          MAX_VERSIONS_IN_FLIGHT,
          Budgets               \* how often the environment acts, and with which mutations

\* A recovery starts above every version its predecessor can have logged.
ASSUME FlightAssumption ==
    /\ MAX_READ_TRANSACTION_LIFE_VERSIONS \in Nat \ {0}
    /\ MAX_VERSIONS_IN_FLIGHT \in Nat
    /\ MAX_VERSIONS_IN_FLIGHT > MAX_READ_TRANSACTION_LIFE_VERSIONS

\* What a version may do to the key; "none" leaves the server out.
Op == {"none", "set", "add", "clear"}

ASSUME BudgetsAssumption ==
    \A b \in Budgets : DOMAIN b = {"ops", "push", "recover", "crash", "read"} /\ b.ops \subseteq Op

VARIABLES
    log,      \* the log system: its epoch, what each epoch's cursors return, the
              \* committed version, what storage popped
    ss,       \* what struct StorageServer keeps in memory
    upd,      \* update(): idle, or between taking durableVersionLock and applying
    dur,      \* updateStorage(): its phase, newOldestVersion and desiredVersion
    kv,       \* the engine: what was written to it, and what is committed
    reader,   \* a getValue request
    left      \* what is left of the budget

vars == <<log, ss, upd, dur, kv, reader, left>>

NoEntry == [insertVersion |-> 0, value |-> <<>>]
Untouched == <<0>>      \* a version in the mutation log without a mutation of the key
Idle == [phase |-> "idle"]

Life == MAX_READ_TRANSACTION_LIFE_VERSIONS

\* The entries of f, and those of g where f has none.
Over(f, g) == [x \in DOMAIN f \cup DOMAIN g |-> IF x \in DOMAIN f THEN f[x] ELSE g[x]]

\* The numbers of a set in ascending order.
Ascending(S) ==
    [i \in 1..Cardinality(S) |-> CHOOSE w \in S : Cardinality({x \in S : x <= w}) = i]

----------------------------------------------------------------------------
\* The log system.

\* What a peek of the log system of epoch e may return.  The versions that a recovery
\* abandoned are not in it: a server that rebooted never meets them again.
Hist(e) == log.hist[e]
Top(e) == Max(DOMAIN Hist(e))

\* The value that the operations of the versions in vs make of an old one: those since
\* the last one that does not read the value, or all of them after what was there.
ValueAfter(old, h, vs) ==
    LET touched == {w \in vs : h[w] \in Op \ {"none"}}
        blind == {w \in touched : h[w] # "add"}
        since == {w \in touched : h[w] # "clear" /\ \A x \in blind : x <= w}
    IN  (IF blind = {} THEN old ELSE <<>>) \o Ascending(since)

\* database[k] @ v
DatabaseAt(h, v) == ValueAfter(<<>>, h, {w \in DOMAIN h : w <= v})

\* A proxy logs the next version.  It waits until the versions that are logged and not
\* committed fit into the window storage servers keep in memory.
LogPush(op) ==
    LET v == Top(log.epoch) + 1 IN
    /\ left.push > 0 /\ op \in left.ops
    /\ log.committed >= v - Life
    /\ log' = [log EXCEPT !.hist[log.epoch] = Over(@, [w \in {v} |-> op])]
    /\ left' = [left EXCEPT !.push = @ - 1]
    /\ UNCHANGED <<ss, upd, dur, kv, reader>>

\* The next version is on every log it needs.
LogCommit ==
    /\ log.committed < Top(log.epoch)
    /\ log' = [log EXCEPT !.committed = @ + 1]
    /\ UNCHANGED <<ss, upd, dur, kv, reader, left>>

\* A recovery keeps the versions up to lastEpochEnd, which loses nothing that is
\* committed, and its first transaction tells the storage servers.
LogRecover(lastEpochEnd) ==
    LET old == Hist(log.epoch)
        v == lastEpochEnd + MAX_VERSIONS_IN_FLIGHT
    IN
    /\ left.recover > 0
    /\ lastEpochEnd \in log.committed..Top(log.epoch)
    /\ log' = [log EXCEPT !.epoch = @ + 1,
                          !.hist = Append(@, [w \in {x \in DOMAIN old : x <= lastEpochEnd} \cup {v} |->
                                                 IF w = v THEN "end" ELSE old[w]]),
                          !.committed = v]
    /\ left' = [left EXCEPT !.recover = @ - 1]
    /\ UNCHANGED <<ss, upd, dur, kv, reader>>

Popped(v) == [log EXCEPT !.popped = Max({@, v})]

----------------------------------------------------------------------------
\* versionedData, a VersionedMap: the entry for the key in the root of each version.

At(tree, v) == tree[Max({w \in DOMAIN tree : w <= v})]
LatestVersion(tree) == Max(DOMAIN tree)
AtLatest(tree) == tree[LatestVersion(tree)]

CreateNewVersion(tree, v) == [w \in DOMAIN tree \cup {v} |-> IF w = v THEN At(tree, v) ELSE tree[w]]

Insert(tree, values) ==
    [v \in DOMAIN values \cup DOMAIN tree |->
        IF v \in DOMAIN values THEN [insertVersion |-> v, value |-> values[v]] ELSE tree[v]]

ForgetVersionsBefore(tree, v) ==
    [w \in {x \in DOMAIN tree : x > v} \cup {v} |-> At(tree, w)]

----------------------------------------------------------------------------
\* update()

\* The state setInitialVersion gives a server that found version v in its engine.
SetInitialVersion(v) ==
    [mode |-> "restored", version |-> v, desiredOldestVersion |-> v, oldestVersion |-> v,
     durableVersion |-> v, storageMinRecoverVersion |-> v, lastVersionWithData |-> v,
     restoredVersion |-> v, recoveryVersionSkips |-> <<>>, tree |-> [w \in {v} |-> NoEntry],
     mutationLog |-> <<>>, peek |-> 0]

Running == ss.mode = "running"
Serving == ss.mode \in {"running", "rebooting"}

\* What the engine may return: the committed value or the one that was written last.
EngineValues == {kv.disk.value, kv.written.value}

\* A peek of the log system in use returned the versions up to `to`.  With the lock on
\* the durable version, the old value of the key is read from the engine.
UpdateBegin(to, eager) ==
    /\ Running /\ upd = Idle
    /\ to \in DOMAIN Hist(ss.peek) /\ to > ss.version
    /\ eager \in EngineValues
    /\ upd' = [phase |-> "apply", epoch |-> ss.peek, to |-> to, eager |-> eager,
               lastTLogVersion |-> Top(ss.peek)]
    /\ UNCHANGED <<log, ss, dur, kv, reader, left>>

\* The value an atomic operation starts from.
OldValue(tree, eager) ==
    IF AtLatest(tree) # NoEntry THEN AtLatest(tree).value ELSE eager

\* Mutant: the reboot after a rollback is not remembered, versions that were restored count.
RollsBackAlways(lastEpochEnd, fromVersion, restoredVersion) == lastEpochEnd < fromVersion

\* Versions above the end of the epoch were applied, and not found on disk.
RollsBack(lastEpochEnd, fromVersion, restoredVersion) ==
    lastEpochEnd < fromVersion /\ lastEpochEnd > restoredVersion

\* The versions that the recoveries in a list skipped.
Skipped(skips) ==
    LET sum[i \in 0..Len(skips)] == IF i = 0 THEN 0 ELSE sum[i - 1] + skips[i][2]
    IN  sum[Len(skips)]

\* Mutant: the window is not subtracted from what the logs have.
ProposedOldestVersionUnsafe(s, v, lastTLogVersion) ==
    Max({Min({Max({v, lastTLogVersion}), v - 1}), s.oldestVersion, s.desiredOldestVersion})

\* The version up to which updateStorage may go: the window of readable versions, not
\* counting the versions recoveries skipped, stays in memory.
ProposedOldestVersion(s, v, lastTLogVersion) ==
    Max({Min({Max({v, lastTLogVersion}) - Life - Skipped(s.recoveryVersionSkips), v - 1}),
         s.oldestVersion, s.desiredOldestVersion})

\* A skip counts until the proposal has passed the version it starts from.
SkipsAfter(skips, proposed) ==
    LET passed == {i \in 1..Len(skips) : \A j \in 1..i : proposed > skips[j][1]}
    IN  SubSeq(skips, Cardinality(passed) + 1, Len(skips))

\* The end of an epoch that a recovery's version announces.
LastEpochEnd(v) == v - MAX_VERSIONS_IN_FLIGHT

\* StorageUpdater::applyMutation and applyPrivateData on a batch: what each version makes
\* of the key enters the map and the mutation log, and a recovery's version is a skip.
Applied(h, batch, eager) ==
    LET data == {w \in batch : h[w] # "none"}
        ends == {w \in data : h[w] = "end"}
        values == [w \in data \ ends |->
                      ValueAfter(OldValue(ss.tree, eager), h, {x \in data \ ends : x <= w})]
        skips == [i \in 1..Cardinality(ends) |->
                      LET v == Ascending(ends)[i] IN <<LastEpochEnd(v), v - LastEpochEnd(v)>>]
    IN  [ss EXCEPT !.version = Max(batch),
                   !.lastVersionWithData = Max({@} \cup data),
                   !.tree = Insert(@, values),
                   !.mutationLog = Over(values, Over([w \in ends |-> Untouched], @)),
                   !.recoveryVersionSkips = @ \o skips]

\* The recoveries' versions at which the batch stops because of versions applied before.
RollbacksIn(h, batch) ==
    {w \in batch : /\ h[w] = "end"
                   /\ RollsBack(LastEpochEnd(w),
                                Max({ss.lastVersionWithData} \cup {x \in batch : x < w /\ h[x] # "none"}),
                                ss.restoredVersion)}

\* Unless a version of the batch says that its epoch began below what was applied, the
\* new version is published, with the version up to which updateStorage may go.
UpdateApply ==
    LET h == Hist(upd.epoch)
        batch == {w \in DOMAIN h : ss.version < w /\ w <= upd.to}
        rollbacks == RollbacksIn(h, batch)
    IN
    /\ Running /\ upd # Idle
    /\ \/ /\ rollbacks # {}
          /\ ss' = [ss EXCEPT !.mode = IF LastEpochEnd(Min(rollbacks)) >= ss.oldestVersion
                                       THEN "rebooting" ELSE "assert"]
       \/ /\ rollbacks = {}
          /\ \E s \in {Applied(h, batch, upd.eager)} :
             \E proposed \in {ProposedOldestVersion(s, upd.to, upd.lastTLogVersion)} :
                ss' = [s EXCEPT !.recoveryVersionSkips = SkipsAfter(@, proposed),
                                !.tree = CreateNewVersion(@, s.version),
                                !.desiredOldestVersion = proposed]
    /\ upd' = Idle
    /\ UNCHANGED <<log, dur, kv, reader, left>>

\* storageServerCore hears of a new log system.  An update that has not received
\* anything starts again with the new cursor, one that has goes on.
NewLogSystem ==
    /\ Serving /\ ss.peek < log.epoch
    /\ ss' = [ss EXCEPT !.peek = log.epoch]
    /\ log' = Popped(ss.storageMinRecoverVersion + 1)
    /\ UNCHANGED <<upd, dur, kv, reader, left>>

----------------------------------------------------------------------------
\* updateStorage()

\* There is a version that need not stay in memory.
StoreBegin ==
    /\ Running /\ dur = Idle
    /\ ss.desiredOldestVersion > ss.oldestVersion
    /\ dur' = [phase |-> "writing", new |-> ss.oldestVersion, desired |-> ss.desiredOldestVersion]
    /\ UNCHANGED <<log, ss, upd, kv, reader, left>>

\* The part of makeVersionMutationsDurable that finds work, with what its caller does:
\* the oldest version moves as soon as the engine has the mutations, before it commits.
StoreWrite ==
    LET next == Min({w \in DOMAIN ss.mutationLog : w > dur.new}) IN
    /\ Serving /\ dur.phase = "writing"
    /\ \E w \in DOMAIN ss.mutationLog : w > dur.new /\ w <= dur.desired
    /\ kv' = IF ss.mutationLog[next] = Untouched THEN kv
             ELSE [kv EXCEPT !.written.value = ss.mutationLog[next]]
    /\ ss' = [ss EXCEPT !.oldestVersion = next, !.tree = ForgetVersionsBefore(@, next)]
    /\ dur' = [dur EXCEPT !.new = next]
    /\ UNCHANGED <<log, upd, reader, left>>

\* Nothing is left to write, or the bytes of a commit are used up: the version is
\* written beside the data and the engine starts to commit.
StoreCommit(new) ==
    /\ Serving /\ dur.phase = "writing"
    /\ \/ /\ new = dur.desired
          /\ ~ \E w \in DOMAIN ss.mutationLog : w > dur.new /\ w <= dur.desired
       \/ new = dur.new /\ new > ss.durableVersion
    /\ ss' = [ss EXCEPT !.oldestVersion = new, !.tree = ForgetVersionsBefore(@, new)]
    /\ kv' = [kv EXCEPT !.written.version = new]
    /\ dur' = [dur EXCEPT !.phase = "committing", !.new = new]
    /\ UNCHANGED <<log, upd, reader, left>>

\* The commit is on disk: durableInProgress is set.
StoreDurable ==
    /\ Serving /\ dur.phase = "committing"
    /\ kv' = [kv EXCEPT !.disk = kv.written]
    /\ dur' = [dur EXCEPT !.phase = "durable"]
    /\ UNCHANGED <<log, ss, upd, reader, left>>

\* changeDurableVersion: one version of the mutation log, and the entries it inserted
\* that are still the latest, are dropped.
ChangeDurableVersion(s, desired) ==
    LET begin == Min(DOMAIN s.mutationLog)
        found == DOMAIN s.mutationLog # {} /\ begin <= desired
        next == IF found THEN begin ELSE desired
        tree == IF found /\ LatestVersion(s.tree) <= s.version
                THEN CreateNewVersion(s.tree, s.version + 1) ELSE s.tree
        entry == AtLatest(tree)
        touched == found /\ s.mutationLog[begin] # Untouched /\ entry # NoEntry
    IN  [s EXCEPT !.mode = IF touched /\ entry.insertVersion < next THEN "assert" ELSE @,
                  !.tree = IF touched /\ entry.insertVersion = next
                           THEN [tree EXCEPT ![LatestVersion(tree)] = NoEntry] ELSE tree,
                  !.mutationLog = [w \in {x \in DOMAIN @ : x > next} |-> @[w]],
                  !.storageMinRecoverVersion = s.durableVersion,
                  !.durableVersion = next]

\* Mutant: the lock that eager reads hold is not taken.
StoreChangeUnlocked ==
    /\ Running /\ dur.phase \in {"durable", "changing"}
    /\ log' = IF dur.phase = "durable" THEN Popped(ss.storageMinRecoverVersion + 1) ELSE log
    /\ ss' = ChangeDurableVersion(ss, dur.new)
    /\ dur' = IF ss'.durableVersion = dur.new THEN Idle ELSE [dur EXCEPT !.phase = "changing"]
    /\ UNCHANGED <<upd, kv, reader, left>>

\* With durableVersionLock, the logs are told once what is not needed for a restart and
\* the durable version moves.  The lock may be released between two versions.
StoreChange ==
    /\ Running /\ dur.phase \in {"durable", "changing"} /\ upd = Idle
    /\ log' = IF dur.phase = "durable" THEN Popped(ss.storageMinRecoverVersion + 1) ELSE log
    /\ ss' = ChangeDurableVersion(ss, dur.new)
    /\ dur' = IF ss'.durableVersion = dur.new THEN Idle ELSE [dur EXCEPT !.phase = "changing"]
    /\ UNCHANGED <<upd, kv, reader, left>>

----------------------------------------------------------------------------
\* Reboots, crashes and restarts.

\* storageServer() starts on an engine whose committed state is d.
Start(d) ==
    /\ kv' = [written |-> d, disk |-> d]
    /\ ss' = SetInitialVersion(d.version)
    /\ upd' = Idle /\ dur' = Idle
    /\ reader' = IF reader.phase = "replied" THEN reader ELSE Idle

\* Mutant: a rollback does not wait for updateStorage.
RebootAtOnce ==
    /\ ss.mode = "rebooting"
    /\ Start(kv.written)
    /\ UNCHANGED <<log, left>>

\* After a rollback update() waits for durableInProgress.  The engine stays open, so
\* the commit of the restarted server takes what was written to it.
Reboot ==
    /\ ss.mode = "rebooting" /\ dur.phase \notin {"writing", "committing"}
    /\ Start(kv.written)
    /\ UNCHANGED <<log, left>>

\* The process dies: of a commit under way all or nothing is on disk.
Crash(d) ==
    /\ left.crash > 0
    /\ d \in {kv.disk} \cup (IF dur.phase = "committing" THEN {kv.written} ELSE {})
    /\ Start(d)
    /\ left' = [left EXCEPT !.crash = @ - 1]
    /\ UNCHANGED log

\* replaceInterface commits a transaction in the current epoch, so a version above the
\* restored one is committed there, before storageServerCore starts to peek.  Only when
\* there is none yet does it add a version here; a later one is a LogPush.
Register ==
    LET v == Top(log.epoch) + 1 IN
    /\ ss.mode = "restored"
    /\ ss' = [ss EXCEPT !.mode = "running", !.peek = log.epoch]
    /\ log' = IF log.committed > ss.restoredVersion THEN Popped(ss.storageMinRecoverVersion + 1)
              ELSE [Popped(ss.storageMinRecoverVersion + 1)
                        EXCEPT !.hist[log.epoch] = Over(@, [w \in {v} |-> "none"]), !.committed = v]
    /\ UNCHANGED <<upd, dur, kv, reader, left>>

----------------------------------------------------------------------------
\* getValueQ()

\* A client reads at a version that was given out as a read version.
ReadBegin(v) ==
    /\ Serving /\ reader = Idle /\ left.read > 0
    /\ v \in DOMAIN Hist(log.epoch) /\ v <= log.committed
    /\ reader' = [phase |-> "waiting", version |-> v, value |-> <<>>]
    /\ left' = [left EXCEPT !.read = @ - 1]
    /\ UNCHANGED <<log, ss, upd, dur, kv>>

\* waitForVersion, then the lookup in memory; a miss leads to the engine.
ReadLookup ==
    LET entry == At(ss.tree, reader.version) IN
    /\ Serving /\ reader.phase = "waiting" /\ reader.version <= ss.version
    /\ reader' = IF reader.version < ss.oldestVersion THEN Idle
                 ELSE IF entry = NoEntry THEN [reader EXCEPT !.phase = "engine"]
                 ELSE [reader EXCEPT !.phase = "replied", !.value = entry.value]
    /\ UNCHANGED <<log, ss, upd, dur, kv, left>>

\* The server is behind, or the version did not arrive in time.
ReadRefused ==
    /\ Serving /\ reader.phase = "waiting" /\ reader.version > ss.version
    /\ reader' = Idle
    /\ UNCHANGED <<log, ss, upd, dur, kv, left>>

\* The engine reads the value it has by now.
ReadEngine(value) ==
    /\ Serving /\ reader.phase = "engine"
    /\ value \in EngineValues
    /\ reader' = [reader EXCEPT !.phase = "read", !.value = value]
    /\ UNCHANGED <<log, ss, upd, dur, kv, left>>

\* Mutant: the version is not checked again.
ReadReplyUnchecked ==
    /\ Serving /\ reader.phase = "read"
    /\ reader' = [reader EXCEPT !.phase = "replied"]
    /\ UNCHANGED <<log, ss, upd, dur, kv, left>>

\* The answer of the engine is good only if the version was not forgotten meanwhile.
ReadReply ==
    /\ Serving /\ reader.phase = "read"
    /\ reader' = IF reader.version < ss.oldestVersion THEN Idle
                 ELSE [reader EXCEPT !.phase = "replied"]
    /\ UNCHANGED <<log, ss, upd, dur, kv, left>>

----------------------------------------------------------------------------
\* A new server starts below version 2, at which the transaction that added it committed.
Init ==
    /\ log = [epoch |-> 1, hist |-> <<[v \in 1..2 |-> "none"]>>,
              committed |-> 2, popped |-> 0]
    /\ kv = [written |-> [version |-> 1, value |-> <<>>], disk |-> [version |-> 1, value |-> <<>>]]
    /\ ss = [SetInitialVersion(1) EXCEPT !.mode = "running", !.peek = 1]
    /\ upd = Idle /\ dur = Idle /\ reader = Idle
    /\ left \in Budgets

\* What the actors of the server, and of proxies with a version to commit, do on their own.
Progress ==
    \/ LogCommit
    \/ \E eager \in EngineValues, to \in 1..Top(Max({1, ss.peek})) : UpdateBegin(to, eager)
    \/ UpdateApply
    \/ NewLogSystem
    \/ StoreBegin
    \/ StoreWrite
    \/ dur # Idle /\ \E new \in {dur.new, dur.desired} : StoreCommit(new)
    \/ StoreDurable
    \/ StoreChange
    \/ Reboot
    \/ Register

Next ==
    \/ \E op \in Op : LogPush(op)
    \/ \E v \in log.committed..Top(log.epoch) : LogRecover(v)
    \/ Progress
    \/ \E d \in {kv.disk, kv.written} : Crash(d)
    \/ \E v \in 1..log.committed : ReadBegin(v)
    \/ ReadLookup
    \/ ReadRefused
    \/ \E value \in EngineValues : ReadEngine(value)
    \/ ReadReply

Spec == Init /\ [][Next]_vars

\* The actors are scheduled: while one of them can run, one of them does.  Nothing
\* forces clients, recoveries and crashes.
FairSpec == Spec /\ WF_vars(Progress)

----------------------------------------------------------------------------
Version == Nat
Value == Seq(Nat)

\* The versions of a server are in order: what a restart needs, what is durable, what
\* was written, what may be written, what was applied.
TypeOK ==
    /\ log.epoch = Len(log.hist)
    /\ log.committed \in DOMAIN Hist(log.epoch)
    /\ ss.mode \in {"restored", "running", "rebooting", "assert"}
    /\ ss.peek \in 0..log.epoch
    /\ upd = Idle \/ upd.phase = "apply"
    /\ dur.phase \in {"idle", "writing", "committing", "durable", "changing"}
    /\ reader.phase \in {"idle", "waiting", "engine", "read", "replied"}
    /\ kv.disk \in [version : Version, value : Value]
    /\ kv.written \in [version : Version, value : Value]
    /\ ss.restoredVersion <= ss.storageMinRecoverVersion
    /\ ss.storageMinRecoverVersion <= ss.durableVersion
    /\ ss.durableVersion <= ss.oldestVersion
    /\ ss.oldestVersion <= ss.desiredOldestVersion
    /\ ss.desiredOldestVersion <= ss.version

\* The versions a client may read at.
Readable == {v \in DOMAIN Hist(log.epoch) : v <= log.committed /\ ss.oldestVersion <= v /\ v <= ss.version}

\* Reads are possible: at every readable version the map, or the engine at whichever
\* state a read meets it where the map has nothing, gives the value of the database.
ReadsPossible ==
    Serving =>
        \A v \in Readable, stored \in EngineValues :
            DatabaseAt(Hist(log.epoch), v) =
                IF At(ss.tree, v) = NoEntry THEN stored ELSE At(ss.tree, v).value

\* A getValue that is answered returns the snapshot it asked for, although the engine is
\* read without a lock and the version can be forgotten meanwhile.
ReadIsSnapshot ==
    reader.phase = "replied" => reader.value = DatabaseAt(Hist(log.epoch), reader.version)

\* What is on disk is the database at the version on disk, in the history that survived:
\* no crash, reboot or recovery leaves half of a version or one that was rolled back.
DiskIsSnapshot ==
    kv.disk.value = DatabaseAt(Hist(log.epoch), kv.disk.version)

\* The assertions of applyPrivateData and changeDurableVersion: a rollback never finds
\* its version already handed to the engine, and no entry outlives its mutation.
AssertionsHold == ss.mode # "assert"

\* What a restart would peek for has not been popped from the logs.
NeededIsNotPopped == log.popped <= kv.disk.version + 1

\* The versions a server keeps are in order, in memory, on disk and in the logs.
ServerInv == TypeOK /\ AssertionsHold /\ NeededIsNotPopped

\* Once clients, recoveries and crashes stop, the server has applied the whole log of
\* the last epoch and made durable what it may: it does not reboot for ever.
CaughtUp ==
    <>[](/\ Running /\ ss.peek = log.epoch /\ ss.version = Top(log.epoch)
         /\ ss.durableVersion = ss.desiredOldestVersion)
=============================================================================
