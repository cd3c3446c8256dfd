# TLA+ models of the FoundationDB transaction system

This directory holds TLA+ specifications of the core of FoundationDB, the TLC
configurations that check them on small instances, and TLAPS proofs that hold for
every size: of the coordinators' replicated state, its moves, the assignment of
versions, the commit pipeline, the replacement of the transaction logs and the
election of the cluster controller. Paths below are relative to `src/`.

## 1. Inventory

FoundationDB separates the *control plane* (coordinators, cluster controller,
recovery) from the *data plane* of one epoch (master, commit proxies, resolvers,
transaction logs, GRV proxies, storage servers). A failure of any transaction
role ends the epoch: a recovery locks the old logs, recruits new roles and
writes the new topology to the coordinated state.

| Component | State it keeps | Operations | Hard part | Correct when |
|---|---|---|---|---|
| Coordinator, `Coordination.actor.cpp` | one durable generation register per key; leader nominees | read(gen), write(value, gen); candidacy, heartbeat | late, lost and repeated requests, restarts | registers never go back; a write is refused after a later read |
| `CoordinatedState.actor.cpp` | generation, doomed, initial, stage of one attempt | read, onConflict, setExclusive, (move) | quorums over empty and non-empty registers, contention, dying clients | successful modifications form one sequence |
| Master, `masterserver.actor.cpp` | last version, kept replies per proxy, live committed version | getVersion, getLiveCommittedVersion, reportLiveCommittedVersion | repeated and overtaking requests, clock adjustment | one chain of versions without holes; read versions are committed and current |
| `ResolutionBalancer.actor.cpp` | pending move, proxies that need it | move a key range, hand it out | proxies learn of a move at different times | reads are checked against all writes |
| Commit proxy, `CommitProxyServer.actor.cpp` | batches in local order, committedVersion, txnStateStore, keyResolvers | phases of commitBatch | pipelining, the MVCC window, other proxies' metadata | answered commits are durable; same metadata everywhere; no circular waiting |
| Resolver, `Resolver.actor.cpp` | version, conflict set, replies per proxy, recent state transactions | resolveBatch | duplicates, erasing, memory limit | same answer to repeated requests, nothing unseen erased, no deadlock |
| Conflict set, `SkipList.cpp` | last write version per key range | addTransaction, detectConflicts, setOldest | half-open ranges, intra-batch conflicts, garbage collection | a committed history is serializable |
| Transaction log, `TLogServer.actor.cpp` | version, queue, knownCommittedVersion, per-tag data | commit, peek, pop, lock | order of versions, durability, spilling, recovery | a prefix of the chain; committed data survives |
| Log system, `TagPartitionedLogSystem.actor.cpp` | log sets of this and older epochs | push, peek, epochEnd | quorums, locked logs, known committed version | no committed version lost at epoch end |
| GRV proxy, `GrvProxyServer.actor.cpp` | request queues, rate | getReadVersion | causality across proxies and epochs | strict serializability |
| Recovery, `ClusterRecovery.actor.cpp` | recovery state, log sets of this and older epochs | lock, recruit, write state, commit | competing recoveries, crash between steps | one successor per epoch |
| Leader election, `LeaderElection.actor.cpp` | candidacy | nominate, heartbeat | timeouts racing heartbeats | eventually one leader |
| Storage server, `storageserver.actor.cpp` | versioned map, mutation log, oldest, durable and desired versions, shards | update, updateStorage, read, fetchKeys, rollback | old values read from an engine that is being written, rollback by reboot, fetching while updating | reads and the disk are snapshots of what survived recoveries |
| Data distribution, `MoveKeys.actor.cpp`, ... | ownership of shards, lock | startMoveKeys, finishMoveKeys | two distributors, partial moves | no shard without owner |
| Disk queue, memory engine | two files, sequence numbers | push, pop, commit, recover | crash between writes | a prefix is recovered |
| Client, `NativeAPI.actor.cpp`, task bucket | transaction, retries | commit, onError | commit_unknown_result | effects at most once where promised |

Interaction inside an epoch: a commit proxy asks the master for a version, sends
the batch to all resolvers, applies the metadata of other proxies from their
replies, pushes to the logs, reports to the master, answers the clients. A GRV
proxy asks the master for the live committed version. Everything is ordered by
the chain `prevVersion -> version`: resolvers and logs process a batch when they
have processed its `prevVersion`.

`PROJECT.json` lists every component with its status, and under `hazards` the
places in the code that are hard to test, each with the properties about it.

## 2. Plan

Done, in this order: `CoordinatedState` (everything rests on it) and its proofs,
`VersionAssignment`, `CommitPipeline`, `Resolution`, `MovableState`,
`LeaderElection`, `ConflictSet`, `LogRecovery`, `StorageServer`; then the proofs of
`CommitPipeline`, `VersionAssignment`, `MovableState`, `LogRecovery`,
`LeaderElection`, `StorageServer` and `Resolution`.

How they fit together: `MovableState` and `LogRecovery` use the coordinated state
only as `ExclusiveState` describes it, which `CoordinatedState` is proved to
implement. `CommitPipeline` and `Resolution` use one chain of versions, which
`VersionAssignment` is proved to give. `Resolution` leaves the verdict on a transaction
open, which `ConflictSet` decides. `StorageServer` uses of the logs what
`CommitPipeline` (the window, `SemiCommittedBounded`) and `LogRecovery`
(`KeptInv`, `VersionsNotReused`) are proved to have.

Left, in this order:

1. `Serializability`: `ConflictSet` with several resolvers, `keyResolvers` and the
   window.
2. `DiskQueue`: crash recovery of the two-file queue.
3. `fetchKeys` with `MoveKeys`: moving a shard while it is written.
4. `TaskBucket`, client retries.

## 3. Modules

`map` in `PROJECT.json` gives the lines behind every definition.

### UniqueGenerations, ExclusiveState, CoordinatedState

`UniqueGenerations` is the ordered pair (number, UID). `CoordinatedState` has
the durable registers `reg` and, per `CoordinatedStateImpl` object ("client"),
`stage`, `gen`, `conflictGen`, `doomed`, `initial` as in the code, the reply its
read was built from (`seen`), and the answers that arrived. `ServeQuery`,
`ServeRead` and `ServeWrite` are the two branches of `localGenerationReg`; a
coordinator handles one request at a time and answers after its commit, so a
served request is atomic, and a crash in between is a request not served. A
request can be served as long as it was ever sent, any number of times; the
answer may be lost. `ChooseGeneration`, `FinishRead`, `FinishPoll` and
`FinishWrite` resume the actor with any set of answers that satisfies its
quorum. `Up` are the coordinators that can be reached: all of them in the safety
run, a majority in the liveness run. The value a client writes is the client's name. `before` is a history
variable.

`ExclusiveState` states what `CoordinatedState.h` promises. When `read()` returns
the client gets a place in one serial order, after everything that was complete
when it began to read, and no successful modification before its place is
missed by what it read. `setExclusive()` may return Void only when the
modification it read is still the most recent one before its place.
`CoordinatedState` implements it with `place <- gen`, `from <- seen.gen`.

### MovableState

`MovableCoordinatedStateImpl` and `ReusableCoordinatedState`. A process is one
recovery with its home coordinators; every `CoordinatedState` object it makes is
a slot that goes through one read and at most one write. What one set of
coordinators does is taken from `ExclusiveState`, as guards (`ReadReturns`,
`Serializes`, `Success`): an assumption of this module, which `CoordinatedState`
is proved to satisfy. The
actions follow the waits: `FinishRead` with `MustMove` (an interrupted move is
found and done again), `Write`, `FinishWrite` and `Reread` (`_write` reads again
to be able to write once more), `Move` with its reads and writes on the new and
the old coordinators, `FinishMaybeTo` and `Forward`. A process may stop for ever
between any two steps. The saved state is the set of modifications it was built
from, so a fork of the history is visible in the state itself. Serialization and
the cluster file are left out.

### LeaderElection

`leaderRegister` (candidacies, heartbeats, `getLeader`, the interval that picks
a nominee, `notifyCheck`), `leaderServer` (forwarding, `setForward` with its
commit, restarts), `tryBecomeLeaderInternal` with `submitCandidacy`, and
`monitorLeaderOneGeneration`. A change ID is a fitness and a random number.
Without `Timely` nothing is known about speeds; the safety run uses that. With
`Timely`, the liveness run, messages are handled in lockstep and faster than
intervals, one receiver after the other (handlers of different receivers change
different state, so one order stands for all), every leader's heartbeat arrives in
every interval (so the race of a heartbeat with the timeout at
`Coordination.actor.cpp:305` is assumed away there), intervals end at
the same rate everywhere (`candidateDelay` has grown to its maximum), a bad
candidate waits `Patience` = 3 rounds (2 * POLLING_FREQUENCY is 4 s, a round is
CANDIDATE_MAX_DELAY = 1 s plus the delay of its messages; less patience disturbs
the election more), and faults (restart of a coordinator, death of a process, change of
fitness) happen only with no message in flight. `notifyCheck` only shortens a
wait and is left out when `Timely`. `openDatabase` and `electionResult`
requests wait for the same notifications and are not modelled.

### VersionAssignment

`getVersionCxx` (`AnswerRepeated`, `IgnoreAcknowledged`, `AssignVersion`),
`figureVersionCxx` (`FigureVersion`), the hand-out of a move
(`SetChangesInReply`, `Balance`), and the proxies' side (`RequestVersion`,
`ReceiveVersion`, `Coalesce`). A proxy has one request outstanding because
`preresolutionProcessing` of a batch waits for the batch before. The wall clock
is the set `Expected` of versions it may call for, elapsed time the set `ToAdd`,
which the code keeps between 1 and MAX_READ_TRANSACTION_LIFE_VERSIONS. The
properties follow one key range. A request from a proxy that was not recruited
is answered with Never and left out.

### CommitPipeline

One action per phase of `commitBatchImpl`; the logs (`tLogCommit`,
`doQueueCommit`), the master's committed version, and the GRV proxies. The
version comes from the chain in one step, which `VersionAssignment` justifies.
Resolution takes any time. `committed[p]` starts at the recovery transaction's
version, as in `ProxyCommitData`. The report to the master is one atomic step
with its answer because the proxy does nothing in between that others see.

### Resolution

`resolveBatch` split at its waits: `Admit` (arrival and the memory check),
`Resolve` (from the version check to the answer, which contains no wait) and
`ResolveDuplicate`. `recent` is `recentStateTransactions`, a map by version, `Listed`
goes through it in order, `Sized` derives the versions with bytes, `needed` is `neededVersion`, `minRecent` is
`debugMinRecentStateVersion`. The proxies' side is `SendBatch` and
`PostResolution` with `Forwarded` (`applyMetadataEffect`, which goes by
position) and `Own`.

Only `Own` looks at the database lock (`CommitProxyServer.actor.cpp:1752`): the
proxy of a state transaction drops it when the database is locked and the
transaction is not lock aware, while the other proxies apply what the resolvers let
commit. So a transaction has a `kind`, and one without lock awareness a `snapshot`,
which is a version at which a proxy reported an unlocked database
(`ReadableUnlocked`), because a client that meets a locked one gets
`database_locked`. `LockConflict` is the read conflict range that the proxy adds at
line 228. A client that sets a read version by hand is outside the model, and with
it the case for which the comment there says "this isn't totally bulletproof". The
epoch begins unlocked.

Abstractions: a batch has at most one state transaction of
size 1; a resolver's verdict is open but for `LockConflict`; there are no tenants
and `mustContainSystemMutationsKey` is absent; the entry of a proxy in
`proxyInfoMap` exists from the start with `lastVersion` -1, which blocks erasing
exactly as a smaller map does; the bytes are counted in the same step as
`version.set`, although the code first runs the batch that was waiting (the
additions commute); a copy of a request that arrives after its reply did is left
out, because its answer goes nowhere.

### ConflictSet

`SkipList.cpp` as a sequence of nodes with towers: sorting of the points with
their extra ordering, the check inside the batch (`MiniConflictSet`), the check
against the skip list by way of `maxVersion` on the upper levels, merging of the
ranges that were written, and `removeBefore`, which continues from
`removalKey`. The height of a new tower is any height. The striped and
prefetching forms of the search find what the plain one finds and are not told
apart. `Reference` decides the same batch from the last write of every key.

### LogRecovery

`clusterRecoveryCore` from reading the coordinated state to accepting commits
(`ReadCState`, `LockCState`, `EpochEnd`, `NewEpoch`, `RecoveryTransaction`,
`WriteNewCState`), `trackTlogRecovery` and the purging of generations
(`UpdateCState`, `Purge`), the logs (`TLogStop` and `TLogLockReply` are the two
halves of `tLogLock`, `TLogCommit`, `QueueCommit`, `SeeInfo` with `Displaced`,
`Crash` and `Restart`), the proxies of every epoch, which do not know that it
ended (`Push`, `Answer`), and a GRV proxy with `confirmEpochLive`. A log's
content is a prefix of the versions of its generation, so it is a number; which
versions can still be read is decided by `ReadQuorum`, from the replication
factor. `DurableEnd` is `getDurableVersion`, `Restarts` its choice to settle for
an earlier end when a log failed. A recovery that loses the coordinated state to
another dies. `Purge` cuts the list of old generations where
`purgeOldRecoveredGenerations` resizes it. `LossAssumption` says what a generation
survives: fewer logs lost for ever than a replica set has, the anti-quorum counting
as lost, because those logs may never have had what was answered.

### StorageServer

`update` is split at the wait that matters: `UpdateBegin` has received a peek,
holds `durableVersionLock` and has read old values from the engine,
`UpdateApply` is the rest, to the new `desiredOldestVersion`. `updateStorage` is
`StoreBegin`, `StoreWrite` per version, `StoreCommit`, `StoreDurable` and
`StoreChange` (`changeDurableVersion`, one version at a time under the lock).
`getValueQ` is `ReadBegin`, `ReadLookup`, `ReadEngine`, `ReadReply`. `Reboot` is
the rollback, which waits for `durableInProgress` and finds an engine that was
not closed; `Crash` leaves all or nothing of a commit under way; `Register` is
the transaction by which a restarted server replaces its interface.

One key is followed; its value is the sequence of the versions whose operations
made it, so an atomic operation that is lost, repeated or applied to a stale
value shows; `ValueAfter` gives it without recursion, from the operations since the last
that does not read the value. A batch is applied at once: `Insert` and `Over` add its
versions to the map and to the mutation log, `createNewVersion` the root at its end. The engine may answer with the committed value or the written one
(`EngineValues`), because engines differ in that. Points worth knowing:

- A new server starts just below the version at which the transaction that
  added it committed, so its restored version is below the committed one. After
  a restart `Register` restores that: it commits in the current epoch before
  `storageServerCore` peeks. This is what makes `rollbackVersion >
  restoredVersion` right at equality.
- The lock is held by a server that waits to reboot, so `StoreChange` does not
  run then.
- `getMinKnownCommittedVersion` is not modelled: the last version of the logs is
  at least as large and enters the same maximum.
- The logs are the environment. `LogPush` waits for the window, `LogRecover` may
  end the epoch anywhere from the committed version up, and starts
  MAX_VERSIONS_IN_FLIGHT above.

In `VersionAssignment`, `CommitPipeline` and `Resolution` the recovery transaction is the first batch of the epoch
and nothing else starts before it is through (`Accepting`): the proxies start
empty batches from `ACCEPTING_COMMITS` on, and clients learn of the proxies
after that.

## 4. Runs

| Run | Instance | Shows |
|---|---|---|
| `coordinated_state` | 3 coordinators, 2 clients, 2 UIDs | `NoLostUpdate`, `ReadWasMostRecent`, `ReadIsRecent`, `ConflictIsReal`, `RegisterAdvances`, the refinement of `ExclusiveState`, and the inductive invariant `IInv` |
| `coordinated_state_live` | 2 of 3 coordinators in reach, 2 clients, one of which may die | `CallsReturn`, `LaterWriteNoticed`: calls return and a later write is noticed, unless the answers to a read stay split between empty and written registers |
| `movable_state` | 2 recoveries, 3 coordinator sets, 2 writes each, 5 places | `OneHistory` across moves; `MoveInv`: a set that was left stays left, forwarding leads to the current set |
| `leader_election` | 1 coordinator, 1 candidate, 1 monitor, 1 mover, 1 fault, 2 waiting requests allowed | `ElectionInv`: nobody waits for a nominee that already changed |
| `leader_election_live` | 2 coordinators, 2 candidates, 2 fitnesses, 1 fault, timely | `EventuallyOneLeader`, `FittestLeads` |
| `version_assignment` | 2 proxies, 2 resolvers, 3 requests each, 2 moves, a clock ahead | `ChainInv`: one chain of versions without holes; `MasterInv`: kept replies; `ReadsMeetWrites`, `VersionArrives` |
| `commit_pipeline` | 2 proxies, 2 logs, anti-quorum 1, 1 GRV proxy, window 2, gaps of 1 and 3 | `ReadVersionIsCurrent`, `AckedIsDurable`, `SemiCommittedBounded`; `KnownInv`: what master and logs take for committed is; `BatchesFinish`, but for batches at or behind a gap wider than the window |
| `resolution` | 2 proxies, 2 resolvers, memory limit 0, and one of: 3 batches with disagreement and losses; 4 with locks; 4 with losses; 5 with state transactions | `SameMetadata`; `ResolverInv`: replies are kept, agree, and nothing unseen is erased; `NoCircularWait` |
| `conflict_set` | 3 keys, 2 levels, 3 versions, batches of up to 2, life 1 | `VerdictsExact`: the reference's verdicts; `ListInv`: history, levels and order of the skip list |
| `log_recovery` | 2 logs, 2 recoveries, and one of: a loss; a restart; a read version; storage progress and registrations | `AnsweredSurvives`, `ReadVersionIsCurrent`; `RecoveryInv`: one successor per epoch |
| `log_recovery_live` | 3 logs, anti-quorum 1, 1 recovery, and one of: a loss, a restart; either with a death | `RecoveryEnds`; `KeptInv`: neither answered nor known committed versions are taken back; `VersionsNotReused` |
| `storage_server` | 1 key, life 2, 3 versions in flight, and one of four scenarios (`Scenarios`) | `ReadsPossible`, `ReadIsSnapshot`, `DiskIsSnapshot`; `ServerInv`: versions in order, assertions, nothing needed is popped; `CaughtUp` |

A property that is a conjunction of named parts is called `...Inv`; its parts have
comments of their own, and one such property per module has the type invariant
`TypeOK` among them.
`TypeOK` of `CoordinatedState` is a part of `IInv`.

Bounds and why they suffice to meet the interesting cases:

- Two clients and two UIDs give every order of two generations, including equal
  numbers told apart by the UID. Three coordinators are the smallest number with
  a minority. With two of them in reach a first write that was interrupted leaves
  one register empty and one written, which is the case that `CallsReturn` excepts.
  That calls return without exception when all coordinators are in reach is not
  checked. What more clients could do is left to the proofs.
- Three coordinator sets let one recovery move a to b while the other moves a to
  c, or b to c once it has found the first move half done.
- `MaxNotifications` 2 makes the limit on waiting requests bind. One coordinator
  suffices for `ElectionInv`, which is about one register at a time; two
  coordinators with a majority of two make `EventuallyOneLeader` depend on
  agreement.
- `MaxRequests` 3 lets a proxy repeat a request whose reply was dropped;
  `MaxMoves` 2 moves the range away and back; `WriteLife` 3 is small enough that
  entries of `keyResolvers` are dropped.
- `MaxBatches` 2 per proxy in `CommitPipeline`: the recovery transaction and
  three more batches in flight, with a window of 2 that binds. A gap of 1 is
  within it, one of 3 is not.
- In `Resolution` a limit of 0 makes every kept state transaction a breach, and with
  four batches one is held back while a proxy behind needs it. A scenario (`Budgets`)
  says how many batches there are, which may be in conflict or lose a reply, and
  which kinds of transactions there are.
- In `ConflictSet` a life of 1 makes history too old within three versions, and
  one node looked at per range written leaves removal unfinished between batches.
- In `LogRecovery` and `StorageServer` a scenario (`Budgets`) says which faults a
  behaviour may have, so that each combination that matters is met without
  multiplying all of them. `Window` 1 leaves one version logged and not
  committed when an epoch ends.
- In `StorageServer` a life of 2 is the smallest with two uncommitted versions,
  so that a rollback can keep one of them; with 1 the engine could never hold a
  version next to one that is rolled back. Four pushes fill the window twice.
- Symmetry is used in safety runs only, over coordinators, clients, recoveries,
  coordinator sets but the first, and logs, never over UIDs or resolver 0.
- CHECK_DEADLOCK FALSE stands where a bound ends the behaviour.

Fairness, and why the code justifies it:

- The run loop resumes every actor whose future is ready: weak fairness of the
  steps of clients, proxies, master and logs. Nobody has to call
  read, setExclusive, commit or getReadVersion.
- `FlowTransport` and `waitAndSendRead`/`waitAndSendWrite` send a request until
  it is answered: weak fairness of a service with an answer by coordinators that
  are in reach (`Up`), for clients that do not die (not in `Mortal`).
- A failed role ends the epoch, so within an epoch logs and proxies run on.
- Recoveries (`LogRecovery`): messages between a recovery and the logs arrive,
  queues commit, a log that can restart does, and the failure monitor ends up
  with the truth about which logs answer. Nobody has to push, read or start a
  recovery.
- Leader election: weak fairness of every coordinator's service, its intervals, and of every process, under
  `Timely`; without bounds on speed the code promises no leader.
- Storage server: one weak fairness of all steps of the server's actors and of a
  commit under way together (`Progress`): while one of them can run, one does.
  That is weaker than fairness of each.

Every property of a run has a mutant: a plausible bug in a mapped
definition that makes TLC report the property violated.

## 5. Observations

Where the code does less than a comment or a document says, noticed while modelling.
The first two are in the models: the properties name them as exceptions, without which
they are violated. No run checks the others, and no property depends on them.

- `cap-theorem.rst:50` says the shared state "*is* available for reads and writes in
  the partition containing a majority of the coordination servers". When the very
  first write was interrupted, a majority with one empty and one written register
  satisfies neither quorum of `replicatedRead` (`CoordinatedState.actor.cpp:173`),
  and `read()` waits until another coordinator comes back; and a `setExclusive()` that
  found the registers empty waits for all coordinators (line 209). `CallsReturn` and
  `LaterWriteNoticed` except these two cases and no others.
- `masterserver.actor.cpp:197` calls MAX_READ_TRANSACTION_LIFE_VERSIONS the "Maximum
  possible version gap"; `figureVersion` (line 71) can exceed it, and such a batch waits
  in `postResolution` (`CommitProxyServer.actor.cpp:2397`) for a version only it could
  commit, with everything behind it. `BatchesFinish` excepts these batches
  (`BeyondWindow`) and no others.
- `CoordinatedState.h:43` says onConflict returns if setExclusive would fail.
  `isDoomed` (`CoordinatedState.actor.cpp:85`) looks at later writes only; a later
  *read* also makes every setExclusive fail and is never reported.
- `Coordination.actor.cpp:361` and `:381` send `currentNominee.get()` when too many
  requests wait, also when there is no nominee, and `Optional::get` throws then,
  which ends the coordinator's process (`TooManyNotifications`). It is restarted
  and asked again, so nobody is forgotten.
- `Coordination.actor.cpp:578` says a forward is not processed before it is
  durable; `setForward` sets it in memory first (572), and a second request is
  confirmed from there (736).

## 6. Proofs

### The coordinated state (`CoordinatedStateProofs`)

Proved, for every finite set of coordinators, every set
of clients and every set of positive UIDs: type correctness, the inductive
invariant, `NoLostUpdate`, `ReadWasMostRecent`, `ReadIsRecent`,
`ConflictIsReal`, `RegisterAdvances`, and that `Spec` implements
`ExclusiveState`. Assumptions: `CoordinatorAssumption` (a finite, non-empty set
of coordinators), `UidAssumption` (UIDs are positive; freshness is in the guard
of `ChooseGeneration`), `NoValueAssumption`, `UpAssumption`.

The properties are not inductive: they speak of clients and say nothing of the
registers and of the answers in flight. `IInv` adds, through two predicates:
a coordinator *blocks* a client (`BlockedAt`) when its register has met a later
generation and it never told the client that it accepted the client's write; a
client is *stuck* (`Stuck`) when a read quorum blocks it.

- `InvGen`: UIDs of chosen generations are distinct, and clients without one
  have `Zero`;
- `InvReg`: what a register holds was written, with that generation, by a client
  that has called `setExclusive()`;
- `InvWriteReply`: an answer to a write is never earlier than the writer's
  generation, and one equal to it means that the register's write generation
  reached it;
- `InvReadReply`: the register behind an answer to the second read keeps a read
  generation of at least the reader's, and for every earlier client the answer
  shows that client's write or a later one, or the register blocks that client;
  an answer to the first read does not miss a write the register had
  acknowledged before `read()` began;
- `InvSeen`: the same for what `read()` returned, with "stuck" for "blocked";
- `InvConflict`: a client that was told of a conflict is stuck;
- `InvOutcome`: a success was acknowledged by a majority;
- `InvBefore`: a client's generation is later than every success that preceded
  its `read()`.

The argument is the one of Paxos. A read quorum meets every majority
(`QuorumsMeet`; a majority of empty answers may be half of an even number of
coordinators and still meets the majority that a success needs), so a stuck
client does not succeed (`StuckFails`). Of two successes c before d, c is
therefore not stuck, and by `InvSeen` d saw c's write or a later one. Every
action is treated in a lemma per conjunct; `FrameStep` collects what an action
cannot change, which keeps the other lemmas short. For the refinement each
action maps to the abstract action of its client or to a stutter; `FinishWrite`
uses `IInv` for the guard of `Succeed`.

Where `ExclusiveState` asks of `Return` that no success before the new place is
missed, `EarlierSuccessSeen` gives it from `InvSeen` and `StuckFails`.

### Versions (`VersionAssignmentProofs`)

For any set of proxies and resolvers, any number of requests and moves, any clock
(`Expected`, `ToAdd` within `RateAssumption`) and any `WriteLife` > 0: `ChainInv`,
`MasterInv` and `ReadsMeetWrites`. `IInv` adds

- `InvChain`: requests of one proxy get versions in their order, and every reply,
  kept or on its way, is one that was assigned;
- `InvRequest`: the master's last request of a proxy is the outstanding one or the
  one before it, so a late copy of a request never drops a reply that is needed;
- `InvBatches`: a batch has a version that was assigned to its proxy;
- `InvMoves`: a move reaches every proxy exactly once, with the first version the
  proxy gets from the move's version on;
- `InvMap`: `keyResolvers` of a proxy at version L (`MapOver`) are all moves up to L
  but those so old that no read at L looks behind them.

`ReadsMeetWrites` follows: of a write at w and a read that commits at r > w, the
two maps agree about the owner at w unless the read's snapshot is older than
`WriteLife`.

### Commits (`CommitPipelineProofs`)

For any set of proxies and GRV proxies, any finite set of logs with any anti-quorum
below its size, any window and any gaps between versions: `KnownInv`,
`AckedIsDurable`, `SemiCommittedBounded`, `ReadVersionIsCurrent`. The properties
speak of what was answered; `IInv` follows a version on its way there: a batch that
reports is logged, one that answers is known to the master or is below the proxy's
own committed version (`InvBatch`); a push is within the window of the version it
names as committed, and that one is logged (`InvPushed`); a log is where some push
brought it (`InvLog`); the master knows everything answered before a read version
was asked for (`InvGrv`). That a version counts as logged from then on, with all
before it, is `LoggedStays` and `LoggedDown`.

### Moving the coordinated state (`MovableStateProofs`)

For any number of recoveries, coordinator sets and writes: `OneHistory` and `MoveInv`.
Each set of coordinators is assumed to do what `ExclusiveState` allows. Within one set, `InvLine` says that once nobody can
have missed what is at a place (`Unstraddled`), everybody after it read something
built on it; `InvData` and `InvCreate` say that a move names coordinators that hold
the state which is moved, and that these were initialized by one move before anybody
used them. Between sets, `InvReached` says that the sets the state has reached come
one after the other. A move that is found half done is completed with the value that
was moved, because a set that is left accepts no other value (`Follows`).

### Replacing the logs (`LogRecoveryProofs`)

For any finite set of logs, replication factor, anti-quorum below it, number of
recoveries, versions and faults: `AnsweredSurvives`, `KeptInv`, `VersionsNotReused`,
`ReadVersionIsCurrent`, `RecoveryInv`. Assumptions: `SizesAssumption`,
`FlightAssumption` (an epoch logs less beyond its committed version than
MAX_VERSIONS_IN_FLIGHT), `BudgetsAssumption` and `LossAssumption`.

The central notion is `Ended(g, e)`: enough logs of generation g have answered a lock
request for good (`Frozen`), more than the anti-quorum of them at or below e. Such
logs neither accept anything nor confirm an epoch any more, so nothing beyond e can
be answered (`CommittedEnded`), ever (`EndedStays`). `IInv` says

- `InvPhase`, `InvSent`, `InvLog`: what a recovery has done, what proxies have sent
  and where a log can be;
- `InvLogged`: what was answered is on all logs but the anti-quorum;
- `InvEnds`: the answers to lock requests are final;
- `InvChain`: every list of old generations, in the coordinated state, in the hands
  of a recovery or of the log system, consists of generations that ended where the
  next one begins;
- `InvPlace`: a recovery whose write to the coordinated state can still succeed knows
  what is there;
- `InvOrder`: recoveryCount orders the generations that accepted commits, none lies
  between a generation and the one it replaced, and all but the current one have
  ended by the time it began;
- `InvKeep`: a generation that somebody who has seen its recoveryCount does not keep
  is `Safe`: it ended, and the storage servers have all of it;
- `InvReader`: a read version that misses an answer cannot be confirmed any more.

`LossInv`, proved on top of it, bounds the logs that a generation which is not `Safe`
has lost. An answered version is then found where `AnswerSurvives` says: on the logs
of its generation, which the coordinated state names, or, if the next generation
begins above what it knew to be committed, on the logs of that one, which copied it
before its recovery transaction, or in the storage servers. Every step is first
classified (`Steps`) and rewritten pointwise (`AcceptsIs`, `PurgeIs`, ...); one lemma
per conjunct goes through the classes.

### Electing the cluster controller (`LeaderElectionProofs`)

For any coordinators, processes, monitors and movers, with `Timely` or without:
`ElectionInv`, that is the types and `NobodyForgotten`. Assumption:
`SizeAssumption`. A candidate that is told of a nominee whose changeID it knows
already asks again with the nominee of the reply, and that is the question it owes
only if the two nominees are one. `IInv` therefore adds that there is an assignment of
changeIDs to processes which every info follows, in registers, processes and messages
(`HoldsOnly(Following(f))`); a new candidacy extends it, because its number occurs
nowhere (`HoldsOthers`). The same fact makes `operator<` total on what a register
holds, so that a register has a first candidate (`FirstExists`). For the rest a
coordinator forgets nobody if whoever it handled is answered or parked
(`CoordinatorOwes`), and a process owes nothing new to others (`OthersOwed`).

### The storage server (`StorageServerProofs`)

For every window of versions, every distance between epochs above it, every history of
operations on the key and any number of recoveries, crashes and reads: `ServerInv`,
`ReadsPossible`, `ReadIsSnapshot`, `DiskIsSnapshot`. Assumptions: `FlightAssumption` (a
recovery starts further up than the logs may be ahead of what is committed) and
`BudgetsAssumption`.

None of the four is inductive, because a server may hold versions of an epoch that the
cluster has left. `IInv` therefore says that there is an epoch d whose log the server
applied, and that there are versions `ends`, one per epoch, up to which an epoch agrees
with all later ones (`Fork`; for the current epoch what is committed in it), such that

- `LogInv`: an epoch has no version more than `Life` above its end, and none in the gap
  a recovery skipped;
- `Memory(ss, Hist(d))`: the versions are in order; each root of the versioned map
  between oldestVersion and version has the value of the database at its version, or no
  entry, and then nothing above durableVersion has touched the key up to it; no entry of
  the latest root is durable; the mutation log has exactly what is applied and not
  durable; lastVersionWithData is the last version with data, or the restored one;
- `ModeInv`: desiredOldestVersion is at or below the end of d and version at most `Life`
  above, a server that serves has restored a version below the end of d, a restored one
  is in the current epoch;
- `EngineInv`, `StoringInv`: what is written and what is on disk are the database at
  oldestVersion and at the version on disk, and where the two are apart in each phase of
  updateStorage;
- `UpdateInv`: the old value an update read from the engine is still the value of the
  key whenever the map has no entry for it;
- `ReaderInv`: a read that found no entry finds in the engine what it needs, unless the
  version it asked for is forgotten meanwhile.

The argument for `UpdateApply` is the one the window exists for. A batch of a later
epoch e contains the first version of every epoch after d. If the server has data above
the end of d, that version makes it roll back (`NoRollback`), and finds the end of d at
or above oldestVersion (`RollbackSafe`), because desiredOldestVersion stays `Life` below
what the logs had (`ProposedBound`). If it has not, the two logs have the same data up to
its version, its memory is also that of a server that applied the log of e (`SameMemory`),
and the batch extends it (`AppliedMemory`). What operations make of a value composes
(`ValueInSteps`), which rests on `Ascending` being a sorted sequence (`AscendingSplit`);
the sum of the skips is a recursive function whose type is proved with a least
counterexample (`SkippedType`).

### Metadata at the proxies (`ResolutionProofs`)

For any proxies and resolvers, any number of batches, any limit on the memory of the
resolvers, resolvers that may disagree, and a database that is locked and unlocked:
`SameMetadata`, `ResolverInv` and `NoCircularWait`.
Assumptions: `ProxyAssumption` (there is a proxy), `ResolverAssumption`,
`EpochAssumption`, `LimitAssumption`. `SameMetadata` alone says
nothing about a reply that is still on its way, and what a reply lists depends on what
its resolver had erased when it sent it. `IInv` therefore says what each reply has to be,
without reference to any map (`Expected`: the entries of all versions from the one after
the proxy's previous batch), and

- `BatchInv`: batches of all proxies form one chain of versions, and acknowledge no more
  than their proxy has processed;
- `ProxyInv`: a proxy is at one of its batches, and has all replies up to it;
- `SeenInv`: lastVersion of a proxy is the last batch of it that the resolver has served,
  and debugMinRecentStateVersion is not above anything a proxy has yet to see;
- `RecentInv`: a resolver keeps exactly the versions that some proxy has not seen, each
  with what it decided (`Entry`);
- `ReplyInv`: replies in outstandingBatches or delivered are the expected ones, and a
  batch that was served and has no reply finds one in outstandingBatches;
- `LockInv`: a transaction without lock awareness took its snapshot when the database
  was not locked and every resolver was that far (`Unlocked`), and the resolver of the
  lock key refuses it if the key was written since (`Refused`);
- `NeededInv`: while the memory is exhausted, neededVersion lets in whatever a waiting
  batch of a proxy that is behind waits for.

When `Resolve` serves a batch, lastVersion is that of the batch before it (`LastIs`), so
what it finds in the map are all versions since then (`UnseenIs`); erasing up to the
least lastVersion keeps `RecentInv` (`ErasedIs`), also when the test
`firstUnseen <= oldest` skips it; and a kept reply is dropped only when its proxy has
processed it (`ServesReply`). In `PostResolution` all replies are then the entries of
the same versions, position by position, so `Forwarded` lists the effective versions
after the proxy's own (`ForwardedLists`), and with `Own` the list stays ascending and
complete (`PostApplies`). The lock makes no difference to `Own` because a transaction
that all resolvers let commit met no write of the lock key since its snapshot, so the
database is as unlocked as it was then (`MeetsNoLock`).

`NoCircularWait` follows from `NeededInv`. It holds because versionReady is run for a
request that is admitted while the limit is exceeded, and for all that wait when the
limit is breached or something is erased: in between, a proxy that is not behind does
not fall behind (`StillBehind`).

### Only model-checked

All liveness properties, which are out of the prover's reach, and the properties of
`ConflictSet`. They rest on what folds over sequences of any length compute, which would
need induction over data. The bounds in the guards (`MaxPushes`,
`MaxBatches`, ...) are constants of the proved specifications as well; the theorems
hold for every value of them.

## 7. Not modelled, and why

Within modelled components: version vector and TLog unicast (off by default; a
different protocol for order at the logs), the metadata
version carried with a committed version, encryption, tenants, private mutations
by resolvers, storage quotas, idempotency ids, forced recovery,
COMMIT_PROXY_LIVENESS_TIMEOUT and other ways to end an epoch, remote regions,
satellites and log routers, spilling and the cursors of the logs, the choice of
workers by a recovery, what the cluster controller does once elected, the Swift
variant of the master. Of the storage server: `fetchKeys` and every change of
shards, range reads, change feeds, watches, checkpoints, testing storage
servers, the e-brake.

Whole components left out are in `PROJECT.json` with the reason: storage engines
and the disk queue below the interfaces used here, data distribution and
Ratekeeper (heuristics over metrics), backup and blob workers, the client
library, the Flow runtime, of which the modules take that code between two waits
is atomic and that a request is repeated until it is answered. Most of the
repository's lines are in these and in vendored code.
