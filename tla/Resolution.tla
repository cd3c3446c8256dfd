-------------------------------- MODULE Resolution --------------------------------
(***************************************************************************)
(* How the commit proxies keep the same copy of the metadata.              *)
(*                                                                         *)
(* Every batch goes to every resolver.  A resolver takes the batches in    *)
(* the order of their versions, keeps its reply for a repeated request,    *)
(* and forwards the metadata ("state") transactions of the other proxies:  *)
(* a reply lists, version by version, what the asking proxy has not seen.  *)
(* A proxy applies a forwarded transaction when every resolver says it     *)
(* committed.  State transactions that every proxy has seen are erased,    *)
(* and while too many are kept the proxies that are ahead must wait.       *)
(*                                                                         *)
(* The proxy that owns a state transaction drops it when the database is   *)
(* locked and the transaction is not lock aware; the others do not look at *)
(* the lock.  What keeps them together is a read conflict on the lock key  *)
(* that every state transaction without lock awareness gets.               *)
(*                                                                         *)
(* Requests stay deliverable, late and repeatedly; a reply may be lost     *)
(* (answered = FALSE).  A batch has at most one state transaction, of size *)
(* 1; whether a resolver finds it in conflict is left open here, but for   *)
(* the lock key.  The mutations travel by way of resolver 0 only, so only  *)
(* it counts bytes.                                                        *)
(***************************************************************************)
EXTENDS Integers, Sequences, FiniteSets

CONSTANTS CommitProxy,
          Resolver,
          FirstResolver,      \* resolver 0
          LockResolver,       \* the resolver that has the writes of databaseLockedKey
          LastEpochEnd,       \* the version of the request the recovery sends first
          StateMemoryLimit,   \* RESOLVER_STATE_MEMORY_LIMIT, in transactions
          NoReply,            \* a resolver has not answered yet
          Budgets             \* bounds: what may happen in a behaviour

ASSUME ProxyAssumption == CommitProxy # {}
ASSUME ResolverAssumption == FirstResolver \in Resolver /\ LockResolver \in Resolver
ASSUME EpochAssumption == LastEpochEnd \in Nat \ {0}
ASSUME LimitAssumption == StateMemoryLimit \in Nat

VARIABLES
    version,          \* the last version the master assigned
    batch,            \* per proxy: its batches in local order
    resolution,       \* per proxy and batch: the replies that arrived
    proxyVersion,     \* per proxy: ProxyCommitData::version
    applied,          \* per proxy: the state transactions in its txnStateStore
    resolverVersion,  \* per resolver: Resolver::version
    lastVersion,      \* per resolver and proxy: ProxyRequestsInfo::lastVersion
    outstanding,      \* per resolver and proxy: ProxyRequestsInfo::outstandingBatches
    recent,           \* per resolver: recentStateTransactions, by version
    minRecent,        \* per resolver: debugMinRecentStateVersion
    needed,           \* per resolver: neededVersion
    queue,            \* per resolver: requests that passed the memory check
    verdict,          \* per resolver: what it decided, version by version
    budget            \* bounds of this behaviour: how many batches (batches), which of
                      \* them may be in conflict (conflicting) or lose a reply (lossy),
                      \* and with which state transactions (kinds)

vars == <<version, batch, resolution, proxyVersion, applied, resolverVersion, lastVersion,
          outstanding, recent, minRecent, needed, queue, verdict, budget>>

\* The state transaction of a batch: none; not lock aware; lock aware; and, lock aware too,
\* those that set and clear databaseLockedKey.
Kind == {"none", "plain", "aware", "lock", "unlock"}

\* A ResolveTransactionBatchRequest.  snapshot: the read version of a plain transaction.
Request == [proxy : CommitProxy, prevVersion : Nat, version : Nat, kind : Kind, snapshot : Nat,
            lastReceived : Nat]

\* The batch has a state transaction.
StateTxn(m) == m.kind # "none"

\* The state transactions of one version: whether each committed.
StateTransactions == [version : Nat, committed : Seq(BOOLEAN)]

Reply == [version : Nat, committed : BOOLEAN, stateMutations : Seq(StateTransactions)]

TypeOK ==
    /\ version \in Nat
    /\ batch \in [CommitProxy -> Seq(Request)]
    /\ resolution \in [CommitProxy -> Seq([Resolver -> Reply \cup {NoReply}])]
    /\ proxyVersion \in [CommitProxy -> Nat]
    /\ applied \in [CommitProxy -> Seq(Nat)]
    /\ resolverVersion \in [Resolver -> Nat]
    /\ lastVersion \in [Resolver -> [CommitProxy -> Nat \cup {-1}]]
    /\ outstanding \in [Resolver -> [CommitProxy -> SUBSET Reply]]
    /\ DOMAIN recent = Resolver
    /\ \A r \in Resolver : \A v \in DOMAIN recent[r] : v \in Nat /\ recent[r][v] \in Seq(BOOLEAN)
    /\ minRecent \in [Resolver -> Nat]
    /\ needed \in [Resolver -> Nat]
    /\ queue \in [Resolver -> SUBSET Request]
    /\ verdict \in [Resolver -> Seq(BOOLEAN)]
    /\ budget \in Budgets

\* The recovery has sent its empty first batch to every resolver.
Init ==
    /\ version = LastEpochEnd
    /\ batch = [p \in CommitProxy |-> <<>>]
    /\ resolution = [p \in CommitProxy |-> <<>>]
    /\ proxyVersion = [p \in CommitProxy |-> 0]
    /\ applied = [p \in CommitProxy |-> <<>>]
    /\ resolverVersion = [r \in Resolver |-> LastEpochEnd]
    /\ lastVersion = [r \in Resolver |-> [p \in CommitProxy |-> -1]]
    /\ outstanding = [r \in Resolver |-> [p \in CommitProxy |-> {}]]
    /\ recent = [r \in Resolver |-> [v \in {LastEpochEnd} |-> <<>>]]
    /\ minRecent = [r \in Resolver |-> 0]
    /\ needed = [r \in Resolver |-> 0]
    /\ queue = [r \in Resolver |-> {}]
    /\ verdict = [r \in Resolver |-> <<>>]
    /\ budget \in Budgets

LargerOf(a, b) == IF a >= b THEN a ELSE b

\* Mutant: the proxy that is furthest ahead decides what is erased.
Greatest(S) == CHOOSE m \in S : \A x \in S : m >= x

\* The least element of a finite, non-empty set of integers.
Least(S) == CHOOSE m \in S : \A x \in S : m <= x

\* The numbers of a set in ascending order.
Ascending(S) ==
    [i \in 1..Cardinality(S) |-> CHOOSE w \in S : Cardinality({x \in S : x <= w}) = i]
-----------------------------------------------------------------------------
(***************************************************************************)
(* A commit proxy sends a batch.                                           *)
(***************************************************************************)

\* The recovery transaction is the first of the epoch; until it is through, the
\* proxies get no other transactions and start no empty batches.
Accepting == version = LastEpochEnd \/ \E p \in CommitProxy : proxyVersion[p] > LastEpochEnd

Sent == UNION {{batch[p][n] : n \in DOMAIN batch[p]} : p \in CommitProxy}

\* The versions at which databaseLockedKey is to be set, and cleared.
Locks == {m.version : m \in {x \in Sent : x.kind = "lock"}}

Unlocks == {m.version : m \in {x \in Sent : x.kind = "unlock"}}

\* databaseLockedKey is set after the state transactions of the versions in S.
LockedAfter(S) == \E v \in S \cap Locks : \A w \in S \cap Unlocks : w < v

\* The versions of the state transactions in a proxy's txnStateStore, up to v.
AppliedUpTo(p, v) == {w \in {applied[p][i] : i \in DOMAIN applied[p]} : w <= v}

\* A client without lock awareness that asks for a read version may get v: a proxy has
\* processed the batch of v and told the master that the database is not locked then.
ReadableUnlocked(v) ==
    \E p \in CommitProxy : \E n \in DOMAIN batch[p] :
        /\ batch[p][n].version = v
        /\ v <= proxyVersion[p]
        /\ ~ LockedAfter(AppliedUpTo(p, v))

\* The batch has its version and goes to all resolvers (getResolution).  The
\* first batch of the epoch carries the recovery transaction, which is a lock
\* aware state transaction.
SendBatch(p, kind, snapshot) ==
    /\ Accepting
    /\ version < LastEpochEnd + budget.batches
    /\ IF version = LastEpochEnd THEN kind = "aware" ELSE kind \in budget.kinds
    /\ IF kind = "plain" THEN ReadableUnlocked(snapshot) ELSE snapshot = 0
    /\ version' = version + 1
    /\ batch' = [batch EXCEPT ![p] =
          Append(@, [proxy |-> p, prevVersion |-> version, version |-> version + 1,
                     kind |-> kind, snapshot |-> snapshot, lastReceived |-> proxyVersion[p]])]
    /\ resolution' = [resolution EXCEPT ![p] = Append(@, [r \in Resolver |-> NoReply])]
    /\ UNCHANGED <<proxyVersion, applied, resolverVersion, lastVersion, outstanding, recent,
                   minRecent, needed, queue, verdict, budget>>
-----------------------------------------------------------------------------
(***************************************************************************)
(* The resolver, resolveBatch.                                             *)
(***************************************************************************)

\* recentStateTransactionSizes: the versions that hold mutations.
Sized(r, kept) == IF r = FirstResolver THEN {v \in DOMAIN kept : kept[v] # <<>>} ELSE {}

OverLimit(r, kept) == Cardinality(Sized(r, kept)) > StateMemoryLimit

\* A proxy that has seen the oldest state transaction waits while the memory
\* is exhausted, except when a proxy behind it needs its batch.
Delayed(r, m) ==
    /\ OverLimit(r, recent[r])
    /\ lastVersion[r][m.proxy] > Least(Sized(r, recent[r]))
    /\ m.version > needed[r]

\* State transactions are kept because a proxy whose last version is this one
\* has not seen them, or is only just past the oldest.
Behind(r, kept, last) == Sized(r, kept) # {} /\ last <= Least(Sized(r, kept))

\* Mutant: what waits for batches that are held back is not looked at.
NeededNever(r, M, kept, last) == needed[r]

\* versionReady, run for the requests of M: those of a proxy that is behind
\* let everything before them through.
Needed(r, M, kept, last) ==
    LET wanted == {m.prevVersion : m \in {x \in M : Behind(r, kept, last[x.proxy])}}
    IN  IF wanted = {} THEN needed[r]
        ELSE LargerOf(needed[r], CHOOSE w \in wanted : \A x \in wanted : x <= w)

\* The batch of request m has no reply of resolver r yet.
Unanswered(r, m) ==
    \E n \in DOMAIN batch[m.proxy] : batch[m.proxy][n] = m /\ resolution[m.proxy][n][r] = NoReply

\* A request arrives, or arrives again, and passes the memory check.  A copy
\* that arrives after the reply did would change nothing and is left out.
Admit(r, m) ==
    /\ Unanswered(r, m)
    /\ ~ Delayed(r, m)
    /\ m \notin queue[r]
    /\ queue' = [queue EXCEPT ![r] = @ \cup {m}]
    /\ needed' = [needed EXCEPT ![r] =
          Needed(r, {m}, recent[r], lastVersion[r])]
    /\ UNCHANGED <<version, batch, resolution, proxyVersion, applied, resolverVersion,
                   lastVersion, outstanding, recent, minRecent, verdict, budget>>

\* The state transactions of the versions in S, in the order of the map.
Listed(r, S) ==
    [i \in 1..Cardinality(S) |->
        [version |-> Ascending(S)[i], committed |-> recent[r][Ascending(S)[i]]]]

\* What applyStateTxnsToBatchReply adds to the reply.
Unseen(r, firstUnseen, v) == Listed(r, {w \in DOMAIN recent[r] : firstUnseen <= w /\ w < v})

\* outstandingBatches without what the proxy has acknowledged.
Keep(r, m, reply) == {k \in outstanding[r][m.proxy] : k.version > m.lastReceived} \cup {reply}

\* The replies to a batch once resolver r has answered it from kept, if it can.
Filled(slot, r, v, kept) ==
    IF slot[r] = NoReply /\ \E k \in kept : k.version = v
    THEN [slot EXCEPT ![r] = CHOOSE k \in kept : k.version = v]
    ELSE slot

\* The reply reaches the batch that waits for it, unless it is lost.
Deliver(r, m, answered, kept) ==
    resolution' =
        [resolution EXCEPT ![m.proxy] =
            [n \in DOMAIN @ |->
                IF batch[m.proxy][n] = m /\ answered
                THEN Filled(@[n], r, m.version, kept) ELSE @[n]]]

\* Mutant: a state transaction gets no read conflict range for the lock key.
NoLockConflict(r, m) == FALSE

\* The read conflict range of databaseLockedKey, which every state transaction without lock
\* awareness gets: resolver r has let a write of the key commit since the snapshot.
LockConflict(r, m) ==
    /\ m.kind = "plain"
    /\ r = LockResolver
    /\ \E v \in Locks \cup Unlocks :
          m.snapshot < v /\ v < m.version /\ verdict[r][v - LastEpochEnd]

\* The batch is next: decide, forward, remember, erase.
Resolve(r, m, committed, answered) ==
    LET p == m.proxy
        firstUnseen == lastVersion[r][p] + 1
        last == [lastVersion[r] EXCEPT ![p] = m.version]
        reply == [version |-> m.version, committed |-> committed,
                  stateMutations |-> Unseen(r, firstUnseen, m.version)]
        kept == Keep(r, m, reply)
        added == [v \in DOMAIN recent[r] \cup {m.version} |->
                     IF v # m.version THEN recent[r][v]
                     ELSE IF StateTxn(m) THEN <<committed>> ELSE <<>>]
        oldest == Least({last[q] : q \in CommitProxy})
        erasing == firstUnseen <= oldest
        after == [v \in {w \in DOMAIN added : erasing => w > oldest} |-> added[v]]
        anyPopped == Sized(r, after) # Sized(r, added)
        breachedLimit == ~ OverLimit(r, recent[r]) /\ OverLimit(r, after)
        stillWaiting == {x \in queue[r] : x.prevVersion > m.version}
    IN  /\ m \in queue[r]
        /\ resolverVersion[r] = m.prevVersion
        /\ ~ StateTxn(m) \/ m.prevVersion = LastEpochEnd => committed
        /\ LockConflict(r, m) => ~ committed
        /\ committed \/ LockConflict(r, m) \/ m.version - LastEpochEnd \in budget.conflicting
        /\ answered \/ m.version - LastEpochEnd \in budget.lossy
        /\ lastVersion' = [lastVersion EXCEPT ![r] = last]
        /\ outstanding' = [outstanding EXCEPT ![r][p] = kept]
        /\ recent' = [recent EXCEPT ![r] = after]
        /\ minRecent' = [minRecent EXCEPT ![r] = IF erasing THEN oldest + 1 ELSE @]
        /\ resolverVersion' = [resolverVersion EXCEPT ![r] = m.version]
        /\ queue' = [queue EXCEPT ![r] = @ \ {m}]
        /\ needed' = [needed EXCEPT ![r] =
              IF anyPopped \/ breachedLimit
              THEN Needed(r, stillWaiting, after, last) ELSE @]
        /\ verdict' = [verdict EXCEPT ![r] = Append(@, committed)]
        /\ Deliver(r, m, answered, kept)
        /\ UNCHANGED <<version, batch, proxyVersion, applied, budget>>

\* A request that was served before is answered from outstandingBatches, or
\* never when its proxy has acknowledged the reply.
ResolveDuplicate(r, m, answered) ==
    /\ m \in queue[r]
    /\ resolverVersion[r] > m.prevVersion
    /\ answered \/ m.version - LastEpochEnd \in budget.lossy
    /\ queue' = [queue EXCEPT ![r] = @ \ {m}]
    /\ Deliver(r, m, answered, outstanding[r][m.proxy])
    /\ UNCHANGED <<version, batch, proxyVersion, applied, resolverVersion, lastVersion,
                   outstanding, recent, minRecent, needed, verdict, budget>>
-----------------------------------------------------------------------------
(***************************************************************************)
(* A commit proxy applies the metadata, postResolution.                    *)
(***************************************************************************)

Resolved(p, n) == \A r \in Resolver : resolution[p][n][r] # NoReply

\* applyMetadataEffect goes through the replies by position and takes the
\* mutations from resolver 0.
Forwarded(res) ==
    LET mutations == res[FirstResolver].stateMutations
        effective == {i \in DOMAIN mutations :
                         /\ mutations[i].committed # <<>>
                         /\ \A r \in Resolver : res[r].stateMutations[i].committed[1]}
    IN  [j \in 1..Cardinality(effective) |-> mutations[Ascending(effective)[j]].version]

\* determineCommittedTransactions and applyMetadataToCommittedTransactions, when the state
\* transactions of S are in the txnStateStore.  mustContainSystemMutationsKey, which nothing
\* in the repository sets, is absent, and there are no tenants.
Own(m, res, S) ==
    IF /\ StateTxn(m)
       /\ \A r \in Resolver : res[r].committed
       /\ m.kind = "plain" => ~ LockedAfter(S)
    THEN <<m.version>> ELSE <<>>

\* The batches of a proxy are numbered by the local order, so the next one is
\* the first whose version is beyond the proxy's.
IsNext(p, n) ==
    /\ batch[p][n].version > proxyVersion[p]
    /\ \A k \in 1 .. n - 1 : batch[p][k].version <= proxyVersion[p]

PostResolution(p, n) ==
    LET m == batch[p][n]
        res == resolution[p][n]
        stored == applied[p] \o Forwarded(res)
    IN  /\ IsNext(p, n)
        /\ Resolved(p, n)
        /\ applied' = [applied EXCEPT ![p] =
              stored \o Own(m, res, {stored[i] : i \in DOMAIN stored})]
        /\ proxyVersion' = [proxyVersion EXCEPT ![p] = m.version]
        /\ UNCHANGED <<version, batch, resolution, resolverVersion, lastVersion, outstanding,
                       recent, minRecent, needed, queue, verdict, budget>>

Next ==
    \/ \E p \in CommitProxy :
          \/ \E kind \in Kind, snapshot \in {0} \cup {m.version : m \in Sent} :
                SendBatch(p, kind, snapshot)
          \/ \E n \in DOMAIN batch[p] : PostResolution(p, n)
    \/ \E r \in Resolver : \E m \in Sent :
          \/ Admit(r, m)
          \/ \E committed, answered \in BOOLEAN : Resolve(r, m, committed, answered)
          \/ \E answered \in BOOLEAN : ResolveDuplicate(r, m, answered)

Spec == Init /\ [][Next]_vars

-----------------------------------------------------------------------------
(***************************************************************************)
(* Correctness.                                                            *)
(***************************************************************************)

\* The state transactions that all resolvers let commit, up to version v.
Effective(v) ==
    {m.version : m \in {x \in Sent :
        /\ StateTxn(x)
        /\ x.version <= v
        /\ \A r \in Resolver : verdict[r][x.version - LastEpochEnd]}}

\* The txnStateStore of every proxy holds the effects of the same state
\* transactions: when it has processed a batch, exactly those that committed
\* at or before the batch's version, each once and in the order of versions.
\* The database lock, which only the owning proxy looks at, makes no difference
\* for transactions that took their snapshot from a read version; one that
\* was given a read version by hand is what the comment at the read conflict range
\* calls "not totally bulletproof", and is not among them.
SameMetadata ==
    \A p \in CommitProxy :
        /\ \A i, j \in DOMAIN applied[p] : i < j => applied[p][i] < applied[p][j]
        /\ {applied[p][i] : i \in DOMAIN applied[p]} = Effective(proxyVersion[p])

\* assertResolutionStateMutationsSizeConsistent: the replies of different
\* resolvers to one batch list the same versions, although each resolver
\* erases by its own view of the proxies.
RepliesAgree ==
    \A p \in CommitProxy : \A n \in DOMAIN batch[p] : Resolved(p, n) =>
        \A r, s \in Resolver :
            LET a == resolution[p][n][r].stateMutations
                b == resolution[p][n][s].stateMutations
            IN  Len(a) = Len(b) /\ \A i \in DOMAIN a : Len(a[i].committed) = Len(b[i].committed)

\* "ASSERT(firstUnseenVersion >= self->debugMinRecentStateVersion)": nothing a
\* proxy has not seen is erased.  And the other way round: what every proxy has
\* seen is not kept.
ErasedWhenSeen ==
    \A r \in Resolver :
        /\ \A p \in CommitProxy : lastVersion[r][p] + 1 >= minRecent[r]
        /\ \A v \in DOMAIN recent[r] : v > Least({lastVersion[r][p] : p \in CommitProxy})

\* A reply may be lost, so a resolver keeps it until the proxy has said that it
\* has it; otherwise a repeated request would be answered with Never.
ReplyKept ==
    \A r \in Resolver, p \in CommitProxy : \A n \in DOMAIN batch[p] :
        (batch[p][n].version <= resolverVersion[r] /\ resolution[p][n][r] = NoReply)
            => \E k \in outstanding[r][p] : k.version = batch[p][n].version

\* What resolvers keep for proxies has its type, is enough to answer every request they
\* may still send or repeat, and is the same at all resolvers where replies are combined.
ResolverInv == TypeOK /\ RepliesAgree /\ ErasedWhenSeen /\ ReplyKept

\* The batch a resolver has to serve next is held back by the memory limit only
\* when there is a proxy that is behind, and none of those waits at the resolver: its
\* next batch is let in when it comes, and lets in all before it.  So the proxies that
\* are ahead and the proxies that are behind never wait for each other.
NoCircularWait ==
    \A r \in Resolver : \A m \in Sent :
        m.prevVersion = resolverVersion[r] /\ m \notin queue[r] /\ Delayed(r, m) =>
            /\ \E p \in CommitProxy : Behind(r, recent[r], lastVersion[r][p])
            /\ \A x \in queue[r] :
                  x.version > resolverVersion[r] => ~ Behind(r, recent[r], lastVersion[r][x.proxy])
=====================================================================================
