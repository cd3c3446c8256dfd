----------------------------- MODULE VersionAssignment -----------------------------
(***************************************************************************)
(* How commit versions are handed out within one epoch, and how the key    *)
(* ranges move between resolvers along with them.                          *)
(*                                                                         *)
(* The master (MasterData) keeps the last version it assigned and, per     *)
(* commit proxy, the replies the proxy has not acknowledged and the number *)
(* of the last request it served (getVersionCxx).  A commit proxy has one  *)
(* version request outstanding at a time, because preresolutionProcessing  *)
(* of a batch waits for the batch before it.                               *)
(*                                                                         *)
(* Requests are sent reliably: they stay deliverable, late, out of order   *)
(* and repeatedly, because a connection that is reset resends them.  The   *)
(* reply is not: it may be lost (answered = FALSE) and is then only sent   *)
(* again for a repeated request.                                           *)
(*                                                                         *)
(* ResolutionBalancer moves one key range between resolvers; a move takes  *)
(* effect at a commit version and reaches every proxy in its next version  *)
(* reply.  The model follows one key range.                                *)
(***************************************************************************)
EXTENDS Integers, Sequences, FiniteSets

CONSTANTS CommitProxy,                 \* the recruited commit proxies
          Resolver,                    \* the resolvers
          FirstResolver,               \* resolver 0, which owns every range at first
          NoMove,                      \* an empty resolverChanges
          LastEpochEnd,                \* lastEpochEnd of the recovery
          RecoveryTransactionVersion,  \* the first version of the epoch
          ToAdd,                       \* version increments the clock may call for
          Expected,                    \* wall-clock versions; {} without a reference version
          RateNumerator, RateDenominator,  \* MAX_VERSION_RATE_MODIFIER
          RateOffset,                  \* MAX_VERSION_RATE_OFFSET
          ReadLife,                    \* MAX_READ_TRANSACTION_LIFE_VERSIONS
          WriteLife,                   \* MAX_WRITE_TRANSACTION_LIFE_VERSIONS
          MaxRequests,                 \* bound: version requests per proxy
          MaxMoves                     \* bound: moves of the balancer

ASSUME ResolverAssumption == FirstResolver \in Resolver /\ NoMove \notin Resolver
ASSUME VersionAssumption ==
    /\ LastEpochEnd \in Nat
    /\ RecoveryTransactionVersion \in Nat
    /\ LastEpochEnd < RecoveryTransactionVersion
ASSUME RateAssumption ==
    /\ ReadLife \in Nat
    /\ ToAdd \subseteq 1 .. ReadLife
    /\ Expected \subseteq Int
    /\ RateNumerator \in Nat
    /\ RateDenominator \in Nat \ {0}
    /\ RateNumerator < RateDenominator
    /\ RateOffset \in Nat
ASSUME LifeAssumption == WriteLife \in Nat \ {0}
ASSUME BoundAssumption == MaxRequests \in Nat /\ MaxMoves \in Nat

VARIABLES
    version,            \* MasterData::version, -1 before the first request
    replies,            \* per proxy: the replies kept for a repeated request
    latestRequestNum,   \* per proxy: the last request served
    moveTo,             \* ResolutionBalancer::resolverChanges
    moveVersion,        \* ResolutionBalancer::resolverChangesVersion
    needMove,           \* ResolutionBalancer::resolverNeedingChanges
    owner,              \* the balancer's own key_resolver
    moves,              \* moves started so far (for the bound)
    requestNum,         \* per proxy: commitVersionRequestNumber, the next to use
    processed,          \* per proxy: mostRecentProcessedRequestNumber
    waiting,            \* per proxy: a version request is outstanding
    keyResolvers,       \* per proxy: who resolved the range from which version on
    requests,           \* requests sent
    answers,            \* replies that arrive
    assigned,           \* history: every reply the master made up
    batches             \* history: the batches built, with the proxy's keyResolvers

masterVars == <<version, replies, latestRequestNum>>
balancerVars == <<moveTo, moveVersion, needMove, owner, moves>>
proxyVars == <<requestNum, processed, waiting, keyResolvers, batches>>
vars == <<version, replies, latestRequestNum, moveTo, moveVersion, needMove, owner, moves,
          requestNum, processed, waiting, keyResolvers, requests, answers, assigned, batches>>

invalidVersion == -1

GetCommitVersionRequest == [proxy : CommitProxy, requestNum : Nat, processed : Nat]

GetCommitVersionReply ==
    [proxy : CommitProxy, requestNum : Nat, prevVersion : Nat, version : Nat,
     moveTo : Resolver \cup {NoMove}, moveVersion : Int]

KeyResolvers == Seq([version : Nat, resolver : Resolver])

TypeOK ==
    /\ version \in Nat \cup {invalidVersion}
    /\ replies \in [CommitProxy -> SUBSET GetCommitVersionReply]
    /\ latestRequestNum \in [CommitProxy -> Nat]
    /\ moveTo \in Resolver \cup {NoMove}
    /\ moveVersion \in Int
    /\ needMove \in SUBSET CommitProxy
    /\ owner \in Resolver
    /\ moves \in Nat
    /\ requestNum \in [CommitProxy -> Nat \ {0}]
    /\ processed \in [CommitProxy -> Nat]
    /\ waiting \in [CommitProxy -> BOOLEAN]
    /\ keyResolvers \in [CommitProxy -> KeyResolvers]
    /\ requests \in SUBSET GetCommitVersionRequest
    /\ answers \in SUBSET GetCommitVersionReply
    /\ assigned \in SUBSET GetCommitVersionReply
    /\ batches \in SUBSET [proxy : CommitProxy, prevVersion : Nat, version : Nat,
                           resolvers : KeyResolvers]

Init ==
    /\ version = invalidVersion
    /\ replies = [p \in CommitProxy |-> {}]
    /\ latestRequestNum = [p \in CommitProxy |-> 0]
    /\ moveTo = NoMove
    /\ moveVersion = invalidVersion
    /\ needMove = {}
    /\ owner = FirstResolver
    /\ moves = 0
    /\ requestNum = [p \in CommitProxy |-> 1]
    /\ processed = [p \in CommitProxy |-> 0]
    /\ waiting = [p \in CommitProxy |-> FALSE]
    /\ keyResolvers = [p \in CommitProxy |-> <<[version |-> 0, resolver |-> FirstResolver]>>]
    /\ requests = {}
    /\ answers = {}
    /\ assigned = {}
    /\ batches = {}
-----------------------------------------------------------------------------
(***************************************************************************)
(* The master.                                                             *)
(***************************************************************************)

SmallerOf(a, b) == IF a <= b THEN a ELSE b

MaxOffset(toAdd) == SmallerOf((toAdd * RateNumerator) \div RateDenominator, RateOffset)

Clamp(x, low, high) == IF x < low THEN low ELSE IF x > high THEN high ELSE x

\* figureVersionCxx: jump to the wall clock's version, but not too far from
\* the rate of toAdd.
FigureVersion(current, expected, toAdd) ==
    Clamp(expected, current + toAdd - MaxOffset(toAdd), current + toAdd + MaxOffset(toAdd))

\* The versions that may follow the current one.
NextVersions(current) ==
    IF Expected = {}
    THEN {current + toAdd : toAdd \in ToAdd}
    ELSE {FigureVersion(current, expected, toAdd) : expected \in Expected, toAdd \in ToAdd}

\* The wait at the start of getVersionCxx: the request before was served.
InOrder(m) == latestRequestNum[m.proxy] >= m.requestNum - 1

\* Mutant: a request is taken for new whenever its reply is no longer kept.
TakenForNew(m) == TRUE

\* The request was not served before.
IsNew(m) == m.requestNum > latestRequestNum[m.proxy]

Cached(m) == {r \in replies[m.proxy] : r.requestNum = m.requestNum}

\* Mutant: the bound of what the proxy has processed is off by one.
KeepOneLess(m, r) ==
    {k \in replies[m.proxy] \cup {r} : k.requestNum > m.processed + 1}

\* A new reply makes room by dropping what the proxy has processed.
Keep(m, r) == {k \in replies[m.proxy] : k.requestNum > m.processed} \cup {r}

\* A reply reaches the batch that waits for it, or nobody.
Outstanding(m) == waiting[m.proxy] /\ m.requestNum = requestNum[m.proxy] - 1

Deliver(m, answered, R) ==
    answers' = IF answered /\ Outstanding(m) THEN answers \cup R ELSE answers

\* A request whose reply is still kept is answered with that reply.
AnswerRepeated(m, answered) ==
    /\ InOrder(m)
    /\ Cached(m) # {}
    /\ Deliver(m, answered, Cached(m))
    /\ UNCHANGED <<masterVars, balancerVars, proxyVars, requests, assigned>>

\* A request the proxy has long processed is never answered.
IgnoreAcknowledged(m) ==
    /\ InOrder(m)
    /\ Cached(m) = {}
    /\ ~ IsNew(m)
    /\ UNCHANGED vars

\* setChangesInReply: the pending move goes to each proxy once.
SetChangesInReply(p) ==
    IF p \in needMove
    THEN /\ needMove' = needMove \ {p}
         /\ moveTo' = IF needMove = {p} THEN NoMove ELSE moveTo
    ELSE UNCHANGED <<needMove, moveTo>>

\* A new request gets the next version.  The first version of the epoch is
\* fixed by the recovery and carries no move.
AssignVersion(m, v, answered) ==
    LET p == m.proxy
        first == version = invalidVersion
        moved == ~ first /\ p \in needMove
        r == [proxy |-> p, requestNum |-> m.requestNum,
              prevVersion |-> IF first THEN LastEpochEnd ELSE version, version |-> v,
              moveTo |-> IF moved THEN moveTo ELSE NoMove,
              moveVersion |-> IF moved THEN moveVersion ELSE invalidVersion]
    IN  /\ InOrder(m)
        /\ Cached(m) = {}
        /\ IsNew(m)
        /\ v \in IF first THEN {RecoveryTransactionVersion} ELSE NextVersions(version)
        /\ version' = v
        /\ IF first THEN UNCHANGED <<needMove, moveTo>> ELSE SetChangesInReply(p)
        /\ replies' = [replies EXCEPT ![p] = Keep(m, r)]
        /\ latestRequestNum' = [latestRequestNum EXCEPT ![p] = m.requestNum]
        /\ assigned' = assigned \cup {r}
        /\ Deliver(m, answered, {r})
        /\ UNCHANGED <<moveVersion, owner, moves, proxyVars, requests>>

\* resolutionBalancing_impl decides on a move once the one before has reached
\* every proxy.  Resolvers report load only for batches they resolved, so no
\* move precedes the first version.
Balance(dest) ==
    /\ moves < MaxMoves
    /\ version # invalidVersion
    /\ moveTo = NoMove
    /\ dest # owner
    /\ moveTo' = dest
    /\ moveVersion' = version + 1
    /\ needMove' = CommitProxy
    /\ owner' = dest
    /\ moves' = moves + 1
    /\ UNCHANGED <<masterVars, proxyVars, requests, answers, assigned>>
-----------------------------------------------------------------------------
(***************************************************************************)
(* The commit proxies.                                                     *)
(***************************************************************************)

\* The recovery transaction is the first of the epoch; until it is through, the
\* proxies get no other transactions and start no empty batches.
Accepting == requests = {} \/ batches # {}

\* preresolutionProcessing of the next batch asks for its version.
RequestVersion(p) ==
    /\ Accepting
    /\ ~ waiting[p]
    /\ requestNum[p] <= MaxRequests
    /\ requests' = requests \cup
          {[proxy |-> p, requestNum |-> requestNum[p], processed |-> processed[p]]}
    /\ requestNum' = [requestNum EXCEPT ![p] = @ + 1]
    /\ waiting' = [waiting EXCEPT ![p] = TRUE]
    /\ UNCHANGED <<masterVars, balancerVars, processed, keyResolvers, answers, assigned, batches>>

\* keyResolvers after a reply: a move is appended with the version it starts at.
ApplyMove(map, r) ==
    IF r.moveTo = NoMove THEN map
    ELSE Append(map, [version |-> r.moveVersion, resolver |-> r.moveTo])

\* The reply arrives; the batch is built for the resolvers in the same step.
ReceiveVersion(p, r) ==
    /\ waiting[p]
    /\ r.proxy = p
    /\ r.requestNum = requestNum[p] - 1
    /\ waiting' = [waiting EXCEPT ![p] = FALSE]
    /\ processed' = [processed EXCEPT ![p] = r.requestNum]
    /\ keyResolvers' = [keyResolvers EXCEPT ![p] = ApplyMove(@, r)]
    /\ batches' = batches \cup {[proxy |-> p, prevVersion |-> r.prevVersion,
                                 version |-> r.version, resolvers |-> keyResolvers'[p]]}
    /\ answers' = answers \ {r}
    /\ UNCHANGED <<masterVars, balancerVars, requestNum, requests, assigned>>

\* Mutant: only the latest entry is left.
CoalescedToLast(map, oldest) == <<[map[Len(map)] EXCEPT !.version = 0]>>

\* What reply() of a finished batch leaves of keyResolvers: entries that ended
\* before oldest are dropped and the first one left starts at 0.
Coalesced(map, oldest) ==
    LET dropped == {i \in DOMAIN map : i > 1 /\ \A j \in 2 .. i : map[j].version < oldest}
        kept == SubSeq(map, Cardinality(dropped) + 1, Len(map))
    IN  IF kept[1].version < oldest THEN [kept EXCEPT ![1].version = 0] ELSE kept

Coalesce(p, b) ==
    /\ b.proxy = p
    /\ keyResolvers' = [keyResolvers EXCEPT ![p] = Coalesced(@, b.prevVersion - WriteLife)]
    /\ UNCHANGED <<masterVars, balancerVars, requestNum, processed, waiting, requests, answers,
                   assigned, batches>>

Next ==
    \/ \E m \in requests :
          \/ \E answered \in BOOLEAN : AnswerRepeated(m, answered)
          \/ IgnoreAcknowledged(m)
          \/ \E answered \in BOOLEAN :
                \E v \in {RecoveryTransactionVersion} \cup NextVersions(version) :
                    AssignVersion(m, v, answered)
    \/ \E dest \in Resolver : Balance(dest)
    \/ \E p \in CommitProxy :
          \/ RequestVersion(p)
          \/ \E r \in answers : ReceiveVersion(p, r)
          \/ \E b \in batches : Coalesce(p, b)

Spec == Init /\ [][Next]_vars

\* A request is resent until its reply has arrived, and the master and the
\* proxy handle what arrives.
Serve(p) ==
    \E m \in requests :
        /\ m.proxy = p
        /\ \/ AnswerRepeated(m, TRUE)
           \/ \E v \in {RecoveryTransactionVersion} \cup NextVersions(version) :
                 AssignVersion(m, v, TRUE)

Fairness ==
    \A p \in CommitProxy :
        /\ WF_vars(Serve(p))
        /\ WF_vars(\E r \in answers : ReceiveVersion(p, r))

FairSpec == Spec /\ Fairness
-----------------------------------------------------------------------------
(***************************************************************************)
(* Correctness.                                                            *)
(***************************************************************************)

\* The resolvers and the logs process a batch when they have processed its
\* prevVersion, so the versions must form one chain that starts at the end of
\* the last epoch, never forks and never goes back.
SingleChain ==
    /\ \A a \in assigned :
          /\ a.prevVersion < a.version
          /\ a.version <= version
          /\ \/ a.prevVersion = LastEpochEnd
             \/ \E b \in assigned : b.version = a.prevVersion
    /\ \A a, b \in assigned :
          a # b => a.version # b.version /\ a.prevVersion # b.prevVersion

\* A version whose batch never comes would stop the chain for ever.  Repeated,
\* late and lost messages notwithstanding, every version the master made up is
\* the version of a batch, or of the batch its proxy is about to build.
NoAbandonedVersion ==
    \A a \in assigned :
        \/ \E b \in batches : b.proxy = a.proxy /\ b.version = a.version
        \/ waiting[a.proxy] /\ a.requestNum = requestNum[a.proxy] - 1

\* "The latest request can never be acknowledged": the reply to the last
\* request the master served is still there to be sent again.
LatestReplyKept ==
    \A p \in CommitProxy : latestRequestNum[p] > 0 =>
        \E r \in replies[p] : r.requestNum = latestRequestNum[p]

\* One chain without holes: versions follow each other, and each is some batch's.
ChainInv == SingleChain /\ NoAbandonedVersion

\* What the master and the proxies keep has its type and is enough to answer again.
MasterInv == TypeOK /\ LatestReplyKept

\* The resolvers addWriteConflictRanges and addReadConflictRanges send the
\* range to, for a transaction that read at the given version.
WriteResolver(map) == map[Len(map)].resolver

ReadResolvers(map, readSnapshot) ==
    {map[i].resolver : i \in {j \in DOMAIN map :
        \A k \in j + 1 .. Len(map) : map[k].version >= readSnapshot}}

\* A transaction must be checked by every resolver that heard of a write which
\* could conflict with it.  While a range moves, the proxies learn of it at
\* different times; still, a read at a version the resolvers do not reject as
\* too old is sent to the resolver of every write between it and its commit.
ReadsMeetWrites ==
    \A r, w \in batches :
        \A snapshot \in (r.version - WriteLife) .. (w.version - 1) :
            w.version < r.version =>
                WriteResolver(w.resolvers) \in ReadResolvers(r.resolvers, snapshot)

\* A batch that asked for a version gets one.
VersionArrives == \A p \in CommitProxy : waiting[p] ~> ~ waiting[p]
=====================================================================================
