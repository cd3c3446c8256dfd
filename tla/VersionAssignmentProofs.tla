-------------------------- MODULE VersionAssignmentProofs --------------------------
(***************************************************************************)
(* Proofs, for any number of proxies, resolvers, requests and moves, that  *)
(* versions form one chain without holes, that the master can repeat its   *)
(* last reply, and that a read meets the writes it could conflict with     *)
(* although key ranges move between resolvers.                             *)
(***************************************************************************)
EXTENDS VersionAssignment, FiniteSetTheorems, SequenceTheorems, TLAPS

-----------------------------------------------------------------------------
(***************************************************************************)
(* The inductive invariant.                                                *)
(***************************************************************************)

Entry == [version : Nat, resolver : Resolver]

\* The range's owner at the beginning, the move a reply carries, the pending move.
FirstMove == [version |-> 0, resolver |-> FirstResolver]

MoveOf(a) == [version |-> a.moveVersion, resolver |-> a.moveTo]

Carried == {MoveOf(a) : a \in {b \in assigned : b.moveTo # NoMove}}

Pending == IF moveTo = NoMove THEN {} ELSE {[version |-> moveVersion, resolver |-> moveTo]}

\* All moves so far, with the version from which each one counts.
Moves == {FirstMove} \cup Carried \cup Pending

\* The chain of versions, and the order in which one proxy's requests got theirs.
InvChain ==
    /\ version = invalidVersion => assigned = {} /\ moveTo = NoMove
    /\ version # invalidVersion => /\ version >= RecoveryTransactionVersion
                                   /\ \E a \in assigned : a.version = version
    /\ SingleChain
    /\ \A a \in assigned : a.requestNum <= latestRequestNum[a.proxy]
    /\ \A a, b \in assigned : a.proxy = b.proxy =>
          /\ a.requestNum = b.requestNum => a = b
          /\ a.requestNum < b.requestNum => a.version < b.version
    /\ answers \subseteq assigned
    /\ \A p \in CommitProxy : \A a \in replies[p] : a \in assigned /\ a.proxy = p

\* Master and proxy agree about the request that is outstanding.
InvRequest ==
    /\ \A m \in requests : m.requestNum < requestNum[m.proxy]
    /\ \A p \in CommitProxy :
          IF waiting[p]
          THEN /\ latestRequestNum[p] \in {requestNum[p] - 1, requestNum[p] - 2}
               /\ processed[p] = requestNum[p] - 2
          ELSE /\ latestRequestNum[p] = requestNum[p] - 1
               /\ processed[p] = requestNum[p] - 1

\* Every batch has a version that was assigned to its proxy and processed there.
InvBatches ==
    \A b \in batches : \E a \in assigned :
        /\ a.proxy = b.proxy
        /\ a.version = b.version
        /\ a.prevVersion = b.prevVersion
        /\ a.requestNum <= processed[b.proxy]

\* Each move reaches every proxy once, with the first version assigned to the proxy
\* from the version of the move on.
InvMoves ==
    /\ moveTo = NoMove => needMove = {}
    /\ moveTo # NoMove => moveVersion > 0 /\ moveVersion <= version + 1
    /\ \A p \in needMove : \A a \in assigned : a.proxy = p => a.version < moveVersion
    /\ \A a \in assigned : a.moveTo # NoMove =>
          /\ 0 < a.moveVersion
          /\ a.moveVersion <= a.version
          /\ \A c \in assigned : c.proxy = a.proxy /\ c.version < a.version => c.version < a.moveVersion
    /\ \A m \in Moves \ {FirstMove} : \A p \in CommitProxy :
          \/ m \in Pending /\ p \in needMove
          \/ \E c \in assigned : c.proxy = p /\ c.moveTo # NoMove /\ MoveOf(c) = m
    /\ \A m, n \in Moves : m.version = n.version => m = n

\* keyResolvers of a proxy whose last version is L, when M are the moves: the first
\* entry stands for a move so old that no read at L asks for what was before it, the
\* others are all the moves since then.
MapOver(M, map, L, base) ==
    /\ map[1].resolver = base.resolver
    /\ base.version <= L
    /\ base.version = 0 \/ base.version < L - WriteLife
    /\ \A i \in 2 .. Len(map) :
          map[i] \in M /\ base.version < map[i].version /\ map[i].version <= L
    /\ \A i, j \in 2 .. Len(map) : i < j => map[i].version < map[j].version
    /\ \A m \in M : base.version < m.version /\ m.version <= L =>
          \E i \in 2 .. Len(map) : map[i] = m

MapOK(M, map, L) == Len(map) >= 1 /\ \E base \in M : MapOver(M, map, L, base)

\* L is the version of the proxy's last batch, or 0.
IsLast(p, L) ==
    /\ L = 0 \/ \E b \in batches : b.proxy = p /\ b.version = L
    /\ \A b \in batches : b.proxy = p => b.version <= L

InvMap ==
    /\ \A b \in batches : MapOK(Moves, b.resolvers, b.version)
    /\ \A p \in CommitProxy :
          \E L \in {0} \cup {b.version : b \in batches} : IsLast(p, L) /\ MapOK(Moves, keyResolvers[p], L)

IInv == /\ TypeOK
        /\ LatestReplyKept
        /\ NoAbandonedVersion
        /\ InvChain
        /\ InvRequest
        /\ InvBatches
        /\ InvMoves
        /\ InvMap

-----------------------------------------------------------------------------
(***************************************************************************)
(* Lemmas about the operators.                                             *)
(***************************************************************************)

\* figureVersion moves less than toAdd away from the rate, so it never stands still.
LEMMA OffsetBelowStep ==
    ASSUME NEW toAdd \in ToAdd
    PROVE  /\ toAdd \in Nat
           /\ MaxOffset(toAdd) \in Nat
           /\ MaxOffset(toAdd) < toAdd
<1>1. /\ toAdd \in Nat /\ toAdd > 0 /\ RateNumerator \in Nat /\ RateDenominator \in Nat
      /\ RateDenominator > 0 /\ RateNumerator < RateDenominator /\ RateOffset \in Nat
  BY RateAssumption
<1> DEFINE x == toAdd * RateNumerator
           q == x \div RateDenominator
<1>2. x \in Nat
  BY <1>1
<1>3. x < toAdd * RateDenominator
  <2>1. ASSUME NEW a \in Nat, NEW b \in Nat, NEW c \in Nat, a > 0, b < c
        PROVE  a * b < a * c
    BY <2>1
  <2> QED
    BY <1>1, <2>1
<1> HIDE DEF x
<1>4. q \in Nat /\ q * RateDenominator <= x
  BY <1>1, <1>2
<1> HIDE DEF q
<1>5. q < toAdd
  <2>1. ASSUME NEW a \in Nat, NEW b \in Nat, NEW c \in Nat, a * c < b * c
        PROVE  a < b
    BY <2>1
  <2>2. q * RateDenominator < toAdd * RateDenominator
    <3>1. q * RateDenominator \in Nat /\ toAdd * RateDenominator \in Nat
      BY <1>1, <1>4
    <3> QED
      BY <1>2, <1>3, <1>4, <3>1
  <2> QED
    BY <1>1, <1>4, <2>1, <2>2
<1>6. MaxOffset(toAdd) = SmallerOf(q, RateOffset)
  BY DEF MaxOffset, q, x
<1> QED
  BY <1>1, <1>4, <1>5, <1>6 DEF SmallerOf

\* Every version that may follow is later, with and without a reference version.
LEMMA VersionsAdvance ==
    ASSUME NEW current \in Nat, NEW v \in NextVersions(current)
    PROVE  v \in Nat /\ v > current
<1>1. CASE Expected = {}
  BY <1>1, OffsetBelowStep, RateAssumption DEF NextVersions
<1>2. CASE Expected # {}
  <2>1. PICK expected \in Expected, toAdd \in ToAdd : v = FigureVersion(current, expected, toAdd)
    BY <1>2 DEF NextVersions
  <2>2. /\ toAdd \in Nat /\ MaxOffset(toAdd) \in Nat /\ MaxOffset(toAdd) < toAdd
        /\ expected \in Int
    BY OffsetBelowStep, RateAssumption
  <2> QED
    BY <2>1, <2>2 DEF FigureVersion, Clamp
<1> QED
  BY <1>1, <1>2

\* What reply() drops of keyResolvers is a prefix, and the entry it leaves at the
\* front is the last one that began before oldest.
LEMMA CoalescedPrefix ==
    ASSUME NEW map \in KeyResolvers, Len(map) >= 1, NEW oldest \in Int
    PROVE  \E d \in 0 .. Len(map) - 1 :
              /\ \A i \in 2 .. d + 1 : map[i].version < oldest
              /\ Coalesced(map, oldest) \in KeyResolvers
              /\ Len(Coalesced(map, oldest)) = Len(map) - d
              /\ Coalesced(map, oldest)[1].resolver = map[d + 1].resolver
              /\ \A i \in 2 .. Len(map) - d : Coalesced(map, oldest)[i] = map[d + i]
<1> DEFINE n == Len(map)
           dropped == {i \in DOMAIN map : i > 1 /\ \A j \in 2 .. i : map[j].version < oldest}
           d == Cardinality(dropped)
           kept == SubSeq(map, d + 1, n)
<1>0. map \in Seq(Entry)
  BY DEF KeyResolvers, Entry
<1>1. n \in Nat /\ n >= 1 /\ DOMAIN map = 1 .. n
  BY DEF KeyResolvers
<1>2. dropped \subseteq 2 .. n
  BY <1>1
<1>3. IsFiniteSet(2 .. n) /\ Cardinality(2 .. n) = n - 1
  <2>1. CASE n = 1
    BY <2>1, FS_Interval
  <2>2. CASE n > 1
    BY <1>1, <2>2, FS_Interval
  <2> QED
    BY <1>1, <2>1, <2>2
<1>4. IsFiniteSet(dropped) /\ d \in Nat /\ d <= n - 1
  BY <1>2, <1>3, FS_Subset, FS_CardinalityType
<1>5. dropped \subseteq 2 .. d + 1
  <2> SUFFICES ASSUME NEW i \in dropped
               PROVE  i <= d + 1
    BY <1>2, <1>4
  <2>1. i \in Int /\ i >= 2 /\ 2 .. i \subseteq dropped
    BY <1>1
  <2>2. Cardinality(2 .. i) = i - 1 /\ IsFiniteSet(2 .. i)
    BY <2>1, FS_Interval
  <2>3. Cardinality(2 .. i) <= d
    BY <1>4, <2>1, FS_Subset
  <2> QED
    BY <1>4, <2>1, <2>2, <2>3
<1>6. dropped = 2 .. d + 1
  <2>1. ASSUME NEW k \in Nat
        PROVE  IsFiniteSet(2 .. k + 1) /\ Cardinality(2 .. k + 1) = k
    BY FS_Interval
  <2>2. IsFiniteSet(2 .. d + 1) /\ Cardinality(2 .. d + 1) = d
    BY <1>4, <2>1
  <2> QED
    BY <1>4, <1>5, <2>2, FS_Subset
<1>7. \A i \in 2 .. d + 1 : map[i].version < oldest
  <2> SUFFICES ASSUME NEW i \in 2 .. d + 1
               PROVE  map[i].version < oldest
    OBVIOUS
  <2>1. i \in dropped /\ i \in 2 .. i
    BY <1>4, <1>6
  <2> QED
    BY <2>1
<1> HIDE DEF dropped, d
<1>8. /\ kept \in KeyResolvers
      /\ Len(kept) = n - d
      /\ \A i \in 1 .. n - d : kept[i] = map[d + i]
  <2>1. ASSUME NEW k \in Nat, k <= n - 1
        PROVE  /\ SubSeq(map, k + 1, n) \in KeyResolvers
               /\ Len(SubSeq(map, k + 1, n)) = n - k
               /\ \A i \in 1 .. n - k : SubSeq(map, k + 1, n)[i] = map[k + i]
    <3>1. k + 1 \in Int /\ n \in Int /\ \A i \in k + 1 .. n : map[i] \in Entry
      BY <1>0, <1>1, <2>1
    <3>2. /\ SubSeq(map, k + 1, n) \in Seq(Entry)
          /\ Len(SubSeq(map, k + 1, n)) = IF k + 1 <= n THEN n - (k + 1) + 1 ELSE 0
          /\ \A i \in 1 .. n - (k + 1) + 1 : SubSeq(map, k + 1, n)[i] = map[(k + 1) + i - 1]
      BY <3>1, SubSeqProperties
    <3> QED
      BY <1>1, <2>1, <3>2 DEF KeyResolvers, Entry
  <2> QED
    BY <1>4, <2>1
<1>9. Coalesced(map, oldest) = IF kept[1].version < oldest THEN [kept EXCEPT ![1].version = 0] ELSE kept
  BY DEF Coalesced, d, dropped
<1> HIDE DEF kept
<1>10. kept[1] \in Entry /\ 1 \in 1 .. Len(kept)
  <2>1. 1 \in 1 .. Len(kept)
    BY <1>1, <1>4, <1>8
  <2>2. kept \in Seq(Entry)
    BY <1>8 DEF KeyResolvers, Entry
  <2> QED
    BY <2>1, <2>2
<1> DEFINE cut == [kept EXCEPT ![1] = [kept[1] EXCEPT !.version = 0]]
<1>11. [kept[1] EXCEPT !.version = 0] \in Entry
  BY <1>10 DEF Entry
<1>12. /\ cut \in KeyResolvers
       /\ Len(cut) = n - d
       /\ cut[1] = [kept[1] EXCEPT !.version = 0]
       /\ \A i \in 2 .. n - d : cut[i] = kept[i]
  BY <1>4, <1>8, <1>10, <1>11 DEF KeyResolvers, Entry
<1>13. cut[1].resolver = kept[1].resolver
  BY <1>10, <1>12 DEF Entry
<1>14. Coalesced(map, oldest) = IF kept[1].version < oldest THEN cut ELSE kept
  BY <1>9
<1> HIDE DEF cut, n
<1>15. kept[1] = map[d + 1]
  BY <1>1, <1>4, <1>8
<1>16. /\ Coalesced(map, oldest) \in KeyResolvers
       /\ Len(Coalesced(map, oldest)) = n - d
       /\ Coalesced(map, oldest)[1].resolver = map[d + 1].resolver
       /\ \A i \in 2 .. n - d : Coalesced(map, oldest)[i] = map[d + i]
  <2>1. \A i \in 2 .. n - d : i \in 1 .. n - d
    BY <1>1, <1>4
  <2>2. CASE kept[1].version < oldest
    BY <1>8, <1>12, <1>13, <1>14, <1>15, <2>1, <2>2
  <2>3. CASE ~ (kept[1].version < oldest)
    BY <1>8, <1>14, <1>15, <2>1, <2>3
  <2> QED
    BY <2>2, <2>3
<1>17. d \in 0 .. n - 1
  BY <1>1, <1>4
<1> QED
  BY <1>7, <1>16, <1>17 DEF n

-----------------------------------------------------------------------------
(***************************************************************************)
(* What the steps do.                                                      *)
(***************************************************************************)

\* The reply getVersion makes up for a new request, and what it changes.
AssignedReply(m, r) ==
    /\ m \in requests
    /\ r \in GetCommitVersionReply
    /\ r.proxy = m.proxy
    /\ r.requestNum = m.requestNum
    /\ r.requestNum = latestRequestNum[m.proxy] + 1
    /\ r.prevVersion = IF version = invalidVersion THEN LastEpochEnd ELSE version
    /\ r.version > version
    /\ r.version >= RecoveryTransactionVersion
    /\ version = invalidVersion => r.version = RecoveryTransactionVersion
    /\ version' = r.version
    /\ IF version # invalidVersion /\ m.proxy \in needMove
       THEN /\ r.moveTo = moveTo
            /\ r.moveVersion = moveVersion
            /\ needMove' = needMove \ {m.proxy}
            /\ moveTo' = IF needMove = {m.proxy} THEN NoMove ELSE moveTo
       ELSE r.moveTo = NoMove /\ UNCHANGED <<needMove, moveTo>>
    /\ replies' = [replies EXCEPT ![m.proxy] = Keep(m, r)]
    /\ latestRequestNum' = [latestRequestNum EXCEPT ![m.proxy] = m.requestNum]
    /\ assigned' = assigned \cup {r}
    /\ answers' \subseteq answers \cup {r}
    /\ UNCHANGED <<moveVersion, owner, moves, requestNum, processed, waiting, keyResolvers, batches,
                   requests>>

\* AssignVersion makes up such a reply.
LEMMA AssignMakesReply ==
    ASSUME TypeOK, version # invalidVersion => version >= RecoveryTransactionVersion,
           NEW m \in requests, NEW v, NEW answered \in BOOLEAN, AssignVersion(m, v, answered)
    PROVE  \E r : AssignedReply(m, r)
<1> USE VersionAssumption DEF invalidVersion
<1> DEFINE p == m.proxy
           first == version = invalidVersion
           moved == ~ first /\ p \in needMove
           r == [proxy |-> p, requestNum |-> m.requestNum,
                 prevVersion |-> IF first THEN LastEpochEnd ELSE version, version |-> v,
                 moveTo |-> IF moved THEN moveTo ELSE NoMove,
                 moveVersion |-> IF moved THEN moveVersion ELSE invalidVersion]
<1>1. /\ m.proxy \in CommitProxy /\ m.requestNum \in Nat /\ latestRequestNum[p] \in Nat
      /\ version \in Int /\ moveTo \in Resolver \cup {NoMove} /\ moveVersion \in Int
  BY DEF TypeOK, GetCommitVersionRequest
<1>2. v \in Nat /\ v > version /\ v >= RecoveryTransactionVersion /\ (first => v = RecoveryTransactionVersion)
  <2>1. CASE first
    BY <2>1 DEF AssignVersion
  <2>2. CASE ~ first
    <3>1. version \in Nat /\ v \in NextVersions(version)
      BY <2>2 DEF AssignVersion, TypeOK
    <3> QED
      BY <2>2, <3>1, VersionsAdvance
  <2> QED
    BY <2>1, <2>2
<1>3. r.requestNum = latestRequestNum[p] + 1
  BY <1>1 DEF AssignVersion, InOrder, IsNew
<1>4. (IF first THEN LastEpochEnd ELSE version) \in Nat
  BY DEF TypeOK
<1>5. r \in GetCommitVersionReply
  BY <1>1, <1>2, <1>4 DEF GetCommitVersionReply
<1>6. /\ version' = v
      /\ IF first THEN UNCHANGED <<needMove, moveTo>> ELSE SetChangesInReply(p)
      /\ replies' = [replies EXCEPT ![p] = Keep(m, r)]
      /\ latestRequestNum' = [latestRequestNum EXCEPT ![p] = m.requestNum]
      /\ assigned' = assigned \cup {r}
      /\ Deliver(m, answered, {r})
      /\ UNCHANGED <<moveVersion, owner, moves, proxyVars, requests>>
  BY DEF AssignVersion
<1>7. answers' \subseteq answers \cup {r}
  BY <1>6 DEF Deliver
<1>8. IF moved
      THEN /\ needMove' = needMove \ {p}
           /\ moveTo' = IF needMove = {p} THEN NoMove ELSE moveTo
      ELSE UNCHANGED <<needMove, moveTo>>
  BY <1>6 DEF SetChangesInReply
<1>9. /\ r.proxy = p /\ r.requestNum = m.requestNum /\ r.version = v
      /\ r.prevVersion = IF first THEN LastEpochEnd ELSE version
      /\ r.moveTo = IF moved THEN moveTo ELSE NoMove
      /\ r.moveVersion = IF moved THEN moveVersion ELSE invalidVersion
  OBVIOUS
<1> HIDE DEF r
<1>10. AssignedReply(m, r)
  <2>1. IF version # invalidVersion /\ m.proxy \in needMove
        THEN /\ r.moveTo = moveTo
             /\ r.moveVersion = moveVersion
             /\ needMove' = needMove \ {m.proxy}
             /\ moveTo' = IF needMove = {m.proxy} THEN NoMove ELSE moveTo
        ELSE r.moveTo = NoMove /\ UNCHANGED <<needMove, moveTo>>
    BY <1>8, <1>9
  <2> QED
    BY <1>2, <1>3, <1>5, <1>6, <1>7, <1>9, <2>1 DEF AssignedReply, proxyVars
<1> QED
  BY <1>10

\* The steps that send a reply again, start a batch or do nothing.
Repeats ==
    /\ answers' \subseteq answers \cup UNION {replies[p] : p \in CommitProxy}
    /\ UNCHANGED <<masterVars, balancerVars, proxyVars, requests, assigned>>

Requested(p) ==
    /\ ~ waiting[p]
    /\ requests' = requests \cup
          {[proxy |-> p, requestNum |-> requestNum[p], processed |-> processed[p]]}
    /\ requestNum' = [requestNum EXCEPT ![p] = @ + 1]
    /\ waiting' = [waiting EXCEPT ![p] = TRUE]
    /\ UNCHANGED <<masterVars, balancerVars, processed, keyResolvers, answers, assigned, batches>>

\* Every step is of one of these kinds.
LEMMA StepKinds ==
    ASSUME TypeOK, version # invalidVersion => version >= RecoveryTransactionVersion, [Next]_vars
    PROVE  \/ \E m \in requests : \E r : AssignedReply(m, r)
           \/ Repeats
           \/ \E dest \in Resolver : Balance(dest)
           \/ \E p \in CommitProxy : Requested(p)
           \/ \E p \in CommitProxy, r \in answers : ReceiveVersion(p, r)
           \/ \E p \in CommitProxy, b \in batches : Coalesce(p, b)
<1>1. ASSUME NEW m \in requests, NEW answered \in BOOLEAN, AnswerRepeated(m, answered)
      PROVE  Repeats
  <2>1. m.proxy \in CommitProxy
    BY DEF TypeOK, GetCommitVersionRequest
  <2>2. answers' \subseteq answers \cup replies[m.proxy]
    BY <1>1 DEF AnswerRepeated, Deliver, Cached
  <2> QED
    BY <1>1, <2>1, <2>2 DEF AnswerRepeated, Repeats
<1>2. ASSUME NEW m \in requests, IgnoreAcknowledged(m)
      PROVE  Repeats
  BY <1>2 DEF IgnoreAcknowledged, Repeats, vars, masterVars, balancerVars, proxyVars
<1>3. ASSUME UNCHANGED vars
      PROVE  Repeats
  BY <1>3 DEF Repeats, vars, masterVars, balancerVars, proxyVars
<1>4. ASSUME NEW m \in requests, NEW v, NEW answered \in BOOLEAN, AssignVersion(m, v, answered)
      PROVE  \E r : AssignedReply(m, r)
  BY <1>4, AssignMakesReply
<1>5. ASSUME NEW p \in CommitProxy, RequestVersion(p)
      PROVE  Requested(p)
  BY <1>5 DEF RequestVersion, Requested
<1> QED
  BY <1>1, <1>2, <1>3, <1>4, <1>5 DEF Next

-----------------------------------------------------------------------------
(***************************************************************************)
(* Type correctness.                                                       *)
(***************************************************************************)

\* The initial state has its types.
LEMMA TypeInit == Init => TypeOK
<1> SUFFICES ASSUME Init
             PROVE  TypeOK
  OBVIOUS
<1>1. FirstResolver \in Resolver
  BY ResolverAssumption
<1>2. <<FirstMove>> \in Seq(Entry)
  BY <1>1 DEF FirstMove, Entry
<1>3. keyResolvers \in [CommitProxy -> KeyResolvers]
  BY <1>2 DEF Init, KeyResolvers, FirstMove, Entry
<1> QED
  BY <1>1, <1>3 DEF Init, TypeOK, invalidVersion

\* keyResolvers is never empty, and a move a reply carries has a version of the epoch.
LEMMA TypeStep ==
    ASSUME TypeOK, InvChain, InvMoves, InvMap, [Next]_vars
    PROVE  TypeOK'
<1> USE VersionAssumption, ResolverAssumption DEF invalidVersion
<1>1. ASSUME NEW m \in requests, NEW r, AssignedReply(m, r)
      PROVE  TypeOK'
  <2>1. m.proxy \in CommitProxy /\ m.requestNum \in Nat
    BY DEF TypeOK, GetCommitVersionRequest
  <2>2. /\ r \in GetCommitVersionReply /\ r.version \in Nat
        /\ version' = r.version
        /\ needMove' \subseteq needMove /\ moveTo' \in {moveTo, NoMove}
        /\ replies' = [replies EXCEPT ![m.proxy] = Keep(m, r)]
        /\ latestRequestNum' = [latestRequestNum EXCEPT ![m.proxy] = m.requestNum]
        /\ assigned' = assigned \cup {r}
        /\ answers' \subseteq answers \cup {r}
        /\ UNCHANGED <<moveVersion, owner, moves, requestNum, processed, waiting, keyResolvers,
                       batches, requests>>
    BY <1>1 DEF AssignedReply, GetCommitVersionReply
  <2>3. Keep(m, r) \subseteq GetCommitVersionReply
    BY <2>1, <2>2 DEF Keep, TypeOK
  <2>4. replies' \in [CommitProxy -> SUBSET GetCommitVersionReply]
    BY <2>1, <2>2, <2>3 DEF TypeOK
  <2>5. latestRequestNum' \in [CommitProxy -> Nat]
    BY <2>1, <2>2 DEF TypeOK
  <2> QED
    BY <2>2, <2>4, <2>5 DEF TypeOK
<1>2. ASSUME Repeats
      PROVE  TypeOK'
  BY <1>2 DEF Repeats, TypeOK, masterVars, balancerVars, proxyVars
<1>3. ASSUME NEW dest \in Resolver, Balance(dest)
      PROVE  TypeOK'
  BY <1>3 DEF Balance, TypeOK, masterVars, proxyVars
<1>4. ASSUME NEW p \in CommitProxy, Requested(p)
      PROVE  TypeOK'
  <2>1. requestNum[p] \in Nat \ {0} /\ processed[p] \in Nat
    BY DEF TypeOK
  <2>2. [proxy |-> p, requestNum |-> requestNum[p], processed |-> processed[p]]
           \in GetCommitVersionRequest
    BY <2>1 DEF GetCommitVersionRequest
  <2>3. requestNum' \in [CommitProxy -> Nat \ {0}] /\ waiting' \in [CommitProxy -> BOOLEAN]
    BY <1>4, <2>1 DEF Requested, TypeOK
  <2>4. requests' \in SUBSET GetCommitVersionRequest
    BY <1>4, <2>2 DEF Requested, TypeOK
  <2> QED
    BY <1>4, <2>3, <2>4 DEF Requested, TypeOK, masterVars, balancerVars
<1>5. ASSUME NEW p \in CommitProxy, NEW r \in answers, ReceiveVersion(p, r)
      PROVE  TypeOK'
  <2>1. r \in GetCommitVersionReply /\ keyResolvers[p] \in KeyResolvers
    BY DEF TypeOK
  <2>2. ApplyMove(keyResolvers[p], r) \in KeyResolvers
    <3>1. CASE r.moveTo = NoMove
      BY <2>1, <3>1 DEF ApplyMove
    <3>2. CASE r.moveTo # NoMove
      <4>1. r.moveVersion \in Nat /\ r.moveTo \in Resolver
        BY <2>1, <3>2 DEF InvChain, InvMoves, GetCommitVersionReply
      <4>2. [version |-> r.moveVersion, resolver |-> r.moveTo] \in Entry
        BY <4>1 DEF Entry
      <4>3. keyResolvers[p] \in Seq(Entry)
        BY <2>1 DEF KeyResolvers, Entry
      <4>4. Append(keyResolvers[p], [version |-> r.moveVersion, resolver |-> r.moveTo]) \in Seq(Entry)
        BY <4>2, <4>3
      <4> QED
        BY <3>2, <4>4 DEF ApplyMove, KeyResolvers, Entry
    <3> QED
      BY <3>1, <3>2
  <2>3. /\ keyResolvers' = [keyResolvers EXCEPT ![p] = ApplyMove(keyResolvers[p], r)]
        /\ waiting' = [waiting EXCEPT ![p] = FALSE]
        /\ processed' = [processed EXCEPT ![p] = r.requestNum]
        /\ batches' = batches \cup {[proxy |-> p, prevVersion |-> r.prevVersion,
                                     version |-> r.version, resolvers |-> keyResolvers'[p]]}
        /\ answers' = answers \ {r}
        /\ UNCHANGED <<masterVars, balancerVars, requestNum, requests, assigned>>
    BY <1>5 DEF ReceiveVersion
  <2>4. /\ keyResolvers' \in [CommitProxy -> KeyResolvers]
        /\ waiting' \in [CommitProxy -> BOOLEAN]
        /\ processed' \in [CommitProxy -> Nat]
    BY <2>1, <2>2, <2>3 DEF TypeOK, GetCommitVersionReply
  <2>5. [proxy |-> p, prevVersion |-> r.prevVersion, version |-> r.version,
         resolvers |-> keyResolvers'[p]]
           \in [proxy : CommitProxy, prevVersion : Nat, version : Nat, resolvers : KeyResolvers]
    BY <2>1, <2>4 DEF GetCommitVersionReply
  <2>6. batches' \in SUBSET [proxy : CommitProxy, prevVersion : Nat, version : Nat,
                             resolvers : KeyResolvers]
    BY <2>3, <2>5 DEF TypeOK
  <2> QED
    BY <2>3, <2>4, <2>6 DEF TypeOK, masterVars, balancerVars
<1>6. ASSUME NEW p \in CommitProxy, NEW b \in batches, Coalesce(p, b)
      PROVE  TypeOK'
  <2>1. /\ keyResolvers[p] \in KeyResolvers
        /\ Len(keyResolvers[p]) >= 1
        /\ b.prevVersion - WriteLife \in Int
    BY LifeAssumption DEF TypeOK, InvMap, MapOK
  <2>2. Coalesced(keyResolvers[p], b.prevVersion - WriteLife) \in KeyResolvers
    BY <2>1, CoalescedPrefix
  <2>3. keyResolvers' \in [CommitProxy -> KeyResolvers]
    BY <1>6, <2>2 DEF Coalesce, TypeOK
  <2> QED
    BY <1>6, <2>3 DEF Coalesce, TypeOK, masterVars, balancerVars
<1> QED
  BY <1>1, <1>2, <1>3, <1>4, <1>5, <1>6, StepKinds DEF InvChain

-----------------------------------------------------------------------------
(***************************************************************************)
(* The chain of versions.                                                  *)
(***************************************************************************)

\* The types of what the arithmetic is about.
LEMMA Values ==
    ASSUME TypeOK
    PROVE  /\ version \in Int /\ moveVersion \in Int
           /\ \A a \in assigned : /\ a.proxy \in CommitProxy /\ a.requestNum \in Nat
                                  /\ a.version \in Nat /\ a.prevVersion \in Nat
                                  /\ a.moveTo \in Resolver \cup {NoMove} /\ a.moveVersion \in Int
           /\ \A b \in batches : /\ b.proxy \in CommitProxy /\ b.version \in Nat
                                 /\ b.prevVersion \in Nat /\ b.resolvers \in KeyResolvers
           /\ \A p \in CommitProxy : /\ requestNum[p] \in Nat /\ requestNum[p] > 0
                                     /\ processed[p] \in Nat
                                     /\ latestRequestNum[p] \in Nat
                                     /\ waiting[p] \in BOOLEAN
                                     /\ keyResolvers[p] \in KeyResolvers
<1>1. version \in Int /\ moveVersion \in Int
  BY DEF TypeOK, invalidVersion
<1>2. \A a \in assigned : /\ a.proxy \in CommitProxy /\ a.requestNum \in Nat
                          /\ a.version \in Nat /\ a.prevVersion \in Nat
                          /\ a.moveTo \in Resolver \cup {NoMove} /\ a.moveVersion \in Int
  BY DEF TypeOK, GetCommitVersionReply
<1>3. \A b \in batches : /\ b.proxy \in CommitProxy /\ b.version \in Nat
                         /\ b.prevVersion \in Nat /\ b.resolvers \in KeyResolvers
  BY DEF TypeOK
<1>4. \A p \in CommitProxy : /\ requestNum[p] \in Nat /\ requestNum[p] > 0
                             /\ processed[p] \in Nat
                             /\ latestRequestNum[p] \in Nat
                             /\ waiting[p] \in BOOLEAN
                             /\ keyResolvers[p] \in KeyResolvers
  BY DEF TypeOK
<1> QED
  BY <1>1, <1>2, <1>3, <1>4

\* A new version extends the chain at its end.
LEMMA ChainStep ==
    ASSUME TypeOK, InvChain, InvMoves, [Next]_vars
    PROVE  InvChain'
<1> USE VersionAssumption DEF invalidVersion
<1>0. /\ version \in Int
      /\ \A a \in assigned : /\ a.proxy \in CommitProxy /\ a.requestNum \in Nat
                             /\ a.version \in Nat /\ a.prevVersion \in Nat
      /\ \A p \in CommitProxy : latestRequestNum[p] \in Nat
  BY Values
<1>1. ASSUME NEW m \in requests, NEW r, AssignedReply(m, r)
      PROVE  InvChain'
  <2>1. m.proxy \in CommitProxy
    BY DEF TypeOK, GetCommitVersionRequest
  <2>2. /\ r.proxy = m.proxy /\ r.requestNum = m.requestNum
        /\ r.requestNum = latestRequestNum[m.proxy] + 1
        /\ r.prevVersion = IF version = invalidVersion THEN LastEpochEnd ELSE version
        /\ r.version > version /\ r.version >= RecoveryTransactionVersion
        /\ version = invalidVersion => r.version = RecoveryTransactionVersion
        /\ version' = r.version
        /\ replies' = [replies EXCEPT ![m.proxy] = Keep(m, r)]
        /\ latestRequestNum' = [latestRequestNum EXCEPT ![m.proxy] = m.requestNum]
        /\ assigned' = assigned \cup {r}
        /\ answers' \subseteq answers \cup {r}
    BY <1>1 DEF AssignedReply
  <2>3. r.version \in Nat /\ r.requestNum \in Nat /\ r.prevVersion \in Nat
    BY <1>1 DEF AssignedReply, GetCommitVersionReply
  <2>4. \A a \in assigned : a.version <= version /\ a.prevVersion < a.version
    BY DEF InvChain, SingleChain
  <2>5. SingleChain'
    <3>1. ASSUME NEW a \in assigned'
          PROVE  /\ a.prevVersion < a.version
                 /\ a.version <= version'
                 /\ a.prevVersion = LastEpochEnd \/ \E b \in assigned' : b.version = a.prevVersion
      <4>1. CASE a \in assigned
        BY <1>0, <2>2, <2>3, <2>4, <4>1 DEF InvChain, SingleChain
      <4>2. CASE a = r
        <5>1. CASE version = invalidVersion
          BY <2>2, <2>3, <4>2, <5>1
        <5>2. CASE version # invalidVersion
          <6>1. PICK b \in assigned : b.version = version
            BY <5>2 DEF InvChain
          <6> QED
            BY <1>0, <2>2, <2>3, <4>2, <5>2, <6>1
        <5> QED
          BY <5>1, <5>2
      <4> QED
        BY <2>2, <4>1, <4>2
    <3>2. ASSUME NEW a \in assigned
          PROVE  a.version # r.version /\ a.prevVersion # r.prevVersion
      <4>1. version # invalidVersion
        BY DEF InvChain
      <4> QED
        BY <1>0, <2>2, <2>3, <2>4, <4>1
    <3>3. ASSUME NEW a \in assigned', NEW b \in assigned', a # b
          PROVE  a.version # b.version /\ a.prevVersion # b.prevVersion
      BY <2>2, <3>2, <3>3 DEF InvChain, SingleChain
    <3> QED
      BY <3>1, <3>3 DEF SingleChain
  <2>6. \A p \in CommitProxy : latestRequestNum'[p] =
            IF p = m.proxy THEN r.requestNum ELSE latestRequestNum[p]
    BY <2>1, <2>2 DEF TypeOK
  <2>7. ASSUME NEW a \in assigned'
        PROVE  a.requestNum <= latestRequestNum'[a.proxy]
    <3>1. CASE a \in assigned
      <4>1. a.requestNum <= latestRequestNum[a.proxy]
        BY <3>1 DEF InvChain
      <4> QED
        BY <1>0, <2>1, <2>2, <2>3, <2>6, <3>1, <4>1
    <3>2. CASE a = r
      BY <2>1, <2>2, <2>3, <2>6, <3>2
    <3> QED
      BY <2>2, <3>1, <3>2
  <2>8. ASSUME NEW a \in assigned, a.proxy = r.proxy
        PROVE  a.requestNum < r.requestNum /\ a.version < r.version
    <3>1. a.requestNum <= latestRequestNum[a.proxy]
      BY DEF InvChain
    <3> QED
      BY <1>0, <2>1, <2>2, <2>3, <2>4, <2>8, <3>1
  <2>9. ASSUME NEW a \in assigned', NEW b \in assigned', a.proxy = b.proxy
        PROVE  /\ a.requestNum = b.requestNum => a = b
               /\ a.requestNum < b.requestNum => a.version < b.version
    <3>1. CASE a \in assigned /\ b \in assigned
      BY <2>9, <3>1 DEF InvChain
    <3>2. CASE a \in assigned /\ b = r
      BY <1>0, <2>3, <2>8, <2>9, <3>2
    <3>3. CASE a = r /\ b \in assigned
      BY <1>0, <2>3, <2>8, <2>9, <3>3
    <3>4. CASE a = r /\ b = r
      BY <2>3, <3>4
    <3> QED
      BY <2>2, <3>1, <3>2, <3>3, <3>4
  <2>10. ASSUME NEW p \in CommitProxy, NEW a \in replies'[p]
         PROVE  a \in assigned' /\ a.proxy = p
    <3>1. replies'[p] \subseteq replies[p] \cup (IF p = m.proxy THEN {r} ELSE {})
      BY <2>1, <2>2 DEF Keep, TypeOK
    <3> QED
      BY <2>2, <2>10, <3>1 DEF InvChain
  <2>11. answers' \subseteq assigned'
    BY <2>2 DEF InvChain
  <2>12. version' >= RecoveryTransactionVersion /\ \E a \in assigned' : a.version = version'
    BY <2>2
  <2>13. version' # invalidVersion
    BY <2>2, <2>3
  <2> QED
    BY <2>5, <2>7, <2>9, <2>10, <2>11, <2>12, <2>13 DEF InvChain
<1>2. ASSUME UNCHANGED <<version, replies, latestRequestNum, assigned>>,
             version = invalidVersion => moveTo' = NoMove,
             answers' \subseteq assigned
      PROVE  InvChain'
  BY <1>2 DEF InvChain, SingleChain
<1>3. ASSUME Repeats
      PROVE  InvChain'
  <2>1. answers' \subseteq assigned
    BY <1>3 DEF Repeats, InvChain
  <2> QED
    BY <1>2, <1>3, <2>1 DEF Repeats, masterVars, balancerVars, InvChain
<1>4. ASSUME NEW dest \in Resolver, Balance(dest)
      PROVE  InvChain'
  BY <1>2, <1>4 DEF Balance, masterVars, InvChain
<1>5. ASSUME NEW p \in CommitProxy, Requested(p)
      PROVE  InvChain'
  BY <1>2, <1>5 DEF Requested, masterVars, balancerVars, InvChain
<1>6. ASSUME NEW p \in CommitProxy, NEW r \in answers, ReceiveVersion(p, r)
      PROVE  InvChain'
  <2>1. answers' \subseteq assigned
    BY <1>6 DEF ReceiveVersion, InvChain
  <2> QED
    BY <1>2, <1>6, <2>1 DEF ReceiveVersion, masterVars, balancerVars, InvChain
<1>7. ASSUME NEW p \in CommitProxy, NEW b \in batches, Coalesce(p, b)
      PROVE  InvChain'
  BY <1>2, <1>7 DEF Coalesce, masterVars, balancerVars, InvChain
<1> QED
  BY <1>1, <1>3, <1>4, <1>5, <1>6, <1>7, StepKinds DEF InvChain

\* The reply to the latest request is never dropped: only a later request of the same
\* proxy acknowledges it.
LEMMA LatestStep ==
    ASSUME TypeOK, InvChain, LatestReplyKept, [Next]_vars
    PROVE  LatestReplyKept'
<1>1. ASSUME NEW m \in requests, NEW r, AssignedReply(m, r)
      PROVE  LatestReplyKept'
  <2>1. m.proxy \in CommitProxy
    BY DEF TypeOK, GetCommitVersionRequest
  <2>2. /\ r.requestNum = m.requestNum
        /\ replies' = [replies EXCEPT ![m.proxy] = Keep(m, r)]
        /\ latestRequestNum' = [latestRequestNum EXCEPT ![m.proxy] = m.requestNum]
    BY <1>1 DEF AssignedReply
  <2>3. ASSUME NEW p \in CommitProxy, latestRequestNum'[p] > 0
        PROVE  \E x \in replies'[p] : x.requestNum = latestRequestNum'[p]
    <3>1. CASE p = m.proxy
      BY <2>1, <2>2, <3>1 DEF TypeOK, Keep
    <3>2. CASE p # m.proxy
      <4>1. replies'[p] = replies[p] /\ latestRequestNum'[p] = latestRequestNum[p]
        BY <2>1, <2>2, <3>2 DEF TypeOK
      <4> QED
        BY <2>3, <4>1 DEF LatestReplyKept
    <3> QED
      BY <3>1, <3>2
  <2> QED
    BY <2>3 DEF LatestReplyKept
<1>2. ASSUME UNCHANGED <<replies, latestRequestNum>>
      PROVE  LatestReplyKept'
  BY <1>2 DEF LatestReplyKept
<1> QED
  BY <1>1, <1>2, StepKinds DEF InvChain, Repeats, Balance, Requested, ReceiveVersion, Coalesce,
                               masterVars

\* Master and proxy go from one request to the next together.
LEMMA RequestStep ==
    ASSUME TypeOK, InvChain, InvRequest, [Next]_vars
    PROVE  InvRequest'
<1>0. /\ \A p \in CommitProxy : /\ requestNum[p] \in Nat /\ processed[p] \in Nat
                                /\ latestRequestNum[p] \in Nat /\ waiting[p] \in BOOLEAN
      /\ \A m \in requests : m.proxy \in CommitProxy /\ m.requestNum \in Nat
  BY DEF TypeOK, GetCommitVersionRequest
<1>1. ASSUME NEW m \in requests, NEW r, AssignedReply(m, r)
      PROVE  InvRequest'
  <2>1. /\ r.requestNum = m.requestNum
        /\ r.requestNum = latestRequestNum[m.proxy] + 1
        /\ latestRequestNum' = [latestRequestNum EXCEPT ![m.proxy] = m.requestNum]
        /\ UNCHANGED <<requestNum, processed, waiting, requests>>
    BY <1>1 DEF AssignedReply
  <2>2. \A p \in CommitProxy : latestRequestNum'[p] =
            IF p = m.proxy THEN m.requestNum ELSE latestRequestNum[p]
    BY <1>0, <2>1 DEF TypeOK
  <2>3. m.requestNum < requestNum[m.proxy]
    BY DEF InvRequest
  <2>4. waiting[m.proxy] /\ m.requestNum = requestNum[m.proxy] - 1
    BY <1>0, <2>1, <2>3 DEF InvRequest
  <2> QED
    BY <1>0, <2>1, <2>2, <2>4 DEF InvRequest
<1>2. ASSUME UNCHANGED <<latestRequestNum, requestNum, processed, waiting, requests>>
      PROVE  InvRequest'
  BY <1>2 DEF InvRequest
<1>3. ASSUME NEW p \in CommitProxy, Requested(p)
      PROVE  InvRequest'
  <2> DEFINE new == [proxy |-> p, requestNum |-> requestNum[p], processed |-> processed[p]]
  <2>1. /\ ~ waiting[p]
        /\ requests' = requests \cup {new}
        /\ requestNum' = [requestNum EXCEPT ![p] = @ + 1]
        /\ waiting' = [waiting EXCEPT ![p] = TRUE]
        /\ UNCHANGED <<latestRequestNum, processed>>
    BY <1>3 DEF Requested, masterVars
  <2>2. /\ requestNum'[p] = requestNum[p] + 1 /\ waiting'[p]
        /\ \A q \in CommitProxy : q # p => requestNum'[q] = requestNum[q] /\ waiting'[q] = waiting[q]
    BY <2>1 DEF TypeOK
  <2>3. ASSUME NEW m \in requests'
        PROVE  m.requestNum < requestNum'[m.proxy]
    <3>1. CASE m \in requests
      <4>1. m.requestNum < requestNum[m.proxy]
        BY <3>1 DEF InvRequest
      <4>2. CASE m.proxy = p
        BY <1>0, <2>2, <3>1, <4>1, <4>2
      <4>3. CASE m.proxy # p
        BY <1>0, <2>2, <3>1, <4>1, <4>3
      <4> QED
        BY <4>2, <4>3
    <3>2. CASE m = new
      <4>1. m.proxy = p /\ m.requestNum = requestNum[p]
        BY <3>2
      <4> QED
        BY <1>0, <2>2, <4>1
    <3> QED
      BY <2>1, <3>1, <3>2
  <2>4. ASSUME NEW q \in CommitProxy
        PROVE  IF waiting'[q]
               THEN /\ latestRequestNum'[q] \in {requestNum'[q] - 1, requestNum'[q] - 2}
                    /\ processed'[q] = requestNum'[q] - 2
               ELSE /\ latestRequestNum'[q] = requestNum'[q] - 1
                    /\ processed'[q] = requestNum'[q] - 1
    <3>1. CASE q = p
      <4>1. latestRequestNum[p] = requestNum[p] - 1 /\ processed[p] = requestNum[p] - 1
        BY <2>1 DEF InvRequest
      <4> QED
        BY <1>0, <2>1, <2>2, <3>1, <4>1
    <3>2. CASE q # p
      BY <2>1, <2>2, <3>2 DEF InvRequest
    <3> QED
      BY <3>1, <3>2
  <2> QED
    BY <2>3, <2>4 DEF InvRequest
<1>4. ASSUME NEW p \in CommitProxy, NEW r \in answers, ReceiveVersion(p, r)
      PROVE  InvRequest'
  <2>1. /\ waiting[p] /\ r.proxy = p /\ r.requestNum = requestNum[p] - 1
        /\ waiting' = [waiting EXCEPT ![p] = FALSE]
        /\ processed' = [processed EXCEPT ![p] = r.requestNum]
        /\ UNCHANGED <<latestRequestNum, requestNum, requests>>
    BY <1>4 DEF ReceiveVersion, masterVars
  <2>2. r.requestNum <= latestRequestNum[p]
    BY <2>1 DEF InvChain
  <2>3. /\ processed'[p] = requestNum[p] - 1 /\ ~ waiting'[p]
        /\ \A q \in CommitProxy : q # p => processed'[q] = processed[q] /\ waiting'[q] = waiting[q]
    BY <2>1 DEF TypeOK
  <2>4. latestRequestNum[p] = requestNum[p] - 1
    <3>1. latestRequestNum[p] \in {requestNum[p] - 1, requestNum[p] - 2}
      BY <2>1 DEF InvRequest
    <3> QED
      BY <1>0, <2>1, <2>2, <3>1
  <2>5. ASSUME NEW q \in CommitProxy
        PROVE  IF waiting'[q]
               THEN /\ latestRequestNum'[q] \in {requestNum'[q] - 1, requestNum'[q] - 2}
                    /\ processed'[q] = requestNum'[q] - 2
               ELSE /\ latestRequestNum'[q] = requestNum'[q] - 1
                    /\ processed'[q] = requestNum'[q] - 1
    <3>1. CASE q = p
      BY <2>1, <2>3, <2>4, <3>1
    <3>2. CASE q # p
      BY <2>1, <2>3, <3>2 DEF InvRequest
    <3> QED
      BY <3>1, <3>2
  <2> QED
    BY <2>1, <2>5 DEF InvRequest
<1>5. ASSUME Repeats
      PROVE  InvRequest'
  BY <1>2, <1>5 DEF Repeats, masterVars, proxyVars
<1>6. ASSUME NEW dest \in Resolver, Balance(dest)
      PROVE  InvRequest'
  BY <1>2, <1>6 DEF Balance, masterVars, proxyVars
<1>7. ASSUME NEW p \in CommitProxy, NEW b \in batches, Coalesce(p, b)
      PROVE  InvRequest'
  BY <1>2, <1>7 DEF Coalesce, masterVars
<1> QED
  BY <1>1, <1>3, <1>4, <1>5, <1>6, <1>7, StepKinds DEF InvChain

\* A new version is for the batch that waits, and a batch that stops waiting has got
\* the version that was assigned to it.
LEMMA AbandonedStep ==
    ASSUME TypeOK, InvChain, InvRequest, NoAbandonedVersion, [Next]_vars
    PROVE  NoAbandonedVersion'
<1>0. /\ \A p \in CommitProxy : /\ requestNum[p] \in Nat /\ latestRequestNum[p] \in Nat
                                /\ waiting[p] \in BOOLEAN
      /\ \A m \in requests : m.proxy \in CommitProxy /\ m.requestNum \in Nat
      /\ \A a \in assigned : a.proxy \in CommitProxy /\ a.requestNum \in Nat
  BY Values DEF TypeOK, GetCommitVersionRequest
<1>1. ASSUME NEW m \in requests, NEW r, AssignedReply(m, r)
      PROVE  NoAbandonedVersion'
  <2>1. /\ r.proxy = m.proxy /\ r.requestNum = m.requestNum
        /\ r.requestNum = latestRequestNum[m.proxy] + 1
        /\ assigned' = assigned \cup {r}
        /\ UNCHANGED <<requestNum, waiting, batches>>
    BY <1>1 DEF AssignedReply
  <2>2. m.requestNum < requestNum[m.proxy]
    BY DEF InvRequest
  <2>3. waiting[m.proxy] /\ m.requestNum = requestNum[m.proxy] - 1
    BY <1>0, <2>1, <2>2 DEF InvRequest
  <2> QED
    BY <2>1, <2>3 DEF NoAbandonedVersion
<1>2. ASSUME UNCHANGED <<assigned, requestNum, waiting, batches>>
      PROVE  NoAbandonedVersion'
  BY <1>2 DEF NoAbandonedVersion
<1>3. ASSUME NEW p \in CommitProxy, Requested(p)
      PROVE  NoAbandonedVersion'
  <2>1. /\ ~ waiting[p]
        /\ \A q \in CommitProxy : q # p => requestNum'[q] = requestNum[q] /\ waiting'[q] = waiting[q]
        /\ UNCHANGED <<assigned, batches>>
    BY <1>3 DEF Requested, TypeOK
  <2> QED
    BY <1>0, <2>1 DEF NoAbandonedVersion
<1>4. ASSUME NEW p \in CommitProxy, NEW r \in answers, ReceiveVersion(p, r)
      PROVE  NoAbandonedVersion'
  <2>1. /\ r.proxy = p /\ r.requestNum = requestNum[p] - 1
        /\ \A q \in CommitProxy : q # p => waiting'[q] = waiting[q]
        /\ \E x : batches' = batches \cup {[proxy |-> p, prevVersion |-> r.prevVersion,
                                           version |-> r.version, resolvers |-> x]}
        /\ UNCHANGED <<assigned, requestNum>>
    BY <1>4 DEF ReceiveVersion, TypeOK
  <2>2. r \in assigned
    BY DEF InvChain
  <2>3. ASSUME NEW a \in assigned
        PROVE  \/ \E b \in batches' : b.proxy = a.proxy /\ b.version = a.version
               \/ waiting'[a.proxy] /\ a.requestNum = requestNum'[a.proxy] - 1
    <3>1. CASE \E b \in batches : b.proxy = a.proxy /\ b.version = a.version
      BY <2>1, <3>1
    <3>2. CASE waiting[a.proxy] /\ a.requestNum = requestNum[a.proxy] - 1
      <4>1. CASE a.proxy = p
        <5>1. a = r
          BY <2>1, <2>2, <3>2, <4>1 DEF InvChain
        <5>2. PICK x : batches' = batches \cup {[proxy |-> p, prevVersion |-> r.prevVersion,
                                                 version |-> r.version, resolvers |-> x]}
          BY <2>1
        <5>3. [proxy |-> p, prevVersion |-> r.prevVersion, version |-> r.version, resolvers |-> x]
                 \in batches'
          BY <5>2
        <5> QED
          BY <2>1, <5>1, <5>3
      <4>2. CASE a.proxy # p
        BY <1>0, <2>1, <3>2, <4>2
      <4> QED
        BY <4>1, <4>2
    <3> QED
      BY <3>1, <3>2 DEF NoAbandonedVersion
  <2> QED
    BY <2>1, <2>3 DEF NoAbandonedVersion
<1>5. ASSUME Repeats
      PROVE  NoAbandonedVersion'
  BY <1>2, <1>5 DEF Repeats, proxyVars
<1>6. ASSUME NEW dest \in Resolver, Balance(dest)
      PROVE  NoAbandonedVersion'
  BY <1>2, <1>6 DEF Balance, proxyVars
<1>7. ASSUME NEW p \in CommitProxy, NEW b \in batches, Coalesce(p, b)
      PROVE  NoAbandonedVersion'
  BY <1>2, <1>7 DEF Coalesce
<1> QED
  BY <1>1, <1>3, <1>4, <1>5, <1>6, <1>7, StepKinds DEF InvChain

\* A batch is built from a reply of the master.
LEMMA BatchesStep ==
    ASSUME TypeOK, InvChain, InvRequest, InvBatches, [Next]_vars
    PROVE  InvBatches'
<1>0. /\ \A p \in CommitProxy : requestNum[p] \in Nat /\ processed[p] \in Nat
      /\ \A a \in assigned : a.proxy \in CommitProxy /\ a.requestNum \in Nat
      /\ \A b \in batches : b.proxy \in CommitProxy
  BY Values
<1>1. ASSUME NEW m \in requests, NEW r, AssignedReply(m, r)
      PROVE  InvBatches'
  <2>1. assigned' = assigned \cup {r} /\ UNCHANGED <<batches, processed>>
    BY <1>1 DEF AssignedReply
  <2> QED
    BY <2>1 DEF InvBatches
<1>2. ASSUME UNCHANGED <<assigned, processed, batches>>
      PROVE  InvBatches'
  BY <1>2 DEF InvBatches
<1>3. ASSUME NEW p \in CommitProxy, NEW r \in answers, ReceiveVersion(p, r)
      PROVE  InvBatches'
  <2>1. /\ waiting[p] /\ r.proxy = p /\ r.requestNum = requestNum[p] - 1
        /\ processed' = [processed EXCEPT ![p] = r.requestNum]
        /\ batches' = batches \cup {[proxy |-> p, prevVersion |-> r.prevVersion,
                                     version |-> r.version, resolvers |-> keyResolvers'[p]]}
        /\ UNCHANGED assigned
    BY <1>3 DEF ReceiveVersion
  <2>2. r \in assigned /\ r.requestNum \in Nat
    BY <1>0 DEF InvChain
  <2>3. processed[p] < r.requestNum
    BY <1>0, <2>1 DEF InvRequest
  <2>4. \A q \in CommitProxy : processed'[q] = IF q = p THEN r.requestNum ELSE processed[q]
    BY <2>1 DEF TypeOK
  <2>5. ASSUME NEW b \in batches
        PROVE  \E a \in assigned : /\ a.proxy = b.proxy /\ a.version = b.version
                                   /\ a.prevVersion = b.prevVersion
                                   /\ a.requestNum <= processed'[b.proxy]
    <3>1. PICK a \in assigned : /\ a.proxy = b.proxy /\ a.version = b.version
                                /\ a.prevVersion = b.prevVersion
                                /\ a.requestNum <= processed[b.proxy]
      BY DEF InvBatches
    <3>2. processed[b.proxy] <= processed'[b.proxy] /\ processed'[b.proxy] \in Nat
      BY <1>0, <2>2, <2>3, <2>4
    <3>3. a.requestNum <= processed'[b.proxy]
      BY <1>0, <3>1, <3>2
    <3> QED
      BY <3>1, <3>3
  <2> HIDE DEF InvBatches
  <2>6. ASSUME NEW b, b = [proxy |-> p, prevVersion |-> r.prevVersion, version |-> r.version,
                           resolvers |-> keyResolvers'[p]]
        PROVE  \E a \in assigned : /\ a.proxy = b.proxy /\ a.version = b.version
                                   /\ a.prevVersion = b.prevVersion
                                   /\ a.requestNum <= processed'[b.proxy]
    <3>1. b.proxy = p /\ b.version = r.version /\ b.prevVersion = r.prevVersion
      BY <2>6
    <3> QED
      BY <2>1, <2>2, <2>4, <3>1
  <2> QED
    BY <2>1, <2>5, <2>6 DEF InvBatches
<1>4. ASSUME Repeats
      PROVE  InvBatches'
  BY <1>2, <1>4 DEF Repeats, proxyVars
<1>5. ASSUME NEW dest \in Resolver, Balance(dest)
      PROVE  InvBatches'
  BY <1>2, <1>5 DEF Balance, proxyVars
<1>6. ASSUME NEW p \in CommitProxy, Requested(p)
      PROVE  InvBatches'
  BY <1>2, <1>6 DEF Requested
<1>7. ASSUME NEW p \in CommitProxy, NEW b \in batches, Coalesce(p, b)
      PROVE  InvBatches'
  BY <1>2, <1>7 DEF Coalesce
<1> QED
  BY <1>1, <1>3, <1>4, <1>5, <1>6, <1>7, StepKinds DEF InvChain

-----------------------------------------------------------------------------
(***************************************************************************)
(* Moves of the key range.                                                 *)
(***************************************************************************)

\* A move has a version and a resolver.
LEMMA MovesTyped ==
    ASSUME TypeOK, InvMoves
    PROVE  Moves \subseteq Entry
<1> USE DEF Entry
<1>1. FirstMove \in Entry
  BY ResolverAssumption DEF FirstMove
<1>2. ASSUME NEW a \in assigned, a.moveTo # NoMove
      PROVE  MoveOf(a) \in Entry
  <2>1. a.moveTo \in Resolver /\ a.moveVersion \in Nat
    BY <1>2, Values DEF InvMoves
  <2> QED
    BY <2>1 DEF MoveOf
<1>3. ASSUME moveTo # NoMove
      PROVE  [version |-> moveVersion, resolver |-> moveTo] \in Entry
  <2>1. moveTo \in Resolver /\ moveVersion \in Nat
    BY <1>3, Values DEF InvMoves, TypeOK
  <2> QED
    BY <2>1
<1> QED
  BY <1>1, <1>2, <1>3 DEF Moves, Carried, Pending

\* Only the balancer makes a new move; handing out a pending one changes nothing.
LEMMA AssignKeepsMoves ==
    ASSUME TypeOK, InvMoves, NEW m \in requests, NEW r, AssignedReply(m, r)
    PROVE  Moves' = Moves
<1>1. assigned' = assigned \cup {r} /\ moveVersion' = moveVersion
  BY DEF AssignedReply
<1>2. CASE version # invalidVersion /\ m.proxy \in needMove
  <2>1. moveTo # NoMove
    BY <1>2 DEF InvMoves
  <2>2. /\ r.moveTo = moveTo /\ r.moveVersion = moveVersion
        /\ moveTo' = moveTo \/ moveTo' = NoMove
    BY <1>2 DEF AssignedReply
  <2>3. Carried' = Carried \cup {MoveOf(r)}
    BY <1>1, <2>1, <2>2 DEF Carried, MoveOf
  <2>4. Pending = {MoveOf(r)}
    BY <2>1, <2>2 DEF Pending, MoveOf
  <2>5. Pending' \subseteq Pending
    BY <1>1, <2>1, <2>2 DEF Pending
  <2> QED
    BY <2>3, <2>4, <2>5 DEF Moves
<1>3. CASE ~ (version # invalidVersion /\ m.proxy \in needMove)
  <2>1. r.moveTo = NoMove /\ moveTo' = moveTo
    BY <1>3 DEF AssignedReply
  <2>2. Carried' = Carried
    BY <1>1, <2>1 DEF Carried
  <2>3. Pending' = Pending
    BY <1>1, <2>1 DEF Pending
  <2> QED
    BY <2>2, <2>3 DEF Moves
<1> QED
  BY <1>2, <1>3

\* A new move is later than every version so far and than every other move.
LEMMA BalanceAddsMove ==
    ASSUME TypeOK, InvChain, InvMoves, NEW dest \in Resolver, Balance(dest)
    PROVE  /\ Pending' = {[version |-> version + 1, resolver |-> dest]}
           /\ Moves' = Moves \cup Pending'
           /\ \A m \in Moves : m.version <= version
           /\ version \in Nat
<1>1. /\ version # invalidVersion /\ moveTo = NoMove
      /\ moveTo' = dest /\ moveVersion' = version + 1
      /\ UNCHANGED assigned
  BY DEF Balance
<1>2. dest # NoMove
  BY ResolverAssumption
<1>3. Pending' = {[version |-> version + 1, resolver |-> dest]}
  BY <1>1, <1>2 DEF Pending
<1>4. Carried' = Carried /\ Pending = {}
  BY <1>1 DEF Carried, Pending
<1>5. version \in Nat
  BY <1>1 DEF TypeOK
<1>6. ASSUME NEW m \in Moves
      PROVE  m.version <= version
  <2>1. CASE m = FirstMove
    BY <1>5, <2>1 DEF FirstMove
  <2>2. CASE m \in Carried
    <3>1. PICK a \in assigned : a.moveTo # NoMove /\ m = MoveOf(a)
      BY <2>2 DEF Carried
    <3>2. a.moveVersion <= a.version /\ a.version <= version
      BY <3>1 DEF InvMoves, InvChain, SingleChain
    <3>3. m.version = a.moveVersion
      BY <3>1 DEF MoveOf
    <3>4. a.moveVersion \in Int /\ a.version \in Int
      BY Values
    <3> QED
      BY <1>5, <3>2, <3>3, <3>4
  <2> QED
    BY <1>4, <2>1, <2>2 DEF Moves
<1> QED
  BY <1>3, <1>4, <1>5, <1>6 DEF Moves

\* How moves reach the proxies.
LEMMA MovesStep ==
    ASSUME TypeOK, InvChain, InvMoves, [Next]_vars
    PROVE  InvMoves'
<1> USE VersionAssumption DEF invalidVersion
<1>0. /\ version \in Int /\ moveVersion \in Int
      /\ \A a \in assigned : /\ a.proxy \in CommitProxy /\ a.version \in Nat
                             /\ a.moveVersion \in Int /\ a.version <= version
  BY Values DEF InvChain, SingleChain
<1>1. ASSUME NEW m \in requests, NEW r, AssignedReply(m, r)
      PROVE  InvMoves'
  <2> DEFINE p == m.proxy
             moved == version # invalidVersion /\ p \in needMove
  <2>1. /\ p \in CommitProxy /\ r.proxy = p /\ r.version \in Nat /\ r.version > version
        /\ version' = r.version /\ assigned' = assigned \cup {r} /\ moveVersion' = moveVersion
        /\ moved => /\ r.moveTo = moveTo /\ r.moveVersion = moveVersion
                    /\ needMove' = needMove \ {p}
                    /\ moveTo' = IF needMove = {p} THEN NoMove ELSE moveTo
        /\ ~ moved => r.moveTo = NoMove /\ UNCHANGED <<needMove, moveTo>>
    BY <1>1 DEF AssignedReply, TypeOK, GetCommitVersionRequest, GetCommitVersionReply
  <2>2. Moves' = Moves
    BY <1>1, AssignKeepsMoves
  <2>3. moved => moveTo # NoMove
    BY DEF InvMoves
  <2>4. p \in needMove => moved
    BY DEF InvMoves, InvChain
  <2>5. moveTo' = NoMove => needMove' = {}
    BY <2>1, <2>3 DEF InvMoves
  <2>6. moveTo' # NoMove => moveVersion' > 0 /\ moveVersion' <= version' + 1
    <3>1. moveTo' # NoMove => moveTo # NoMove
      BY <2>1, <2>3
    <3> QED
      BY <1>0, <2>1, <3>1 DEF InvMoves
  <2>7. ASSUME NEW q \in needMove', NEW a \in assigned', a.proxy = q
        PROVE  a.version < moveVersion'
    <3>1. q \in needMove /\ q # p
      BY <2>1, <2>4
    <3>2. a \in assigned
      BY <2>1, <2>7, <3>1
    <3> QED
      BY <2>1, <2>7, <3>1, <3>2 DEF InvMoves
  <2>8. ASSUME NEW a \in assigned', a.moveTo # NoMove
        PROVE  /\ 0 < a.moveVersion
               /\ a.moveVersion <= a.version
               /\ \A c \in assigned' : c.proxy = a.proxy /\ c.version < a.version => c.version < a.moveVersion
    <3>1. CASE a \in assigned
      <4>1. ~ (r.version < a.version)
        BY <1>0, <2>1, <3>1
      <4> QED
        BY <2>1, <2>8, <3>1, <4>1 DEF InvMoves
    <3>2. CASE a = r
      <4>1. moved /\ a.moveVersion = moveVersion
        BY <2>1, <2>8, <3>2
      <4>2. 0 < a.moveVersion /\ a.moveVersion <= version + 1
        BY <2>3, <4>1 DEF InvMoves
      <4>3. a.moveVersion <= a.version
        BY <1>0, <2>1, <3>2, <4>1, <4>2
      <4>4. \A c \in assigned : c.proxy = a.proxy => c.version < a.moveVersion
        BY <2>1, <3>2, <4>1 DEF InvMoves
      <4> QED
        BY <2>1, <3>2, <4>2, <4>3, <4>4
    <3> QED
      BY <2>1, <3>1, <3>2
  <2>9. ASSUME NEW n \in Moves' \ {FirstMove}, NEW q \in CommitProxy
        PROVE  \/ n \in Pending' /\ q \in needMove'
               \/ \E c \in assigned' : c.proxy = q /\ c.moveTo # NoMove /\ MoveOf(c) = n
    <3>1. CASE \E c \in assigned : c.proxy = q /\ c.moveTo # NoMove /\ MoveOf(c) = n
      BY <2>1, <3>1
    <3>2. CASE n \in Pending /\ q \in needMove
      <4>1. moveTo # NoMove /\ n = [version |-> moveVersion, resolver |-> moveTo]
        BY <3>2 DEF Pending
      <4>2. CASE q = p
        <5>1. moved /\ r.moveTo # NoMove /\ MoveOf(r) = n
          BY <2>1, <2>4, <3>2, <4>1, <4>2 DEF MoveOf
        <5> QED
          BY <2>1, <4>2, <5>1
      <4>3. CASE q # p
        <5>1. q \in needMove' /\ moveTo' = moveTo
          BY <2>1, <3>2, <4>3
        <5> QED
          BY <2>1, <4>1, <5>1 DEF Pending
      <4> QED
        BY <4>2, <4>3
    <3> QED
      BY <2>2, <3>1, <3>2 DEF InvMoves
  <2>10. \A n, o \in Moves' : n.version = o.version => n = o
    BY <2>2 DEF InvMoves
  <2> QED
    BY <2>5, <2>6, <2>7, <2>8, <2>9, <2>10 DEF InvMoves
<1>2. ASSUME NEW dest \in Resolver, Balance(dest)
      PROVE  InvMoves'
  <2>1. /\ moveTo' = dest /\ moveVersion' = version + 1 /\ needMove' = CommitProxy
        /\ UNCHANGED <<assigned, version>>
    BY <1>2 DEF Balance, masterVars
  <2>2. /\ Pending' = {[version |-> version + 1, resolver |-> dest]}
        /\ Moves' = Moves \cup Pending'
        /\ \A m \in Moves : m.version <= version
        /\ version \in Nat
    BY <1>2, BalanceAddsMove
  <2>3. moveTo' # NoMove
    BY <2>1, ResolverAssumption
  <2>4. moveVersion' > 0 /\ moveVersion' <= version' + 1
    BY <2>1, <2>2
  <2>5. \A q \in needMove' : \A a \in assigned' : a.proxy = q => a.version < moveVersion'
    BY <1>0, <2>1, <2>2
  <2>6. \A a \in assigned' : a.moveTo # NoMove =>
          /\ 0 < a.moveVersion
          /\ a.moveVersion <= a.version
          /\ \A c \in assigned' : c.proxy = a.proxy /\ c.version < a.version => c.version < a.moveVersion
    BY <2>1 DEF InvMoves
  <2>7. ASSUME NEW n \in Moves' \ {FirstMove}, NEW q \in CommitProxy
        PROVE  \/ n \in Pending' /\ q \in needMove'
               \/ \E c \in assigned' : c.proxy = q /\ c.moveTo # NoMove /\ MoveOf(c) = n
    <3>1. CASE n \in Pending'
      BY <2>1, <3>1
    <3>2. CASE n \in Moves
      <4>1. Pending = {}
        BY <1>2 DEF Balance, Pending
      <4> QED
        BY <2>1, <3>2, <4>1 DEF InvMoves
    <3> QED
      BY <2>2, <3>1, <3>2
  <2>8. ASSUME NEW n \in Moves', NEW o \in Moves', n.version = o.version
        PROVE  n = o
    <3> DEFINE new == [version |-> version + 1, resolver |-> dest]
    <3>1. \A k \in Moves : k.version # new.version
      <4>1. \A k \in Moves : k.version \in Nat
        BY MovesTyped DEF Entry
      <4> QED
        BY <2>2, <4>1
    <3> HIDE DEF new
    <3>2. Moves' = Moves \cup {new}
      BY <2>2 DEF new
    <3> QED
      BY <2>8, <3>1, <3>2 DEF InvMoves
  <2> QED
    BY <2>3, <2>4, <2>5, <2>6, <2>7, <2>8 DEF InvMoves
<1>3. ASSUME UNCHANGED <<version, assigned, moveTo, moveVersion, needMove>>
      PROVE  InvMoves'
  BY <1>3 DEF InvMoves, Moves, Carried, Pending, MoveOf
<1> QED
  BY <1>1, <1>2, <1>3, StepKinds DEF InvChain, Repeats, Requested, ReceiveVersion, Coalesce,
                                     masterVars, balancerVars

\* A move later than L leaves what a map up to L says unchanged.
LEMMA MapIgnoresLater ==
    ASSUME NEW M, NEW new, NEW map, NEW L \in Nat, new.version \in Int, new.version > L,
           MapOK(M, map, L)
    PROVE  MapOK(M \cup {new}, map, L)
<1>1. PICK base \in M : MapOver(M, map, L, base)
  BY DEF MapOK
<1>2. MapOver(M \cup {new}, map, L, base)
  BY <1>1 DEF MapOver
<1> QED
  BY <1>2 DEF MapOK

\* reply() of a finished batch drops only what no later batch asks for.
LEMMA CoalescedOK ==
    ASSUME NEW M \in SUBSET Entry, NEW map \in KeyResolvers, NEW L \in Nat, MapOK(M, map, L),
           NEW oldest \in Int, oldest < L - WriteLife
    PROVE  MapOK(M, Coalesced(map, oldest), L)
<1> DEFINE new == Coalesced(map, oldest)
<1>0. Len(map) >= 1 /\ Len(map) \in Nat /\ WriteLife \in Nat
  BY LifeAssumption DEF MapOK, KeyResolvers
<1>1. PICK base \in M : MapOver(M, map, L, base)
  BY DEF MapOK
<1>2. PICK d \in 0 .. Len(map) - 1 :
         /\ \A i \in 2 .. d + 1 : map[i].version < oldest
         /\ new \in KeyResolvers
         /\ Len(new) = Len(map) - d
         /\ new[1].resolver = map[d + 1].resolver
         /\ \A i \in 2 .. Len(map) - d : new[i] = map[d + i]
  BY <1>0, CoalescedPrefix
<1> HIDE DEF new
<1>3. /\ \A i \in 2 .. Len(map) : map[i] \in M /\ base.version < map[i].version /\ map[i].version <= L
      /\ \A i, j \in 2 .. Len(map) : i < j => map[i].version < map[j].version
      /\ \A m \in M : base.version < m.version /\ m.version <= L => \E i \in 2 .. Len(map) : map[i] = m
      /\ base.version = 0 \/ base.version < L - WriteLife
      /\ base.version <= L /\ map[1].resolver = base.resolver
  BY <1>1 DEF MapOver
<1>4. \A i \in 2 .. Len(new) : d + i \in 2 .. Len(map) /\ new[i] = map[d + i]
  BY <1>0, <1>2
<1>5. \A m \in M : m.version \in Nat
  BY DEF Entry
<1>6. CASE d = 0
  <2>1. MapOver(M, new, L, base)
    BY <1>0, <1>2, <1>3, <1>4, <1>6 DEF MapOver
  <2> QED
    BY <1>0, <1>2, <1>6, <2>1 DEF MapOK, new
<1>7. CASE d > 0
  <2>1. d + 1 \in 2 .. Len(map) /\ d + 1 \in 2 .. d + 1
    BY <1>0, <1>7
  <2> DEFINE front == map[d + 1]
  <2>2. front \in M /\ base.version < front.version /\ front.version <= L /\ front.version < oldest
    BY <1>2, <1>3, <2>1
  <2>3. front.version < L - WriteLife
    BY <1>0, <1>5, <2>2
  <2>4. \A i \in 2 .. Len(new) :
           new[i] \in M /\ front.version < new[i].version /\ new[i].version <= L
    <3> SUFFICES ASSUME NEW i \in 2 .. Len(new)
                 PROVE  new[i] \in M /\ front.version < new[i].version /\ new[i].version <= L
      OBVIOUS
    <3>1. d + i \in 2 .. Len(map) /\ new[i] = map[d + i] /\ d + 1 < d + i
      BY <1>0, <1>2, <1>4
    <3> QED
      BY <1>3, <2>1, <3>1
  <2>5. \A i, j \in 2 .. Len(new) : i < j => new[i].version < new[j].version
    <3> SUFFICES ASSUME NEW i \in 2 .. Len(new), NEW j \in 2 .. Len(new), i < j
                 PROVE  new[i].version < new[j].version
      OBVIOUS
    <3>1. /\ d + i \in 2 .. Len(map) /\ d + j \in 2 .. Len(map) /\ d + i < d + j
          /\ new[i] = map[d + i] /\ new[j] = map[d + j]
      BY <1>0, <1>2, <1>4
    <3> QED
      BY <1>3, <3>1
  <2>6. ASSUME NEW m \in M, front.version < m.version, m.version <= L
        PROVE  \E i \in 2 .. Len(new) : new[i] = m
    <3>1. base.version < m.version
      BY <1>5, <2>2, <2>6
    <3>2. PICK k \in 2 .. Len(map) : map[k] = m
      BY <1>3, <2>6, <3>1
    <3>3. k > d + 1
      <4>1. CASE k = d + 1
        BY <1>5, <2>2, <2>6, <3>2, <4>1
      <4>2. CASE k < d + 1
        <5>1. m.version < front.version
          BY <1>3, <2>1, <3>2, <4>2
        <5> QED
          BY <1>5, <2>2, <2>6, <5>1
      <4> QED
        BY <1>0, <4>1, <4>2
    <3>4. k - d \in 2 .. Len(new) /\ d + (k - d) = k
      BY <1>0, <1>2, <3>3
    <3>5. new[k - d] = m
      BY <1>4, <3>2, <3>4
    <3> QED
      BY <3>4, <3>5
  <2>7. new[1].resolver = front.resolver
    BY <1>2
  <2> HIDE DEF front
  <2>8. MapOver(M, new, L, front)
    BY <2>2, <2>3, <2>4, <2>5, <2>6, <2>7 DEF MapOver
  <2> QED
    BY <1>0, <1>2, <2>2, <2>8 DEF MapOK, new
<1> QED
  BY <1>2, <1>6, <1>7 DEF new

\* A reply extends the map to its version: it carries the moves since the last one,
\* of which there is at most one.
LEMMA AppliedOK ==
    ASSUME NEW M \in SUBSET Entry, NEW map \in KeyResolvers, NEW L \in Nat, MapOK(M, map, L),
           NEW r, r.version \in Nat, L < r.version,
           r.moveTo = NoMove => \A m \in M : ~ (L < m.version /\ m.version <= r.version),
           r.moveTo # NoMove => /\ MoveOf(r) \in M
                                /\ L < r.moveVersion /\ r.moveVersion <= r.version
                                /\ \A m \in M : L < m.version /\ m.version <= r.version => m = MoveOf(r)
    PROVE  MapOK(M, ApplyMove(map, r), r.version)
<1>0. Len(map) >= 1 /\ Len(map) \in Nat /\ WriteLife \in Nat /\ map \in Seq(Entry)
  BY LifeAssumption DEF MapOK, KeyResolvers, Entry
<1>1. PICK base \in M : MapOver(M, map, L, base)
  BY DEF MapOK
<1>2. /\ \A i \in 2 .. Len(map) : map[i] \in M /\ base.version < map[i].version /\ map[i].version <= L
      /\ \A i, j \in 2 .. Len(map) : i < j => map[i].version < map[j].version
      /\ \A m \in M : base.version < m.version /\ m.version <= L => \E i \in 2 .. Len(map) : map[i] = m
      /\ base.version = 0 \/ base.version < L - WriteLife
      /\ base.version <= L /\ map[1].resolver = base.resolver
  BY <1>1 DEF MapOver
<1>3. \A m \in M : m.version \in Nat
  BY DEF Entry
<1>4. /\ base.version = 0 \/ base.version < r.version - WriteLife
      /\ base.version <= r.version
      /\ \A i \in 2 .. Len(map) : map[i].version <= r.version
  BY <1>0, <1>2, <1>3
<1>5. CASE r.moveTo = NoMove
  <2>1. \A m \in M : base.version < m.version /\ m.version <= r.version => \E i \in 2 .. Len(map) : map[i] = m
    BY <1>2, <1>3, <1>5
  <2>2. MapOver(M, map, r.version, base)
    BY <1>2, <1>4, <2>1 DEF MapOver
  <2> QED
    BY <1>0, <1>5, <2>2 DEF MapOK, ApplyMove
<1>6. CASE r.moveTo # NoMove
  <2> DEFINE e == MoveOf(r)
             n == Len(map)
             new == Append(map, e)
  <2>1. /\ e \in M /\ e.version = r.moveVersion
        /\ L < e.version /\ e.version <= r.version
        /\ \A m \in M : L < m.version /\ m.version <= r.version => m = e
    BY <1>6 DEF MoveOf
  <2>2. ApplyMove(map, r) = new
    BY <1>6 DEF ApplyMove, MoveOf
  <2>3. e \in Entry
    BY <2>1
  <2> HIDE DEF e
  <2>4. Len(new) = n + 1 /\ new[n + 1] = e /\ \A i \in 1 .. n : new[i] = map[i]
    BY <1>0, <2>3
  <2> HIDE DEF new
  <2>5. \A i \in 2 .. n + 1 : i \in 2 .. n \/ i = n + 1
    BY <1>0
  <2>6. \A i \in 2 .. Len(new) :
           new[i] \in M /\ base.version < new[i].version /\ new[i].version <= r.version
    <3> SUFFICES ASSUME NEW i \in 2 .. n + 1
                 PROVE  new[i] \in M /\ base.version < new[i].version /\ new[i].version <= r.version
      BY <2>4
    <3>1. CASE i \in 2 .. n
      BY <1>0, <1>2, <1>4, <2>4, <3>1
    <3>2. CASE i = n + 1
      BY <1>2, <1>3, <2>1, <2>4, <3>2
    <3> QED
      BY <2>5, <3>1, <3>2
  <2>7. \A i, j \in 2 .. Len(new) : i < j => new[i].version < new[j].version
    <3> SUFFICES ASSUME NEW i \in 2 .. n + 1, NEW j \in 2 .. n + 1, i < j
                 PROVE  new[i].version < new[j].version
      BY <2>4
    <3>1. i \in 2 .. n /\ new[i] = map[i]
      BY <1>0, <2>4
    <3>2. CASE j \in 2 .. n
      BY <1>0, <1>2, <2>4, <3>1, <3>2
    <3>3. CASE j = n + 1
      <4>1. map[i].version <= L /\ map[i].version \in Nat
        BY <1>2, <1>3, <3>1
      <4> QED
        BY <1>3, <2>1, <2>4, <3>1, <3>3, <4>1
    <3> QED
      BY <2>5, <3>2, <3>3
  <2>8. ASSUME NEW m \in M, base.version < m.version, m.version <= r.version
        PROVE  \E i \in 2 .. Len(new) : new[i] = m
    <3>1. CASE m.version <= L
      <4>1. PICK i \in 2 .. n : map[i] = m
        BY <1>2, <2>8, <3>1
      <4>2. i \in 2 .. Len(new) /\ new[i] = m
        BY <1>0, <2>4, <4>1
      <4> QED
        BY <4>2
    <3>2. CASE ~ (m.version <= L)
      <4>1. m = e
        BY <1>3, <2>1, <2>8, <3>2
      <4>2. n + 1 \in 2 .. Len(new)
        BY <1>0, <2>4
      <4> QED
        BY <2>4, <4>1, <4>2
    <3> QED
      BY <3>1, <3>2
  <2>9. new[1].resolver = base.resolver
    BY <1>0, <1>2, <2>4
  <2>10. MapOver(M, new, r.version, base)
    BY <1>4, <2>6, <2>7, <2>8, <2>9 DEF MapOver
  <2> QED
    BY <1>0, <2>2, <2>4, <2>10 DEF MapOK
<1> QED
  BY <1>5, <1>6

\* The reply a proxy receives is later than its last batch, and it carries exactly
\* the move that the proxy does not know of, if there is one.
LEMMA ReplyBringsMove ==
    ASSUME TypeOK, NoAbandonedVersion, InvChain, InvRequest, InvBatches, InvMoves,
           NEW p \in CommitProxy, NEW r \in answers, ReceiveVersion(p, r),
           NEW L \in Nat, IsLast(p, L)
    PROVE  /\ r \in assigned /\ r.version \in Nat /\ L < r.version
           /\ r.moveTo = NoMove => \A m \in Moves : ~ (L < m.version /\ m.version <= r.version)
           /\ r.moveTo # NoMove => /\ MoveOf(r) \in Moves
                                   /\ L < r.moveVersion /\ r.moveVersion <= r.version
                                   /\ \A m \in Moves : L < m.version /\ m.version <= r.version => m = MoveOf(r)
<1> USE VersionAssumption DEF invalidVersion
<1>0. /\ \A a \in assigned : /\ a.proxy \in CommitProxy /\ a.requestNum \in Nat
                             /\ a.version \in Nat /\ a.prevVersion \in Nat /\ a.moveVersion \in Int
      /\ requestNum[p] \in Nat /\ processed[p] \in Nat
  BY Values
<1>1. r \in assigned /\ r.proxy = p /\ waiting[p] /\ r.requestNum = requestNum[p] - 1
  BY DEF ReceiveVersion, InvChain
<1>2. processed[p] < r.requestNum
  BY <1>0, <1>1 DEF InvRequest
<1>3. \A a \in assigned : a.version > 0
  <2> SUFFICES ASSUME NEW a \in assigned
               PROVE  a.version > 0
    OBVIOUS
  <2>1. a.prevVersion < a.version
    BY DEF InvChain, SingleChain
  <2> QED
    BY <1>0, <2>1
<1>4. L < r.version
  <2>1. CASE L = 0
    BY <1>0, <1>1, <1>3, <2>1
  <2>2. CASE L # 0
    <3>1. PICK b \in batches : b.proxy = p /\ b.version = L
      BY <2>2 DEF IsLast
    <3>2. PICK a \in assigned : a.proxy = p /\ a.version = L /\ a.requestNum <= processed[p]
      BY <3>1 DEF InvBatches
    <3>3. a.requestNum < r.requestNum
      BY <1>0, <1>1, <1>2, <3>2
    <3> QED
      BY <1>1, <3>2, <3>3 DEF InvChain
  <2> QED
    BY <2>1, <2>2
\* An earlier version of this proxy has its batch.
<1>5. ASSUME NEW c \in assigned, c.proxy = p, c.version < r.version
      PROVE  c.version <= L
  <2>1. c # r
    BY <1>0, <1>5
  <2>2. ~ (c.requestNum = requestNum[p] - 1)
    BY <1>1, <1>5, <2>1 DEF InvChain
  <2>3. PICK b \in batches : b.proxy = p /\ b.version = c.version
    BY <1>5, <2>2 DEF NoAbandonedVersion
  <2> QED
    BY <2>3 DEF IsLast
<1>6. ASSUME NEW m \in Moves, L < m.version, m.version <= r.version
      PROVE  r.moveTo # NoMove /\ MoveOf(r) = m
  <2>0. m.version \in Nat
    BY MovesTyped DEF Entry
  <2>1. m # FirstMove
    BY <1>6 DEF FirstMove
  <2>2. ~ (m \in Pending /\ p \in needMove)
    <3> SUFFICES ASSUME m \in Pending, p \in needMove
                 PROVE  FALSE
      OBVIOUS
    <3>1. m.version = moveVersion
      BY DEF Pending
    <3>2. r.version < moveVersion
      BY <1>1 DEF InvMoves
    <3> QED
      BY <1>0, <1>1, <1>6, <2>0, <3>1, <3>2
  <2>3. PICK c \in assigned : c.proxy = p /\ c.moveTo # NoMove /\ MoveOf(c) = m
    BY <2>1, <2>2 DEF InvMoves
  <2>4. /\ c.moveVersion = m.version
        /\ c.moveVersion <= c.version
        /\ r.version < c.version => r.version < c.moveVersion
    BY <1>1, <2>3 DEF InvMoves, MoveOf
  <2>5. ~ (r.version < c.version)
    BY <1>0, <1>1, <1>6, <2>0, <2>4
  <2>6. ~ (c.version < r.version)
    BY <1>0, <1>5, <1>6, <2>0, <2>3, <2>4
  <2>7. c.version = r.version
    BY <1>0, <1>1, <2>5, <2>6
  <2>8. c = r
    BY <1>1, <2>7 DEF InvChain, SingleChain
  <2> QED
    BY <2>3, <2>8
<1>7. ASSUME r.moveTo # NoMove
      PROVE  MoveOf(r) \in Moves /\ L < r.moveVersion /\ r.moveVersion <= r.version
  <2>1. MoveOf(r) \in Carried
    BY <1>1, <1>7 DEF Carried
  <2>2. 0 < r.moveVersion /\ r.moveVersion <= r.version
    BY <1>1, <1>7 DEF InvMoves
  <2>3. CASE L = 0
    BY <2>1, <2>2, <2>3 DEF Moves
  <2>4. CASE L # 0
    <3>1. PICK b \in batches : b.proxy = p /\ b.version = L
      BY <2>4 DEF IsLast
    <3>2. PICK a \in assigned : a.proxy = p /\ a.version = L
      BY <3>1 DEF InvBatches
    <3>3. L < r.moveVersion
      BY <1>1, <1>4, <1>7, <3>2 DEF InvMoves
    <3> QED
      BY <2>1, <2>2, <3>3 DEF Moves
  <2> QED
    BY <2>3, <2>4
<1> QED
  BY <1>0, <1>1, <1>4, <1>6, <1>7

\* Every version is below the next, so a proxy's last batch is below the master's version.
LEMMA LastIsPast ==
    ASSUME TypeOK, InvChain, InvBatches, NEW b \in batches
    PROVE  b.version <= version /\ b.version \in Nat /\ b.prevVersion \in Nat
           /\ b.prevVersion < b.version
<1>1. PICK a \in assigned : a.version = b.version /\ a.prevVersion = b.prevVersion
  BY DEF InvBatches
<1> QED
  BY <1>1, Values DEF InvChain, SingleChain

\* The maps of the proxies and of their batches.
LEMMA MapStep ==
    ASSUME TypeOK, NoAbandonedVersion, InvChain, InvRequest, InvBatches, InvMoves, InvMap, [Next]_vars
    PROVE  InvMap'
<1>0. \A b \in batches : /\ b.version <= version /\ b.version \in Nat /\ b.prevVersion \in Nat
                         /\ b.prevVersion < b.version
  BY LastIsPast
<1>a. Moves \in SUBSET Entry
  BY MovesTyped
<1>1. ASSUME UNCHANGED <<batches, keyResolvers>>, Moves' = Moves
      PROVE  InvMap'
  BY <1>1 DEF InvMap, IsLast
<1>2. ASSUME NEW m \in requests, NEW r, AssignedReply(m, r)
      PROVE  InvMap'
  <2>1. UNCHANGED <<batches, keyResolvers>>
    BY <1>2 DEF AssignedReply
  <2> QED
    BY <1>1, <1>2, <2>1, AssignKeepsMoves
<1>b. ASSUME UNCHANGED <<assigned, moveTo, moveVersion>>
      PROVE  Moves' = Moves
  BY <1>b DEF Moves, Carried, Pending, MoveOf
<1>3. ASSUME Repeats
      PROVE  InvMap'
  BY <1>1, <1>3, <1>b DEF Repeats, balancerVars, proxyVars
<1>4. ASSUME NEW p \in CommitProxy, Requested(p)
      PROVE  InvMap'
  BY <1>1, <1>4, <1>b DEF Requested, balancerVars
<1>5. ASSUME NEW dest \in Resolver, Balance(dest)
      PROVE  InvMap'
  <2> DEFINE new == [version |-> version + 1, resolver |-> dest]
  <2>1. Moves' = Moves \cup {new} /\ version \in Nat
    BY <1>5, BalanceAddsMove
  <2>2. UNCHANGED <<batches, keyResolvers>>
    BY <1>5 DEF Balance, proxyVars
  <2>3. new.version = version + 1 /\ new.version \in Int
    BY <2>1
  <2> HIDE DEF new
  <2>4. ASSUME NEW map, NEW L \in Nat, L <= version, MapOK(Moves, map, L)
        PROVE  MapOK(Moves', map, L)
    <3>1. new.version > L
      BY <2>1, <2>3, <2>4
    <3> QED
      BY <2>1, <2>3, <2>4, <3>1, MapIgnoresLater
  <2>5. ASSUME NEW b \in batches
        PROVE  MapOK(Moves', b.resolvers, b.version)
    BY <1>0, <2>4 DEF InvMap
  <2>6. ASSUME NEW p \in CommitProxy
        PROVE  \E L \in {0} \cup {b.version : b \in batches} :
                  IsLast(p, L) /\ MapOK(Moves', keyResolvers[p], L)
    <3>1. PICK L \in {0} \cup {b.version : b \in batches} :
                  IsLast(p, L) /\ MapOK(Moves, keyResolvers[p], L)
      BY DEF InvMap
    <3>2. L \in Nat /\ L <= version
      BY <1>0, <2>1
    <3> QED
      BY <2>4, <3>1, <3>2
  <2> QED
    BY <2>2, <2>5, <2>6 DEF InvMap, IsLast
<1>6. ASSUME NEW p \in CommitProxy, NEW b \in batches, Coalesce(p, b)
      PROVE  InvMap'
  <2> DEFINE oldest == b.prevVersion - WriteLife
             new == Coalesced(keyResolvers[p], oldest)
  <2>1. /\ keyResolvers' = [keyResolvers EXCEPT ![p] = new]
        /\ b.proxy = p
        /\ UNCHANGED <<batches, assigned, moveTo, moveVersion>>
    BY <1>6 DEF Coalesce, balancerVars
  <2>2. Moves' = Moves
    BY <1>b, <2>1
  <2>3. PICK L \in {0} \cup {x.version : x \in batches} :
           IsLast(p, L) /\ MapOK(Moves, keyResolvers[p], L)
    BY DEF InvMap
  <2>4. L \in Nat /\ b.version <= L /\ keyResolvers[p] \in KeyResolvers
    BY <1>0, <2>1, <2>3, Values DEF IsLast
  <2>5. oldest \in Int /\ oldest < L - WriteLife
    BY <1>0, <2>4, LifeAssumption
  <2>6. MapOK(Moves, new, L)
    BY <1>a, <2>3, <2>4, <2>5, CoalescedOK
  <2> HIDE DEF new
  <2>7. \A q \in CommitProxy : keyResolvers'[q] = IF q = p THEN new ELSE keyResolvers[q]
    BY <2>1 DEF TypeOK
  <2>8. ASSUME NEW q \in CommitProxy
        PROVE  \E K \in {0} \cup {x.version : x \in batches} :
                  IsLast(q, K) /\ MapOK(Moves, keyResolvers'[q], K)
    <3>1. CASE q = p
      BY <2>3, <2>6, <2>7, <3>1
    <3>2. CASE q # p
      BY <2>7, <3>2 DEF InvMap
    <3> QED
      BY <3>1, <3>2
  <2> QED
    BY <2>1, <2>2, <2>8 DEF InvMap, IsLast
<1>7. ASSUME NEW p \in CommitProxy, NEW r \in answers, ReceiveVersion(p, r)
      PROVE  InvMap'
  <2> DEFINE new == ApplyMove(keyResolvers[p], r)
             built == [proxy |-> p, prevVersion |-> r.prevVersion, version |-> r.version,
                       resolvers |-> new]
  <2>1. /\ keyResolvers' = [keyResolvers EXCEPT ![p] = new]
        /\ batches' = batches \cup {[proxy |-> p, prevVersion |-> r.prevVersion,
                                     version |-> r.version, resolvers |-> keyResolvers'[p]]}
        /\ UNCHANGED <<assigned, moveTo, moveVersion>>
    BY <1>7 DEF ReceiveVersion, balancerVars
  <2>2. Moves' = Moves
    BY <1>b, <2>1
  <2>3. PICK L \in {0} \cup {x.version : x \in batches} :
           IsLast(p, L) /\ MapOK(Moves, keyResolvers[p], L)
    BY DEF InvMap
  <2>4. L \in Nat /\ keyResolvers[p] \in KeyResolvers
    BY <1>0, <2>3, Values
  <2>5. /\ r \in assigned /\ r.version \in Nat /\ L < r.version
        /\ r.moveTo = NoMove => \A m \in Moves : ~ (L < m.version /\ m.version <= r.version)
        /\ r.moveTo # NoMove => /\ MoveOf(r) \in Moves
                                /\ L < r.moveVersion /\ r.moveVersion <= r.version
                                /\ \A m \in Moves : L < m.version /\ m.version <= r.version => m = MoveOf(r)
    BY <1>7, <2>3, <2>4, ReplyBringsMove
  <2>6. MapOK(Moves, new, r.version)
    BY <1>a, <2>3, <2>4, <2>5, AppliedOK
  <2>7. \A q \in CommitProxy : keyResolvers'[q] = IF q = p THEN new ELSE keyResolvers[q]
    BY <2>1 DEF TypeOK
  <2>8. batches' = batches \cup {built} /\ built.proxy = p /\ built.version = r.version /\ built.resolvers = new
    BY <2>1, <2>7
  <2> HIDE DEF new, built
  <2>9. \A b \in batches' : MapOK(Moves, b.resolvers, b.version)
    BY <2>6, <2>8 DEF InvMap
  <2>10. ASSUME NEW q \in CommitProxy
         PROVE  \E K \in {0} \cup {x.version : x \in batches'} :
                   /\ K = 0 \/ \E b \in batches' : b.proxy = q /\ b.version = K
                   /\ \A b \in batches' : b.proxy = q => b.version <= K
                   /\ MapOK(Moves, keyResolvers'[q], K)
    <3>1. CASE q = p
      <4>1. \A b \in batches : b.proxy = p => b.version <= r.version
        BY <1>0, <2>3, <2>4, <2>5 DEF IsLast
      <4>2. \A b \in batches' : b.proxy = p => b.version <= r.version
        BY <2>5, <2>8, <4>1
      <4>3. \E b \in batches' : b.proxy = p /\ b.version = r.version
        BY <2>8
      <4> QED
        BY <2>6, <2>7, <3>1, <4>2, <4>3
    <3>2. CASE q # p
      <4>1. PICK K \in {0} \cup {x.version : x \in batches} :
               IsLast(q, K) /\ MapOK(Moves, keyResolvers[q], K)
        BY DEF InvMap
      <4>2. K \in {0} \cup {x.version : x \in batches'}
        BY <2>8
      <4>3. /\ K = 0 \/ \E b \in batches' : b.proxy = q /\ b.version = K
            /\ \A b \in batches' : b.proxy = q => b.version <= K
        BY <2>8, <3>2, <4>1 DEF IsLast
      <4> QED
        BY <2>7, <3>2, <4>1, <4>2, <4>3
    <3> QED
      BY <3>1, <3>2
  <2> QED
    BY <2>2, <2>9, <2>10 DEF InvMap, IsLast
<1> QED
  BY <1>2, <1>3, <1>4, <1>5, <1>6, <1>7, StepKinds DEF InvChain

-----------------------------------------------------------------------------
(***************************************************************************)
(* The theorems.                                                           *)
(***************************************************************************)

\* The state in which the master, the balancer and the proxies are recruited.
LEMMA InvInit == Init => IInv
<1> SUFFICES ASSUME Init
             PROVE  IInv
  OBVIOUS
<1> USE VersionAssumption, LifeAssumption DEF Init, invalidVersion
<1>1. TypeOK
  BY TypeInit
<1>2. LatestReplyKept /\ NoAbandonedVersion /\ InvChain /\ InvBatches
  BY DEF LatestReplyKept, NoAbandonedVersion, InvChain, SingleChain, InvBatches
<1>3. InvRequest
  BY DEF InvRequest
<1>4. Moves = {FirstMove}
  BY DEF Moves, Carried, Pending
<1>5. InvMoves
  <2>1. \A m, n \in Moves : m.version = n.version => m = n
    BY <1>4
  <2>2. Moves \ {FirstMove} = {}
    BY <1>4
  <2> QED
    BY <2>1, <2>2 DEF InvMoves
<1>6. MapOK(Moves, <<FirstMove>>, 0)
  <2>1. MapOver({FirstMove}, <<FirstMove>>, 0, FirstMove)
    BY DEF MapOver, FirstMove
  <2> QED
    BY <1>4, <2>1 DEF MapOK
<1>7. InvMap
  <2>1. \A p \in CommitProxy : keyResolvers[p] = <<FirstMove>> /\ IsLast(p, 0)
    BY DEF FirstMove, IsLast
  <2> QED
    BY <1>6, <2>1 DEF InvMap
<1> QED
  BY <1>1, <1>2, <1>3, <1>5, <1>7 DEF IInv

\* Every step of the master, the balancer and the proxies keeps the invariant.
LEMMA InvNext == IInv /\ [Next]_vars => IInv'
<1> SUFFICES ASSUME IInv, [Next]_vars
             PROVE  IInv'
  OBVIOUS
<1>1. /\ TypeOK /\ LatestReplyKept /\ NoAbandonedVersion /\ InvChain /\ InvRequest
      /\ InvBatches /\ InvMoves /\ InvMap
  BY DEF IInv
<1>2. TypeOK'
  BY <1>1, TypeStep
<1>3. LatestReplyKept' /\ NoAbandonedVersion'
  BY <1>1, LatestStep, AbandonedStep
<1>4. InvChain' /\ InvRequest' /\ InvBatches'
  BY <1>1, ChainStep, RequestStep, BatchesStep
<1>5. InvMoves' /\ InvMap'
  BY <1>1, MovesStep, MapStep
<1> QED
  BY <1>2, <1>3, <1>4, <1>5 DEF IInv

\* The inductive invariant of getVersion, ResolutionBalancer and the proxies'
\* version requests.
THEOREM Invariance == Spec => []IInv
<1> QED
  BY InvInit, InvNext, PTL DEF Spec

\* The versions getVersion hands out form one chain from the end of the last epoch
\* on, and each of them is the version of a batch or of the one its proxy builds next.
THEOREM OneChain == Spec => []ChainInv
<1>1. IInv => ChainInv
  BY DEF IInv, InvChain, ChainInv
<1> QED
  BY <1>1, Invariance, PTL

\* The reply to a proxy's latest request stays in getVersion's replies, whatever the
\* proxy acknowledges in requests that arrive late or twice.
THEOREM LatestCanBeRepeated == Spec => []MasterInv
<1>1. IInv => MasterInv
  BY DEF IInv, MasterInv
<1> QED
  BY <1>1, Invariance, PTL

\* Two proxies that know different moves agree where it matters: the resolver one of
\* them sends a write to is among those the other sends a later read to.
LEMMA MapsMeet ==
    ASSUME NEW M \in SUBSET Entry, \A m, n \in M : m.version = n.version => m = n,
           NEW W \in Seq(Entry), NEW V \in Nat, MapOK(M, W, V),
           NEW R \in Seq(Entry), NEW L \in Nat, MapOK(M, R, L), V < L,
           NEW snapshot \in Int, L - WriteLife <= snapshot, snapshot < V
    PROVE  \E j \in DOMAIN R :
              /\ R[j].resolver = WriteResolver(W)
              /\ \A k \in j + 1 .. Len(R) : R[k].version >= snapshot
<1> USE LifeAssumption
<1>1. Len(W) \in Nat /\ Len(W) >= 1 /\ Len(R) \in Nat /\ Len(R) >= 1 /\ DOMAIN R = 1 .. Len(R)
  BY DEF MapOK
<1>2. PICK bw \in M : MapOver(M, W, V, bw)
  BY DEF MapOK
<1>3. PICK br \in M : MapOver(M, R, L, br)
  BY DEF MapOK
<1>4. \A m \in M : m.version \in Nat
  BY DEF Entry
\* The move the write goes by is the last one up to its version.
<1>5. \E mw \in M : /\ mw.resolver = WriteResolver(W) /\ mw.version <= V
                    /\ \A m \in M : m.version <= V => m.version <= mw.version
  <2>1. CASE Len(W) = 1
    <3>1. \A m \in M : ~ (bw.version < m.version /\ m.version <= V)
      BY <1>2, <2>1 DEF MapOver
    <3> QED
      BY <1>2, <1>4, <2>1, <3>1 DEF MapOver, WriteResolver
  <2>2. CASE Len(W) > 1
    <3> DEFINE n == Len(W)
    <3>1. n \in 2 .. Len(W)
      BY <1>1, <2>2
    <3>2. W[n] \in M /\ bw.version < W[n].version /\ W[n].version <= V
      BY <1>2, <3>1 DEF MapOver
    <3>3. ASSUME NEW m \in M, m.version <= V
          PROVE  m.version <= W[n].version
      <4>1. CASE m.version <= bw.version
        BY <1>4, <3>2, <4>1
      <4>2. CASE m.version > bw.version
        <5>1. PICK i \in 2 .. Len(W) : W[i] = m
          BY <1>2, <1>4, <3>3, <4>2 DEF MapOver
        <5>2. i < n => W[i].version < W[n].version
          BY <1>2, <3>1 DEF MapOver
        <5> QED
          BY <1>4, <3>1, <3>2, <5>1, <5>2
      <4> QED
        BY <1>4, <4>1, <4>2
    <3> QED
      BY <3>2, <3>3 DEF WriteResolver
  <2>3. Len(W) = 1 \/ Len(W) > 1
    <3>1. \A n \in Nat : n >= 1 => n = 1 \/ n > 1
      OBVIOUS
    <3> QED
      BY <1>1, <3>1
  <2> QED
    BY <2>1, <2>2, <2>3
<1>6. PICK mw \in M : /\ mw.resolver = WriteResolver(W) /\ mw.version <= V
                      /\ \A m \in M : m.version <= V => m.version <= mw.version
  BY <1>5
<1>7. \A k \in 2 .. Len(R) : R[k] \in M /\ R[k].version > br.version
  BY <1>3, <1>4 DEF MapOver
<1>8. \A m \in M : m.version > mw.version => m.version >= snapshot
  BY <1>4, <1>6
<1>9. CASE mw.version > br.version
  <2>1. mw.version <= L
    BY <1>4, <1>6
  <2>2. PICK i \in 2 .. Len(R) : R[i] = mw
    BY <1>3, <1>4, <1>9, <2>1 DEF MapOver
  <2>3. \A k \in i + 1 .. Len(R) : R[k] \in M /\ R[k].version > mw.version
    <3>1. ASSUME NEW k \in i + 1 .. Len(R)
          PROVE  R[k] \in M /\ R[k].version > mw.version
      <4>1. k \in 2 .. Len(R) /\ i < k
        BY <1>1
      <4>2. R[i].version < R[k].version
        BY <1>3, <4>1 DEF MapOver
      <4> QED
        BY <1>4, <1>7, <2>2, <4>1, <4>2
    <3> QED
      BY <3>1
  <2>4. i \in DOMAIN R
    BY <1>1
  <2> QED
    BY <1>6, <1>8, <2>2, <2>3, <2>4
<1>10. CASE mw.version = br.version
  <2>1. mw = br
    BY <1>10
  <2>2. 1 \in DOMAIN R /\ R[1].resolver = mw.resolver
    BY <1>1, <1>3, <2>1 DEF MapOver
  <2>3. \A k \in 1 + 1 .. Len(R) : R[k].version >= snapshot
    BY <1>7, <1>8, <2>1
  <2> QED
    BY <1>6, <2>2, <2>3
<1>11. CASE mw.version < br.version
  <2>1. br.version > V
    BY <1>4, <1>6, <1>11
  <2>2. br.version < L - WriteLife
    BY <1>3, <1>4, <2>1 DEF MapOver
  <2> QED
    BY <1>4, <2>1, <2>2
<1> QED
  BY <1>4, <1>9, <1>10, <1>11

\* A read that is not too old is sent to the resolver of every write between its
\* snapshot and its own version, although proxies learn of a move at different times
\* and coalesce their keyResolvers independently.
THEOREM ReadsMeet == Spec => []ReadsMeetWrites
<1>1. IInv => ReadsMeetWrites
  <2> SUFFICES ASSUME IInv, NEW r \in batches, NEW w \in batches,
                      NEW snapshot \in (r.version - WriteLife) .. (w.version - 1),
                      w.version < r.version
               PROVE  WriteResolver(w.resolvers) \in ReadResolvers(r.resolvers, snapshot)
    BY DEF ReadsMeetWrites
  <2>1. TypeOK /\ InvMoves /\ InvMap
    BY DEF IInv
  <2>2. /\ r.version \in Nat /\ w.version \in Nat
        /\ r.resolvers \in Seq(Entry) /\ w.resolvers \in Seq(Entry)
    BY <2>1, Values DEF KeyResolvers, Entry
  <2>3. snapshot \in Int /\ r.version - WriteLife <= snapshot /\ snapshot < w.version
    BY <2>2, LifeAssumption
  <2>4. Moves \in SUBSET Entry /\ \A m, n \in Moves : m.version = n.version => m = n
    BY <2>1, MovesTyped DEF InvMoves
  <2>5. MapOK(Moves, w.resolvers, w.version) /\ MapOK(Moves, r.resolvers, r.version)
    BY <2>1 DEF InvMap
  <2>6. PICK j \in DOMAIN r.resolvers :
           /\ r.resolvers[j].resolver = WriteResolver(w.resolvers)
           /\ \A k \in j + 1 .. Len(r.resolvers) : r.resolvers[k].version >= snapshot
    BY <2>2, <2>3, <2>4, <2>5, MapsMeet
  <2> QED
    BY <2>6 DEF ReadResolvers
<1> QED
  BY <1>1, Invariance, PTL
=========================
