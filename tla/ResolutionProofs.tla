------------------------------- MODULE ResolutionProofs -------------------------------
(***************************************************************************)
(* Every commit proxy has the same metadata, for any number of proxies,    *)
(* resolvers and batches and any limit on the memory of the resolvers.     *)
(*                                                                         *)
(* The reply of a resolver to a batch is determined by its place in the    *)
(* order of versions: the invariant says what it has to be, that no reply  *)
(* on its way or kept for a repeated request is another one, and that what *)
(* a resolver has erased is not needed for the replies it has yet to send. *)
(* It also says why the lock makes no difference (LockInv) and what        *)
(* neededVersion is for (NeededInv).                                       *)
(***************************************************************************)
EXTENDS Resolution, FiniteSetTheorems, WellFoundedInduction, TLAPS

-----------------------------------------------------------------------------
(***************************************************************************)
(* The invariant.                                                          *)
(***************************************************************************)

\* The batch of version v has a state transaction.
HasTxn(v) ==
    \E p \in CommitProxy : \E n \in DOMAIN batch[p] : batch[p][n].version = v /\ StateTxn(batch[p][n])

\* What resolver r keeps for version v.
Entry(r, v) == IF HasTxn(v) THEN <<verdict[r][v - LastEpochEnd]>> ELSE <<>>

\* The first version that proxy p has not seen before its batch n.
FirstUnseen(p, n) == IF n = 1 THEN LastEpochEnd ELSE batch[p][n - 1].version + 1

\* The entries of the versions from a to below b.
Entries(r, a, b) == [i \in 1..(b - a) |-> [version |-> a + i - 1, committed |-> Entry(r, a + i - 1)]]

\* What resolver r has to answer to batch n of proxy p.
Expected(r, p, n) ==
    [version |-> batch[p][n].version,
     committed |-> verdict[r][batch[p][n].version - LastEpochEnd],
     stateMutations |-> Entries(r, FirstUnseen(p, n), batch[p][n].version)]

Served(r, p, n) == batch[p][n].version <= resolverVersion[r]

\* The batches have the versions of one chain, ascending at every proxy, and acknowledge
\* what their proxy has processed.
BatchInv ==
    /\ LastEpochEnd <= version
    /\ \A p \in CommitProxy :
          /\ Len(resolution[p]) = Len(batch[p])
          /\ \A n \in DOMAIN batch[p] :
                /\ batch[p][n].proxy = p
                /\ batch[p][n].version = batch[p][n].prevVersion + 1
                /\ LastEpochEnd < batch[p][n].version /\ batch[p][n].version <= version
                /\ batch[p][n].lastReceived <= proxyVersion[p]
          /\ \A i, j \in DOMAIN batch[p] : i < j => batch[p][i].version < batch[p][j].version
    /\ \A p, q \in CommitProxy : \A i \in DOMAIN batch[p] : \A j \in DOMAIN batch[q] :
          batch[p][i].version = batch[q][j].version => p = q /\ i = j

\* A proxy has processed its batches up to one of them, with all replies to these.
ProxyInv ==
    \A p \in CommitProxy :
        /\ proxyVersion[p] = 0 \/ \E n \in DOMAIN batch[p] : batch[p][n].version = proxyVersion[p]
        /\ \A n \in DOMAIN batch[p] : batch[p][n].version <= proxyVersion[p] => Resolved(p, n)

\* How far a resolver is, and the last batch of each proxy it has served.
SeenInv(r) ==
    /\ LastEpochEnd <= resolverVersion[r] /\ resolverVersion[r] <= version
    /\ Len(verdict[r]) = resolverVersion[r] - LastEpochEnd
    /\ \A p \in CommitProxy :
          /\ lastVersion[r][p] <= resolverVersion[r] /\ minRecent[r] <= lastVersion[r][p] + 1
          /\ lastVersion[r][p] = -1 \/ \E n \in DOMAIN batch[p] : batch[p][n].version = lastVersion[r][p]
          /\ \A n \in DOMAIN batch[p] : Served(r, p, n) => batch[p][n].version <= lastVersion[r][p]
    /\ queue[r] \subseteq Sent

\* A resolver keeps exactly the versions that some proxy has not seen.
RecentInv(r) ==
    /\ DOMAIN recent[r] = {v \in LastEpochEnd..resolverVersion[r] :
                              \E p \in CommitProxy : lastVersion[r][p] < v}
    /\ \A v \in DOMAIN recent[r] : recent[r][v] = Entry(r, v)

\* Replies, kept or delivered, are the expected ones, and a batch without one can get it.
ReplyInv(r) ==
    \A p \in CommitProxy :
        /\ \A k \in outstanding[r][p] :
              \E n \in DOMAIN batch[p] : Served(r, p, n) /\ k = Expected(r, p, n)
        /\ \A n \in DOMAIN batch[p] : resolution[p][n][r] # NoReply =>
              Served(r, p, n) /\ resolution[p][n][r] = Expected(r, p, n)
        /\ \A n \in DOMAIN batch[p] : Served(r, p, n) /\ resolution[p][n][r] = NoReply =>
              \E k \in outstanding[r][p] : k.version = batch[p][n].version

ResolversInv == \A r \in Resolver : SeenInv(r) /\ RecentInv(r) /\ ReplyInv(r)

\* What keeps the metadata together, the lock apart.
CoreInv == TypeOK /\ BatchInv /\ ProxyInv /\ ResolversInv /\ SameMetadata

\* A transaction without lock awareness took its snapshot when the database was not locked
\* and every resolver was that far.
Unlocked(m) ==
    /\ m.snapshot < m.version
    /\ \A r \in Resolver : m.snapshot <= resolverVersion[r]
    /\ ~ LockedAfter(Effective(m.snapshot))

\* The resolver of databaseLockedKey refuses it when the key was written since.
Refused(m) ==
    m.version <= resolverVersion[LockResolver] /\ LockConflict(LockResolver, m) =>
        ~ verdict[LockResolver][m.version - LastEpochEnd]

LockInv == \A m \in Sent : m.kind = "plain" => Unlocked(m) /\ Refused(m)

\* While the memory is exhausted, neededVersion lets in all that a waiting batch of a proxy
\* that is behind waits for.
NeededInv(r) ==
    OverLimit(r, recent[r]) =>
        \A x \in queue[r] :
            x.prevVersion > resolverVersion[r] /\ Behind(r, recent[r], lastVersion[r][x.proxy]) =>
                x.prevVersion <= needed[r]

\* The inductive invariant.
IInv == CoreInv /\ LockInv /\ \A r \in Resolver : NeededInv(r)

-----------------------------------------------------------------------------
(***************************************************************************)
(* Numbers in order.                                                       *)
(***************************************************************************)

\* A set of numbers that is not empty has a least one.
LEMMA LeastNumber ==
    ASSUME NEW T, T \subseteq Nat, T # {}
    PROVE  \E n \in T : \A m \in T : n <= m
<1> DEFINE R == OpToRel(<, Nat)
<1>1. IsWellFoundedOn(R, Nat)
  BY NatLessThanWellFounded, Zenon
<1>2. \A m, n \in Nat : m < n => <<m, n>> \in R
  BY DEF OpToRel
<1> HIDE DEF R
<1>3. PICK n \in T : \A m \in T : ~ (<<m, n>> \in R)
  BY <1>1, WFMin
<1>4. ASSUME NEW m \in T PROVE n <= m
  <2>1. m \in Nat /\ n \in Nat /\ ~ (<<m, n>> \in R)
    BY <1>3
  <2>2. ~ (m < n)
    BY <1>2, <2>1
  <2> QED
    BY <2>1, <2>2
<1> QED
  BY <1>4

\* So has a set of versions some of which are not there yet.
LEMMA LeastVersion ==
    ASSUME NEW S, S \subseteq Nat \cup {-1}, S # {}
    PROVE  Least(S) \in S /\ \A x \in S : Least(S) <= x
<1> DEFINE T == {x + 1 : x \in S}
<1>1. \A x \in S : x \in Int /\ x + 1 \in Nat
  OBVIOUS
<1>2. T \subseteq Nat /\ T # {}
  BY <1>1
<1>3. PICK n \in T : \A m \in T : n <= m
  <2> HIDE DEF T
  <2> QED
    BY <1>2, LeastNumber
<1>4. PICK y \in S : n = y + 1
  BY <1>3
<1>5. \A x \in S : y <= x
  <2> SUFFICES ASSUME NEW x \in S PROVE y <= x
    OBVIOUS
  <2>1. x + 1 \in T
    OBVIOUS
  <2>2. y + 1 <= x + 1
    BY <1>3, <1>4, <2>1
  <2> QED
    BY <1>1, <2>2
<1>6. \E m \in S : \A x \in S : m <= x
  BY <1>5
<1> QED
  BY <1>6, Zenon DEF Least

\* How many numbers of S are at most w.
Rank(S, w) == Cardinality({x \in S : x <= w})

LEMMA RankType ==
    ASSUME NEW S, S \subseteq Nat, NEW b \in Nat, \A y \in S : y <= b, NEW w
    PROVE  /\ IsFiniteSet(S) /\ Cardinality(S) \in Nat
           /\ IsFiniteSet({x \in S : x <= w}) /\ Rank(S, w) \in Nat /\ Rank(S, w) <= Cardinality(S)
<1>1. IsFiniteSet(S)
  BY FS_BoundedSetOfNaturals
<1>2. {x \in S : x <= w} \in SUBSET S
  OBVIOUS
<1> QED
  BY <1>1, <1>2, FS_Subset, FS_CardinalityType DEF Rank

LEMMA RankGrows ==
    ASSUME NEW S, S \subseteq Nat, NEW b \in Nat, \A y \in S : y <= b,
           NEW v \in S, NEW w \in S, v < w
    PROVE  Rank(S, v) < Rank(S, w)
<1> DEFINE A == {x \in S : x <= v}
           B == {x \in S : x <= w}
<1>1. A \in SUBSET B /\ A # B
  <2>1. \A x \in S : x \in Nat
    OBVIOUS
  <2>2. \A x \in S : x <= v => x <= w
    BY <2>1
  <2>3. w \in B /\ w \notin A
    BY <2>1
  <2> QED
    BY <2>2, <2>3
<1>2. IsFiniteSet(B) /\ Cardinality(B) \in Nat /\ Cardinality(A) \in Nat
  BY RankType DEF Rank
<1>3. Cardinality(A) <= Cardinality(B) /\ Cardinality(B) # Cardinality(A)
  <2> HIDE DEF A, B
  <2> QED
    BY <1>1, <1>2, FS_Subset
<1> QED
  BY <1>2, <1>3 DEF Rank

LEMMA RankUnique ==
    ASSUME NEW S, S \subseteq Nat, NEW b \in Nat, \A y \in S : y <= b,
           NEW v \in S, NEW w \in S, Rank(S, v) = Rank(S, w)
    PROVE  v = w
<1>1. v \in Nat /\ w \in Nat /\ Rank(S, v) \in Nat /\ Rank(S, w) \in Nat
  BY RankType
<1>2. ASSUME v < w PROVE FALSE
  <2>1. Rank(S, v) < Rank(S, w)
    BY <1>2, RankGrows
  <2> QED
    BY <1>1, <2>1
<1>3. ASSUME w < v PROVE FALSE
  <2>1. Rank(S, w) < Rank(S, v)
    BY <1>3, RankGrows
  <2> QED
    BY <1>1, <2>1
<1> QED
  BY <1>1, <1>2, <1>3

LEMMA RankTaken ==
    ASSUME NEW S, S \subseteq Nat, NEW b \in Nat, \A y \in S : y <= b,
           NEW i \in 1..Cardinality(S)
    PROVE  \E w \in S : Rank(S, w) = i
<1> DEFINE T == {k \in Nat : Rank(S, k) >= i}
<1>1. Cardinality(S) \in Nat /\ \A k : Rank(S, k) \in Nat /\ IsFiniteSet({x \in S : x <= k})
  BY RankType
<1>2. b \in T
  <2>1. {x \in S : x <= b} = S
    OBVIOUS
  <2> QED
    BY <1>1, <2>1 DEF Rank
<1>3. PICK k \in T : \A m \in T : k <= m
  <2>1. T \subseteq Nat /\ T # {}
    BY <1>2
  <2> HIDE DEF T
  <2> QED
    BY <2>1, LeastNumber
<1>4. k \in Nat /\ Rank(S, k) >= i
  BY <1>3
<1> DEFINE B == {x \in S : x <= k - 1}
<1>51. \A x \in S : x \in Nat /\ (x <= k <=> x <= k - 1 \/ x = k) /\ ~ (k <= k - 1)
  BY <1>4
<1>5. IsFiniteSet(B) /\ Cardinality(B) \in Nat
  BY <1>1 DEF Rank
<1>6. Cardinality(B) < i
  <2>1. CASE k = 0
    <3>1. \A x \in S : x \in Nat /\ ~ (x <= 0 - 1)
      BY <1>51
    <3>2. B = {}
      BY <2>1, <3>1
    <3> QED
      BY <3>2, FS_EmptySet
  <2>2. CASE k # 0
    <3>1. k - 1 \in Nat /\ k - 1 \notin T
      BY <1>3, <1>4, <2>2
    <3>2. ~ (Rank(S, k - 1) >= i)
      BY <3>1
    <3>3. i \in Nat
      BY <1>1
    <3>4. Rank(S, k - 1) < i
      <4> DEFINE j == k - 1
      <4>1. Rank(S, j) \in Nat
        <5> HIDE DEF j
        <5> QED
          BY <1>1
      <4> QED
        BY <3>2, <3>3, <4>1
    <3> QED
      BY <3>4 DEF Rank
  <2> QED
    BY <2>1, <2>2
<1>7. k \in S
  <2>1. SUFFICES ASSUME k \notin S PROVE FALSE
    OBVIOUS
  <2>2. {x \in S : x <= k} = B
    BY <1>51, <2>1
  <2> QED
    BY <1>4, <1>5, <1>6, <2>2 DEF Rank
<1>8. {x \in S : x <= k} = B \cup {k} /\ k \notin B
  BY <1>51, <1>7
<1>9. Cardinality(B \cup {k}) = Cardinality(B) + 1
  <2> HIDE DEF B
  <2> QED
    BY <1>5, <1>8, FS_AddElement
<1>10. Rank(S, k) = Cardinality(B) + 1
  BY <1>8, <1>9 DEF Rank
<1> QED
  BY <1>4, <1>5, <1>6, <1>7, <1>10

LEMMA AscendingRank ==
    ASSUME NEW S, S \subseteq Nat, NEW b \in Nat, \A y \in S : y <= b
    PROVE  /\ DOMAIN Ascending(S) = 1..Cardinality(S)
           /\ \A i \in 1..Cardinality(S) : Ascending(S)[i] \in S /\ Rank(S, Ascending(S)[i]) = i
<1>1. DOMAIN Ascending(S) = 1..Cardinality(S)
  BY DEF Ascending
<1>2. ASSUME NEW i \in 1..Cardinality(S)
      PROVE  Ascending(S)[i] \in S /\ Rank(S, Ascending(S)[i]) = i
  <2>1. \E w \in S : Cardinality({x \in S : x <= w}) = i
    BY RankTaken DEF Rank
  <2>2. Ascending(S)[i] = CHOOSE w \in S : Cardinality({x \in S : x <= w}) = i
    BY DEF Ascending
  <2>3. /\ (CHOOSE w \in S : Cardinality({x \in S : x <= w}) = i) \in S
        /\ Cardinality({y \in S : y <= (CHOOSE w \in S : Cardinality({x \in S : x <= w}) = i)}) = i
    BY <2>1, Zenon
  <2> QED
    BY <2>2, <2>3 DEF Rank
<1> QED
  BY <1>1, <1>2

\* Ascending lists every number of a bounded set once, in order.
LEMMA AscendingOrder ==
    ASSUME NEW S, S \subseteq Nat, NEW b \in Nat, \A y \in S : y <= b
    PROVE  /\ Cardinality(S) \in Nat
           /\ \A i \in 1..Cardinality(S) : Ascending(S)[i] \in S
           /\ \A i, j \in 1..Cardinality(S) : i < j => Ascending(S)[i] < Ascending(S)[j]
           /\ \A w \in S : \E i \in 1..Cardinality(S) : Ascending(S)[i] = w
<1>1. Cardinality(S) \in Nat
  BY RankType
<1>2. \A i \in 1..Cardinality(S) : Ascending(S)[i] \in S /\ Rank(S, Ascending(S)[i]) = i
  BY AscendingRank
<1>3. ASSUME NEW i \in 1..Cardinality(S), NEW j \in 1..Cardinality(S), i < j
      PROVE  Ascending(S)[i] < Ascending(S)[j]
  <2> DEFINE x == Ascending(S)[i]
             y == Ascending(S)[j]
  <2>0. x \in S /\ y \in S /\ Rank(S, x) = i /\ Rank(S, y) = j
    BY <1>2
  <2>1. x \in S /\ y \in S /\ x \in Nat /\ y \in Nat /\ Rank(S, x) = i /\ Rank(S, y) = j
    BY <2>0
  <2> HIDE DEF x, y
  <2>2. x # y
    BY <1>3, <2>1
  <2>3. ASSUME y < x PROVE FALSE
    <3>1. Rank(S, y) < Rank(S, x)
      BY <2>1, <2>3, RankGrows
    <3> QED
      BY <1>3, <2>1, <3>1
  <2>4. x < y
    BY <2>1, <2>2, <2>3
  <2> QED
    BY <2>4 DEF x, y
<1>4. ASSUME NEW w \in S PROVE \E i \in 1..Cardinality(S) : Ascending(S)[i] = w
  <2>1. Rank(S, w) \in Nat /\ Rank(S, w) <= Cardinality(S)
    BY RankType
  <2>2. Rank(S, w) # 0
    <3> DEFINE A == {x \in S : x <= w}
    <3>1. w \in A
      OBVIOUS
    <3>2. IsFiniteSet(A)
      BY RankType
    <3> HIDE DEF A
    <3>3. Cardinality(A) # 0
      BY <3>1, <3>2, FS_EmptySet
    <3> QED
      BY <3>3 DEF Rank, A
  <2>3. PICK i : i = Rank(S, w)
    OBVIOUS
  <2>4. i \in 1..Cardinality(S)
    BY <1>1, <2>1, <2>2, <2>3
  <2>5. Ascending(S)[i] \in S /\ Rank(S, Ascending(S)[i]) = Rank(S, w)
    BY <1>2, <2>3, <2>4
  <2>6. PICK u : u = Ascending(S)[i]
    OBVIOUS
  <2>7. u \in S /\ Rank(S, u) = Rank(S, w)
    BY <2>5, <2>6
  <2>8. u = w
    BY <2>7, RankUnique
  <2> QED
    BY <2>4, <2>6, <2>8
<1> QED
  BY <1>1, <1>2, <1>3, <1>4

\* The numbers from a to below b.
Below(a, b) == {w \in Nat : a <= w /\ w < b}

LEMMA AscendingInterval ==
    ASSUME NEW a \in Nat, NEW b \in Nat, a <= b
    PROVE  /\ Cardinality(Below(a, b)) = b - a
           /\ \A i \in 1..(b - a) : Ascending(Below(a, b))[i] = a + i - 1
<1>0. PICK S : S = Below(a, b)
  OBVIOUS
<1>1. S = a..(b - 1)
  BY <1>0 DEF Below
<1>2. Cardinality(S) = b - a
  <2>1. b - 1 \in Int /\ a \in Int
    OBVIOUS
  <2>2. Cardinality(a..(b - 1)) = IF a > b - 1 THEN 0 ELSE (b - 1) - a + 1
    BY <2>1, FS_Interval
  <2>3. Cardinality(S) = Cardinality(a..(b - 1))
    BY <1>1
  <2>4. PICK c, e : c = Cardinality(S) /\ e = Cardinality(a..(b - 1))
    OBVIOUS
  <2>5. c = b - a
    BY <2>2, <2>3, <2>4
  <2> QED
    BY <2>4, <2>5
<1>3. S \subseteq Nat /\ \A y \in S : y <= b
  BY <1>1
<1>4. ASSUME NEW i \in 1..(b - a) PROVE Ascending(S)[i] = a + i - 1
  <2>1. Ascending(S)[i] \in S /\ Rank(S, Ascending(S)[i]) = i
    <3>1. i \in 1..Cardinality(S)
      BY <1>2
    <3> QED
      BY <1>3, <3>1, AscendingRank
  <2>2. PICK w : w = Ascending(S)[i]
    OBVIOUS
  <2>3. w \in Int /\ a <= w /\ w < b /\ Rank(S, w) = i
    BY <1>1, <2>1, <2>2
  <2>4. {x \in S : x <= w} = a..w
    BY <1>1, <2>3
  <2>5. Cardinality(a..w) = IF a > w THEN 0 ELSE w - a + 1
    <3>1. a \in Int
      OBVIOUS
    <3> QED
      BY <2>3, <3>1, FS_Interval
  <2>6. w - a + 1 = i
    <3>1. PICK c : c = Cardinality(a..w)
      OBVIOUS
    <3>2. c = i
      BY <2>3, <2>4, <3>1 DEF Rank
    <3> QED
      BY <2>3, <2>5, <3>1, <3>2
  <2> QED
    BY <2>2, <2>3, <2>6
<1> QED
  BY <1>0, <1>2, <1>4

-----------------------------------------------------------------------------
(***************************************************************************)
(* Batches and replies.                                                    *)
(***************************************************************************)

LEMMA Constants ==
    LastEpochEnd \in Nat /\ LastEpochEnd > 0 /\ FirstResolver \in Resolver /\ LockResolver \in Resolver
BY EpochAssumption, ResolverAssumption

\* One slot for the replies to a batch.
Slots == [Resolver -> Reply \cup {NoReply}]

LEMMA BatchFacts ==
    ASSUME TypeOK, BatchInv, NEW p \in CommitProxy, NEW n \in DOMAIN batch[p]
    PROVE  /\ batch[p] \in Seq(Request) /\ resolution[p] \in Seq(Slots)
           /\ DOMAIN batch[p] = 1..Len(batch[p]) /\ DOMAIN resolution[p] = DOMAIN batch[p]
           /\ n \in Nat /\ 1 <= n /\ n <= Len(batch[p]) /\ Len(batch[p]) \in Nat
           /\ batch[p][n] \in Request /\ resolution[p][n] \in Slots
           /\ batch[p][n].version \in Nat /\ batch[p][n].prevVersion \in Nat
           /\ batch[p][n].lastReceived \in Nat /\ batch[p][n].snapshot \in Nat
           /\ batch[p][n].proxy = p /\ batch[p][n].version = batch[p][n].prevVersion + 1
           /\ LastEpochEnd < batch[p][n].version /\ batch[p][n].version <= version /\ version \in Nat
           /\ batch[p][n].lastReceived <= proxyVersion[p]
<1>1. /\ batch[p] \in Seq(Request) /\ resolution[p] \in Seq(Slots) /\ version \in Nat
  BY DEF TypeOK, Slots
<1>2. Len(resolution[p]) = Len(batch[p]) /\ Len(batch[p]) \in Nat
  BY <1>1 DEF BatchInv
<1>3. /\ DOMAIN batch[p] = 1..Len(batch[p]) /\ DOMAIN resolution[p] = DOMAIN batch[p]
      /\ n \in 1..Len(batch[p])
  BY <1>1, <1>2
<1>4. batch[p][n] \in Request /\ resolution[p][n] \in Slots
  BY <1>1, <1>3
<1>5. /\ batch[p][n].version \in Nat /\ batch[p][n].prevVersion \in Nat
      /\ batch[p][n].lastReceived \in Nat /\ batch[p][n].snapshot \in Nat
  BY <1>4 DEF Request
<1>6. /\ batch[p][n].proxy = p /\ batch[p][n].version = batch[p][n].prevVersion + 1
      /\ LastEpochEnd < batch[p][n].version /\ batch[p][n].version <= version
      /\ batch[p][n].lastReceived <= proxyVersion[p]
  BY DEF BatchInv
<1> QED
  BY <1>1, <1>2, <1>3, <1>4, <1>5, <1>6

\* A version is that of one batch.
LEMMA BatchUnique ==
    ASSUME BatchInv, NEW p \in CommitProxy, NEW i \in DOMAIN batch[p], NEW j \in DOMAIN batch[p],
           batch[p][i].version = batch[p][j].version
    PROVE  i = j
<1>1. \A q \in CommitProxy : \A k \in DOMAIN batch[q] :
         batch[p][i].version = batch[q][k].version => p = q /\ i = k
  BY DEF BatchInv
<1> QED
  BY <1>1

\* Where a request comes from.
LEMMA SentFacts ==
    ASSUME TypeOK, BatchInv, NEW m \in Sent
    PROVE  \E p \in CommitProxy : \E n \in DOMAIN batch[p] : m = batch[p][n] /\ m.proxy = p
<1>1. PICK p \in CommitProxy : \E n \in DOMAIN batch[p] : m = batch[p][n]
  BY DEF Sent
<1>2. PICK n \in DOMAIN batch[p] : m = batch[p][n]
  BY <1>1
<1> QED
  BY <1>2, BatchFacts

LEMMA ResolverFacts ==
    ASSUME TypeOK, NEW r \in Resolver, SeenInv(r)
    PROVE  /\ resolverVersion[r] \in Nat /\ version \in Nat /\ verdict[r] \in Seq(BOOLEAN)
           /\ DOMAIN verdict[r] = 1..(resolverVersion[r] - LastEpochEnd)
           /\ LastEpochEnd <= resolverVersion[r] /\ resolverVersion[r] <= version
           /\ \A p \in CommitProxy : lastVersion[r][p] \in Nat \cup {-1} /\ lastVersion[r][p] \in Int
           /\ \A v \in Nat : LastEpochEnd < v /\ v <= resolverVersion[r] => verdict[r][v - LastEpochEnd] \in BOOLEAN
<1>1. /\ resolverVersion[r] \in Nat /\ version \in Nat /\ verdict[r] \in Seq(BOOLEAN)
      /\ \A p \in CommitProxy : lastVersion[r][p] \in Nat \cup {-1}
  BY DEF TypeOK
<1>2. /\ LastEpochEnd <= resolverVersion[r] /\ resolverVersion[r] <= version
      /\ Len(verdict[r]) = resolverVersion[r] - LastEpochEnd
  BY DEF SeenInv
<1>3. DOMAIN verdict[r] = 1..(resolverVersion[r] - LastEpochEnd)
  BY <1>1, <1>2
<1>4. ASSUME NEW v \in Nat, LastEpochEnd < v, v <= resolverVersion[r]
      PROVE  verdict[r][v - LastEpochEnd] \in BOOLEAN
  <2>1. v - LastEpochEnd \in 1..(resolverVersion[r] - LastEpochEnd)
    BY <1>1, <1>4, Constants
  <2> HIDE DEF TypeOK
  <2>2. \A i \in DOMAIN verdict[r] : verdict[r][i] \in BOOLEAN
    BY <1>1
  <2> QED
    BY <1>3, <2>1, <2>2
<1> QED
  BY <1>1, <1>2, <1>3, <1>4

LEMMA HasTxnFacts ==
    ASSUME TypeOK, BatchInv, NEW v, HasTxn(v)
    PROVE  v \in Nat /\ LastEpochEnd < v /\ v <= version
<1>1. PICK p \in CommitProxy : \E n \in DOMAIN batch[p] : batch[p][n].version = v
  BY DEF HasTxn
<1>2. PICK n \in DOMAIN batch[p] : batch[p][n].version = v
  BY <1>1
<1> QED
  BY <1>2, BatchFacts

\* The batch of a version decides whether it has a state transaction.
LEMMA HasTxnIs ==
    ASSUME TypeOK, BatchInv, NEW p \in CommitProxy, NEW n \in DOMAIN batch[p]
    PROVE  HasTxn(batch[p][n].version) <=> StateTxn(batch[p][n])
<1>1. ASSUME HasTxn(batch[p][n].version) PROVE StateTxn(batch[p][n])
  <2>1. PICK q \in CommitProxy : \E i \in DOMAIN batch[q] :
             batch[q][i].version = batch[p][n].version /\ StateTxn(batch[q][i])
    BY <1>1 DEF HasTxn
  <2>2. PICK i \in DOMAIN batch[q] : batch[q][i].version = batch[p][n].version /\ StateTxn(batch[q][i])
    BY <2>1
  <2>3. p = q /\ n = i
    BY <2>2 DEF BatchInv
  <2> QED
    BY <2>2, <2>3
<1> QED
  BY <1>1 DEF HasTxn

\* An entry is a reply's part for one version.
LEMMA EntryType ==
    ASSUME TypeOK, BatchInv, NEW r \in Resolver, SeenInv(r), NEW v \in Nat, v <= resolverVersion[r]
    PROVE  /\ Entry(r, v) \in Seq(BOOLEAN)
           /\ HasTxn(v) => Entry(r, v) = <<verdict[r][v - LastEpochEnd]>> /\ verdict[r][v - LastEpochEnd] \in BOOLEAN
           /\ ~ HasTxn(v) => Entry(r, v) = <<>>
<1>1. ASSUME HasTxn(v) PROVE verdict[r][v - LastEpochEnd] \in BOOLEAN
  BY <1>1, HasTxnFacts, ResolverFacts
<1>2. CASE HasTxn(v)
  <2>1. PICK c : c = verdict[r][v - LastEpochEnd]
    OBVIOUS
  <2>2. c \in BOOLEAN /\ Entry(r, v) = <<c>>
    BY <1>1, <1>2, <2>1 DEF Entry
  <2>3. <<c>> \in Seq(BOOLEAN)
    BY <2>2
  <2> QED
    BY <1>2, <2>1, <2>2, <2>3
<1>3. CASE ~ HasTxn(v)
  <2>1. Entry(r, v) = <<>> /\ <<>> \in Seq(BOOLEAN)
    BY <1>3 DEF Entry
  <2> QED
    BY <1>3, <2>1
<1> QED
  BY <1>2, <1>3

\* A batch comes after the first version it asks for.
LEMMA FirstUnseenFacts ==
    ASSUME TypeOK, BatchInv, NEW p \in CommitProxy, NEW n \in DOMAIN batch[p]
    PROVE  /\ FirstUnseen(p, n) \in Nat /\ LastEpochEnd <= FirstUnseen(p, n)
           /\ FirstUnseen(p, n) <= batch[p][n].version
<1> DEFINE a == FirstUnseen(p, n)
           v == batch[p][n].version
<1>1. /\ v \in Nat /\ LastEpochEnd < v /\ n \in Nat /\ 1 <= n /\ n <= Len(batch[p])
      /\ DOMAIN batch[p] = 1..Len(batch[p]) /\ Len(batch[p]) \in Nat
  BY BatchFacts
<1>2. CASE n = 1
  BY <1>1, <1>2, Constants DEF FirstUnseen
<1>3. CASE n # 1
  <2>1. n - 1 \in DOMAIN batch[p] /\ n - 1 < n
    BY <1>1, <1>3
  <2>2. batch[p][n - 1].version \in Nat /\ LastEpochEnd < batch[p][n - 1].version
    BY <2>1, BatchFacts
  <2>3. batch[p][n - 1].version < v
    BY <2>1 DEF BatchInv
  <2>4. a = batch[p][n - 1].version + 1
    BY <1>3 DEF FirstUnseen
  <2> HIDE DEF a, v
  <2>5. a \in Nat /\ LastEpochEnd <= a /\ a <= v
    BY <1>1, <2>2, <2>3, <2>4, Constants
  <2> QED
    BY <2>5 DEF a, v
<1> QED
  BY <1>2, <1>3

LEMMA EntriesType ==
    ASSUME TypeOK, BatchInv, NEW r \in Resolver, SeenInv(r),
           NEW a \in Nat, NEW b \in Nat, a <= b, b <= resolverVersion[r] + 1
    PROVE  Entries(r, a, b) \in Seq(StateTransactions)
<1>1. \A i \in 1..(b - a) : a + i - 1 \in Nat /\ a + i - 1 <= resolverVersion[r]
  BY ResolverFacts
<1>2. \A i \in 1..(b - a) : Entry(r, a + i - 1) \in Seq(BOOLEAN)
  BY <1>1, EntryType
<1>3. \A i \in 1..(b - a) :
         [version |-> a + i - 1, committed |-> Entry(r, a + i - 1)] \in StateTransactions
  BY <1>1, <1>2 DEF StateTransactions
<1>4. b - a \in Nat
  OBVIOUS
<1>5. Entries(r, a, b) \in [1..(b - a) -> StateTransactions]
  BY <1>3 DEF Entries
<1> QED
  BY <1>4, <1>5

\* The expected reply has the type of a reply.
LEMMA ExpectedType ==
    ASSUME TypeOK, BatchInv, NEW r \in Resolver, SeenInv(r),
           NEW p \in CommitProxy, NEW n \in DOMAIN batch[p], Served(r, p, n)
    PROVE  /\ Expected(r, p, n) \in Reply /\ Expected(r, p, n).version = batch[p][n].version
           /\ FirstUnseen(p, n) \in Nat /\ LastEpochEnd <= FirstUnseen(p, n)
           /\ FirstUnseen(p, n) <= batch[p][n].version
<1> DEFINE a == FirstUnseen(p, n)
           v == batch[p][n].version
<1>1. v \in Nat /\ LastEpochEnd < v
  BY BatchFacts
<1>2. a \in Nat /\ LastEpochEnd <= a /\ a <= v
  BY FirstUnseenFacts
<1>3. v <= resolverVersion[r] /\ resolverVersion[r] \in Nat /\ v <= resolverVersion[r] + 1
  BY <1>1, ResolverFacts DEF Served
<1>4. verdict[r][v - LastEpochEnd] \in BOOLEAN
  BY <1>1, <1>3, ResolverFacts
<1> HIDE DEF a, v
<1>5. Entries(r, a, v) \in Seq(StateTransactions)
  BY <1>1, <1>2, <1>3, EntriesType
<1>6. Expected(r, p, n) = [version |-> v, committed |-> verdict[r][v - LastEpochEnd],
                           stateMutations |-> Entries(r, a, v)]
  BY DEF Expected, a, v
<1>7. Expected(r, p, n) \in Reply /\ Expected(r, p, n).version = v
  BY <1>1, <1>4, <1>5, <1>6 DEF Reply
<1> QED
  BY <1>2, <1>7 DEF a, v

-----------------------------------------------------------------------------
(***************************************************************************)
(* What a step leaves as it was.                                           *)
(***************************************************************************)

\* The batches stay what they are, versions in use get no other batch, and what a
\* resolver has decided it does not decide again.
Kept ==
    /\ \A p \in CommitProxy : \A n \in DOMAIN batch[p] : n \in DOMAIN batch'[p] /\ batch'[p][n] = batch[p][n]
    /\ \A p \in CommitProxy : \A n \in DOMAIN batch'[p] :
          n \in DOMAIN batch[p] \/ batch'[p][n].version > version
    /\ \A v \in Nat : v <= version => (HasTxn(v)' <=> HasTxn(v))
    /\ \A r \in Resolver : \A v \in Nat : LastEpochEnd < v /\ v <= resolverVersion[r] =>
          verdict'[r][v - LastEpochEnd] = verdict[r][v - LastEpochEnd]

LEMMA EntryKept ==
    ASSUME TypeOK, BatchInv, NEW r \in Resolver, SeenInv(r), Kept, NEW v \in Nat, v <= resolverVersion[r]
    PROVE  Entry(r, v)' = Entry(r, v)
<1>1. v <= version
  BY ResolverFacts
<1>2. HasTxn(v)' <=> HasTxn(v)
  BY <1>1 DEF Kept
<1>3. CASE HasTxn(v)
  <2>1. LastEpochEnd < v
    BY <1>3, HasTxnFacts
  <2>2. verdict'[r][v - LastEpochEnd] = verdict[r][v - LastEpochEnd]
    BY <2>1 DEF Kept
  <2> QED
    BY <1>2, <1>3, <2>2 DEF Entry
<1>4. CASE ~ HasTxn(v)
  BY <1>2, <1>4 DEF Entry
<1> QED
  BY <1>3, <1>4

LEMMA EntriesKept ==
    ASSUME TypeOK, BatchInv, NEW r \in Resolver, SeenInv(r), Kept,
           NEW a \in Nat, NEW b \in Nat, b <= resolverVersion[r] + 1
    PROVE  Entries(r, a, b)' = Entries(r, a, b)
<1>1. \A i \in 1..(b - a) : a + i - 1 \in Nat /\ a + i - 1 <= resolverVersion[r]
  BY ResolverFacts
<1>2. \A i \in 1..(b - a) : Entry(r, a + i - 1)' = Entry(r, a + i - 1)
  BY <1>1, EntryKept
<1> QED
  BY <1>2, Zenon DEF Entries

LEMMA ExpectedKept ==
    ASSUME TypeOK, BatchInv, NEW r \in Resolver, SeenInv(r), Kept,
           NEW p \in CommitProxy, NEW n \in DOMAIN batch[p], Served(r, p, n)
    PROVE  Expected(r, p, n)' = Expected(r, p, n)
<1>1. /\ batch'[p][n] = batch[p][n] /\ n \in Nat /\ 1 <= n /\ DOMAIN batch[p] = 1..Len(batch[p])
      /\ n <= Len(batch[p]) /\ Len(batch[p]) \in Nat /\ batch[p][n].version \in Nat
      /\ LastEpochEnd < batch[p][n].version
  BY BatchFacts DEF Kept
<1>2. n # 1 => n - 1 \in DOMAIN batch[p]
  BY <1>1
<1>3. FirstUnseen(p, n)' = FirstUnseen(p, n)
  BY <1>2 DEF FirstUnseen, Kept
<1>4. PICK a : a = FirstUnseen(p, n)
  OBVIOUS
<1>5. PICK v : v = batch[p][n].version
  OBVIOUS
<1>6. a \in Nat /\ v \in Nat /\ LastEpochEnd < v /\ v <= resolverVersion[r]
      /\ resolverVersion[r] \in Nat /\ v <= resolverVersion[r] + 1
  BY <1>1, <1>4, <1>5, ExpectedType, ResolverFacts DEF Served
<1>7. Entries(r, a, v)' = Entries(r, a, v)
  BY <1>6, EntriesKept
<1>8. verdict'[r][v - LastEpochEnd] = verdict[r][v - LastEpochEnd]
  BY <1>6 DEF Kept
<1>9. FirstUnseen(p, n)' = a /\ (batch[p][n].version)' = v
  BY <1>1, <1>3, <1>4, <1>5
<1>10. Expected(r, p, n)' = [version |-> v, committed |-> verdict'[r][v - LastEpochEnd],
                             stateMutations |-> Entries(r, a, v)']
  BY <1>9 DEF Expected
<1>11. Expected(r, p, n) = [version |-> v, committed |-> verdict[r][v - LastEpochEnd],
                            stateMutations |-> Entries(r, a, v)]
  BY <1>4, <1>5 DEF Expected
<1> QED
  BY <1>7, <1>8, <1>10, <1>11

EffectiveMeans ==
    \A v, w : w \in Effective(v) <=>
                 HasTxn(w) /\ w <= v /\ \A r \in Resolver : verdict[r][w - LastEpochEnd]

LEMMA EffectiveIs == EffectiveMeans
<1> SUFFICES ASSUME NEW v, NEW w
             PROVE  w \in Effective(v) <=>
                       HasTxn(w) /\ w <= v /\ \A r \in Resolver : verdict[r][w - LastEpochEnd]
  BY DEF EffectiveMeans
<1>1. ASSUME w \in Effective(v)
      PROVE  HasTxn(w) /\ w <= v /\ \A r \in Resolver : verdict[r][w - LastEpochEnd]
  <2>1. PICK x \in Sent : /\ x.version = w /\ StateTxn(x) /\ x.version <= v
                          /\ \A r \in Resolver : verdict[r][x.version - LastEpochEnd]
    BY <1>1 DEF Effective
  <2>2. PICK p \in CommitProxy : \E n \in DOMAIN batch[p] : x = batch[p][n]
    BY DEF Sent
  <2> QED
    BY <2>1, <2>2 DEF HasTxn
<1>2. ASSUME HasTxn(w), w <= v, \A r \in Resolver : verdict[r][w - LastEpochEnd]
      PROVE  w \in Effective(v)
  <2>1. PICK p \in CommitProxy : \E n \in DOMAIN batch[p] : batch[p][n].version = w /\ StateTxn(batch[p][n])
    BY <1>2 DEF HasTxn
  <2>2. PICK n \in DOMAIN batch[p] : batch[p][n].version = w /\ StateTxn(batch[p][n])
    BY <2>1
  <2>3. batch[p][n] \in Sent
    BY DEF Sent
  <2> QED
    BY <1>2, <2>2, <2>3 DEF Effective
<1> QED
  BY <1>1, <1>2

\* What a proxy has processed was decided by every resolver.
LEMMA Processed ==
    ASSUME TypeOK, BatchInv, ProxyInv, ResolversInv, NEW p \in CommitProxy, NEW r \in Resolver
    PROVE  proxyVersion[p] \in Nat /\ proxyVersion[p] <= version /\ proxyVersion[p] <= resolverVersion[r]
<1>1. proxyVersion[p] \in Nat /\ version \in Nat /\ resolverVersion[r] \in Nat
  BY DEF TypeOK
<1>2. CASE proxyVersion[p] = 0
  BY <1>1, <1>2
<1>3. CASE proxyVersion[p] # 0
  <2>1. PICK n \in DOMAIN batch[p] : batch[p][n].version = proxyVersion[p]
    BY <1>3 DEF ProxyInv
  <2>2. batch[p][n].version <= proxyVersion[p] /\ batch[p][n].version <= version
    BY <1>1, <2>1, BatchFacts
  <2>3. resolution[p][n][r] # NoReply
    BY <2>2 DEF ProxyInv, Resolved
  <2>4. Served(r, p, n)
    BY <2>3 DEF ResolversInv, ReplyInv
  <2> QED
    BY <1>1, <2>1, <2>2, <2>4 DEF Served
<1> QED
  BY <1>2, <1>3

LEMMA EffectiveKept ==
    ASSUME TypeOK, BatchInv, TypeOK', ResolversInv, Kept, NEW v \in Nat, v <= version,
           \A r \in Resolver : v <= resolverVersion[r]
    PROVE  Effective(v)' = Effective(v)
<1>1. EffectiveMeans'
  BY EffectiveIs, PTL
<1>2. ASSUME NEW w PROVE w \in Effective(v)' <=> w \in Effective(v)
  <2>1. w \in Effective(v)' <=>
           HasTxn(w)' /\ w <= v /\ \A r \in Resolver : verdict'[r][w - LastEpochEnd]
    BY <1>1 DEF EffectiveMeans
  <2>2. w \in Effective(v) <=>
           HasTxn(w) /\ w <= v /\ \A r \in Resolver : verdict[r][w - LastEpochEnd]
    BY EffectiveIs DEF EffectiveMeans
  <2>3. HasTxn(w)' => w \in Nat
    <3> SUFFICES ASSUME HasTxn(w)' PROVE w \in Nat
      OBVIOUS
    <3>1. PICK p \in CommitProxy : \E n \in DOMAIN batch'[p] : batch'[p][n].version = w
      BY DEF HasTxn
    <3>2. PICK n \in DOMAIN batch'[p] : batch'[p][n].version = w
      BY <3>1
    <3>3. batch'[p] \in Seq(Request)
      BY DEF TypeOK
    <3>4. batch'[p][n] \in Request
      BY <3>3
    <3> QED
      BY <3>2, <3>4 DEF Request
  <2>4. HasTxn(w) => w \in Nat /\ LastEpochEnd < w
    BY HasTxnFacts
  <2>5. w \in Nat /\ w <= v => (HasTxn(w)' <=> HasTxn(w))
    <3> SUFFICES ASSUME w \in Nat, w <= v PROVE HasTxn(w)' <=> HasTxn(w)
      OBVIOUS
    <3>1. w <= version
      BY DEF TypeOK
    <3> QED
      BY <3>1 DEF Kept
  <2>6. w <= v /\ HasTxn(w) => \A r \in Resolver : verdict'[r][w - LastEpochEnd] = verdict[r][w - LastEpochEnd]
    <3> SUFFICES ASSUME w <= v, HasTxn(w), NEW r \in Resolver
                 PROVE  verdict'[r][w - LastEpochEnd] = verdict[r][w - LastEpochEnd]
      OBVIOUS
    <3>1. w <= resolverVersion[r]
      <4>1. resolverVersion[r] \in Nat /\ v <= resolverVersion[r]
        BY DEF TypeOK
      <4> QED
        BY <2>4, <4>1
    <3> QED
      BY <2>4, <3>1 DEF Kept
  <2> QED
    BY <2>1, <2>2, <2>3, <2>4, <2>5, <2>6
<1> QED
  BY <1>2

-----------------------------------------------------------------------------
(***************************************************************************)
(* Resolvers and proxies that do not take the step.                        *)
(***************************************************************************)

\* Resolver r has what it had.
SameResolver(r) ==
    /\ resolverVersion'[r] = resolverVersion[r] /\ lastVersion'[r] = lastVersion[r]
    /\ outstanding'[r] = outstanding[r] /\ recent'[r] = recent[r]
    /\ minRecent'[r] = minRecent[r] /\ verdict'[r] = verdict[r]
    /\ queue'[r] \subseteq Sent' /\ version' \in Nat /\ version <= version'

\* A batch has the reply of resolver r that it had, or one that r kept for it.
Fills(r) ==
    \A p \in CommitProxy :
        /\ \A n \in DOMAIN batch[p] :
              \/ resolution'[p][n][r] = resolution[p][n][r]
              \/ \E k \in outstanding[r][p] :
                    k.version = batch[p][n].version /\ resolution'[p][n][r] = k
        /\ \A n \in DOMAIN batch'[p] : n \notin DOMAIN batch[p] => resolution'[p][n][r] = NoReply

LEMMA ServedKept ==
    ASSUME TypeOK, BatchInv, TypeOK', NEW r \in Resolver, SeenInv(r), Kept, NEW p \in CommitProxy,
           resolverVersion'[r] = resolverVersion[r]
    PROVE  /\ \A n \in DOMAIN batch[p] : Served(r, p, n) => n \in DOMAIN batch'[p] /\ Served(r, p, n)'
           /\ \A n \in DOMAIN batch'[p] : Served(r, p, n)' => n \in DOMAIN batch[p] /\ Served(r, p, n)
<1>1. \A n \in DOMAIN batch[p] : n \in DOMAIN batch'[p] /\ batch'[p][n] = batch[p][n]
  BY DEF Kept
<1>2. ASSUME NEW n \in DOMAIN batch'[p], batch'[p][n].version <= resolverVersion[r]
      PROVE  n \in DOMAIN batch[p]
  <2>1. resolverVersion[r] \in Nat /\ version \in Nat /\ resolverVersion[r] <= version
    BY ResolverFacts
  <2>2. SUFFICES ASSUME n \notin DOMAIN batch[p] PROVE FALSE
    OBVIOUS
  <2>3. batch'[p][n].version > version
    BY <2>2 DEF Kept
  <2>4. PICK w : w = batch'[p][n].version
    OBVIOUS
  <2>5. w <= resolverVersion[r] /\ w > version
    BY <1>2, <2>3, <2>4
  <2>6. w \in Nat
    <3>1. batch'[p] \in Seq(Request)
      BY DEF TypeOK
    <3>2. batch'[p][n] \in Request
      BY <3>1
    <3> QED
      BY <2>4, <3>2 DEF Request
  <2> QED
    BY <2>1, <2>5, <2>6
<1> QED
  BY <1>1, <1>2 DEF Served

LEMMA OtherSeen ==
    ASSUME TypeOK, BatchInv, TypeOK', NEW r \in Resolver, SeenInv(r), Kept, SameResolver(r)
    PROVE  SeenInv(r)'
<1>1. /\ resolverVersion'[r] = resolverVersion[r] /\ lastVersion'[r] = lastVersion[r]
      /\ minRecent'[r] = minRecent[r] /\ verdict'[r] = verdict[r] /\ queue'[r] \subseteq Sent'
      /\ version' \in Nat /\ version <= version'
  BY DEF SameResolver
<1>2. LastEpochEnd <= resolverVersion'[r] /\ resolverVersion'[r] <= version'
  BY <1>1, ResolverFacts
<1>3. Len(verdict'[r]) = resolverVersion'[r] - LastEpochEnd
  BY <1>1 DEF SeenInv
<1>4. ASSUME NEW p \in CommitProxy
      PROVE  /\ lastVersion'[r][p] <= resolverVersion'[r] /\ minRecent'[r] <= lastVersion'[r][p] + 1
             /\ lastVersion'[r][p] = -1 \/ \E n \in DOMAIN batch'[p] : batch'[p][n].version = lastVersion'[r][p]
             /\ \A n \in DOMAIN batch'[p] : Served(r, p, n)' => batch'[p][n].version <= lastVersion'[r][p]
  <2>1. lastVersion'[r][p] <= resolverVersion'[r] /\ minRecent'[r] <= lastVersion'[r][p] + 1
    BY <1>1 DEF SeenInv
  <2>2. \A n \in DOMAIN batch[p] : n \in DOMAIN batch'[p] /\ batch'[p][n] = batch[p][n]
    BY DEF Kept
  <2>3. lastVersion[r][p] = -1 \/ \E n \in DOMAIN batch[p] : batch[p][n].version = lastVersion[r][p]
    BY DEF SeenInv
  <2>4. lastVersion'[r][p] = -1 \/ \E n \in DOMAIN batch'[p] : batch'[p][n].version = lastVersion'[r][p]
    BY <1>1, <2>2, <2>3
  <2>5. ASSUME NEW n \in DOMAIN batch'[p], Served(r, p, n)' PROVE batch'[p][n].version <= lastVersion'[r][p]
    <3>1. n \in DOMAIN batch[p] /\ Served(r, p, n)
      BY <1>1, <2>5, ServedKept
    <3>2. batch[p][n].version <= lastVersion[r][p]
      BY <3>1 DEF SeenInv
    <3> QED
      BY <1>1, <2>2, <3>1, <3>2
  <2> QED
    BY <2>1, <2>4, <2>5
<1> QED
  BY <1>1, <1>2, <1>3, <1>4 DEF SeenInv

LEMMA OtherRecent ==
    ASSUME TypeOK, BatchInv, NEW r \in Resolver, SeenInv(r), RecentInv(r), Kept, SameResolver(r)
    PROVE  RecentInv(r)'
<1>1. resolverVersion'[r] = resolverVersion[r] /\ lastVersion'[r] = lastVersion[r] /\ recent'[r] = recent[r]
  BY DEF SameResolver
<1>2. ASSUME NEW v \in DOMAIN recent[r] PROVE recent'[r][v] = Entry(r, v)'
  <2>1. v \in Nat /\ v <= resolverVersion[r]
    BY ResolverFacts, Constants DEF RecentInv
  <2>2. Entry(r, v)' = Entry(r, v)
    BY <2>1, EntryKept
  <2> QED
    BY <1>1, <2>2 DEF RecentInv
<1> QED
  BY <1>1, <1>2 DEF RecentInv

LEMMA OtherReply ==
    ASSUME TypeOK, BatchInv, TypeOK', NEW r \in Resolver, SeenInv(r), ReplyInv(r), Kept, SameResolver(r), Fills(r)
    PROVE  ReplyInv(r)'
<1>1. resolverVersion'[r] = resolverVersion[r] /\ outstanding'[r] = outstanding[r]
  BY DEF SameResolver
<1> SUFFICES ASSUME NEW p \in CommitProxy
             PROVE  /\ \A k \in outstanding'[r][p] :
                          \E n \in DOMAIN batch'[p] : Served(r, p, n)' /\ k = Expected(r, p, n)'
                    /\ \A n \in DOMAIN batch'[p] : resolution'[p][n][r] # NoReply =>
                          Served(r, p, n)' /\ resolution'[p][n][r] = Expected(r, p, n)'
                    /\ \A n \in DOMAIN batch'[p] : Served(r, p, n)' /\ resolution'[p][n][r] = NoReply =>
                          \E k \in outstanding'[r][p] : k.version = batch'[p][n].version
  BY DEF ReplyInv
<1>2. \A n \in DOMAIN batch[p] : Served(r, p, n) =>
         n \in DOMAIN batch'[p] /\ Served(r, p, n)' /\ Expected(r, p, n)' = Expected(r, p, n)
  BY <1>1, ServedKept, ExpectedKept
<1>3. \A n \in DOMAIN batch'[p] : Served(r, p, n)' => n \in DOMAIN batch[p] /\ Served(r, p, n)
  BY <1>1, ServedKept
<1>4. \A k \in outstanding[r][p] : \E n \in DOMAIN batch[p] : Served(r, p, n) /\ k = Expected(r, p, n)
  BY DEF ReplyInv
<1>5. ASSUME NEW n \in DOMAIN batch'[p], resolution'[p][n][r] # NoReply
      PROVE  Served(r, p, n)' /\ resolution'[p][n][r] = Expected(r, p, n)'
  <2>1. n \in DOMAIN batch[p]
    BY <1>5 DEF Fills
  <2>2. CASE resolution'[p][n][r] = resolution[p][n][r]
    <3>1. Served(r, p, n) /\ resolution[p][n][r] = Expected(r, p, n)
      BY <1>5, <2>1, <2>2 DEF ReplyInv
    <3> QED
      BY <1>2, <2>1, <2>2, <3>1
  <2>3. CASE resolution'[p][n][r] # resolution[p][n][r]
    <3>1. PICK k \in outstanding[r][p] : k.version = batch[p][n].version /\ resolution'[p][n][r] = k
      BY <2>1, <2>3 DEF Fills
    <3>2. PICK i \in DOMAIN batch[p] : Served(r, p, i) /\ k = Expected(r, p, i)
      BY <1>4
    <3>3. k.version = batch[p][i].version
      BY <3>2, ExpectedType
    <3>4. batch[p][i].version = batch[p][n].version
      BY <3>1, <3>3
    <3>5. i = n
      BY <2>1, <3>4, BatchUnique
    <3> QED
      BY <1>2, <3>1, <3>2, <3>5
  <2> QED
    BY <2>2, <2>3
<1>6. ASSUME NEW n \in DOMAIN batch'[p], Served(r, p, n)', resolution'[p][n][r] = NoReply
      PROVE  \E k \in outstanding[r][p] : k.version = batch'[p][n].version
  <2>1. n \in DOMAIN batch[p] /\ Served(r, p, n)
    BY <1>3, <1>6
  <2>2. batch'[p][n] = batch[p][n]
    BY <2>1 DEF Kept
  <2>3. CASE resolution'[p][n][r] = resolution[p][n][r]
    BY <1>6, <2>1, <2>2, <2>3 DEF ReplyInv
  <2>4. CASE resolution'[p][n][r] # resolution[p][n][r]
    BY <2>1, <2>2, <2>4 DEF Fills
  <2> QED
    BY <2>3, <2>4
<1> QED
  BY <1>1, <1>2, <1>4, <1>5, <1>6

\* A resolver that gets no request is as good as it was.
LEMMA OtherResolver ==
    ASSUME CoreInv, TypeOK', NEW r \in Resolver, Kept, SameResolver(r), Fills(r)
    PROVE  SeenInv(r)' /\ RecentInv(r)' /\ ReplyInv(r)'
<1>1. TypeOK /\ BatchInv /\ SeenInv(r) /\ RecentInv(r) /\ ReplyInv(r)
  BY DEF CoreInv, ResolversInv
<1> QED
  BY <1>1, OtherSeen, OtherRecent, OtherReply

\* No reply that arrived goes away.
Arrived ==
    \A r \in Resolver : \A p \in CommitProxy : \A n \in DOMAIN batch[p] :
        resolution[p][n][r] # NoReply => resolution'[p][n][r] = resolution[p][n][r]

\* Proxies that process nothing have the metadata they had.
LEMMA OtherProxies ==
    ASSUME CoreInv, Kept, Arrived, TypeOK', UNCHANGED <<proxyVersion, applied>>
    PROVE  ProxyInv' /\ SameMetadata'
<1>1. TypeOK /\ BatchInv /\ ProxyInv /\ ResolversInv /\ SameMetadata
  BY DEF CoreInv
<1>2. proxyVersion' = proxyVersion /\ applied' = applied
  OBVIOUS
<1>3. \A p \in CommitProxy : /\ proxyVersion[p] \in Nat /\ version \in Nat /\ proxyVersion[p] <= version
                             /\ \A r \in Resolver : proxyVersion[p] <= resolverVersion[r]
  BY <1>1, Processed, Constants DEF TypeOK
<1>4. ASSUME NEW p \in CommitProxy
      PROVE  /\ proxyVersion'[p] = 0 \/ \E n \in DOMAIN batch'[p] : batch'[p][n].version = proxyVersion'[p]
             /\ \A n \in DOMAIN batch'[p] : batch'[p][n].version <= proxyVersion'[p] => Resolved(p, n)'
  <2>1. \A n \in DOMAIN batch[p] : n \in DOMAIN batch'[p] /\ batch'[p][n] = batch[p][n]
    BY DEF Kept
  <2>2. proxyVersion[p] = 0 \/ \E n \in DOMAIN batch[p] : batch[p][n].version = proxyVersion[p]
    BY <1>1 DEF ProxyInv
  <2>3. ASSUME NEW n \in DOMAIN batch'[p], batch'[p][n].version <= proxyVersion[p] PROVE Resolved(p, n)'
    <3>1. n \in DOMAIN batch[p]
      <4>1. SUFFICES ASSUME n \notin DOMAIN batch[p] PROVE FALSE
        OBVIOUS
      <4>2. PICK w : w = batch'[p][n].version
        OBVIOUS
      <4>3. w > version /\ w <= proxyVersion[p]
        BY <2>3, <4>1, <4>2 DEF Kept
      <4>4. w \in Nat
        <5>1. batch'[p] \in Seq(Request)
          BY DEF TypeOK
        <5>2. batch'[p][n] \in Request
          BY <5>1
        <5> QED
          BY <4>2, <5>2 DEF Request
      <4> QED
        BY <1>3, <4>3, <4>4
    <3>2. Resolved(p, n)
      BY <1>1, <2>1, <2>3, <3>1 DEF ProxyInv
    <3> QED
      BY <3>1, <3>2 DEF Resolved, Arrived
  <2> QED
    BY <1>2, <2>1, <2>2, <2>3
<1>5. ProxyInv'
  BY <1>4 DEF ProxyInv
<1>6. ASSUME NEW p \in CommitProxy PROVE Effective(proxyVersion[p])' = Effective(proxyVersion[p])
  <2>1. PICK v : v = proxyVersion[p]
    OBVIOUS
  <2>2. v \in Nat /\ v <= version /\ \A r \in Resolver : v <= resolverVersion[r]
    BY <1>3, <2>1
  <2>3. Effective(v)' = Effective(v)
    BY <1>1, <2>2, EffectiveKept
  <2>4. proxyVersion'[p] = v
    BY <1>2, <2>1
  <2> QED
    BY <2>1, <2>3, <2>4
<1>7. SameMetadata'
  BY <1>1, <1>2, <1>6 DEF SameMetadata
<1> QED
  BY <1>5, <1>7

-----------------------------------------------------------------------------
(***************************************************************************)
(* A reply arrives.                                                        *)
(***************************************************************************)

\* The only reply that can be new is that of resolver r to batch n of proxy p, from kept.
Arrives(r, p, n, kept) ==
    \A q \in CommitProxy : \A i \in DOMAIN batch[q] : \A s \in Resolver :
        \/ resolution'[q][i][s] = resolution[q][i][s]
        \/ /\ q = p /\ i = n /\ s = r /\ resolution[q][i][s] = NoReply
           /\ \E k \in kept : k.version = batch[p][n].version /\ resolution'[q][i][s] = k

\* The replies to the batches of proxy q are still as many as its batches.
SlotsOf(q) == resolution'[q] \in Seq(Slots) /\ Len(resolution'[q]) = Len(batch[q])

LEMMA DeliverOther ==
    ASSUME TypeOK, BatchInv, NEW r \in Resolver, NEW p \in CommitProxy, NEW n \in DOMAIN batch[p],
           NEW answered, NEW kept, kept \subseteq Reply, Deliver(r, batch[p][n], answered, kept),
           NEW q \in CommitProxy, q # p
    PROVE  resolution'[q] = resolution[q] /\ SlotsOf(q)
<1>1. batch[p][n].proxy = p
  BY BatchFacts
<1>2. resolution \in [CommitProxy -> Seq(Slots)] /\ Len(resolution[q]) = Len(batch[q])
  BY DEF TypeOK, Slots, BatchInv
<1>3. resolution'[q] = resolution[q]
  BY <1>1, <1>2 DEF Deliver
<1> QED
  BY <1>2, <1>3 DEF SlotsOf

LEMMA FilledIs ==
    ASSUME NEW slot \in Slots, NEW r \in Resolver, NEW v, NEW kept, kept \subseteq Reply
    PROVE  /\ Filled(slot, r, v, kept) \in Slots
           /\ \A s \in Resolver : s # r => Filled(slot, r, v, kept)[s] = slot[s]
           /\ \/ Filled(slot, r, v, kept)[r] = slot[r]
              \/ slot[r] = NoReply /\ \E k \in kept : k.version = v /\ Filled(slot, r, v, kept)[r] = k
<1>1. CASE slot[r] = NoReply /\ \E k \in kept : k.version = v
  <2>1. PICK c : c = CHOOSE k \in kept : k.version = v
    OBVIOUS
  <2>2. \E k \in kept : k.version = v /\ (CHOOSE j \in kept : j.version = v) = k
    BY <1>1, Zenon
  <2>3. c \in kept /\ c.version = v
    BY <2>1, <2>2
  <2>4. Filled(slot, r, v, kept) = [slot EXCEPT ![r] = c]
    BY <1>1, <2>1, Zenon DEF Filled
  <2>5. /\ [slot EXCEPT ![r] = c] \in Slots /\ [slot EXCEPT ![r] = c][r] = c
        /\ \A s \in Resolver : s # r => [slot EXCEPT ![r] = c][s] = slot[s]
    BY <2>3 DEF Slots
  <2> QED
    BY <1>1, <2>3, <2>4, <2>5
<1>2. CASE ~ (slot[r] = NoReply /\ \E k \in kept : k.version = v)
  BY <1>2, Zenon DEF Filled
<1> QED
  BY <1>1, <1>2

\* What a delivery does to the slots of proxy p.
SlotsFilled(r, p, n, kept) ==
    /\ resolution' = [q \in CommitProxy |-> resolution'[q]]
    /\ resolution'[p] = [i \in 1..Len(batch[p]) |-> resolution'[p][i]]
    /\ \A i \in DOMAIN batch[p] : i # n => resolution'[p][i] = resolution[p][i]
    /\ \/ resolution'[p][n] = resolution[p][n]
       \/ resolution'[p][n] = Filled(resolution[p][n], r, batch[p][n].version, kept)

LEMMA DeliverSlots ==
    ASSUME TypeOK, BatchInv, NEW r \in Resolver, NEW p \in CommitProxy, NEW n \in DOMAIN batch[p],
           NEW answered, NEW kept, Deliver(r, batch[p][n], answered, kept)
    PROVE  SlotsFilled(r, p, n, kept)
<1>1. PICK m : m = batch[p][n]
  OBVIOUS
<1>2. m.proxy = p
  BY <1>1, BatchFacts
<1>3. DOMAIN resolution[p] = 1..Len(batch[p]) /\ DOMAIN batch[p] = 1..Len(batch[p])
  BY BatchFacts
<1>4. resolution \in [CommitProxy -> Seq(Slots)]
  BY DEF TypeOK, Slots
<1> DEFINE f == [i \in DOMAIN resolution[p] |->
                   IF batch[p][i] = m /\ answered
                   THEN Filled(resolution[p][i], r, m.version, kept)
                   ELSE resolution[p][i]]
<1>5. resolution' = [resolution EXCEPT ![p] = f]
  <2> DEFINE g == [i \in DOMAIN resolution[m.proxy] |->
                     IF batch[m.proxy][i] = m /\ answered
                     THEN Filled(resolution[m.proxy][i], r, m.version, kept)
                     ELSE resolution[m.proxy][i]]
  <2>1. Deliver(r, m, answered, kept)
    BY <1>1
  <2>2. resolution' = [resolution EXCEPT ![m.proxy] = g]
    BY <2>1 DEF Deliver
  <2>3. g = f
    BY <1>2
  <2> HIDE DEF f, g
  <2> QED
    BY <1>2, <2>2, <2>3
<1>6. resolution' = [q \in CommitProxy |-> resolution'[q]] /\ resolution'[p] = f
  <2> HIDE DEF f
  <2> QED
    BY <1>4, <1>5
<1>7. \A i \in DOMAIN batch[p] : i # n => batch[p][i] # m
  BY <1>1, BatchUnique
<1>8. \A i \in DOMAIN batch[p] : i # n => f[i] = resolution[p][i]
  BY <1>3, <1>7
<1>9. f[n] = resolution[p][n] \/ f[n] = Filled(resolution[p][n], r, m.version, kept)
  BY <1>3
<1>10. f = [i \in 1..Len(batch[p]) |-> f[i]]
  BY <1>3
<1> QED
  BY <1>1, <1>6, <1>8, <1>9, <1>10 DEF SlotsFilled

LEMMA DeliverIs ==
    ASSUME TypeOK, BatchInv, NEW r \in Resolver, NEW p \in CommitProxy, NEW n \in DOMAIN batch[p],
           NEW answered, NEW kept, kept \subseteq Reply, Deliver(r, batch[p][n], answered, kept)
    PROVE  Arrives(r, p, n, kept) /\ \A q \in CommitProxy : SlotsOf(q)
           /\ resolution' \in [CommitProxy -> Seq(Slots)]
<1>1. /\ resolution' = [q \in CommitProxy |-> resolution'[q]]
      /\ resolution'[p] = [i \in 1..Len(batch[p]) |-> resolution'[p][i]]
      /\ \A i \in DOMAIN batch[p] : i # n => resolution'[p][i] = resolution[p][i]
      /\ \/ resolution'[p][n] = resolution[p][n]
         \/ resolution'[p][n] = Filled(resolution[p][n], r, batch[p][n].version, kept)
  <2>1. SlotsFilled(r, p, n, kept)
    BY DeliverSlots
  <2> QED
    BY <2>1 DEF SlotsFilled
<1>2. /\ DOMAIN batch[p] = 1..Len(batch[p]) /\ Len(batch[p]) \in Nat
      /\ \A i \in DOMAIN batch[p] : resolution[p][i] \in Slots
  BY BatchFacts
<1>3. PICK v : v = batch[p][n].version
  OBVIOUS
<1>4. PICK slot : slot = resolution[p][n]
  OBVIOUS
<1>5. PICK new : new = resolution'[p][n]
  OBVIOUS
<1>6. slot \in Slots /\ (new = slot \/ new = Filled(slot, r, v, kept))
  BY <1>1, <1>2, <1>3, <1>4, <1>5
<1>7. /\ new \in Slots /\ \A s \in Resolver : s # r => new[s] = slot[s]
      /\ new[r] = slot[r] \/ (slot[r] = NoReply /\ \E k \in kept : k.version = v /\ new[r] = k)
  BY <1>6, FilledIs
<1>8. SlotsOf(p)
  <2>1. \A i \in 1..Len(batch[p]) : resolution'[p][i] \in Slots
    BY <1>1, <1>2, <1>5, <1>7
  <2>2. PICK f : f = resolution'[p]
    OBVIOUS
  <2>3. f = [i \in 1..Len(batch[p]) |-> f[i]]
    BY <1>1, <2>2
  <2>4. f \in [1..Len(batch[p]) -> Slots]
    BY <2>1, <2>2, <2>3
  <2> QED
    BY <1>2, <2>2, <2>4 DEF SlotsOf
<1>9. \A q \in CommitProxy : SlotsOf(q)
  BY <1>8, DeliverOther
<1>10. Arrives(r, p, n, kept)
  <2> SUFFICES ASSUME NEW q \in CommitProxy, NEW i \in DOMAIN batch[q], NEW s \in Resolver
               PROVE  \/ resolution'[q][i][s] = resolution[q][i][s]
                      \/ /\ q = p /\ i = n /\ s = r /\ resolution[q][i][s] = NoReply
                         /\ \E k \in kept : k.version = batch[p][n].version /\ resolution'[q][i][s] = k
    BY DEF Arrives
  <2>1. CASE q # p
    BY <2>1, DeliverOther
  <2>2. CASE q = p /\ i # n
    BY <1>1, <2>2
  <2>3. CASE q = p /\ i = n /\ s # r
    BY <1>4, <1>5, <1>7, <2>3
  <2>4. CASE q = p /\ i = n /\ s = r
    BY <1>3, <1>4, <1>5, <1>7, <2>4
  <2> QED
    BY <2>1, <2>2, <2>3, <2>4
<1>11. resolution' \in [CommitProxy -> Seq(Slots)]
  <2>1. \A q \in CommitProxy : resolution'[q] \in Seq(Slots)
    BY <1>9 DEF SlotsOf
  <2> QED
    BY <1>1, <2>1
<1> QED
  BY <1>9, <1>10, <1>11

-----------------------------------------------------------------------------
(***************************************************************************)
(* A resolver serves the batch that is next: its parts.                    *)
(***************************************************************************)

\* A bounded set of numbers that is not empty has a greatest one.
LEMMA GreatestNumber ==
    ASSUME NEW S, S \subseteq Nat, S # {}, NEW b \in Nat, \A y \in S : y <= b
    PROVE  \E m \in S : \A x \in S : x <= m
<1> DEFINE T == {b - y : y \in S}
<1>0. \A y \in S : y \in Nat /\ b - y \in Nat
  OBVIOUS
<1>1. T \subseteq Nat /\ T # {}
  BY <1>0
<1>2. PICK k \in T : \A t \in T : k <= t
  <2> HIDE DEF T
  <2> QED
    BY <1>1, LeastNumber
<1>3. PICK m \in S : k = b - m
  BY <1>2
<1>4. ASSUME NEW x \in S PROVE x <= m
  <2>1. b - x \in T
    OBVIOUS
  <2>2. b - m <= b - x /\ x \in Nat /\ m \in Nat
    BY <1>2, <1>3, <2>1
  <2> QED
    BY <2>2
<1> QED
  BY <1>4

\* neededVersion grows, up to what lets in all before the requests of proxies that are behind.
LEMMA NeededIs ==
    ASSUME TypeOK, BatchInv, NEW r \in Resolver, NEW M, M \subseteq Sent, NEW kept, NEW last
    PROVE  /\ Needed(r, M, kept, last) \in Nat /\ needed[r] <= Needed(r, M, kept, last)
           /\ \A x \in M : Behind(r, kept, last[x.proxy]) => x.prevVersion <= Needed(r, M, kept, last)
<1> DEFINE wanted == {m.prevVersion : m \in {x \in M : Behind(r, kept, last[x.proxy])}}
           g == CHOOSE w \in wanted : \A x \in wanted : x <= w
<1>1. needed[r] \in Nat /\ version \in Nat
  BY DEF TypeOK
<1>2. Needed(r, M, kept, last) = IF wanted = {} THEN needed[r] ELSE LargerOf(needed[r], g)
  BY Zenon DEF Needed
<1>3. \A m \in M : m.prevVersion \in Nat /\ m.prevVersion <= version
  <2> SUFFICES ASSUME NEW m \in M PROVE m.prevVersion \in Nat /\ m.prevVersion <= version
    OBVIOUS
  <2>1. PICK q \in CommitProxy : \E i \in DOMAIN batch[q] : m = batch[q][i] /\ m.proxy = q
    BY SentFacts
  <2>2. PICK i \in DOMAIN batch[q] : m = batch[q][i]
    BY <2>1
  <2> QED
    BY <2>2, BatchFacts
<1>4. wanted \subseteq Nat /\ \A y \in wanted : y <= version
  BY <1>3
<1>5. \A x \in M : Behind(r, kept, last[x.proxy]) => x.prevVersion \in wanted
  OBVIOUS
<1>6. CASE wanted = {}
  BY <1>1, <1>2, <1>5, <1>6
<1>7. CASE wanted # {}
  <2>1. g \in wanted /\ \A x \in wanted : x <= g
    <3> HIDE DEF wanted
    <3>1. \E w \in wanted : \A x \in wanted : x <= w
      BY <1>1, <1>4, <1>7, GreatestNumber
    <3> QED
      BY <3>1, Zenon DEF g
  <2> HIDE DEF wanted, g
  <2>2. PICK h : h = g
    OBVIOUS
  <2>3. h \in Nat /\ \A x \in wanted : x \in Nat /\ x <= h
    BY <1>4, <2>1, <2>2
  <2>4. Needed(r, M, kept, last) = LargerOf(needed[r], h)
    BY <1>2, <1>7, <2>2
  <2>5. LargerOf(needed[r], h) \in Nat /\ needed[r] <= LargerOf(needed[r], h) /\ h <= LargerOf(needed[r], h)
    BY <1>1, <2>3 DEF LargerOf
  <2>6. PICK k : k = LargerOf(needed[r], h)
    OBVIOUS
  <2>7. \A x \in wanted : x <= k
    BY <2>3, <2>5, <2>6
  <2> QED
    BY <1>5, <2>4, <2>5, <2>6, <2>7
<1> QED
  BY <1>6, <1>7

\* The batch is the next one that resolver r serves.
Due(r, p, n) == resolverVersion[r] = batch[p][n].prevVersion

\* The resolver has served the batch's predecessor of the same proxy, and no later one.
LEMMA LastIs ==
    ASSUME TypeOK, BatchInv, NEW r \in Resolver, SeenInv(r),
           NEW p \in CommitProxy, NEW n \in DOMAIN batch[p], Due(r, p, n)
    PROVE  /\ lastVersion[r][p] < batch[p][n].version
           /\ n = 1 => lastVersion[r][p] = -1
           /\ n # 1 => n - 1 \in DOMAIN batch[p] /\ lastVersion[r][p] = batch[p][n - 1].version
<1>1. /\ n \in Nat /\ 1 <= n /\ n <= Len(batch[p]) /\ Len(batch[p]) \in Nat
      /\ DOMAIN batch[p] = 1..Len(batch[p])
      /\ batch[p][n].version \in Nat /\ batch[p][n].version = resolverVersion[r] + 1
  BY BatchFacts DEF Due
<1>2. /\ lastVersion[r][p] \in Nat \cup {-1} /\ resolverVersion[r] \in Nat
      /\ lastVersion[r][p] <= resolverVersion[r]
  BY ResolverFacts DEF SeenInv
<1>3. lastVersion[r][p] < batch[p][n].version
  BY <1>1, <1>2
<1>4. \A i \in DOMAIN batch[p] : batch[p][i].version \in Nat
  BY BatchFacts
<1>5. \A i, j \in DOMAIN batch[p] : i < j => batch[p][i].version < batch[p][j].version
  BY DEF BatchInv
<1>6. ASSUME lastVersion[r][p] # -1
      PROVE  \E i \in DOMAIN batch[p] : batch[p][i].version = lastVersion[r][p] /\ i < n
  <2>1. PICK i \in DOMAIN batch[p] : batch[p][i].version = lastVersion[r][p]
    BY <1>6 DEF SeenInv
  <2>2. i < n
    <3>1. SUFFICES ASSUME ~ (i < n) PROVE FALSE
      OBVIOUS
    <3>2. i = n \/ n < i
      BY <1>1, <3>1
    <3>3. CASE i = n
      BY <1>1, <1>3, <2>1, <3>3
    <3>4. CASE n < i
      <4>1. batch[p][n].version < batch[p][i].version
        BY <1>5, <3>4
      <4> QED
        BY <1>1, <1>3, <1>4, <2>1, <4>1
    <3> QED
      BY <3>2, <3>3, <3>4
  <2> QED
    BY <2>1, <2>2
<1>7. CASE n = 1
  BY <1>1, <1>3, <1>6, <1>7
<1>8. CASE n # 1
  <2>1. n - 1 \in DOMAIN batch[p] /\ n - 1 < n
    BY <1>1, <1>8
  <2>2. batch[p][n - 1].version < batch[p][n].version
    BY <1>5, <2>1
  <2>3. batch[p][n - 1].version \in Nat /\ batch[p][n - 1].version <= resolverVersion[r]
    BY <1>1, <1>2, <1>4, <2>1, <2>2
  <2>4. batch[p][n - 1].version <= lastVersion[r][p]
    BY <2>1, <2>3 DEF SeenInv, Served
  <2>5. lastVersion[r][p] # -1
    BY <2>3, <2>4
  <2>6. PICK i \in DOMAIN batch[p] : batch[p][i].version = lastVersion[r][p] /\ i < n
    BY <1>6, <2>5
  <2>7. i = n - 1
    <3>1. SUFFICES ASSUME i # n - 1 PROVE FALSE
      OBVIOUS
    <3>2. i < n - 1
      BY <1>1, <2>6, <3>1
    <3>3. batch[p][i].version < batch[p][n - 1].version
      BY <1>5, <2>1, <3>2
    <3> QED
      BY <1>4, <2>3, <2>4, <2>6, <3>3
  <2> QED
    BY <1>3, <1>8, <2>1, <2>6, <2>7
<1> QED
  BY <1>7, <1>8

\* So the reply lists what the proxy has not seen.
LEMMA UnseenIs ==
    ASSUME TypeOK, BatchInv, NEW r \in Resolver, SeenInv(r), RecentInv(r),
           NEW p \in CommitProxy, NEW n \in DOMAIN batch[p], Due(r, p, n)
    PROVE  Unseen(r, lastVersion[r][p] + 1, batch[p][n].version)
              = Entries(r, FirstUnseen(p, n), batch[p][n].version)
<1>1. PICK v : v = batch[p][n].version
  OBVIOUS
<1>2. PICK a : a = FirstUnseen(p, n)
  OBVIOUS
<1>3. PICK l : l = lastVersion[r][p]
  OBVIOUS
<1>4. v \in Nat /\ LastEpochEnd < v /\ v = resolverVersion[r] + 1 /\ resolverVersion[r] \in Nat
  BY <1>1, BatchFacts, ResolverFacts DEF Due
<1>5. l \in Nat \cup {-1} /\ l < v
  BY <1>1, <1>3, LastIs, ResolverFacts
<1>6. /\ a \in Nat /\ LastEpochEnd <= a /\ a <= v
      /\ \A w \in Nat : (LastEpochEnd <= w /\ l < w) <=> a <= w
  <2>1. CASE n = 1
    <3>1. a = LastEpochEnd /\ l = -1
      BY <1>2, <1>3, <2>1, LastIs DEF FirstUnseen
    <3> QED
      BY <1>4, <3>1, Constants
  <2>2. CASE n # 1
    <3>1. a = l + 1 /\ l \in Nat /\ LastEpochEnd < l
      BY <1>2, <1>3, <2>2, LastIs, BatchFacts DEF FirstUnseen
    <3> QED
      BY <1>4, <1>5, <3>1, Constants
  <2> QED
    BY <2>1, <2>2
<1> DEFINE S == {w \in DOMAIN recent[r] : l + 1 <= w /\ w < v}
<1>7. S = Below(a, v)
  <2>1. ASSUME NEW w \in S PROVE w \in Nat /\ a <= w /\ w < v
    <3>1. w \in LastEpochEnd..resolverVersion[r] /\ l + 1 <= w /\ w < v
      BY DEF RecentInv
    <3> QED
      BY <1>4, <1>5, <1>6, <3>1, Constants
  <2>2. ASSUME NEW w \in Nat, a <= w, w < v PROVE w \in S
    <3>1. LastEpochEnd <= w /\ l < w
      BY <1>6, <2>2
    <3>2. w \in LastEpochEnd..resolverVersion[r] /\ lastVersion[r][p] < w /\ l + 1 <= w
      BY <1>3, <1>4, <1>5, <2>2, <3>1, Constants
    <3>3. w \in DOMAIN recent[r]
      BY <3>2 DEF RecentInv
    <3> QED
      BY <2>2, <3>2, <3>3
  <2> QED
    BY <2>1, <2>2 DEF Below
<1>8. Unseen(r, l + 1, v) = Listed(r, S)
  BY DEF Unseen
<1> HIDE DEF S
<1>9. Cardinality(S) = v - a /\ \A i \in 1..(v - a) : Ascending(S)[i] = a + i - 1
  BY <1>4, <1>6, <1>7, AscendingInterval
<1>10. \A i \in 1..(v - a) : recent[r][a + i - 1] = Entry(r, a + i - 1)
  <2> SUFFICES ASSUME NEW i \in 1..(v - a) PROVE recent[r][a + i - 1] = Entry(r, a + i - 1)
    OBVIOUS
  <2>1. a + i - 1 \in S
    BY <1>4, <1>6, <1>7 DEF Below
  <2>2. a + i - 1 \in DOMAIN recent[r]
    BY <2>1 DEF S
  <2> QED
    BY <2>2 DEF RecentInv
<1>11. Listed(r, S) = [i \in 1..(v - a) |-> [version |-> Ascending(S)[i], committed |-> recent[r][Ascending(S)[i]]]]
  BY <1>9 DEF Listed
<1>12. \A i \in 1..(v - a) :
          [version |-> Ascending(S)[i], committed |-> recent[r][Ascending(S)[i]]]
             = [version |-> a + i - 1, committed |-> Entry(r, a + i - 1)]
  BY <1>9, <1>10
<1>13. Listed(r, S) = Entries(r, a, v)
  BY <1>11, <1>12 DEF Entries
<1> QED
  BY <1>1, <1>2, <1>3, <1>8, <1>13

\* What Resolve computes.
LastOf(r, m) == [lastVersion[r] EXCEPT ![m.proxy] = m.version]

OldestOf(r, m) == Least({LastOf(r, m)[q] : q \in CommitProxy})

Erasing(r, m) == lastVersion[r][m.proxy] + 1 <= OldestOf(r, m)

ReplyOf(r, m, committed) ==
    [version |-> m.version, committed |-> committed,
     stateMutations |-> Unseen(r, lastVersion[r][m.proxy] + 1, m.version)]

AddedOf(r, m, committed) ==
    [v \in DOMAIN recent[r] \cup {m.version} |->
        IF v # m.version THEN recent[r][v] ELSE IF StateTxn(m) THEN <<committed>> ELSE <<>>]

AfterOf(r, m, committed) ==
    [v \in {w \in DOMAIN AddedOf(r, m, committed) : Erasing(r, m) => w > OldestOf(r, m)} |->
        AddedOf(r, m, committed)[v]]

KeptOf(r, m, committed) == Keep(r, m, ReplyOf(r, m, committed))

NeededOf(r, m, committed) ==
    IF \/ Sized(r, AfterOf(r, m, committed)) # Sized(r, AddedOf(r, m, committed))
       \/ ~ OverLimit(r, recent[r]) /\ OverLimit(r, AfterOf(r, m, committed))
    THEN Needed(r, {x \in queue[r] : x.prevVersion > m.version}, AfterOf(r, m, committed), LastOf(r, m))
    ELSE needed[r]

Resolves(r, m, committed) ==
    /\ m \in queue[r] /\ resolverVersion[r] = m.prevVersion
    /\ lastVersion' = [lastVersion EXCEPT ![r] = LastOf(r, m)]
    /\ outstanding' = [outstanding EXCEPT ![r][m.proxy] = KeptOf(r, m, committed)]
    /\ recent' = [recent EXCEPT ![r] = AfterOf(r, m, committed)]
    /\ minRecent' = [minRecent EXCEPT ![r] = IF Erasing(r, m) THEN OldestOf(r, m) + 1 ELSE minRecent[r]]
    /\ resolverVersion' = [resolverVersion EXCEPT ![r] = m.version]
    /\ queue' = [queue EXCEPT ![r] = queue[r] \ {m}]
    /\ verdict' = [verdict EXCEPT ![r] = Append(verdict[r], committed)]
    /\ UNCHANGED <<version, batch, proxyVersion, applied, budget>>

LEMMA ResolveIs ==
    ASSUME NEW r, NEW m, NEW committed, NEW answered, Resolve(r, m, committed, answered)
    PROVE  Resolves(r, m, committed) /\ Deliver(r, m, answered, KeptOf(r, m, committed))
BY DEF Resolve, Resolves, LastOf, OldestOf, Erasing, ReplyOf, AddedOf, AfterOf, KeptOf

LEMMA ResolveNeeds ==
    ASSUME NEW r, NEW m, NEW committed, NEW answered, Resolve(r, m, committed, answered)
    PROVE  needed' = [needed EXCEPT ![r] = NeededOf(r, m, committed)]
BY DEF Resolve, NeededOf, LastOf, OldestOf, Erasing, AddedOf, AfterOf

LEMMA LastOfIs ==
    ASSUME TypeOK, BatchInv, NEW r \in Resolver, NEW p \in CommitProxy, NEW n \in DOMAIN batch[p],
           NEW m, m = batch[p][n]
    PROVE  /\ LastOf(r, m) \in [CommitProxy -> Nat \cup {-1}] /\ LastOf(r, m)[p] = m.version
           /\ \A q \in CommitProxy : q # p => LastOf(r, m)[q] = lastVersion[r][q]
<1>1. m.proxy = p /\ m.version \in Nat
  BY BatchFacts
<1>2. lastVersion[r] \in [CommitProxy -> Nat \cup {-1}]
  BY DEF TypeOK
<1> QED
  BY <1>1, <1>2 DEF LastOf

LEMMA OldestIs ==
    ASSUME TypeOK, BatchInv, NEW r \in Resolver, NEW p \in CommitProxy, NEW n \in DOMAIN batch[p],
           NEW m, m = batch[p][n]
    PROVE  /\ OldestOf(r, m) \in Nat \cup {-1}
           /\ \E q \in CommitProxy : OldestOf(r, m) = LastOf(r, m)[q]
           /\ \A q \in CommitProxy : OldestOf(r, m) <= LastOf(r, m)[q]
<1>1. LastOf(r, m) \in [CommitProxy -> Nat \cup {-1}]
  BY LastOfIs
<1> DEFINE S == {LastOf(r, m)[q] : q \in CommitProxy}
<1>2. S \subseteq Nat \cup {-1} /\ S # {}
  BY <1>1
<1>3. Least(S) \in S /\ \A x \in S : Least(S) <= x
  <2> HIDE DEF S
  <2> QED
    BY <1>2, LeastVersion
<1>4. OldestOf(r, m) = Least(S)
  BY DEF OldestOf
<1>5. PICK o : o = OldestOf(r, m)
  OBVIOUS
<1>6. o \in S /\ \A x \in S : o <= x
  BY <1>3, <1>4, <1>5
<1> QED
  BY <1>2, <1>5, <1>6

\* Erasing leaves what some proxy has not seen.
LEMMA ErasedIs ==
    ASSUME TypeOK, BatchInv, NEW r \in Resolver, SeenInv(r), RecentInv(r),
           NEW p \in CommitProxy, NEW n \in DOMAIN batch[p], Due(r, p, n), NEW m, m = batch[p][n]
    PROVE  {w \in DOMAIN recent[r] \cup {m.version} : Erasing(r, m) => w > OldestOf(r, m)}
              = {u \in LastEpochEnd..m.version : \E q \in CommitProxy : LastOf(r, m)[q] < u}
<1>1. /\ m.proxy = p /\ m.version \in Nat /\ LastEpochEnd < m.version
      /\ m.version = resolverVersion[r] + 1 /\ resolverVersion[r] \in Nat
  BY BatchFacts, ResolverFacts DEF Due
<1>2. PICK o : o = OldestOf(r, m)
  OBVIOUS
<1>3. PICK last : last = LastOf(r, m)
  OBVIOUS
<1>4. PICK v : v = m.version
  OBVIOUS
<1>5. PICK e : e = lastVersion[r][p]
  OBVIOUS
<1>6. /\ o \in Int /\ \A q \in CommitProxy : last[q] \in Int /\ o <= last[q]
      /\ \E q \in CommitProxy : o = last[q]
  <2>1. /\ OldestOf(r, m) \in Nat \cup {-1}
        /\ \E q \in CommitProxy : OldestOf(r, m) = LastOf(r, m)[q]
        /\ \A q \in CommitProxy : OldestOf(r, m) <= LastOf(r, m)[q]
    BY OldestIs
  <2>2. LastOf(r, m) \in [CommitProxy -> Nat \cup {-1}]
    BY LastOfIs
  <2>3. /\ o \in Nat \cup {-1} /\ last \in [CommitProxy -> Nat \cup {-1}]
        /\ \E q \in CommitProxy : o = last[q] /\ \A q1 \in CommitProxy : o <= last[q1]
    BY <1>2, <1>3, <2>1, <2>2
  <2> QED
    BY <2>3
<1>7. last[p] = v /\ \A q \in CommitProxy : q # p => last[q] = lastVersion[r][q]
  BY <1>3, <1>4, LastOfIs
<1>8. v \in Nat /\ LastEpochEnd < v /\ v = resolverVersion[r] + 1 /\ e \in Int /\ e < v
  BY <1>1, <1>4, <1>5, LastIs, ResolverFacts
<1>9. Erasing(r, m) <=> e + 1 <= o
  BY <1>1, <1>2, <1>5 DEF Erasing
<1>10. \A q \in CommitProxy : lastVersion[r][q] \in Int
  BY ResolverFacts
<1>11. \A w : w \in DOMAIN recent[r] <=>
          w \in LastEpochEnd..resolverVersion[r] /\ \E q \in CommitProxy : lastVersion[r][q] < w
  BY DEF RecentInv
<1>12. \A u \in Int : (\E q \in CommitProxy : last[q] < u) <=> o < u
  BY <1>6
<1>13. ASSUME NEW w \in DOMAIN recent[r] \cup {v}, (e + 1 <= o) => w > o
       PROVE  w \in LastEpochEnd..v /\ o < w
  <2>1. w \in LastEpochEnd..v
    BY <1>1, <1>8, <1>11, Constants
  <2>2. ASSUME ~ (e + 1 <= o) PROVE o < w
    <3>1. CASE w = v
      BY <1>6, <1>8, <2>2, <3>1
    <3>2. CASE w # v
      <4>1. PICK q \in CommitProxy : lastVersion[r][q] < w
        BY <1>11, <3>2
      <4>2. CASE q = p
        BY <1>5, <1>6, <1>8, <2>1, <2>2, <4>1, <4>2, Constants
      <4>3. CASE q # p
        BY <1>6, <1>7, <1>10, <2>1, <4>1, <4>3, Constants
      <4> QED
        BY <4>2, <4>3
    <3> QED
      BY <3>1, <3>2
  <2>3. ASSUME e + 1 <= o PROVE o < w
    BY <1>6, <1>13, <2>1, <2>3, <1>8, Constants
  <2> QED
    BY <2>1, <2>2, <2>3
<1>14. ASSUME NEW u \in LastEpochEnd..v, o < u PROVE u \in DOMAIN recent[r] \cup {v}
  <2>1. SUFFICES ASSUME u # v PROVE u \in DOMAIN recent[r]
    OBVIOUS
  <2>2. u \in Int /\ u < v /\ u \in LastEpochEnd..resolverVersion[r]
    BY <1>1, <1>8, <2>1, Constants
  <2>3. PICK q \in CommitProxy : last[q] < u
    BY <1>12, <1>14, <2>2
  <2>4. q # p
    BY <1>7, <1>8, <2>2, <2>3
  <2>5. lastVersion[r][q] < u
    BY <1>7, <2>3, <2>4
  <2> QED
    BY <1>11, <2>2, <2>5
<1>15. \A u \in LastEpochEnd..v : u \in Int /\ (o < u <=> u > o)
  BY <1>6, <1>8, Constants
<1>16. {w \in DOMAIN recent[r] \cup {v} : (e + 1 <= o) => w > o}
          = {u \in LastEpochEnd..v : \E q \in CommitProxy : last[q] < u}
  BY <1>12, <1>13, <1>14, <1>15
<1> QED
  BY <1>2, <1>3, <1>4, <1>9, <1>16

\* The step of a resolver that serves batch n of proxy p.
Serves(r, p, n, c) ==
    /\ r \in Resolver /\ p \in CommitProxy /\ n \in DOMAIN batch[p] /\ c \in BOOLEAN
    /\ Resolves(r, batch[p][n], c)

LEMMA ServesFacts ==
    ASSUME TypeOK, BatchInv, NEW r, NEW p, NEW n, NEW c, Serves(r, p, n, c), SeenInv(r)
    PROVE  /\ Due(r, p, n) /\ batch[p][n].proxy = p /\ batch[p][n].version = resolverVersion[r] + 1
           /\ resolverVersion[r] \in Nat /\ resolverVersion'[r] = batch[p][n].version
           /\ lastVersion'[r] = LastOf(r, batch[p][n])
           /\ recent'[r] = AfterOf(r, batch[p][n], c)
           /\ minRecent'[r] = IF Erasing(r, batch[p][n]) THEN OldestOf(r, batch[p][n]) + 1 ELSE minRecent[r]
           /\ queue'[r] = queue[r] \ {batch[p][n]}
           /\ verdict'[r] = Append(verdict[r], c)
           /\ version' = version /\ batch' = batch /\ proxyVersion' = proxyVersion /\ applied' = applied
<1>1. /\ r \in Resolver /\ p \in CommitProxy /\ n \in DOMAIN batch[p] /\ Resolves(r, batch[p][n], c)
  BY DEF Serves
<1>2. PICK m : m = batch[p][n]
  OBVIOUS
<1>3. m.proxy = p /\ m.version = m.prevVersion + 1 /\ m.version \in Nat /\ m.prevVersion \in Nat
  BY <1>1, <1>2, BatchFacts
<1>4. Resolves(r, m, c)
  BY <1>1, <1>2
<1>5. Due(r, p, n) /\ resolverVersion[r] = m.prevVersion
  BY <1>2, <1>4 DEF Resolves, Due
<1>6. /\ r \in DOMAIN resolverVersion /\ r \in DOMAIN lastVersion /\ r \in DOMAIN recent
      /\ r \in DOMAIN minRecent /\ r \in DOMAIN queue /\ r \in DOMAIN verdict
  BY <1>1 DEF TypeOK
<1>7. /\ resolverVersion'[r] = m.version /\ lastVersion'[r] = LastOf(r, m)
      /\ recent'[r] = AfterOf(r, m, c)
      /\ minRecent'[r] = (IF Erasing(r, m) THEN OldestOf(r, m) + 1 ELSE minRecent[r])
      /\ queue'[r] = queue[r] \ {m} /\ verdict'[r] = Append(verdict[r], c)
      /\ version' = version /\ batch' = batch /\ proxyVersion' = proxyVersion /\ applied' = applied
  BY <1>4, <1>6 DEF Resolves
<1> QED
  BY <1>2, <1>3, <1>5, <1>7

\* The resolver's new decision is about the version that is next.
LEMMA ServesDecides ==
    ASSUME TypeOK, BatchInv, NEW r, NEW p, NEW n, NEW c, Serves(r, p, n, c), SeenInv(r)
    PROVE  /\ Len(verdict'[r]) = resolverVersion'[r] - LastEpochEnd
           /\ verdict'[r][batch[p][n].version - LastEpochEnd] = c
           /\ \A v \in Nat : LastEpochEnd < v /\ v <= resolverVersion[r] =>
                 verdict'[r][v - LastEpochEnd] = verdict[r][v - LastEpochEnd]
<1>1. r \in Resolver
  BY DEF Serves
<1>2. PICK k : k = resolverVersion[r]
  OBVIOUS
<1>3. PICK s : s = verdict[r]
  OBVIOUS
<1>4. /\ s \in Seq(BOOLEAN) /\ Len(s) = k - LastEpochEnd /\ k \in Nat /\ LastEpochEnd <= k
  BY <1>1, <1>2, <1>3, ResolverFacts DEF SeenInv
<1>5. verdict'[r] = Append(s, c) /\ resolverVersion'[r] = k + 1 /\ batch[p][n].version = k + 1
  BY <1>2, <1>3, ServesFacts
<1>6. /\ Len(Append(s, c)) = (k + 1) - LastEpochEnd
      /\ Append(s, c)[(k + 1) - LastEpochEnd] = c
  BY <1>4, Constants
<1>7. \A v \in Nat : LastEpochEnd < v /\ v <= k => Append(s, c)[v - LastEpochEnd] = s[v - LastEpochEnd]
  BY <1>4, Constants
<1> QED
  BY <1>2, <1>3, <1>5, <1>6, <1>7

LEMMA ServesKept ==
    ASSUME TypeOK, BatchInv, NEW r, NEW p, NEW n, NEW c, Serves(r, p, n, c), SeenInv(r)
    PROVE  Kept
<1>1. batch' = batch
  BY ServesFacts
<1>2. \A v : HasTxn(v)' <=> HasTxn(v)
  BY <1>1 DEF HasTxn
<1>3. ASSUME NEW s \in Resolver, NEW v \in Nat, LastEpochEnd < v, v <= resolverVersion[s]
      PROVE  verdict'[s][v - LastEpochEnd] = verdict[s][v - LastEpochEnd]
  <2>1. CASE s = r
    BY <1>3, <2>1, ServesDecides
  <2>2. CASE s # r
    <3>1. verdict' = [verdict EXCEPT ![r] = Append(verdict[r], c)]
      BY DEF Serves, Resolves
    <3>2. verdict'[s] = verdict[s]
      BY <2>2, <3>1 DEF TypeOK
    <3> QED
      BY <3>2
  <2> QED
    BY <2>1, <2>2
<1> QED
  BY <1>1, <1>2, <1>3 DEF Kept

\* A batch is served after the step when it was before, or when it is the one.
LEMMA ServesServed ==
    ASSUME TypeOK, BatchInv, NEW r, NEW p, NEW n, NEW c, Serves(r, p, n, c), SeenInv(r),
           NEW q \in CommitProxy, NEW i \in DOMAIN batch[q]
    PROVE  /\ Served(r, q, i)' <=> (Served(r, q, i) \/ (q = p /\ i = n))
           /\ ~ Served(r, p, n)
<1>1. r \in Resolver /\ p \in CommitProxy /\ n \in DOMAIN batch[p]
  BY DEF Serves
<1>2. /\ batch' = batch /\ batch[p][n].version = resolverVersion[r] + 1
      /\ resolverVersion'[r] = batch[p][n].version /\ resolverVersion[r] \in Nat
  BY ServesFacts
<1>3. batch[q][i].version \in Nat
  BY BatchFacts
<1>4. batch[q][i].version = batch[p][n].version => q = p /\ i = n
  BY <1>1 DEF BatchInv
<1> QED
  BY <1>2, <1>3, <1>4 DEF Served

LEMMA ServesSeen ==
    ASSUME TypeOK, BatchInv, NEW r, NEW p, NEW n, NEW c, Serves(r, p, n, c), SeenInv(r)
    PROVE  SeenInv(r)'
<1>1. r \in Resolver /\ p \in CommitProxy /\ n \in DOMAIN batch[p]
  BY DEF Serves
<1>2. PICK m : m = batch[p][n]
  OBVIOUS
<1>3. /\ m.version = resolverVersion[r] + 1 /\ resolverVersion[r] \in Nat /\ m.version \in Nat
      /\ m.version <= version /\ version \in Nat /\ LastEpochEnd < m.version /\ m.proxy = p
  BY <1>1, <1>2, ServesFacts, BatchFacts
<1>4. /\ resolverVersion'[r] = m.version /\ lastVersion'[r] = LastOf(r, m)
      /\ minRecent'[r] = (IF Erasing(r, m) THEN OldestOf(r, m) + 1 ELSE minRecent[r])
      /\ queue'[r] = queue[r] \ {m} /\ version' = version /\ batch' = batch
  BY <1>2, ServesFacts
<1>5. LastEpochEnd <= resolverVersion'[r] /\ resolverVersion'[r] <= version'
  BY <1>3, <1>4, Constants
<1>6. Len(verdict'[r]) = resolverVersion'[r] - LastEpochEnd
  BY ServesDecides
<1>7. queue'[r] \subseteq Sent'
  <2>1. Sent' = Sent
    BY <1>4 DEF Sent
  <2>2. queue[r] \subseteq Sent
    BY DEF SeenInv
  <2> QED
    BY <1>4, <2>1, <2>2
<1>8. PICK last : last = LastOf(r, m)
  OBVIOUS
<1>9. PICK o : o = OldestOf(r, m)
  OBVIOUS
<1>10. /\ o \in Int /\ \A q \in CommitProxy : last[q] \in Int /\ o <= last[q]
       /\ last[p] = m.version /\ \A q \in CommitProxy : q # p => last[q] = lastVersion[r][q]
  <2>1. /\ OldestOf(r, m) \in Nat \cup {-1} /\ \A q \in CommitProxy : OldestOf(r, m) <= LastOf(r, m)[q]
    BY <1>1, <1>2, OldestIs
  <2>2. /\ LastOf(r, m) \in [CommitProxy -> Nat \cup {-1}] /\ LastOf(r, m)[p] = m.version
        /\ \A q \in CommitProxy : q # p => LastOf(r, m)[q] = lastVersion[r][q]
    BY <1>1, <1>2, LastOfIs
  <2> QED
    BY <1>8, <1>9, <2>1, <2>2
<1>11. ASSUME NEW q \in CommitProxy
       PROVE  /\ lastVersion'[r][q] <= resolverVersion'[r] /\ minRecent'[r] <= lastVersion'[r][q] + 1
              /\ lastVersion'[r][q] = -1 \/ \E i \in DOMAIN batch'[q] : batch'[q][i].version = lastVersion'[r][q]
              /\ \A i \in DOMAIN batch'[q] : Served(r, q, i)' => batch'[q][i].version <= lastVersion'[r][q]
  <2>1. /\ lastVersion[r][q] \in Int /\ lastVersion[r][q] <= resolverVersion[r]
        /\ minRecent[r] \in Nat /\ minRecent[r] <= lastVersion[r][q] + 1
    BY <1>1, ResolverFacts DEF SeenInv, TypeOK
  <2>2. PICK l : l = last[q]
    OBVIOUS
  <2>3. l \in Int /\ o <= l /\ lastVersion'[r][q] = l /\ lastVersion[r][q] <= l /\ l <= m.version
    <3>1. CASE q = p
      BY <1>3, <1>4, <1>8, <1>10, <2>1, <2>2, <3>1
    <3>2. CASE q # p
      BY <1>3, <1>4, <1>8, <1>10, <2>1, <2>2, <3>2
    <3> QED
      BY <3>1, <3>2
  <2>4. lastVersion'[r][q] <= resolverVersion'[r]
    BY <1>4, <2>3
  <2>5. minRecent'[r] <= lastVersion'[r][q] + 1
    <3>1. CASE Erasing(r, m)
      BY <1>4, <1>9, <1>10, <2>3, <3>1
    <3>2. CASE ~ Erasing(r, m)
      BY <1>4, <2>1, <2>3, <3>2
    <3> QED
      BY <3>1, <3>2
  <2>6. lastVersion'[r][q] = -1 \/ \E i \in DOMAIN batch'[q] : batch'[q][i].version = lastVersion'[r][q]
    <3>1. CASE q = p
      BY <1>1, <1>2, <1>4, <1>10, <2>2, <2>3, <3>1
    <3>2. CASE q # p
      <4>1. l = lastVersion[r][q]
        BY <1>10, <2>2, <3>2
      <4> QED
        BY <1>4, <2>3, <4>1 DEF SeenInv
    <3> QED
      BY <3>1, <3>2
  <2>7. ASSUME NEW i \in DOMAIN batch'[q], Served(r, q, i)' PROVE batch'[q][i].version <= lastVersion'[r][q]
    <3>1. i \in DOMAIN batch[q]
      BY <1>4
    <3>2. Served(r, q, i) \/ (q = p /\ i = n)
      BY <2>7, <3>1, ServesServed
    <3>3. CASE Served(r, q, i)
      <4>1. batch[q][i].version <= lastVersion[r][q]
        BY <3>1, <3>3 DEF SeenInv
      <4>2. batch[q][i].version \in Nat
        BY <3>1, BatchFacts
      <4> QED
        BY <1>4, <2>1, <2>3, <4>1, <4>2
    <3>4. CASE q = p /\ i = n
      BY <1>2, <1>3, <1>4, <1>10, <2>2, <2>3, <3>4
    <3> QED
      BY <3>2, <3>3, <3>4
  <2> QED
    BY <2>4, <2>5, <2>6, <2>7
<1> QED
  BY <1>5, <1>6, <1>7, <1>11 DEF SeenInv

LEMMA ServesRecent ==
    ASSUME TypeOK, BatchInv, NEW r, NEW p, NEW n, NEW c, Serves(r, p, n, c), SeenInv(r), RecentInv(r)
    PROVE  RecentInv(r)'
<1>1. r \in Resolver /\ p \in CommitProxy /\ n \in DOMAIN batch[p]
  BY DEF Serves
<1>2. PICK m : m = batch[p][n]
  OBVIOUS
<1>3. /\ m.version = resolverVersion[r] + 1 /\ resolverVersion[r] \in Nat /\ m.version \in Nat
      /\ m.version <= version /\ version \in Nat /\ Due(r, p, n)
  BY <1>1, <1>2, ServesFacts, BatchFacts
<1>4. /\ resolverVersion'[r] = m.version /\ lastVersion'[r] = LastOf(r, m)
      /\ recent'[r] = AfterOf(r, m, c) /\ batch' = batch
  BY <1>2, ServesFacts
<1>5. DOMAIN AfterOf(r, m, c) = {w \in DOMAIN recent[r] \cup {m.version} : Erasing(r, m) => w > OldestOf(r, m)}
  BY DEF AfterOf, AddedOf
<1>6. DOMAIN AfterOf(r, m, c) = {u \in LastEpochEnd..m.version : \E q \in CommitProxy : LastOf(r, m)[q] < u}
  BY <1>1, <1>2, <1>3, <1>5, ErasedIs
<1>7. Kept
  BY ServesKept
<1>8. ASSUME NEW v \in DOMAIN AfterOf(r, m, c) PROVE AfterOf(r, m, c)[v] = Entry(r, v)'
  <2>1. v \in DOMAIN recent[r] \cup {m.version}
    BY <1>5
  <2>2. AfterOf(r, m, c)[v] = IF v # m.version THEN recent[r][v] ELSE IF StateTxn(m) THEN <<c>> ELSE <<>>
    BY <2>1 DEF AfterOf, AddedOf
  <2>3. CASE v # m.version
    <3>1. v \in Nat /\ v <= resolverVersion[r]
      BY <1>3, <2>1, <2>3, Constants DEF RecentInv
    <3>2. Entry(r, v)' = Entry(r, v)
      BY <1>1, <1>7, <3>1, EntryKept
    <3>3. recent[r][v] = Entry(r, v)
      BY <2>1, <2>3 DEF RecentInv
    <3> QED
      BY <2>2, <2>3, <3>2, <3>3
  <2>4. CASE v = m.version
    <3>1. HasTxn(v)' <=> HasTxn(v)
      BY <1>4 DEF HasTxn
    <3>2. HasTxn(v) <=> StateTxn(m)
      BY <1>1, <1>2, <2>4, HasTxnIs
    <3>3. verdict'[r][v - LastEpochEnd] = c
      BY <1>2, <2>4, ServesDecides
    <3>4. CASE StateTxn(m)
      BY <2>2, <2>4, <3>1, <3>2, <3>3, <3>4 DEF Entry
    <3>5. CASE ~ StateTxn(m)
      BY <2>2, <2>4, <3>1, <3>2, <3>5 DEF Entry
    <3> QED
      BY <3>4, <3>5
  <2> QED
    BY <2>3, <2>4
<1>9. /\ DOMAIN recent'[r] = {u \in LastEpochEnd..resolverVersion'[r] : \E q \in CommitProxy : lastVersion'[r][q] < u}
  BY <1>4, <1>6
<1>10. \A v \in DOMAIN recent'[r] : recent'[r][v] = Entry(r, v)'
  BY <1>4, <1>8
<1> QED
  BY <1>9, <1>10 DEF RecentInv

\* The new reply is what is expected of it.
LEMMA ReplyOfIs ==
    ASSUME TypeOK, BatchInv, NEW r, NEW p, NEW n, NEW c, Serves(r, p, n, c), SeenInv(r), RecentInv(r)
    PROVE  /\ ReplyOf(r, batch[p][n], c) = Expected(r, p, n)'
           /\ ReplyOf(r, batch[p][n], c) \in Reply
           /\ ReplyOf(r, batch[p][n], c).version = batch[p][n].version
<1>1. r \in Resolver /\ p \in CommitProxy /\ n \in DOMAIN batch[p] /\ c \in BOOLEAN
  BY DEF Serves
<1>2. PICK v : v = batch[p][n].version
  OBVIOUS
<1>3. PICK a : a = FirstUnseen(p, n)
  OBVIOUS
<1>4. /\ v \in Nat /\ v <= resolverVersion[r] + 1 /\ batch[p][n].proxy = p /\ Due(r, p, n) /\ batch' = batch
  BY <1>1, <1>2, BatchFacts, ServesFacts
<1>5. a \in Nat /\ a <= v
  BY <1>1, <1>2, <1>3, FirstUnseenFacts
<1>6. Kept
  BY ServesKept
<1>7. Entries(r, a, v)' = Entries(r, a, v)
  BY <1>1, <1>4, <1>5, <1>6, EntriesKept
<1>8. Entries(r, a, v) \in Seq(StateTransactions)
  BY <1>1, <1>4, <1>5, EntriesType
<1>9. Unseen(r, lastVersion[r][p] + 1, v) = Entries(r, a, v)
  BY <1>1, <1>2, <1>3, <1>4, UnseenIs
<1>10. ReplyOf(r, batch[p][n], c) = [version |-> v, committed |-> c, stateMutations |-> Entries(r, a, v)]
  BY <1>2, <1>4, <1>9 DEF ReplyOf
<1>11. verdict'[r][v - LastEpochEnd] = c
  BY <1>2, ServesDecides
<1>12. FirstUnseen(p, n)' = a /\ (batch[p][n].version)' = v
  BY <1>2, <1>3, <1>4 DEF FirstUnseen
<1>13. Expected(r, p, n)' = [version |-> v, committed |-> verdict'[r][v - LastEpochEnd],
                             stateMutations |-> Entries(r, a, v)']
  BY <1>12 DEF Expected
<1>14. ReplyOf(r, batch[p][n], c) = Expected(r, p, n)'
  BY <1>7, <1>10, <1>11, <1>13
<1>15. ReplyOf(r, batch[p][n], c) \in Reply /\ ReplyOf(r, batch[p][n], c).version = v
  BY <1>1, <1>4, <1>8, <1>10 DEF Reply
<1> QED
  BY <1>2, <1>14, <1>15

LEMMA ServesOutstanding ==
    ASSUME TypeOK, BatchInv, NEW r, NEW p, NEW n, NEW c, Serves(r, p, n, c), SeenInv(r)
    PROVE  /\ outstanding'[r][p] = KeptOf(r, batch[p][n], c)
           /\ KeptOf(r, batch[p][n], c) =
                 {k \in outstanding[r][p] : k.version > batch[p][n].lastReceived}
                    \cup {ReplyOf(r, batch[p][n], c)}
           /\ \A q \in CommitProxy : q # p => outstanding'[r][q] = outstanding[r][q]
<1>1. r \in Resolver /\ p \in CommitProxy /\ n \in DOMAIN batch[p] /\ Resolves(r, batch[p][n], c)
  BY DEF Serves
<1>2. batch[p][n].proxy = p
  BY <1>1, BatchFacts
<1>3. outstanding' = [outstanding EXCEPT ![r][p] = KeptOf(r, batch[p][n], c)]
  BY <1>1, <1>2 DEF Resolves
<1>4. outstanding \in [Resolver -> [CommitProxy -> SUBSET Reply]]
  BY DEF TypeOK
<1> QED
  BY <1>1, <1>2, <1>3, <1>4 DEF KeptOf, Keep

LEMMA ServesReply ==
    ASSUME TypeOK, BatchInv, ProxyInv, NEW r, NEW p, NEW n, NEW c, Serves(r, p, n, c),
           Arrives(r, p, n, KeptOf(r, batch[p][n], c)), SeenInv(r), RecentInv(r), ReplyInv(r)
    PROVE  ReplyInv(r)'
<1>1. r \in Resolver /\ p \in CommitProxy /\ n \in DOMAIN batch[p]
  BY DEF Serves
<1>2. batch' = batch /\ resolverVersion[r] \in Nat
  BY ServesFacts
<1>3. Kept
  BY ServesKept
<1>4. PICK new : new = ReplyOf(r, batch[p][n], c)
  OBVIOUS
<1>5. PICK v : v = batch[p][n].version
  OBVIOUS
<1>6. new = Expected(r, p, n)' /\ new.version = v
  BY <1>4, <1>5, ReplyOfIs
<1>7. outstanding'[r][p] = {k \in outstanding[r][p] : k.version > batch[p][n].lastReceived} \cup {new}
  BY <1>4, ServesOutstanding
<1>8. \A q \in CommitProxy : q # p => outstanding'[r][q] = outstanding[r][q]
  BY ServesOutstanding
<1>9. \A q \in CommitProxy : \A i \in DOMAIN batch[q] :
         Served(r, q, i)' <=> (Served(r, q, i) \/ (q = p /\ i = n))
  BY ServesServed
<1>10. ~ Served(r, p, n)
  BY <1>1, ServesServed
<1>11. \A q \in CommitProxy : \A i \in DOMAIN batch[q] :
          Served(r, q, i) => Expected(r, q, i)' = Expected(r, q, i)
  BY <1>1, <1>3, ExpectedKept
<1>12. \A q \in CommitProxy : \A i \in DOMAIN batch[q] :
          \/ resolution'[q][i][r] = resolution[q][i][r]
          \/ /\ q = p /\ i = n /\ resolution[q][i][r] = NoReply
             /\ \E k \in outstanding'[r][p] : k.version = v /\ resolution'[q][i][r] = k
  <2>1. PICK kept : kept = KeptOf(r, batch[p][n], c)
    OBVIOUS
  <2>2. Arrives(r, p, n, kept) /\ outstanding'[r][p] = kept
    BY <2>1, ServesOutstanding
  <2> QED
    BY <1>1, <1>5, <2>2 DEF Arrives
<1>13. \A q \in CommitProxy : \A k \in outstanding[r][q] :
          \E i \in DOMAIN batch[q] : Served(r, q, i) /\ k = Expected(r, q, i) /\ k.version = batch[q][i].version
  BY <1>1, ExpectedType DEF ReplyInv
<1>14. ASSUME NEW q \in CommitProxy, NEW k \in outstanding'[r][q]
       PROVE  \E i \in DOMAIN batch[q] : Served(r, q, i)' /\ k = Expected(r, q, i)'
  <2>1. CASE k \in outstanding[r][q]
    <3>1. PICK i \in DOMAIN batch[q] : Served(r, q, i) /\ k = Expected(r, q, i)
      BY <1>13, <2>1
    <3> QED
      BY <1>9, <1>11, <3>1
  <2>2. CASE k \notin outstanding[r][q]
    <3>1. q = p /\ k = new
      BY <1>7, <1>8, <1>14, <2>2
    <3>2. Served(r, p, n)'
      BY <1>1, <1>9
    <3> QED
      BY <1>1, <1>6, <3>1, <3>2
  <2> QED
    BY <2>1, <2>2
<1>15. ASSUME NEW q \in CommitProxy, NEW i \in DOMAIN batch[q], resolution'[q][i][r] # NoReply
       PROVE  Served(r, q, i)' /\ resolution'[q][i][r] = Expected(r, q, i)'
  <2>1. CASE resolution'[q][i][r] = resolution[q][i][r]
    <3>1. Served(r, q, i) /\ resolution[q][i][r] = Expected(r, q, i)
      BY <1>15, <2>1 DEF ReplyInv
    <3> QED
      BY <1>9, <1>11, <2>1, <3>1
  <2>2. CASE resolution'[q][i][r] # resolution[q][i][r]
    <3>1. q = p /\ i = n /\ \E k \in outstanding'[r][p] : k.version = v /\ resolution'[q][i][r] = k
      BY <1>12, <2>2
    <3>2. PICK k \in outstanding'[r][p] : k.version = v /\ resolution'[q][i][r] = k
      BY <3>1
    <3>3. k = new
      <4>1. SUFFICES ASSUME k # new PROVE FALSE
        OBVIOUS
      <4>2. k \in outstanding[r][p]
        BY <1>7, <4>1
      <4>3. PICK j \in DOMAIN batch[p] : Served(r, p, j) /\ k.version = batch[p][j].version
        BY <1>1, <1>13, <4>2
      <4>4. batch[p][j].version = batch[p][n].version
        BY <1>5, <3>2, <4>3
      <4>5. j = n
        BY <1>1, <4>4, BatchUnique
      <4> QED
        BY <1>10, <4>3, <4>5
    <3>4. Served(r, p, n)'
      BY <1>1, <1>9
    <3> QED
      BY <1>6, <3>1, <3>2, <3>3, <3>4
  <2> QED
    BY <2>1, <2>2
<1>16. ASSUME NEW q \in CommitProxy, NEW i \in DOMAIN batch[q], Served(r, q, i)', resolution'[q][i][r] = NoReply
       PROVE  \E k \in outstanding'[r][q] : k.version = batch[q][i].version
  <2>1. CASE q = p /\ i = n
    BY <1>5, <1>6, <1>7, <2>1
  <2>2. CASE ~ (q = p /\ i = n)
    <3>1. Served(r, q, i) /\ resolution[q][i][r] = NoReply
      BY <1>9, <1>12, <1>16, <2>2
    <3>2. PICK k \in outstanding[r][q] : k.version = batch[q][i].version
      BY <3>1 DEF ReplyInv
    <3>3. CASE q # p
      BY <1>8, <3>2, <3>3
    <3>4. CASE q = p
      <4>1. /\ batch[p][n].lastReceived \in Nat /\ batch[p][n].lastReceived <= proxyVersion[p]
            /\ batch[p][i].version \in Nat
        BY <1>1, <3>4, BatchFacts
      <4>2. proxyVersion[p] \in Nat
        BY <1>1 DEF TypeOK
      <4>3. ~ (batch[p][i].version <= proxyVersion[p])
        <5>1. SUFFICES ASSUME batch[p][i].version <= proxyVersion[p] PROVE FALSE
          OBVIOUS
        <5>2. Resolved(p, i)
          BY <1>1, <3>4, <5>1 DEF ProxyInv
        <5> QED
          BY <1>1, <3>1, <3>4, <5>2 DEF Resolved
      <4>4. k.version > batch[p][n].lastReceived
        BY <3>2, <3>4, <4>1, <4>2, <4>3
      <4> QED
        BY <1>7, <3>2, <3>4, <4>4
    <3> QED
      BY <3>3, <3>4
  <2> QED
    BY <2>1, <2>2
<1> QED
  BY <1>2, <1>14, <1>15, <1>16 DEF ReplyInv

LEMMA KeptOfType ==
    ASSUME TypeOK, BatchInv, NEW r, NEW p, NEW n, NEW c, Serves(r, p, n, c), SeenInv(r), RecentInv(r)
    PROVE  KeptOf(r, batch[p][n], c) \subseteq Reply
<1>1. r \in Resolver /\ p \in CommitProxy
  BY DEF Serves
<1>2. outstanding[r][p] \subseteq Reply
  BY <1>1 DEF TypeOK
<1>3. PICK new : new = ReplyOf(r, batch[p][n], c)
  OBVIOUS
<1>4. new \in Reply
  BY <1>3, ReplyOfIs
<1>5. KeptOf(r, batch[p][n], c) =
         {k \in outstanding[r][p] : k.version > batch[p][n].lastReceived} \cup {new}
  BY <1>3, ServesOutstanding
<1> QED
  BY <1>2, <1>4, <1>5

\* What the resolvers keep for the proxies has its type.
ResolverTypes ==
    /\ resolverVersion \in [Resolver -> Nat]
    /\ lastVersion \in [Resolver -> [CommitProxy -> Nat \cup {-1}]]
    /\ outstanding \in [Resolver -> [CommitProxy -> SUBSET Reply]]
    /\ DOMAIN recent = Resolver
    /\ \A r \in Resolver : \A v \in DOMAIN recent[r] : v \in Nat /\ recent[r][v] \in Seq(BOOLEAN)
    /\ minRecent \in [Resolver -> Nat]
    /\ queue \in [Resolver -> SUBSET Request]
    /\ verdict \in [Resolver -> Seq(BOOLEAN)]

LEMMA ServesRecentType ==
    ASSUME TypeOK, BatchInv, NEW r, NEW p, NEW n, NEW c, Serves(r, p, n, c), SeenInv(r), RecentInv(r),
           NEW v \in DOMAIN recent'[r]
    PROVE  v \in Nat /\ recent'[r][v] \in Seq(BOOLEAN)
<1>1. r \in Resolver /\ p \in CommitProxy /\ n \in DOMAIN batch[p] /\ c \in BOOLEAN
  BY DEF Serves
<1>2. PICK m : m = batch[p][n]
  OBVIOUS
<1>3. m.version \in Nat /\ recent'[r] = AfterOf(r, m, c)
  BY <1>1, <1>2, BatchFacts, ServesFacts
<1>4. v \in DOMAIN recent[r] \cup {m.version}
  BY <1>3 DEF AfterOf, AddedOf
<1>5. recent'[r][v] = IF v # m.version THEN recent[r][v] ELSE IF StateTxn(m) THEN <<c>> ELSE <<>>
  BY <1>3, <1>4 DEF AfterOf, AddedOf
<1>6. v # m.version => v \in Nat /\ recent[r][v] \in Seq(BOOLEAN)
  BY <1>1, <1>4 DEF TypeOK
<1>7. <<c>> \in Seq(BOOLEAN) /\ <<>> \in Seq(BOOLEAN)
  BY <1>1
<1> QED
  BY <1>3, <1>5, <1>6, <1>7

LEMMA ServesTypes ==
    ASSUME TypeOK, BatchInv, NEW r, NEW p, NEW n, NEW c, Serves(r, p, n, c), SeenInv(r), RecentInv(r)
    PROVE  ResolverTypes'
<1>1. r \in Resolver /\ p \in CommitProxy /\ n \in DOMAIN batch[p] /\ c \in BOOLEAN
  BY DEF Serves
<1>2. PICK m : m = batch[p][n]
  OBVIOUS
<1>3. m.version \in Nat /\ m.proxy = p
  BY <1>1, <1>2, BatchFacts
<1>4. Resolves(r, m, c)
  BY <1>2 DEF Serves
<1>5. resolverVersion' \in [Resolver -> Nat]
  BY <1>3, <1>4 DEF TypeOK, Resolves
<1>6. lastVersion' \in [Resolver -> [CommitProxy -> Nat \cup {-1}]]
  <2>1. LastOf(r, m) \in [CommitProxy -> Nat \cup {-1}]
    BY <1>1, <1>2, LastOfIs
  <2> QED
    BY <1>4, <2>1 DEF TypeOK, Resolves
<1>7. outstanding' \in [Resolver -> [CommitProxy -> SUBSET Reply]]
  <2>1. KeptOf(r, m, c) \subseteq Reply
    BY <1>2, KeptOfType
  <2>2. PICK kept : kept = KeptOf(r, m, c)
    OBVIOUS
  <2>3. kept \in SUBSET Reply /\ outstanding' = [outstanding EXCEPT ![r][p] = kept]
    BY <1>3, <1>4, <2>1, <2>2 DEF Resolves
  <2>4. outstanding \in [Resolver -> [CommitProxy -> SUBSET Reply]]
    BY DEF TypeOK
  <2> QED
    BY <2>3, <2>4
<1>8. DOMAIN recent' = Resolver
  BY <1>4 DEF TypeOK, Resolves
<1>9. ASSUME NEW s \in Resolver, NEW v \in DOMAIN recent'[s] PROVE v \in Nat /\ recent'[s][v] \in Seq(BOOLEAN)
  <2>1. CASE s = r
    BY <2>1, ServesRecentType
  <2>2. CASE s # r
    <3>1. recent'[s] = recent[s]
      BY <1>4, <2>2 DEF TypeOK, Resolves
    <3> QED
      BY <3>1 DEF TypeOK
  <2> QED
    BY <2>1, <2>2
<1>10. minRecent' \in [Resolver -> Nat]
  <2>1. PICK x : x = IF Erasing(r, m) THEN OldestOf(r, m) + 1 ELSE minRecent[r]
    OBVIOUS
  <2>2. OldestOf(r, m) \in Nat \cup {-1}
    BY <1>1, <1>2, OldestIs
  <2>3. PICK o : o = OldestOf(r, m)
    OBVIOUS
  <2>4. o + 1 \in Nat /\ minRecent[r] \in Nat
    BY <1>1, <2>2, <2>3 DEF TypeOK
  <2>5. x \in Nat
    BY <2>1, <2>3, <2>4
  <2>6. minRecent' = [minRecent EXCEPT ![r] = x]
    BY <1>4, <2>1 DEF Resolves
  <2> QED
    BY <2>5, <2>6 DEF TypeOK
<1>11. queue' \in [Resolver -> SUBSET Request]
  BY <1>4 DEF TypeOK, Resolves
<1>12. verdict' \in [Resolver -> Seq(BOOLEAN)]
  <2>1. verdict[r] \in Seq(BOOLEAN) /\ verdict \in [Resolver -> Seq(BOOLEAN)]
    BY <1>1 DEF TypeOK
  <2>2. PICK s : s = Append(verdict[r], c)
    OBVIOUS
  <2>3. s \in Seq(BOOLEAN)
    BY <1>1, <2>1, <2>2
  <2>4. verdict' = [verdict EXCEPT ![r] = s]
    BY <1>4, <2>2 DEF Resolves
  <2> QED
    BY <2>1, <2>3, <2>4
<1> QED
  BY <1>5, <1>6, <1>7, <1>8, <1>9, <1>10, <1>11, <1>12 DEF ResolverTypes

-----------------------------------------------------------------------------
(***************************************************************************)
(* Every step keeps the invariant: the resolvers.                          *)
(***************************************************************************)

LEMMA BatchesStay ==
    ASSUME BatchInv, UNCHANGED <<version, batch, proxyVersion>>,
           \A q \in CommitProxy : Len(resolution'[q]) = Len(batch[q])
    PROVE  BatchInv'
BY DEF BatchInv

LEMMA ResolveInv ==
    ASSUME CoreInv, NEW r \in Resolver, NEW m \in Sent, NEW committed \in BOOLEAN, NEW answered \in BOOLEAN,
           Resolve(r, m, committed, answered)
    PROVE  CoreInv'
<1>1. /\ TypeOK /\ BatchInv /\ ProxyInv /\ ResolversInv
      /\ SeenInv(r) /\ RecentInv(r) /\ ReplyInv(r)
  BY DEF CoreInv, ResolversInv
<1>2. PICK p \in CommitProxy : \E n \in DOMAIN batch[p] : m = batch[p][n] /\ m.proxy = p
  BY <1>1, SentFacts
<1>3. PICK n \in DOMAIN batch[p] : m = batch[p][n]
  BY <1>2
<1>4. committed \in BOOLEAN
  OBVIOUS
<1>5. Resolves(r, m, committed) /\ Deliver(r, m, answered, KeptOf(r, m, committed))
  BY ResolveIs
<1>6. Serves(r, p, n, committed)
  BY <1>3, <1>4, <1>5 DEF Serves
<1>7. PICK kept : kept = KeptOf(r, m, committed)
  OBVIOUS
<1>8. kept \subseteq Reply
  BY <1>1, <1>3, <1>6, <1>7, KeptOfType
<1>9. Deliver(r, batch[p][n], answered, kept)
  BY <1>3, <1>5, <1>7
<1>10. /\ Arrives(r, p, n, kept) /\ \A q \in CommitProxy : SlotsOf(q)
       /\ resolution' \in [CommitProxy -> Seq(Slots)]
  BY <1>1, <1>8, <1>9, DeliverIs
<1>11. /\ version' = version /\ batch' = batch /\ proxyVersion' = proxyVersion /\ applied' = applied
      /\ budget' = budget
  BY <1>5 DEF Resolves
<1>12. needed' \in [Resolver -> Nat]
  <2>1. PICK x : x = NeededOf(r, m, committed)
    OBVIOUS
  <2>2. {y \in queue[r] : y.prevVersion > m.version} \subseteq Sent
    BY <1>1 DEF SeenInv
  <2>3. x \in Nat
    <3>1. PICK M : M = {y \in queue[r] : y.prevVersion > m.version}
      OBVIOUS
    <3>2. PICK a, b : a = AfterOf(r, m, committed) /\ b = LastOf(r, m)
      OBVIOUS
    <3>3. Needed(r, M, a, b) \in Nat /\ needed[r] \in Nat
      BY <1>1, <2>2, <3>1, NeededIs DEF TypeOK
    <3>4. x = Needed(r, M, a, b) \/ x = needed[r]
      BY <2>1, <3>1, <3>2 DEF NeededOf
    <3> QED
      BY <3>3, <3>4
  <2>4. needed' = [needed EXCEPT ![r] = x]
    BY <2>1, ResolveNeeds
  <2>5. needed \in [Resolver -> Nat]
    BY <1>1 DEF TypeOK
  <2> QED
    BY <2>3, <2>4, <2>5
<1>13. TypeOK'
  <2>1. ResolverTypes'
    BY <1>1, <1>6, ServesTypes
  <2>2. resolution' \in [CommitProxy -> Seq([Resolver -> Reply \cup {NoReply}])]
    BY <1>10 DEF Slots
  <2>3. /\ version' \in Nat /\ batch' \in [CommitProxy -> Seq(Request)]
        /\ proxyVersion' \in [CommitProxy -> Nat] /\ applied' \in [CommitProxy -> Seq(Nat)]
        /\ budget' \in Budgets
    BY <1>1, <1>11 DEF TypeOK
  <2> QED
    BY <1>12, <2>1, <2>2, <2>3 DEF TypeOK, ResolverTypes
<1>14. BatchInv'
  BY <1>1, <1>10, <1>11, BatchesStay DEF SlotsOf
<1>15. Kept
  BY <1>1, <1>6, ServesKept
<1>16. Arrived
  BY <1>10 DEF Arrives, Arrived
<1>17. ProxyInv' /\ SameMetadata'
  BY <1>11, <1>13, <1>15, <1>16, OtherProxies
<1>18. SeenInv(r)' /\ RecentInv(r)' /\ ReplyInv(r)'
  <2>1. Arrives(r, p, n, KeptOf(r, batch[p][n], committed))
    BY <1>3, <1>7, <1>10
  <2> QED
    BY <1>1, <1>6, <2>1, ServesSeen, ServesRecent, ServesReply
<1>19. ASSUME NEW s \in Resolver, s # r PROVE SeenInv(s)' /\ RecentInv(s)' /\ ReplyInv(s)'
  <2>1. Fills(s)
    BY <1>10, <1>11, <1>19 DEF Arrives, Fills
  <2>2. /\ resolverVersion'[s] = resolverVersion[s] /\ lastVersion'[s] = lastVersion[s]
        /\ recent'[s] = recent[s] /\ minRecent'[s] = minRecent[s] /\ verdict'[s] = verdict[s]
        /\ queue'[s] = queue[s]
    BY <1>1, <1>5, <1>19 DEF Resolves, TypeOK
  <2>3. outstanding'[s] = outstanding[s]
    BY <1>1, <1>5, <1>19 DEF Resolves, TypeOK
  <2>4. queue[s] \subseteq Sent /\ Sent' = Sent /\ version \in Nat
    <3>1. Sent' = Sent
      BY <1>11 DEF Sent
    <3>2. queue[s] \subseteq Sent
      BY <1>1 DEF ResolversInv, SeenInv
    <3> QED
      BY <1>1, <3>1, <3>2 DEF TypeOK
  <2>5. SameResolver(s)
    BY <1>11, <2>2, <2>3, <2>4 DEF SameResolver
  <2> QED
    BY <1>13, <1>15, <2>1, <2>5, OtherResolver
<1>20. ResolversInv'
  BY <1>18, <1>19 DEF ResolversInv
<1> QED
  BY <1>13, <1>14, <1>17, <1>20 DEF CoreInv

LEMMA ResolveDuplicateInv ==
    ASSUME CoreInv, NEW r \in Resolver, NEW m \in Sent, NEW answered \in BOOLEAN,
           ResolveDuplicate(r, m, answered)
    PROVE  CoreInv'
<1>1. TypeOK /\ BatchInv /\ ResolversInv
  BY DEF CoreInv
<1>2. PICK p \in CommitProxy : \E n \in DOMAIN batch[p] : m = batch[p][n] /\ m.proxy = p
  BY <1>1, SentFacts
<1>3. PICK n \in DOMAIN batch[p] : m = batch[p][n] /\ m.proxy = p
  BY <1>2
<1>4. PICK kept : kept = outstanding[r][p]
  OBVIOUS
<1>5. kept \subseteq Reply
  BY <1>1, <1>4 DEF TypeOK
<1>6. Deliver(r, batch[p][n], answered, kept)
  BY <1>3, <1>4 DEF ResolveDuplicate
<1>7. /\ Arrives(r, p, n, kept) /\ \A q \in CommitProxy : SlotsOf(q)
      /\ resolution' \in [CommitProxy -> Seq(Slots)]
  BY <1>1, <1>5, <1>6, DeliverIs
<1>8. /\ version' = version /\ batch' = batch /\ proxyVersion' = proxyVersion /\ applied' = applied
      /\ budget' = budget
      /\ resolverVersion' = resolverVersion /\ lastVersion' = lastVersion /\ outstanding' = outstanding
      /\ recent' = recent /\ minRecent' = minRecent /\ needed' = needed /\ verdict' = verdict
      /\ queue' = [queue EXCEPT ![r] = @ \ {m}]
  BY DEF ResolveDuplicate
<1>9. TypeOK'
  <2>1. resolution' \in [CommitProxy -> Seq([Resolver -> Reply \cup {NoReply}])]
    BY <1>7 DEF Slots
  <2>2. queue' \in [Resolver -> SUBSET Request]
    BY <1>1, <1>8 DEF TypeOK
  <2> QED
    BY <1>1, <1>8, <2>1, <2>2 DEF TypeOK
<1>10. BatchInv'
  BY <1>1, <1>7, <1>8, BatchesStay DEF SlotsOf
<1>11. Kept
  BY <1>8 DEF Kept, HasTxn
<1>12. Arrived
  BY <1>7 DEF Arrives, Arrived
<1>13. ProxyInv' /\ SameMetadata'
  BY <1>8, <1>9, <1>11, <1>12, OtherProxies
<1>14. ASSUME NEW s \in Resolver PROVE SeenInv(s)' /\ RecentInv(s)' /\ ReplyInv(s)'
  <2>1. Fills(s)
    BY <1>4, <1>7, <1>8 DEF Arrives, Fills
  <2>2. queue[s] \subseteq Sent /\ Sent' = Sent /\ version \in Nat
    <3>1. Sent' = Sent
      BY <1>8 DEF Sent
    <3>2. queue[s] \subseteq Sent
      BY <1>1 DEF ResolversInv, SeenInv
    <3> QED
      BY <1>1, <3>1, <3>2 DEF TypeOK
  <2>3. queue'[s] \subseteq queue[s]
    BY <1>1, <1>8 DEF TypeOK
  <2>4. SameResolver(s)
    BY <1>8, <2>2, <2>3 DEF SameResolver
  <2> QED
    BY <1>9, <1>11, <2>1, <2>4, OtherResolver
<1> QED
  BY <1>9, <1>10, <1>13, <1>14 DEF CoreInv, ResolversInv

LEMMA AdmitInv ==
    ASSUME CoreInv, NEW r \in Resolver, NEW m \in Sent, Admit(r, m)
    PROVE  CoreInv'
<1>1. TypeOK /\ BatchInv /\ ResolversInv
  BY DEF CoreInv
<1>2. /\ version' = version /\ batch' = batch /\ proxyVersion' = proxyVersion /\ applied' = applied
      /\ budget' = budget
      /\ resolverVersion' = resolverVersion /\ lastVersion' = lastVersion /\ outstanding' = outstanding
      /\ recent' = recent /\ minRecent' = minRecent /\ verdict' = verdict /\ resolution' = resolution
      /\ queue' = [queue EXCEPT ![r] = @ \cup {m}]
      /\ needed' = [needed EXCEPT ![r] = Needed(r, {m}, recent[r], lastVersion[r])]
  BY DEF Admit
<1>3. PICK p \in CommitProxy : \E n \in DOMAIN batch[p] : m = batch[p][n] /\ m.proxy = p
  BY <1>1, SentFacts
<1>4. m \in Request
  BY <1>1, <1>3, BatchFacts
<1>5. needed' \in [Resolver -> Nat]
  <2>1. PICK x : x = Needed(r, {m}, recent[r], lastVersion[r])
    OBVIOUS
  <2>2. {m} \subseteq Sent
    OBVIOUS
  <2>3. x \in Nat
    BY <1>1, <2>1, <2>2, NeededIs
  <2>4. needed \in [Resolver -> Nat]
    BY <1>1 DEF TypeOK
  <2> QED
    BY <1>2, <2>1, <2>3, <2>4
<1>6. queue' \in [Resolver -> SUBSET Request]
  BY <1>1, <1>2, <1>4 DEF TypeOK
<1>7. TypeOK'
  BY <1>1, <1>2, <1>5, <1>6 DEF TypeOK
<1>8. BatchInv'
  BY <1>1, <1>2 DEF BatchInv
<1>9. Kept
  BY <1>2 DEF Kept, HasTxn
<1>10. Arrived
  BY <1>2 DEF Arrived
<1>11. ProxyInv' /\ SameMetadata'
  BY <1>2, <1>7, <1>9, <1>10, OtherProxies
<1>12. ASSUME NEW s \in Resolver PROVE SeenInv(s)' /\ RecentInv(s)' /\ ReplyInv(s)'
  <2>1. Fills(s)
    BY <1>2 DEF Fills
  <2>2. queue[s] \subseteq Sent /\ Sent' = Sent /\ version \in Nat
    <3>1. Sent' = Sent
      BY <1>2 DEF Sent
    <3>2. queue[s] \subseteq Sent
      BY <1>1 DEF ResolversInv, SeenInv
    <3> QED
      BY <1>1, <3>1, <3>2 DEF TypeOK
  <2>3. queue'[s] \subseteq queue[s] \cup {m}
    BY <1>1, <1>2 DEF TypeOK
  <2>4. SameResolver(s)
    BY <1>2, <2>2, <2>3 DEF SameResolver
  <2> QED
    BY <1>7, <1>9, <2>1, <2>4, OtherResolver
<1> QED
  BY <1>7, <1>8, <1>11, <1>12 DEF CoreInv, ResolversInv

-----------------------------------------------------------------------------
(***************************************************************************)
(* Every step keeps the invariant: a new batch.                            *)
(***************************************************************************)

\* Proxy p has one batch more, m, with no reply yet.
Sends(p, m) ==
    /\ \A q \in CommitProxy : \A i \in DOMAIN batch[q] :
          i \in DOMAIN batch'[q] /\ batch'[q][i] = batch[q][i] /\ resolution'[q][i] = resolution[q][i]
    /\ \A q \in CommitProxy : \A i \in DOMAIN batch'[q] : i \notin DOMAIN batch[q] =>
          /\ q = p /\ i = Len(batch[p]) + 1 /\ batch'[q][i] = m
          /\ \A r \in Resolver : resolution'[q][i][r] = NoReply
    /\ \A q \in CommitProxy : Len(resolution'[q]) = Len(batch'[q])
    /\ m \in Request /\ m.proxy = p /\ m.prevVersion = version /\ m.version = version + 1
    /\ m.lastReceived = proxyVersion[p]
    /\ version' = version + 1 /\ proxyVersion' = proxyVersion
    /\ version \in Nat /\ proxyVersion[p] \in Nat

LEMMA SendIs ==
    ASSUME TypeOK, BatchInv, NEW p \in CommitProxy, NEW kind \in Kind, NEW snapshot \in Nat,
           SendBatch(p, kind, snapshot)
    PROVE  /\ \E m : Sends(p, m) /\ m.kind = kind /\ m.snapshot = snapshot
           /\ batch' \in [CommitProxy -> Seq(Request)]
           /\ resolution' \in [CommitProxy -> Seq([Resolver -> Reply \cup {NoReply}])]
<1> DEFINE m == [proxy |-> p, prevVersion |-> version, version |-> version + 1,
                 kind |-> kind, snapshot |-> snapshot, lastReceived |-> proxyVersion[p]]
           slot == [r \in Resolver |-> NoReply]
<1>1. version \in Nat /\ proxyVersion[p] \in Nat
  BY DEF TypeOK
<1>2. /\ m \in Request /\ m.proxy = p /\ m.prevVersion = version /\ m.version = version + 1
      /\ m.lastReceived = proxyVersion[p] /\ m.kind = kind /\ m.snapshot = snapshot
  BY <1>1 DEF Request
<1>3. slot \in Slots /\ \A r \in Resolver : slot[r] = NoReply
  BY DEF Slots
<1>4. /\ batch \in [CommitProxy -> Seq(Request)] /\ resolution \in [CommitProxy -> Seq(Slots)]
      /\ \A q \in CommitProxy : Len(resolution[q]) = Len(batch[q])
  BY DEF TypeOK, BatchInv, Slots
<1>5. /\ batch' = [batch EXCEPT ![p] = Append(batch[p], m)]
      /\ resolution' = [resolution EXCEPT ![p] = Append(resolution[p], slot)]
      /\ version' = version + 1 /\ proxyVersion' = proxyVersion
  BY DEF SendBatch
<1> HIDE DEF m, slot
<1>6. PICK s : s = batch[p]
  OBVIOUS
<1>7. PICK t : t = resolution[p]
  OBVIOUS
<1>8. s \in Seq(Request) /\ t \in Seq(Slots) /\ Len(t) = Len(s) /\ Len(s) \in Nat
  BY <1>4, <1>6, <1>7
<1>9. /\ Append(s, m) \in Seq(Request) /\ Append(t, slot) \in Seq(Slots)
      /\ Len(Append(s, m)) = Len(s) + 1 /\ Len(Append(t, slot)) = Len(s) + 1
      /\ DOMAIN s = 1..Len(s) /\ DOMAIN Append(s, m) = 1..(Len(s) + 1)
      /\ \A i \in 1..Len(s) : Append(s, m)[i] = s[i] /\ Append(t, slot)[i] = t[i]
      /\ Append(s, m)[Len(s) + 1] = m /\ Append(t, slot)[Len(s) + 1] = slot
  BY <1>2, <1>3, <1>8
<1>10. /\ batch'[p] = Append(s, m) /\ resolution'[p] = Append(t, slot)
       /\ \A q \in CommitProxy : q # p => batch'[q] = batch[q] /\ resolution'[q] = resolution[q]
  BY <1>4, <1>5, <1>6, <1>7
<1>11. \A q \in CommitProxy : \A i \in DOMAIN batch[q] :
          i \in DOMAIN batch'[q] /\ batch'[q][i] = batch[q][i] /\ resolution'[q][i] = resolution[q][i]
  <2> SUFFICES ASSUME NEW q \in CommitProxy, NEW i \in DOMAIN batch[q]
               PROVE  i \in DOMAIN batch'[q] /\ batch'[q][i] = batch[q][i] /\ resolution'[q][i] = resolution[q][i]
    OBVIOUS
  <2>1. CASE q # p
    BY <1>10, <2>1
  <2>2. CASE q = p
    <3>1. i \in 1..Len(s) /\ i \in 1..(Len(s) + 1)
      BY <1>6, <1>8, <1>9, <2>2
    <3> QED
      BY <1>6, <1>7, <1>9, <1>10, <2>2, <3>1
  <2> QED
    BY <2>1, <2>2
<1>12. \A q \in CommitProxy : \A i \in DOMAIN batch'[q] : i \notin DOMAIN batch[q] =>
          /\ q = p /\ i = Len(batch[p]) + 1 /\ batch'[q][i] = m
          /\ \A r \in Resolver : resolution'[q][i][r] = NoReply
  <2> SUFFICES ASSUME NEW q \in CommitProxy, NEW i \in DOMAIN batch'[q], i \notin DOMAIN batch[q]
               PROVE  /\ q = p /\ i = Len(batch[p]) + 1 /\ batch'[q][i] = m
                      /\ \A r \in Resolver : resolution'[q][i][r] = NoReply
    OBVIOUS
  <2>1. q = p
    BY <1>10
  <2>2. i \in 1..(Len(s) + 1) /\ ~ (i \in 1..Len(s))
    BY <1>6, <1>9, <1>10, <2>1
  <2>3. i = Len(s) + 1
    BY <1>8, <2>2
  <2> QED
    BY <1>3, <1>6, <1>9, <1>10, <2>1, <2>3
<1>13. \A q \in CommitProxy : Len(resolution'[q]) = Len(batch'[q])
  BY <1>4, <1>9, <1>10
<1>14. Sends(p, m)
  BY <1>1, <1>2, <1>5, <1>11, <1>12, <1>13 DEF Sends
<1>15. batch' \in [CommitProxy -> Seq(Request)]
  BY <1>4, <1>5, <1>6, <1>9
<1>16. resolution' \in [CommitProxy -> Seq(Slots)]
  BY <1>4, <1>5, <1>7, <1>9
<1>17. \E x : Sends(p, x) /\ x.kind = kind /\ x.snapshot = snapshot
  BY <1>2, <1>14
<1>18. resolution' \in [CommitProxy -> Seq([Resolver -> Reply \cup {NoReply}])]
  BY <1>16 DEF Slots
<1> QED
  BY <1>15, <1>17, <1>18

LEMMA SendBatches ==
    ASSUME TypeOK, BatchInv, NEW p \in CommitProxy, NEW m, Sends(p, m)
    PROVE  BatchInv'
<1>1. /\ m.proxy = p /\ m.prevVersion = version /\ m.version = version + 1
      /\ m.lastReceived = proxyVersion[p] /\ version' = version + 1 /\ proxyVersion' = proxyVersion
      /\ version \in Nat /\ proxyVersion[p] \in Nat
  BY DEF Sends
<1>2. \A q \in CommitProxy : \A i \in DOMAIN batch[q] : batch'[q][i] = batch[q][i]
  BY DEF Sends
<1>3. \A q \in CommitProxy : \A i \in DOMAIN batch'[q] :
         i \in DOMAIN batch[q] \/ (q = p /\ i = Len(batch[p]) + 1 /\ batch'[q][i] = m)
  BY DEF Sends
<1>4. LastEpochEnd <= version
  BY DEF BatchInv
<1>5. ASSUME NEW q \in CommitProxy, NEW i \in DOMAIN batch'[q]
      PROVE  /\ batch'[q][i].proxy = q
             /\ batch'[q][i].version = batch'[q][i].prevVersion + 1
             /\ LastEpochEnd < batch'[q][i].version /\ batch'[q][i].version <= version'
             /\ batch'[q][i].lastReceived <= proxyVersion'[q]
  <2>1. CASE i \in DOMAIN batch[q]
    <3>1. /\ batch[q][i].proxy = q /\ batch[q][i].version \in Nat
          /\ batch[q][i].version = batch[q][i].prevVersion + 1
          /\ LastEpochEnd < batch[q][i].version /\ batch[q][i].version <= version
          /\ batch[q][i].lastReceived <= proxyVersion[q]
      BY <2>1, BatchFacts
    <3>2. batch[q][i].version <= version'
      BY <1>1, <3>1
    <3>3. batch'[q][i] = batch[q][i]
      BY <1>2, <2>1
    <3> QED
      BY <1>1, <3>1, <3>2, <3>3
  <2>2. CASE i \notin DOMAIN batch[q]
    <3>1. q = p /\ batch'[q][i] = m
      BY <1>3, <2>2
    <3> QED
      BY <1>1, <1>4, <3>1, Constants
  <2> QED
    BY <2>1, <2>2
<1>6. \A q \in CommitProxy : \A i \in DOMAIN batch[q] :
         /\ batch[q][i].version \in Nat /\ batch[q][i].version <= version
         /\ i \in Nat /\ i <= Len(batch[q]) /\ Len(batch[q]) \in Nat
  BY BatchFacts
<1>7. ASSUME NEW q \in CommitProxy, NEW i \in DOMAIN batch'[q], NEW j \in DOMAIN batch'[q], i < j
      PROVE  batch'[q][i].version < batch'[q][j].version
  <2>1. CASE i \in DOMAIN batch[q] /\ j \in DOMAIN batch[q]
    <3>1. batch[q][i].version < batch[q][j].version
      BY <1>7, <2>1 DEF BatchInv
    <3> QED
      BY <1>2, <2>1, <3>1
  <2>2. CASE i \in DOMAIN batch[q] /\ j \notin DOMAIN batch[q]
    <3>1. batch'[q][j] = m /\ batch'[q][i] = batch[q][i]
      BY <1>2, <1>3, <2>2
    <3>2. batch[q][i].version \in Nat /\ batch[q][i].version <= version
      BY <1>6, <2>2
    <3> QED
      BY <1>1, <3>1, <3>2
  <2>3. CASE i \notin DOMAIN batch[q]
    <3>1. q = p /\ i = Len(batch[q]) + 1
      BY <1>3, <2>3
    <3>2. CASE j \in DOMAIN batch[q]
      BY <1>6, <1>7, <3>1, <3>2
    <3>3. CASE j \notin DOMAIN batch[q]
      <4>1. j = i
        BY <1>3, <3>1, <3>3
      <4>2. batch[q] \in Seq(Request)
        BY DEF TypeOK
      <4>3. i \in Nat
        BY <3>1, <4>2
      <4> QED
        BY <1>7, <4>1, <4>3
    <3> QED
      BY <3>2, <3>3
  <2> QED
    BY <2>1, <2>2, <2>3
<1>8. ASSUME NEW q \in CommitProxy, NEW s \in CommitProxy, NEW i \in DOMAIN batch'[q], NEW j \in DOMAIN batch'[s],
             batch'[q][i].version = batch'[s][j].version
      PROVE  q = s /\ i = j
  <2>1. CASE i \in DOMAIN batch[q] /\ j \in DOMAIN batch[s]
    <3>1. batch[q][i].version = batch[s][j].version
      BY <1>2, <1>8, <2>1
    <3> QED
      BY <2>1, <3>1 DEF BatchInv
  <2>2. CASE i \in DOMAIN batch[q] /\ j \notin DOMAIN batch[s]
    <3>1. batch'[s][j] = m /\ batch'[q][i] = batch[q][i]
      BY <1>2, <1>3, <2>2
    <3>2. batch[q][i].version \in Nat /\ batch[q][i].version <= version
      BY <1>6, <2>2
    <3>3. batch[q][i].version = version + 1
      BY <1>1, <1>8, <3>1
    <3> QED
      BY <1>1, <3>2, <3>3
  <2>3. CASE i \notin DOMAIN batch[q] /\ j \in DOMAIN batch[s]
    <3>1. batch'[q][i] = m /\ batch'[s][j] = batch[s][j]
      BY <1>2, <1>3, <2>3
    <3>2. batch[s][j].version \in Nat /\ batch[s][j].version <= version
      BY <1>6, <2>3
    <3>3. batch[s][j].version = version + 1
      BY <1>1, <1>8, <3>1
    <3> QED
      BY <1>1, <3>2, <3>3
  <2>4. CASE i \notin DOMAIN batch[q] /\ j \notin DOMAIN batch[s]
    BY <1>3, <2>4
  <2> QED
    BY <2>1, <2>2, <2>3, <2>4
<1>9. \A q \in CommitProxy : Len(resolution'[q]) = Len(batch'[q])
  BY DEF Sends
<1>10. LastEpochEnd <= version'
  BY <1>1, <1>4, Constants
<1> QED
  BY <1>5, <1>7, <1>8, <1>9, <1>10 DEF BatchInv

LEMMA SendKept ==
    ASSUME TypeOK, BatchInv, NEW p \in CommitProxy, NEW m, Sends(p, m), verdict' = verdict
    PROVE  Kept
<1>1. \A q \in CommitProxy : \A i \in DOMAIN batch[q] : i \in DOMAIN batch'[q] /\ batch'[q][i] = batch[q][i]
  BY DEF Sends
<1>2. m.version = version + 1 /\ version \in Nat
  BY DEF Sends
<1>3. \A q \in CommitProxy : \A i \in DOMAIN batch'[q] : i \in DOMAIN batch[q] \/ batch'[q][i] = m
  BY DEF Sends
<1>4. \A q \in CommitProxy : \A i \in DOMAIN batch'[q] : i \in DOMAIN batch[q] \/ batch'[q][i].version > version
  BY <1>2, <1>3
<1>5. ASSUME NEW v \in Nat, v <= version PROVE HasTxn(v)' <=> HasTxn(v)
  <2>1. HasTxn(v) => HasTxn(v)'
    BY <1>1 DEF HasTxn
  <2>2. ASSUME HasTxn(v)' PROVE HasTxn(v)
    <3>1. PICK q \in CommitProxy : \E i \in DOMAIN batch'[q] : batch'[q][i].version = v /\ StateTxn(batch'[q][i])
      BY <2>2 DEF HasTxn
    <3>2. PICK i \in DOMAIN batch'[q] : batch'[q][i].version = v /\ StateTxn(batch'[q][i])
      BY <3>1
    <3>3. i \in DOMAIN batch[q]
      BY <1>2, <1>4, <1>5, <3>2
    <3> QED
      BY <1>1, <3>2, <3>3 DEF HasTxn
  <2> QED
    BY <2>1, <2>2
<1> QED
  BY <1>1, <1>4, <1>5 DEF Kept

LEMMA SendBatchInv ==
    ASSUME CoreInv, NEW p \in CommitProxy, NEW kind \in Kind, NEW snapshot \in Nat,
           SendBatch(p, kind, snapshot)
    PROVE  CoreInv'
<1>1. TypeOK /\ BatchInv /\ ResolversInv
  BY DEF CoreInv
<1>2. PICK m : Sends(p, m)
  BY <1>1, SendIs
<1>3. /\ proxyVersion' = proxyVersion /\ applied' = applied
      /\ resolverVersion' = resolverVersion /\ lastVersion' = lastVersion /\ outstanding' = outstanding
      /\ recent' = recent /\ minRecent' = minRecent /\ verdict' = verdict /\ queue' = queue
      /\ needed' = needed /\ version' = version + 1 /\ budget' = budget
  BY DEF SendBatch
<1>4. TypeOK'
  <2>1. /\ batch' \in [CommitProxy -> Seq(Request)]
        /\ resolution' \in [CommitProxy -> Seq([Resolver -> Reply \cup {NoReply}])]
    BY <1>1, SendIs
  <2> QED
    BY <1>1, <1>3, <2>1 DEF TypeOK
<1>5. BatchInv'
  BY <1>1, <1>2, SendBatches
<1>6. Kept
  BY <1>1, <1>2, <1>3, SendKept
<1>7. Arrived
  BY <1>2 DEF Sends, Arrived
<1>8. ProxyInv' /\ SameMetadata'
  BY <1>3, <1>4, <1>6, <1>7, OtherProxies
<1>9. ASSUME NEW s \in Resolver PROVE SeenInv(s)' /\ RecentInv(s)' /\ ReplyInv(s)'
  <2>1. Fills(s)
    BY <1>2 DEF Sends, Fills
  <2>2. queue[s] \subseteq Sent /\ version \in Nat
    BY <1>1 DEF ResolversInv, SeenInv, TypeOK
  <2>3. Sent \subseteq Sent'
    BY <1>6 DEF Sent, Kept
  <2>4. SameResolver(s)
    BY <1>3, <2>2, <2>3 DEF SameResolver
  <2> QED
    BY <1>4, <1>6, <2>1, <2>4, OtherResolver
<1> QED
  BY <1>4, <1>5, <1>8, <1>9 DEF CoreInv, ResolversInv

-----------------------------------------------------------------------------
(***************************************************************************)
(* Every step keeps the invariant: a proxy applies the metadata.           *)
(***************************************************************************)

\* s is the numbers of S in ascending order.
Lists(s, S) ==
    /\ s \in Seq(Nat)
    /\ \A i, j \in DOMAIN s : i < j => s[i] < s[j]
    /\ \A i \in DOMAIN s : s[i] \in S
    /\ \A w \in S : \E i \in DOMAIN s : s[i] = w

LEMMA ListsConcat ==
    ASSUME NEW s, NEW S, Lists(s, S), NEW t, NEW T, Lists(t, T), \A x \in S : \A y \in T : x < y
    PROVE  Lists(s \o t, S \cup T)
<1>1. s \in Seq(Nat) /\ t \in Seq(Nat)
  BY DEF Lists
<1>2. PICK k, l : k = Len(s) /\ l = Len(t)
  OBVIOUS
<1>3. k \in Nat /\ l \in Nat /\ DOMAIN s = 1..k /\ DOMAIN t = 1..l
  BY <1>1, <1>2
<1>4. PICK u : u = s \o t
  OBVIOUS
<1>5. /\ u \in Seq(Nat) /\ DOMAIN u = 1..(k + l)
      /\ \A i \in 1..k : u[i] = s[i]
      /\ \A i \in 1..(k + l) : ~ (i <= k) => i - k \in 1..l /\ u[i] = t[i - k]
  BY <1>1, <1>2, <1>4
<1>6. \A i \in 1..l : i + k \in 1..(k + l) /\ u[i + k] = t[i]
  <2> SUFFICES ASSUME NEW i \in 1..l PROVE i + k \in 1..(k + l) /\ u[i + k] = t[i]
    OBVIOUS
  <2>1. i + k \in 1..(k + l) /\ ~ (i + k <= k) /\ (i + k) - k = i
    BY <1>3
  <2> QED
    BY <1>5, <2>1
<1>7. ASSUME NEW i \in 1..(k + l), NEW j \in 1..(k + l), i < j PROVE u[i] < u[j]
  <2>1. CASE j <= k
    <3>1. i \in 1..k /\ j \in 1..k
      BY <1>3, <1>7, <2>1
    <3> QED
      BY <1>3, <1>5, <1>7, <3>1 DEF Lists
  <2>2. CASE i <= k /\ ~ (j <= k)
    <3>1. i \in 1..k
      BY <1>3, <2>2
    <3>2. u[i] \in S /\ u[j] \in T
      BY <1>3, <1>5, <2>2, <3>1 DEF Lists
    <3> QED
      BY <3>2
  <2>3. CASE ~ (i <= k)
    <3>1. ~ (j <= k) /\ i - k < j - k
      BY <1>3, <1>7, <2>3
    <3>2. i - k \in DOMAIN t /\ j - k \in DOMAIN t /\ u[i] = t[i - k] /\ u[j] = t[j - k]
      BY <1>3, <1>5, <2>3, <3>1
    <3> QED
      BY <3>1, <3>2 DEF Lists
  <2> QED
    BY <2>1, <2>2, <2>3
<1>8. ASSUME NEW i \in 1..(k + l) PROVE u[i] \in S \cup T
  <2>1. CASE i <= k
    <3>1. i \in 1..k
      BY <1>3, <2>1
    <3> QED
      BY <1>3, <1>5, <3>1 DEF Lists
  <2>2. CASE ~ (i <= k)
    BY <1>3, <1>5, <2>2 DEF Lists
  <2> QED
    BY <2>1, <2>2
<1>9. ASSUME NEW w \in S \cup T PROVE \E i \in 1..(k + l) : u[i] = w
  <2>1. CASE w \in S
    <3>1. PICK i \in 1..k : s[i] = w
      BY <1>3, <2>1 DEF Lists
    <3>2. i \in 1..(k + l)
      BY <1>3
    <3> QED
      BY <1>5, <3>1, <3>2
  <2>2. CASE w \in T
    <3>1. PICK i \in 1..l : t[i] = w
      BY <1>3, <2>2 DEF Lists
    <3> QED
      BY <1>6, <3>1
  <2> QED
    BY <2>1, <2>2
<1> QED
  BY <1>4, <1>5, <1>7, <1>8, <1>9 DEF Lists

\* All resolvers have answered the batch, so what they say is known.
LEMMA RepliesAre ==
    ASSUME TypeOK, BatchInv, ResolversInv, NEW p \in CommitProxy, NEW n \in DOMAIN batch[p], Resolved(p, n),
           NEW r \in Resolver, NEW a, a = FirstUnseen(p, n), NEW v, v = batch[p][n].version
    PROVE  /\ resolution[p][n][r].committed = verdict[r][v - LastEpochEnd]
           /\ resolution[p][n][r].stateMutations = Entries(r, a, v)
           /\ v <= resolverVersion[r] /\ SeenInv(r) /\ resolverVersion[r] \in Nat
           /\ v \in Nat /\ a \in Nat /\ a <= v /\ LastEpochEnd <= a
<1>1. SeenInv(r) /\ ReplyInv(r)
  BY DEF ResolversInv
<1>2. Served(r, p, n) /\ resolution[p][n][r] = Expected(r, p, n)
  BY <1>1 DEF ReplyInv, Resolved
<1>3. v \in Nat /\ a \in Nat /\ a <= v /\ LastEpochEnd <= a
  BY BatchFacts, FirstUnseenFacts
<1>4. v <= resolverVersion[r] /\ resolverVersion[r] \in Nat
  BY <1>1, <1>2, ResolverFacts DEF Served
<1> QED
  BY <1>1, <1>2, <1>3, <1>4 DEF Expected

\* What is forwarded of one version takes effect when all resolvers let it commit.
LEMMA EntryEffective ==
    ASSUME TypeOK, BatchInv, ResolversInv, NEW v \in Nat, NEW w \in Nat, w < v,
           \A r \in Resolver : v <= resolverVersion[r]
    PROVE  (Entry(FirstResolver, w) # <<>> /\ \A r \in Resolver : Entry(r, w)[1]) <=> w \in Effective(v)
<1>1. FirstResolver \in Resolver
  BY Constants
<1>2. \A r \in Resolver : SeenInv(r) /\ resolverVersion[r] \in Nat
  BY DEF ResolversInv, TypeOK
<1>3. \A r \in Resolver : w <= resolverVersion[r]
  BY <1>2
<1>4. w \in Effective(v) <=> HasTxn(w) /\ \A r \in Resolver : verdict[r][w - LastEpochEnd]
  BY EffectiveIs DEF EffectiveMeans
<1>5. CASE HasTxn(w)
  <2>1. \A r \in Resolver : Entry(r, w) = <<verdict[r][w - LastEpochEnd]>> /\ verdict[r][w - LastEpochEnd] \in BOOLEAN
    BY <1>2, <1>3, <1>5, EntryType
  <2>2. ASSUME NEW r \in Resolver PROVE Entry(r, w)[1] = verdict[r][w - LastEpochEnd] /\ Entry(r, w) # <<>>
    <3>1. PICK c : c = verdict[r][w - LastEpochEnd]
      OBVIOUS
    <3>2. Entry(r, w) = <<c>>
      BY <2>1, <3>1
    <3>3. <<c>>[1] = c /\ <<c>> # <<>>
      OBVIOUS
    <3> QED
      BY <3>1, <3>2, <3>3
  <2>3. (\A r \in Resolver : Entry(r, w)[1]) <=> (\A r \in Resolver : verdict[r][w - LastEpochEnd])
    BY <2>2, Zenon
  <2>4. Entry(FirstResolver, w) # <<>>
    BY <1>1, <2>2
  <2> QED
    BY <1>4, <1>5, <2>3, <2>4, Zenon
<1>6. CASE ~ HasTxn(w)
  <2>1. Entry(FirstResolver, w) = <<>>
    BY <1>1, <1>2, <1>3, <1>6, EntryType
  <2> QED
    BY <1>4, <1>6, <2>1, Zenon
<1> QED
  BY <1>5, <1>6

\* The positions of a reply whose transactions take effect.
Positions(a, v) == {i \in 1..(v - a) : a + i - 1 \in Effective(v)}

LEMMA ForwardedIs ==
    ASSUME TypeOK, BatchInv, ResolversInv, NEW p \in CommitProxy, NEW n \in DOMAIN batch[p], Resolved(p, n),
           NEW a, a = FirstUnseen(p, n), NEW v, v = batch[p][n].version
    PROVE  /\ \A i \in Positions(a, v) : i \in Nat /\ i <= v
           /\ Forwarded(resolution[p][n]) =
                 [j \in 1..Cardinality(Positions(a, v)) |-> a + Ascending(Positions(a, v))[j] - 1]
<1>1. \A r \in Resolver : /\ resolution[p][n][r].stateMutations = Entries(r, a, v)
                          /\ v <= resolverVersion[r]
  BY RepliesAre
<1>2. FirstResolver \in Resolver
  BY Constants
<1>3. v \in Nat /\ a \in Nat /\ a <= v
  BY BatchFacts, FirstUnseenFacts
<1>4. PICK res : res = resolution[p][n]
  OBVIOUS
<1> DEFINE mutations == res[FirstResolver].stateMutations
           effective == {i \in DOMAIN mutations :
                            /\ mutations[i].committed # <<>>
                            /\ \A r \in Resolver : res[r].stateMutations[i].committed[1]}
<1>5. Forwarded(res) = [j \in 1..Cardinality(effective) |-> mutations[Ascending(effective)[j]].version]
  BY DEF Forwarded
<1>6. mutations = Entries(FirstResolver, a, v) /\ \A r \in Resolver : res[r].stateMutations = Entries(r, a, v)
  BY <1>1, <1>2, <1>4
<1>7. \A r \in Resolver : \A i \in 1..(v - a) :
         Entries(r, a, v)[i].version = a + i - 1 /\ Entries(r, a, v)[i].committed = Entry(r, a + i - 1)
  BY DEF Entries
<1>8. DOMAIN mutations = 1..(v - a)
  BY <1>6 DEF Entries
<1>9. ASSUME NEW i \in 1..(v - a)
      PROVE  (mutations[i].committed # <<>> /\ \A r \in Resolver : res[r].stateMutations[i].committed[1])
                <=> a + i - 1 \in Effective(v)
  <2>1. PICK w : w = a + i - 1
    OBVIOUS
  <2>2. w \in Nat /\ w < v
    BY <1>3, <2>1
  <2>3. (Entry(FirstResolver, w) # <<>> /\ \A r \in Resolver : Entry(r, w)[1]) <=> w \in Effective(v)
    BY <1>1, <1>3, <2>2, EntryEffective
  <2>4. mutations[i].committed = Entry(FirstResolver, w)
    BY <1>2, <1>6, <1>7, <2>1
  <2>5. \A r \in Resolver : res[r].stateMutations[i].committed = Entry(r, w)
    BY <1>6, <1>7, <2>1
  <2> HIDE DEF mutations
  <2> QED
    BY <2>1, <2>3, <2>4, <2>5, Zenon
<1>10. effective = Positions(a, v)
  <2> HIDE DEF mutations
  <2> QED
    BY <1>8, <1>9 DEF Positions
<1>11. \A i \in Positions(a, v) : i \in 1..(v - a) /\ i \in Nat /\ i <= v
  BY <1>3 DEF Positions
<1> HIDE DEF effective, mutations
<1>12. PICK E : E = Positions(a, v)
  OBVIOUS
<1>13. E \subseteq Nat /\ (\A i \in E : i <= v) /\ E \subseteq 1..(v - a) /\ effective = E
  BY <1>10, <1>11, <1>12
<1>14. \A j \in 1..Cardinality(E) : Ascending(E)[j] \in E
  BY <1>3, <1>13, AscendingOrder
<1>15. \A j \in 1..Cardinality(E) : mutations[Ascending(E)[j]].version = a + Ascending(E)[j] - 1
  <2> SUFFICES ASSUME NEW j \in 1..Cardinality(E)
               PROVE  mutations[Ascending(E)[j]].version = a + Ascending(E)[j] - 1
    OBVIOUS
  <2>1. PICK i : i = Ascending(E)[j]
    OBVIOUS
  <2>2. i \in 1..(v - a)
    BY <1>13, <1>14, <2>1
  <2>3. mutations[i].version = a + i - 1
    BY <1>2, <1>6, <1>7, <2>2
  <2> QED
    BY <2>1, <2>3
<1>16. Forwarded(res) = [j \in 1..Cardinality(E) |-> a + Ascending(E)[j] - 1]
  BY <1>5, <1>13, <1>15
<1> QED
  BY <1>4, <1>11, <1>12, <1>16

LEMMA ForwardedLists ==
    ASSUME TypeOK, BatchInv, ResolversInv, NEW p \in CommitProxy, NEW n \in DOMAIN batch[p], Resolved(p, n),
           NEW a, a = FirstUnseen(p, n), NEW v, v = batch[p][n].version
    PROVE  Lists(Forwarded(resolution[p][n]), {w \in Effective(v) : a <= w /\ w < v})
<1>1. v \in Nat /\ a \in Nat /\ a <= v
  BY BatchFacts, FirstUnseenFacts
<1>2. PICK E : E = Positions(a, v)
  OBVIOUS
<1>3. PICK c : c = Cardinality(E)
  OBVIOUS
<1>4. PICK f : f = Forwarded(resolution[p][n])
  OBVIOUS
<1>5. /\ E \subseteq Nat /\ (\A i \in E : i <= v)
      /\ f = [j \in 1..c |-> a + Ascending(E)[j] - 1]
  BY <1>2, <1>3, <1>4, ForwardedIs
<1>6. /\ c \in Nat
      /\ \A i \in 1..c : Ascending(E)[i] \in E
      /\ \A i, j \in 1..c : i < j => Ascending(E)[i] < Ascending(E)[j]
      /\ \A w \in E : \E i \in 1..c : Ascending(E)[i] = w
  BY <1>1, <1>3, <1>5, AscendingOrder
<1>7. \A i : i \in E <=> i \in 1..(v - a) /\ a + i - 1 \in Effective(v)
  BY <1>2 DEF Positions
<1>8. \A j \in 1..c : Ascending(E)[j] \in 1..(v - a) /\ f[j] = a + Ascending(E)[j] - 1 /\ f[j] \in Effective(v)
  BY <1>5, <1>6, <1>7
<1>9. \A j \in 1..c : f[j] \in Nat /\ a <= f[j] /\ f[j] < v
  BY <1>1, <1>8
<1>10. f \in Seq(Nat) /\ DOMAIN f = 1..c
  BY <1>5, <1>6, <1>9
<1>11. \A i, j \in 1..c : i < j => f[i] < f[j]
  <2> SUFFICES ASSUME NEW i \in 1..c, NEW j \in 1..c, i < j PROVE f[i] < f[j]
    OBVIOUS
  <2>1. PICK x, y : x = Ascending(E)[i] /\ y = Ascending(E)[j]
    OBVIOUS
  <2>2. x < y /\ x \in 1..(v - a) /\ y \in 1..(v - a) /\ f[i] = a + x - 1 /\ f[j] = a + y - 1
    BY <1>6, <1>8, <2>1
  <2> QED
    BY <1>1, <2>2
<1>12. ASSUME NEW w \in Effective(v), a <= w, w < v PROVE \E j \in 1..c : f[j] = w
  <2>1. w \in Nat
    <3>1. HasTxn(w)
      BY EffectiveIs DEF EffectiveMeans
    <3> QED
      BY <3>1, HasTxnFacts
  <2>2. w - a + 1 \in 1..(v - a) /\ a + (w - a + 1) - 1 = w
    BY <1>1, <1>12, <2>1
  <2>3. PICK x : x = w - a + 1
    OBVIOUS
  <2>4. x \in E
    BY <1>7, <2>2, <2>3
  <2>5. PICK j \in 1..c : Ascending(E)[j] = x
    BY <1>6, <2>4
  <2> QED
    BY <1>8, <2>2, <2>3, <2>5
<1> QED
  BY <1>4, <1>8, <1>9, <1>10, <1>11, <1>12 DEF Lists

-----------------------------------------------------------------------------
(***************************************************************************)
(* The database lock.                                                      *)
(***************************************************************************)

\* Requests that were sent stay, and new ones have new versions.
LEMMA SentKept ==
    ASSUME TypeOK, BatchInv, TypeOK', Kept
    PROVE  /\ \A m \in Sent : m \in Sent' /\ m.version \in Nat /\ m.snapshot \in Nat
                              /\ LastEpochEnd < m.version /\ m.version <= version
           /\ \A m \in Sent' : m.version \in Nat /\ (m \in Sent \/ m.version > version)
<1>1. ASSUME NEW m \in Sent
      PROVE  /\ m \in Sent' /\ m.version \in Nat /\ m.snapshot \in Nat
             /\ LastEpochEnd < m.version /\ m.version <= version
  <2>1. PICK p \in CommitProxy : \E n \in DOMAIN batch[p] : m = batch[p][n]
    BY DEF Sent
  <2>2. PICK n \in DOMAIN batch[p] : m = batch[p][n]
    BY <2>1
  <2>3. n \in DOMAIN batch'[p] /\ m = batch'[p][n]
    BY <2>2 DEF Kept
  <2>4. m \in Sent'
    BY <2>3 DEF Sent
  <2> QED
    BY <2>2, <2>4, BatchFacts
<1>2. ASSUME NEW m \in Sent' PROVE m.version \in Nat /\ (m \in Sent \/ m.version > version)
  <2>1. PICK p \in CommitProxy : \E n \in DOMAIN batch'[p] : m = batch'[p][n]
    BY DEF Sent
  <2>2. PICK n \in DOMAIN batch'[p] : m = batch'[p][n]
    BY <2>1
  <2>3. m.version \in Nat
    <3>1. batch'[p] \in Seq(Request)
      BY DEF TypeOK
    <3>2. m \in Request
      BY <2>2, <3>1
    <3> QED
      BY <3>2 DEF Request
  <2>4. CASE n \in DOMAIN batch[p]
    <3>1. m = batch[p][n]
      BY <2>2, <2>4 DEF Kept
    <3>2. m \in Sent
      BY <2>4, <3>1 DEF Sent
    <3> QED
      BY <2>3, <3>2
  <2>5. CASE n \notin DOMAIN batch[p]
    BY <2>2, <2>3, <2>5 DEF Kept
  <2> QED
    BY <2>4, <2>5
<1> QED
  BY <1>1, <1>2

\* So no version gets another write of databaseLockedKey.
LEMMA WritesKept ==
    ASSUME TypeOK, BatchInv, TypeOK', Kept, NEW v
    PROVE  /\ v \in Locks => v \in Nat /\ LastEpochEnd < v /\ v <= version /\ v \in Locks'
           /\ v \in Unlocks => v \in Nat /\ LastEpochEnd < v /\ v <= version /\ v \in Unlocks'
           /\ v \in Locks' => v \in Nat /\ (v \in Locks \/ v > version)
           /\ v \in Unlocks' => v \in Nat /\ (v \in Unlocks \/ v > version)
<1>1. /\ \A m \in Sent : m \in Sent' /\ m.version \in Nat /\ LastEpochEnd < m.version /\ m.version <= version
      /\ \A m \in Sent' : m.version \in Nat /\ (m \in Sent \/ m.version > version)
  BY SentKept
<1>2. /\ v \in Locks <=> \E m \in Sent : m.kind = "lock" /\ v = m.version
      /\ v \in Unlocks <=> \E m \in Sent : m.kind = "unlock" /\ v = m.version
  BY DEF Locks, Unlocks
<1>3. /\ v \in Locks' <=> \E m \in Sent' : m.kind = "lock" /\ v = m.version
      /\ v \in Unlocks' <=> \E m \in Sent' : m.kind = "unlock" /\ v = m.version
  BY DEF Locks, Unlocks
<1> QED
  BY <1>1, <1>2, <1>3

\* No resolver goes back.
Later == \A r \in Resolver : resolverVersion'[r] \in Nat /\ resolverVersion[r] <= resolverVersion'[r]

LEMMA UnlockedKept ==
    ASSUME CoreInv, TypeOK', Kept, Later, NEW m \in Sent, Unlocked(m)
    PROVE  Unlocked(m)'
<1>1. TypeOK /\ BatchInv /\ ResolversInv
  BY DEF CoreInv
<1>2. PICK s : s = m.snapshot
  OBVIOUS
<1>3. s \in Nat /\ s < m.version /\ m.version \in Nat /\ m.version <= version /\ version \in Nat
  BY <1>1, <1>2, SentKept DEF Unlocked, TypeOK
<1>4. s <= version
  BY <1>3
<1>5. \A r \in Resolver : s <= resolverVersion[r] /\ resolverVersion[r] \in Nat
  BY <1>1, <1>2 DEF Unlocked, TypeOK
<1>6. Effective(s)' = Effective(s)
  BY <1>1, <1>3, <1>4, <1>5, EffectiveKept
<1>7. \A w \in Effective(s) : w \in Nat /\ w <= version
  <2> SUFFICES ASSUME NEW w \in Effective(s) PROVE w \in Nat /\ w <= version
    OBVIOUS
  <2>1. HasTxn(w)
    BY EffectiveIs DEF EffectiveMeans
  <2> QED
    BY <1>1, <2>1, HasTxnFacts
<1>8. PICK S : S = Effective(s)
  OBVIOUS
<1>9. \A w \in S : (w \in Locks' <=> w \in Locks) /\ (w \in Unlocks' <=> w \in Unlocks)
  <2> SUFFICES ASSUME NEW w \in S
               PROVE  (w \in Locks' <=> w \in Locks) /\ (w \in Unlocks' <=> w \in Unlocks)
    OBVIOUS
  <2>1. w \in Nat /\ w <= version /\ ~ (w > version)
    BY <1>3, <1>7, <1>8
  <2> QED
    BY <1>1, <2>1, WritesKept
<1>10. S \cap Locks' = S \cap Locks /\ S \cap Unlocks' = S \cap Unlocks
  BY <1>9
<1>11. ~ LockedAfter(S)
  BY <1>2, <1>8 DEF Unlocked
<1>12. Effective(s)' = S
  BY <1>6, <1>8
<1>13. ~ LockedAfter(Effective(s))'
  BY <1>10, <1>11, <1>12 DEF LockedAfter
<1>14. \A r \in Resolver : s <= resolverVersion'[r]
  BY <1>3, <1>5 DEF Later
<1> QED
  BY <1>2, <1>3, <1>13, <1>14 DEF Unlocked

\* Whether there is a conflict on the lock key is settled when the batch is next.
LEMMA ConflictKept ==
    ASSUME CoreInv, TypeOK', Kept, NEW m \in Sent, m.version <= resolverVersion[LockResolver] + 1,
           LockConflict(LockResolver, m)'
    PROVE  LockConflict(LockResolver, m)
<1>1. TypeOK /\ BatchInv /\ ResolversInv /\ LockResolver \in Resolver
  BY Constants DEF CoreInv
<1>2. PICK v \in Locks' \cup Unlocks' :
         m.snapshot < v /\ v < m.version /\ verdict'[LockResolver][v - LastEpochEnd]
  BY DEF LockConflict
<1>3. PICK k : k = resolverVersion[LockResolver]
  OBVIOUS
<1>4. k \in Nat /\ version \in Nat /\ k <= version /\ m.version \in Nat
  BY <1>1, <1>3, SentKept, ResolverFacts DEF ResolversInv
<1>5. v \in Nat /\ v <= k /\ v <= version /\ ~ (v > version)
  <2>1. v \in Nat
    BY <1>1, WritesKept
  <2> QED
    BY <1>2, <1>3, <1>4, <2>1
<1>6. v \in Locks \cup Unlocks /\ LastEpochEnd < v
  BY <1>1, <1>5, WritesKept
<1>7. verdict'[LockResolver][v - LastEpochEnd] = verdict[LockResolver][v - LastEpochEnd]
  BY <1>1, <1>3, <1>5, <1>6 DEF Kept
<1>8. m.kind = "plain"
  BY DEF LockConflict
<1>9. verdict[LockResolver][v - LastEpochEnd]
  BY <1>2, <1>7
<1> QED
  BY <1>2, <1>6, <1>8, <1>9 DEF LockConflict

LEMMA RefusedKept ==
    ASSUME CoreInv, TypeOK', Kept, NEW m \in Sent, Refused(m),
           \/ m.version <= resolverVersion[LockResolver]
           \/ resolverVersion'[LockResolver] = resolverVersion[LockResolver]
    PROVE  Refused(m)'
<1>1. TypeOK /\ BatchInv /\ LockResolver \in Resolver
  BY Constants DEF CoreInv
<1>2. PICK k : k = resolverVersion[LockResolver]
  OBVIOUS
<1>3. SUFFICES ASSUME m.version <= resolverVersion'[LockResolver], LockConflict(LockResolver, m)'
               PROVE  ~ verdict'[LockResolver][m.version - LastEpochEnd]
  BY DEF Refused
<1>4. m.version <= k
  BY <1>2, <1>3
<1>5. k \in Nat /\ m.version \in Nat /\ LastEpochEnd < m.version /\ m.version <= k + 1
  <2>1. k \in Nat
    BY <1>1, <1>2 DEF TypeOK
  <2> QED
    BY <1>1, <1>4, <2>1, SentKept
<1>6. LockConflict(LockResolver, m)
  BY <1>2, <1>3, <1>5, ConflictKept
<1>7. ~ verdict[LockResolver][m.version - LastEpochEnd]
  BY <1>2, <1>4, <1>6 DEF Refused
<1>8. verdict'[LockResolver][m.version - LastEpochEnd] = verdict[LockResolver][m.version - LastEpochEnd]
  BY <1>1, <1>2, <1>4, <1>5 DEF Kept
<1> QED
  BY <1>7, <1>8

\* A transaction without lock awareness that all resolvers let commit meets no lock.
LEMMA MeetsNoLock ==
    ASSUME CoreInv, LockInv, NEW m \in Sent, m.kind = "plain",
           \A r \in Resolver : m.version <= resolverVersion[r] /\ verdict[r][m.version - LastEpochEnd]
    PROVE  ~ LockedAfter({w \in Effective(m.version) : w < m.version})
<1>1. TypeOK /\ BatchInv /\ LockResolver \in Resolver
  BY Constants DEF CoreInv
<1>2. PICK s : s = m.snapshot
  OBVIOUS
<1>3. PICK v : v = m.version
  OBVIOUS
<1>4. PICK p \in CommitProxy : \E n \in DOMAIN batch[p] : m = batch[p][n] /\ m.proxy = p
  BY <1>1, SentFacts
<1>5. s \in Nat /\ v \in Nat
  BY <1>1, <1>2, <1>3, <1>4, BatchFacts
<1>6. Unlocked(m) /\ Refused(m)
  BY DEF LockInv
<1>7. s < v /\ ~ LockedAfter(Effective(s))
  BY <1>2, <1>3, <1>6 DEF Unlocked
<1>8. ~ LockConflict(LockResolver, m)
  BY <1>1, <1>6 DEF Refused
<1>9. \A u, w : w \in Effective(u) => w \in Nat /\ verdict[LockResolver][w - LastEpochEnd]
  <2> SUFFICES ASSUME NEW u, NEW w, w \in Effective(u)
               PROVE  w \in Nat /\ verdict[LockResolver][w - LastEpochEnd]
    OBVIOUS
  <2>1. HasTxn(w) /\ verdict[LockResolver][w - LastEpochEnd]
    BY <1>1, EffectiveIs DEF EffectiveMeans
  <2> QED
    BY <1>1, <2>1, HasTxnFacts
<1>10. \A w : w \in Effective(s) => w \in Effective(v) /\ w < v
  <2> SUFFICES ASSUME NEW w \in Effective(s) PROVE w \in Effective(v) /\ w < v
    OBVIOUS
  <2>1. HasTxn(w) /\ w <= s /\ \A r \in Resolver : verdict[r][w - LastEpochEnd]
    BY EffectiveIs DEF EffectiveMeans
  <2>2. w <= v /\ w < v
    BY <1>5, <1>7, <1>9, <2>1
  <2> QED
    BY <2>1, <2>2, EffectiveIs DEF EffectiveMeans
<1>11. \A w : w \in Effective(v) /\ w \in Locks /\ w < v => w \in Effective(s)
  <2> SUFFICES ASSUME NEW w \in Effective(v), w \in Locks, w < v PROVE w \in Effective(s)
    OBVIOUS
  <2>1. w \in Nat /\ verdict[LockResolver][w - LastEpochEnd]
    BY <1>9
  <2>2. ~ (s < w)
    BY <1>2, <1>3, <1>8, <2>1 DEF LockConflict
  <2>3. w <= s
    BY <1>5, <2>1, <2>2
  <2> QED
    BY <2>3, EffectiveIs DEF EffectiveMeans
<1>12. SUFFICES ASSUME LockedAfter({w \in Effective(v) : w < v}) PROVE FALSE
  BY <1>3
<1>13. PICK l \in {w \in Effective(v) : w < v} \cap Locks :
          \A u \in {w \in Effective(v) : w < v} \cap Unlocks : u < l
  BY <1>12 DEF LockedAfter
<1>14. l \in Effective(s) \cap Locks
  BY <1>11
<1>15. \A u \in Effective(s) \cap Unlocks : u < l
  BY <1>10, <1>13
<1> QED
  BY <1>7, <1>14, <1>15 DEF LockedAfter

LEMMA OwnLists ==
    ASSUME CoreInv, LockInv, NEW p \in CommitProxy, NEW n \in DOMAIN batch[p], Resolved(p, n),
           NEW v, v = batch[p][n].version, NEW S, S = {w \in Effective(v) : w < v}
    PROVE  Lists(Own(batch[p][n], resolution[p][n], S), {w \in Effective(v) : w = v})
<1>0. TypeOK /\ BatchInv /\ ResolversInv
  BY DEF CoreInv
<1>1. v \in Nat
  BY <1>0, BatchFacts
<1>2. \A r \in Resolver : /\ resolution[p][n][r].committed = verdict[r][v - LastEpochEnd]
                          /\ v <= resolverVersion[r]
  BY <1>0, RepliesAre
<1>3. HasTxn(v) <=> StateTxn(batch[p][n])
  BY <1>0, HasTxnIs
<1>4. v \in Effective(v) <=> HasTxn(v) /\ \A r \in Resolver : verdict[r][v - LastEpochEnd]
  BY <1>1, EffectiveIs DEF EffectiveMeans
<1>51. (\A r \in Resolver : verdict[r][v - LastEpochEnd]) /\ batch[p][n].kind = "plain" => ~ LockedAfter(S)
  <2>1. batch[p][n] \in Sent
    BY DEF Sent
  <2> QED
    BY <1>2, <2>1, MeetsNoLock
<1>5. v \in Effective(v) <=>
         /\ StateTxn(batch[p][n])
         /\ \A r \in Resolver : resolution[p][n][r].committed
         /\ batch[p][n].kind = "plain" => ~ LockedAfter(S)
  BY <1>2, <1>3, <1>4, <1>51, Zenon
<1>6. CASE v \in Effective(v)
  <2>1. Own(batch[p][n], resolution[p][n], S) = <<v>>
    BY <1>5, <1>6, Zenon DEF Own
  <2>2. <<v>> \in Seq(Nat) /\ DOMAIN <<v>> = {1} /\ <<v>>[1] = v
    BY <1>1
  <2>3. PICK s : s = <<v>>
    OBVIOUS
  <2>4. s \in Seq(Nat) /\ DOMAIN s = {1} /\ s[1] = v
    BY <2>2, <2>3
  <2>5. Lists(s, {w \in Effective(v) : w = v})
    BY <1>6, <2>4 DEF Lists
  <2> QED
    BY <2>1, <2>3, <2>5
<1>7. CASE v \notin Effective(v)
  <2>1. Own(batch[p][n], resolution[p][n], S) = <<>>
    BY <1>5, <1>7, Zenon DEF Own
  <2>2. <<>> \in Seq(Nat) /\ DOMAIN <<>> = {}
    OBVIOUS
  <2>3. PICK s : s = <<>>
    OBVIOUS
  <2>4. s \in Seq(Nat) /\ DOMAIN s = {}
    BY <2>2, <2>3
  <2>5. Lists(s, {w \in Effective(v) : w = v})
    BY <1>7, <2>4 DEF Lists
  <2> QED
    BY <2>1, <2>3, <2>5
<1> QED
  BY <1>6, <1>7

\* The next batch to process follows the one that the proxy has processed last.
LEMMA NextIs ==
    ASSUME TypeOK, BatchInv, ProxyInv, NEW p \in CommitProxy, NEW n \in DOMAIN batch[p], IsNext(p, n)
    PROVE  /\ n = 1 => proxyVersion[p] = 0
           /\ n # 1 => proxyVersion[p] = batch[p][n - 1].version
           /\ proxyVersion[p] \in Nat /\ proxyVersion[p] < batch[p][n].version
<1>1. /\ n \in Nat /\ 1 <= n /\ n <= Len(batch[p]) /\ Len(batch[p]) \in Nat
      /\ DOMAIN batch[p] = 1..Len(batch[p]) /\ batch[p][n].version \in Nat /\ proxyVersion[p] \in Nat
  BY BatchFacts DEF TypeOK
<1>2. proxyVersion[p] < batch[p][n].version
  BY <1>1 DEF IsNext
<1>3. \A i \in DOMAIN batch[p] : batch[p][i].version \in Nat /\ batch[p][i].version > LastEpochEnd
  BY BatchFacts, Constants
<1>4. \A i, j \in DOMAIN batch[p] : i < j => batch[p][i].version < batch[p][j].version
  BY DEF BatchInv
<1>5. ASSUME proxyVersion[p] # 0
      PROVE  \E i \in DOMAIN batch[p] : batch[p][i].version = proxyVersion[p] /\ i < n
  <2>1. PICK i \in DOMAIN batch[p] : batch[p][i].version = proxyVersion[p]
    BY <1>5 DEF ProxyInv
  <2>2. i < n
    <3>1. SUFFICES ASSUME ~ (i < n) PROVE FALSE
      OBVIOUS
    <3>2. i = n \/ n < i
      BY <1>1, <3>1
    <3>3. CASE i = n
      BY <1>1, <1>2, <2>1, <3>3
    <3>4. CASE n < i
      <4>1. batch[p][n].version < batch[p][i].version
        BY <1>4, <3>4
      <4> QED
        BY <1>1, <1>2, <2>1, <4>1
    <3> QED
      BY <3>2, <3>3, <3>4
  <2> QED
    BY <2>1, <2>2
<1>6. CASE n = 1
  BY <1>1, <1>2, <1>5, <1>6
<1>7. CASE n # 1
  <2>1. n - 1 \in DOMAIN batch[p] /\ n - 1 \in 1 .. n - 1
    BY <1>1, <1>7
  <2>2. batch[p][n - 1].version <= proxyVersion[p]
    BY <2>1 DEF IsNext
  <2>3. batch[p][n - 1].version \in Nat /\ batch[p][n - 1].version > LastEpochEnd
    BY <1>3, <2>1
  <2>4. proxyVersion[p] # 0
    BY <1>1, <2>2, <2>3, Constants
  <2>5. PICK i \in DOMAIN batch[p] : batch[p][i].version = proxyVersion[p] /\ i < n
    BY <1>5, <2>4
  <2>6. i = n - 1
    <3>1. SUFFICES ASSUME i # n - 1 PROVE FALSE
      OBVIOUS
    <3>2. i < n - 1
      BY <1>1, <2>5, <3>1
    <3>3. batch[p][i].version < batch[p][n - 1].version
      BY <1>4, <2>1, <3>2
    <3> QED
      BY <1>1, <2>2, <2>3, <2>5, <3>3
  <2> QED
    BY <1>1, <1>2, <1>7, <2>5, <2>6
<1> QED
  BY <1>6, <1>7

\* What the proxy has when it comes to its own transaction of batch n.
Stored(p, n) == applied[p] \o Forwarded(resolution[p][n])

\* A proxy that applies batch n has applied what is effective up to it.
LEMMA PostApplies ==
    ASSUME CoreInv, LockInv, NEW p \in CommitProxy, NEW n \in DOMAIN batch[p], IsNext(p, n), Resolved(p, n),
           NEW v, v = batch[p][n].version
    PROVE  Lists(Stored(p, n) \o Own(batch[p][n], resolution[p][n], {Stored(p, n)[i] : i \in DOMAIN Stored(p, n)}),
                 Effective(v))
<1>1. TypeOK /\ BatchInv /\ ProxyInv /\ ResolversInv /\ SameMetadata
  BY DEF CoreInv
<1>2. PICK a : a = FirstUnseen(p, n)
  OBVIOUS
<1>3. PICK b : b = proxyVersion[p]
  OBVIOUS
<1>4. v \in Nat /\ a \in Nat /\ LastEpochEnd <= a /\ a <= v
  BY <1>1, <1>2, BatchFacts, FirstUnseenFacts
<1>5. b \in Nat /\ b < v /\ (b < a) /\ ((b = 0 /\ a = LastEpochEnd) \/ a = b + 1)
  <2>1. n = 1 => b = 0
    BY <1>1, <1>3, NextIs
  <2>2. b \in Nat /\ b < v
    BY <1>1, <1>3, NextIs
  <2>3. CASE n = 1
    BY <1>2, <2>1, <2>2, <2>3, Constants DEF FirstUnseen
  <2>4. CASE n # 1
    BY <1>1, <1>2, <1>3, <2>2, <2>4, NextIs DEF FirstUnseen
  <2> QED
    BY <2>2, <2>3, <2>4
<1>6. \A u, w : w \in Effective(u) => w \in Nat /\ LastEpochEnd < w
  <2> SUFFICES ASSUME NEW u, NEW w, w \in Effective(u) PROVE w \in Nat /\ LastEpochEnd < w
    OBVIOUS
  <2>1. HasTxn(w)
    BY EffectiveIs DEF EffectiveMeans
  <2> QED
    BY <1>1, <2>1, HasTxnFacts
<1>7. \A w : w \in Effective(b) <=> w \in Effective(v) /\ w <= b
  <2> SUFFICES ASSUME NEW w PROVE w \in Effective(b) <=> w \in Effective(v) /\ w <= b
    OBVIOUS
  <2>1. \A u : w \in Effective(u) <=>
           HasTxn(w) /\ w <= u /\ \A r \in Resolver : verdict[r][w - LastEpochEnd]
    BY EffectiveIs DEF EffectiveMeans
  <2>2. HasTxn(w) /\ w <= b => w <= v
    <3> SUFFICES ASSUME HasTxn(w), w <= b PROVE w <= v
      OBVIOUS
    <3>1. w \in Nat
      BY <1>1, HasTxnFacts
    <3> QED
      BY <1>4, <1>5, <3>1
  <2> QED
    BY <2>1, <2>2
<1>8. \A w \in Effective(v) : w <= v
  BY EffectiveIs DEF EffectiveMeans
<1> DEFINE S == Effective(b)
           T == {w \in Effective(v) : a <= w /\ w < v}
           U == {w \in Effective(v) : w = v}
<1>9. Lists(applied[p], S)
  BY <1>1, <1>3 DEF SameMetadata, Lists, TypeOK
<1>10. Lists(Forwarded(resolution[p][n]), T)
  BY <1>1, <1>2, ForwardedLists
<1>12. /\ \A x \in S : x \in Nat /\ x <= b
       /\ \A x \in T : x \in Nat /\ a <= x /\ x < v
       /\ \A x \in U : x = v
  BY <1>6, <1>7
<1>13. (\A x \in S : \A y \in T : x < y) /\ (\A x \in S \cup T : \A y \in U : x < y)
  BY <1>4, <1>5, <1>12
<1>14. (S \cup T) \cup U = Effective(v)
  <2>1. \A w \in Effective(v) : w \in Nat /\ LastEpochEnd < w /\ w <= v
    BY <1>6, <1>8
  <2>2. \A w \in Effective(v) : w <= b \/ (a <= w /\ w < v) \/ w = v
    BY <1>4, <1>5, <2>1, Constants
  <2> QED
    BY <1>7, <2>2
<1>15. S \cup T = {w \in Effective(v) : w < v}
  <2>1. \A x \in S \cup T : x \in Effective(v) /\ x < v
    BY <1>4, <1>5, <1>7, <1>12
  <2>2. \A x \in Effective(v) : x < v => x \in S \cup T
    <3>1. \A x \in Effective(v) : x < v => ~ (x = v)
      BY <1>4, <1>6
    <3> QED
      BY <1>14, <3>1
  <2> QED
    BY <2>1, <2>2
<1>16. PICK V : V = S \cup T
  OBVIOUS
<1>17. Lists(Own(batch[p][n], resolution[p][n], V), U)
  BY <1>15, <1>16, OwnLists
<1> HIDE DEF S, T, U
<1>18. Lists(Stored(p, n), V)
  BY <1>9, <1>10, <1>13, <1>16, ListsConcat DEF Stored
<1>19. {Stored(p, n)[i] : i \in DOMAIN Stored(p, n)} = V
  BY <1>18 DEF Lists
<1>20. Lists(Stored(p, n) \o Own(batch[p][n], resolution[p][n], V), V \cup U)
  BY <1>13, <1>16, <1>17, <1>18, ListsConcat
<1> QED
  BY <1>14, <1>16, <1>19, <1>20

LEMMA PostResolutionInv ==
    ASSUME CoreInv, LockInv, NEW p \in CommitProxy, NEW n \in DOMAIN batch[p], PostResolution(p, n)
    PROVE  CoreInv'
<1>1. TypeOK /\ BatchInv /\ ProxyInv /\ ResolversInv /\ SameMetadata
  BY DEF CoreInv
<1>2. PICK v : v = batch[p][n].version
  OBVIOUS
<1>3. PICK new : new = Stored(p, n) \o Own(batch[p][n], resolution[p][n],
                                           {Stored(p, n)[i] : i \in DOMAIN Stored(p, n)})
  OBVIOUS
<1>4. IsNext(p, n) /\ Resolved(p, n)
  BY DEF PostResolution
<1>5. /\ applied' = [applied EXCEPT ![p] = new] /\ proxyVersion' = [proxyVersion EXCEPT ![p] = v]
      /\ version' = version /\ batch' = batch /\ resolution' = resolution
      /\ resolverVersion' = resolverVersion /\ lastVersion' = lastVersion /\ outstanding' = outstanding
      /\ recent' = recent /\ minRecent' = minRecent /\ verdict' = verdict /\ queue' = queue
      /\ needed' = needed /\ budget' = budget
  BY <1>2, <1>3 DEF PostResolution, Stored
<1>6. Lists(new, Effective(v))
  BY <1>2, <1>3, <1>4, PostApplies
<1>7. v \in Nat /\ proxyVersion[p] \in Nat /\ proxyVersion[p] < v
  BY <1>1, <1>2, <1>4, BatchFacts, NextIs
<1>8. /\ applied'[p] = new /\ proxyVersion'[p] = v
      /\ \A q \in CommitProxy : q # p => applied'[q] = applied[q] /\ proxyVersion'[q] = proxyVersion[q]
  BY <1>1, <1>5 DEF TypeOK
<1>9. TypeOK'
  <2>1. new \in Seq(Nat)
    BY <1>6 DEF Lists
  <2>2. applied' \in [CommitProxy -> Seq(Nat)] /\ proxyVersion' \in [CommitProxy -> Nat]
    BY <1>1, <1>5, <1>7, <2>1 DEF TypeOK
  <2> QED
    BY <1>1, <1>5, <2>2 DEF TypeOK
<1>10. BatchInv'
  <2>1. \A q \in CommitProxy : \A i \in DOMAIN batch[q] : batch[q][i].lastReceived <= proxyVersion'[q]
    <3> SUFFICES ASSUME NEW q \in CommitProxy, NEW i \in DOMAIN batch[q]
                 PROVE  batch[q][i].lastReceived <= proxyVersion'[q]
      OBVIOUS
    <3>1. batch[q][i].lastReceived \in Nat /\ batch[q][i].lastReceived <= proxyVersion[q]
      BY <1>1, BatchFacts
    <3>2. CASE q = p
      BY <1>7, <1>8, <3>1, <3>2
    <3>3. CASE q # p
      BY <1>8, <3>1, <3>3
    <3> QED
      BY <3>2, <3>3
  <2> QED
    BY <1>1, <1>5, <2>1 DEF BatchInv
<1>11. ProxyInv'
  <2>1. ASSUME NEW q \in CommitProxy
        PROVE  /\ proxyVersion'[q] = 0 \/ \E i \in DOMAIN batch[q] : batch[q][i].version = proxyVersion'[q]
               /\ \A i \in DOMAIN batch[q] : batch[q][i].version <= proxyVersion'[q] => Resolved(q, i)
    <3>1. CASE q # p
      BY <1>1, <1>8, <3>1 DEF ProxyInv
    <3>2. CASE q = p
      <4>1. ASSUME NEW i \in DOMAIN batch[p], batch[p][i].version <= v PROVE Resolved(p, i)
        <5>1. /\ n \in Nat /\ 1 <= n /\ i \in Nat /\ 1 <= i /\ batch[p][i].version \in Nat
          BY <1>1, BatchFacts
        <5>2. CASE i = n
          BY <1>4, <5>2
        <5>3. CASE i < n
          <6>1. i \in 1 .. n - 1
            BY <5>1, <5>3
          <6>2. batch[p][i].version <= proxyVersion[p]
            BY <1>4, <6>1 DEF IsNext
          <6> QED
            BY <1>1, <6>2 DEF ProxyInv
        <5>4. CASE n < i
          <6>1. v < batch[p][i].version
            BY <1>1, <1>2, <5>4 DEF BatchInv
          <6> QED
            BY <1>7, <4>1, <5>1, <6>1
        <5> QED
          BY <5>1, <5>2, <5>3, <5>4
      <4> QED
        BY <1>2, <1>8, <3>2, <4>1
    <3> QED
      BY <3>1, <3>2
  <2>2. \A q, i : Resolved(q, i)' <=> Resolved(q, i)
    BY <1>5 DEF Resolved
  <2> QED
    BY <1>5, <2>1, <2>2 DEF ProxyInv
<1>12. SameMetadata'
  <2>1. \A u : Effective(u)' = Effective(u)
    BY <1>5 DEF Effective, Sent
  <2>2. ASSUME NEW q \in CommitProxy
        PROVE  /\ \A i, j \in DOMAIN applied'[q] : i < j => applied'[q][i] < applied'[q][j]
               /\ {applied'[q][i] : i \in DOMAIN applied'[q]} = Effective(proxyVersion'[q])
    <3>1. CASE q # p
      BY <1>1, <1>8, <3>1 DEF SameMetadata
    <3>2. CASE q = p
      <4>1. \A i, j \in DOMAIN new : i < j => new[i] < new[j]
        BY <1>6 DEF Lists
      <4>2. {new[i] : i \in DOMAIN new} = Effective(v)
        BY <1>6 DEF Lists
      <4> QED
        BY <1>8, <3>2, <4>1, <4>2
    <3> QED
      BY <3>1, <3>2
  <2>3. \A q \in CommitProxy : Effective(proxyVersion[q])' = Effective(proxyVersion'[q])
    <3> SUFFICES ASSUME NEW q \in CommitProxy PROVE Effective(proxyVersion[q])' = Effective(proxyVersion'[q])
      OBVIOUS
    <3>1. PICK u : u = proxyVersion'[q]
      OBVIOUS
    <3> QED
      BY <1>5, <3>1 DEF Effective, Sent
  <2> QED
    BY <2>2, <2>3 DEF SameMetadata
<1>13. Kept
  BY <1>5 DEF Kept, HasTxn
<1>14. ASSUME NEW s \in Resolver PROVE SeenInv(s)' /\ RecentInv(s)' /\ ReplyInv(s)'
  <2>1. Fills(s)
    BY <1>5 DEF Fills
  <2>2. queue[s] \subseteq Sent /\ Sent' = Sent /\ version \in Nat
    <3>1. Sent' = Sent
      BY <1>5 DEF Sent
    <3>2. queue[s] \subseteq Sent
      BY <1>1 DEF ResolversInv, SeenInv
    <3> QED
      BY <1>1, <3>1, <3>2 DEF TypeOK
  <2>3. SameResolver(s)
    BY <1>5, <2>2 DEF SameResolver
  <2> QED
    BY <1>9, <1>13, <2>1, <2>3, OtherResolver
<1> QED
  BY <1>9, <1>10, <1>11, <1>12, <1>14 DEF CoreInv, ResolversInv

-----------------------------------------------------------------------------
(***************************************************************************)
(* Every step keeps the lock and what is needed.                           *)
(***************************************************************************)

\* Steps that send nothing and decide nothing.
LEMMA LockStays ==
    ASSUME CoreInv, LockInv, TypeOK', Kept, resolverVersion' = resolverVersion, batch' = batch
    PROVE  LockInv'
<1>1. Sent' = Sent
  BY DEF Sent
<1>2. Later
  BY DEF Later, CoreInv, TypeOK
<1>3. ASSUME NEW m \in Sent, m.kind = "plain" PROVE Unlocked(m)' /\ Refused(m)'
  <2>1. Unlocked(m) /\ Refused(m)
    BY <1>3 DEF LockInv
  <2> QED
    BY <1>2, <2>1, UnlockedKept, RefusedKept
<1> QED
  BY <1>1, <1>3 DEF LockInv

\* A client that gets a read version learns whether the database is locked.
LEMMA ReadableIs ==
    ASSUME CoreInv, NEW s \in Nat, ReadableUnlocked(s)
    PROVE  /\ s <= version /\ \A r \in Resolver : s <= resolverVersion[r]
           /\ ~ LockedAfter(Effective(s))
<1>1. TypeOK /\ BatchInv /\ ProxyInv /\ ResolversInv /\ SameMetadata
  BY DEF CoreInv
<1>2. PICK p \in CommitProxy : s <= proxyVersion[p] /\ ~ LockedAfter(AppliedUpTo(p, s))
  BY DEF ReadableUnlocked
<1>3. proxyVersion[p] \in Nat /\ version \in Nat /\ proxyVersion[p] <= version
  BY <1>1, Processed, Constants DEF TypeOK
<1>4. \A r \in Resolver : resolverVersion[r] \in Nat /\ proxyVersion[p] <= resolverVersion[r]
  BY <1>1, Processed DEF TypeOK
<1>5. s <= version /\ \A r \in Resolver : s <= resolverVersion[r]
  BY <1>2, <1>3, <1>4
<1>6. AppliedUpTo(p, s) = {w \in Effective(proxyVersion[p]) : w <= s}
  BY <1>1 DEF AppliedUpTo, SameMetadata
<1>7. {w \in Effective(proxyVersion[p]) : w <= s} = Effective(s)
  <2>1. \A w : w \in Effective(s) => w \in Effective(proxyVersion[p]) /\ w <= s
    <3> SUFFICES ASSUME NEW w \in Effective(s) PROVE w \in Effective(proxyVersion[p]) /\ w <= s
      OBVIOUS
    <3>1. HasTxn(w) /\ w <= s /\ \A r \in Resolver : verdict[r][w - LastEpochEnd]
      BY EffectiveIs DEF EffectiveMeans
    <3>2. w \in Nat
      BY <1>1, <3>1, HasTxnFacts
    <3>3. w <= proxyVersion[p]
      BY <1>2, <1>3, <3>1, <3>2
    <3> QED
      BY <3>1, <3>3, EffectiveIs DEF EffectiveMeans
  <2>2. \A w : w \in Effective(proxyVersion[p]) /\ w <= s => w \in Effective(s)
    BY EffectiveIs DEF EffectiveMeans
  <2> QED
    BY <2>1, <2>2
<1> QED
  BY <1>2, <1>5, <1>6, <1>7

LEMMA SendBatchLock ==
    ASSUME CoreInv, LockInv, CoreInv', NEW p \in CommitProxy, NEW kind \in Kind, NEW snapshot \in Nat,
           SendBatch(p, kind, snapshot)
    PROVE  LockInv'
<1>1. TypeOK /\ BatchInv /\ ResolversInv /\ TypeOK' /\ BatchInv' /\ ResolversInv'
  BY DEF CoreInv
<1>2. PICK m : Sends(p, m) /\ m.kind = kind /\ m.snapshot = snapshot
  BY <1>1, SendIs
<1>3. /\ resolverVersion' = resolverVersion /\ verdict' = verdict
      /\ kind = "plain" => ReadableUnlocked(snapshot)
  BY DEF SendBatch
<1>4. Kept
  BY <1>1, <1>2, <1>3, SendKept
<1>5. Later
  BY <1>1, <1>3 DEF Later, TypeOK
<1>6. \A x \in Sent' : x \in Sent \/ x = m
  <2> SUFFICES ASSUME NEW x \in Sent' PROVE x \in Sent \/ x = m
    OBVIOUS
  <2>1. PICK q \in CommitProxy : \E i \in DOMAIN batch'[q] : x = batch'[q][i]
    BY DEF Sent
  <2>2. PICK i \in DOMAIN batch'[q] : x = batch'[q][i]
    BY <2>1
  <2>3. CASE i \in DOMAIN batch[q]
    <3>1. x = batch[q][i]
      BY <1>2, <2>2, <2>3 DEF Sends
    <3> QED
      BY <2>3, <3>1 DEF Sent
  <2>4. CASE i \notin DOMAIN batch[q]
    BY <1>2, <2>2, <2>4 DEF Sends
  <2> QED
    BY <2>3, <2>4
<1>7. m.version = version + 1 /\ version \in Nat
  BY <1>1, <1>2 DEF Sends, TypeOK
<1>8. ASSUME NEW x \in Sent, x.kind = "plain" PROVE Unlocked(x)' /\ Refused(x)'
  <2>1. Unlocked(x) /\ Refused(x)
    BY <1>8 DEF LockInv
  <2> QED
    BY <1>1, <1>3, <1>4, <1>5, <2>1, UnlockedKept, RefusedKept
<1>9. ASSUME m.kind = "plain" PROVE Unlocked(m)' /\ Refused(m)'
  <2>1. ReadableUnlocked(snapshot)
    BY <1>2, <1>3, <1>9
  <2>2. /\ snapshot <= version /\ \A r \in Resolver : snapshot <= resolverVersion[r]
        /\ ~ LockedAfter(Effective(snapshot))
    BY <2>1, ReadableIs
  <2>3. snapshot < m.version
    BY <1>7, <2>2
  <2>4. Effective(snapshot)' = Effective(snapshot)
    BY <1>1, <1>4, <2>2, EffectiveKept
  <2>5. PICK S : S = Effective(snapshot)
    OBVIOUS
  <2>6. \A w \in S : (w \in Locks' <=> w \in Locks) /\ (w \in Unlocks' <=> w \in Unlocks)
    <3> SUFFICES ASSUME NEW w \in S
                 PROVE  (w \in Locks' <=> w \in Locks) /\ (w \in Unlocks' <=> w \in Unlocks)
      OBVIOUS
    <3>1. HasTxn(w)
      BY <2>5, EffectiveIs DEF EffectiveMeans
    <3>2. w \in Nat /\ w <= version
      BY <1>1, <3>1, HasTxnFacts
    <3>3. ~ (w > version)
      BY <1>7, <3>2
    <3> QED
      BY <1>1, <1>4, <3>3, WritesKept
  <2>7. S \cap Locks' = S \cap Locks /\ S \cap Unlocks' = S \cap Unlocks
    BY <2>6
  <2>8. ~ LockedAfter(S) /\ Effective(snapshot)' = S
    BY <2>2, <2>4, <2>5
  <2>9. ~ LockedAfter(Effective(snapshot))'
    BY <2>7, <2>8 DEF LockedAfter
  <2>10. Unlocked(m)'
    BY <1>2, <1>3, <2>2, <2>3, <2>9 DEF Unlocked
  <2>11. resolverVersion[LockResolver] <= version /\ resolverVersion[LockResolver] \in Nat
    BY <1>1, Constants, ResolverFacts DEF ResolversInv
  <2>12. ~ (m.version <= resolverVersion'[LockResolver])
    BY <1>3, <1>7, <2>11
  <2> QED
    BY <2>10, <2>12 DEF Refused
<1> QED
  BY <1>6, <1>8, <1>9 DEF LockInv

LEMMA ResolveLock ==
    ASSUME CoreInv, LockInv, CoreInv', NEW r \in Resolver, NEW m \in Sent,
           NEW committed \in BOOLEAN, NEW answered \in BOOLEAN, Resolve(r, m, committed, answered)
    PROVE  LockInv'
<1>1. TypeOK /\ BatchInv /\ ResolversInv /\ SeenInv(r) /\ TypeOK'
  BY DEF CoreInv, ResolversInv
<1>2. PICK p \in CommitProxy : \E n \in DOMAIN batch[p] : m = batch[p][n] /\ m.proxy = p
  BY <1>1, SentFacts
<1>3. PICK n \in DOMAIN batch[p] : m = batch[p][n]
  BY <1>2
<1>4. Resolves(r, m, committed)
  BY ResolveIs
<1>5. Serves(r, p, n, committed)
  BY <1>3, <1>4 DEF Serves
<1>6. Kept
  BY <1>1, <1>5, ServesKept
<1>7. /\ batch' = batch /\ m.version = resolverVersion[r] + 1 /\ resolverVersion[r] \in Nat
      /\ resolverVersion'[r] = m.version
  BY <1>1, <1>3, <1>5, ServesFacts
<1>8. \A s \in Resolver : s # r => resolverVersion'[s] = resolverVersion[s]
  BY <1>1, <1>4 DEF Resolves, TypeOK
<1>9. Later
  <2> SUFFICES ASSUME NEW s \in Resolver
               PROVE  resolverVersion'[s] \in Nat /\ resolverVersion[s] <= resolverVersion'[s]
    BY DEF Later
  <2>1. resolverVersion[s] \in Nat
    BY <1>1 DEF TypeOK
  <2>2. CASE s = r
    BY <1>7, <2>2
  <2>3. CASE s # r
    <3>1. resolverVersion'[s] = resolverVersion[s]
      BY <1>8, <2>3
    <3> QED
      BY <2>1, <3>1
  <2> QED
    BY <2>2, <2>3
<1>10. Sent' = Sent
  BY <1>7 DEF Sent
<1>11. ASSUME NEW x \in Sent, x.kind = "plain" PROVE Unlocked(x)' /\ Refused(x)'
  <2>1. Unlocked(x) /\ Refused(x)
    BY <1>11 DEF LockInv
  <2>2. Unlocked(x)'
    BY <1>1, <1>6, <1>9, <2>1, UnlockedKept
  <2>3. CASE r # LockResolver \/ x.version <= resolverVersion[LockResolver]
    <3>1. \/ x.version <= resolverVersion[LockResolver]
          \/ resolverVersion'[LockResolver] = resolverVersion[LockResolver]
      BY <1>8, <2>3, Constants
    <3> QED
      BY <1>1, <1>6, <2>1, <2>2, <3>1, RefusedKept
  <2>4. CASE r = LockResolver /\ ~ (x.version <= resolverVersion[LockResolver])
    <3>1. SUFFICES ASSUME x.version <= resolverVersion'[LockResolver], LockConflict(LockResolver, x)'
                   PROVE  ~ verdict'[LockResolver][x.version - LastEpochEnd]
      BY <2>2 DEF Refused
    <3>2. x.version \in Nat
      BY <1>1, <1>6, SentKept
    <3>3. x.version = m.version
      BY <1>7, <2>4, <3>1, <3>2
    <3>4. x = m
      <4>1. PICK q \in CommitProxy : \E i \in DOMAIN batch[q] : x = batch[q][i] /\ x.proxy = q
        BY <1>1, SentFacts
      <4>2. PICK i \in DOMAIN batch[q] : x = batch[q][i]
        BY <4>1
      <4>3. q = p /\ i = n
        BY <1>1, <1>3, <3>3, <4>2 DEF BatchInv
      <4> QED
        BY <1>3, <4>2, <4>3
    <3>5. x.version <= resolverVersion[LockResolver] + 1
      BY <1>7, <2>4, <3>2, <3>3
    <3>6. LockConflict(LockResolver, x)
      BY <1>1, <1>6, <3>1, <3>5, ConflictKept
    <3>7. ~ committed
      BY <2>4, <3>4, <3>6 DEF Resolve
    <3>8. verdict'[r][m.version - LastEpochEnd] = committed
      BY <1>1, <1>3, <1>5, ServesDecides
    <3> QED
      BY <2>4, <3>4, <3>7, <3>8
  <2> QED
    BY <2>2, <2>3, <2>4
<1> QED
  BY <1>10, <1>11 DEF LockInv

\* A resolver that serves nothing and lets in nothing.
LEMMA NeededStays ==
    ASSUME NEW r, NeededInv(r), recent'[r] = recent[r], lastVersion'[r] = lastVersion[r],
           resolverVersion'[r] = resolverVersion[r], needed'[r] = needed[r], queue'[r] \subseteq queue[r]
    PROVE  NeededInv(r)'
<1>1. OverLimit(r, recent[r])' <=> OverLimit(r, recent[r])
  BY DEF OverLimit, Sized
<1>2. \A q : Behind(r, recent[r], lastVersion[r][q])' <=> Behind(r, recent[r], lastVersion[r][q])
  BY DEF Behind, Sized
<1>3. ASSUME OverLimit(r, recent[r]), NEW x \in queue[r], x.prevVersion > resolverVersion[r],
             Behind(r, recent[r], lastVersion[r][x.proxy])
      PROVE  x.prevVersion <= needed[r]
  BY <1>3 DEF NeededInv
<1> QED
  BY <1>1, <1>2, <1>3 DEF NeededInv

LEMMA AdmitNeeded ==
    ASSUME CoreInv, NEW r \in Resolver, NeededInv(r), NEW m \in Sent, Admit(r, m)
    PROVE  NeededInv(r)'
<1>1. TypeOK /\ BatchInv
  BY DEF CoreInv
<1>2. /\ resolverVersion' = resolverVersion /\ lastVersion' = lastVersion /\ recent' = recent
      /\ queue' = [queue EXCEPT ![r] = @ \cup {m}]
      /\ needed' = [needed EXCEPT ![r] = Needed(r, {m}, recent[r], lastVersion[r])]
  BY DEF Admit
<1>3. PICK k : k = Needed(r, {m}, recent[r], lastVersion[r])
  OBVIOUS
<1>4. /\ k \in Nat /\ needed[r] \in Nat /\ needed[r] <= k
      /\ Behind(r, recent[r], lastVersion[r][m.proxy]) => m.prevVersion <= k
  <2>1. {m} \subseteq Sent /\ m \in {m}
    OBVIOUS
  <2> QED
    BY <1>1, <1>3, <2>1, NeededIs DEF TypeOK
<1>5. needed'[r] = k /\ queue'[r] = queue[r] \cup {m}
  BY <1>1, <1>2, <1>3 DEF TypeOK
<1>6. ASSUME OverLimit(r, recent[r]), NEW x \in queue[r] \cup {m}, x.prevVersion > resolverVersion[r],
             Behind(r, recent[r], lastVersion[r][x.proxy])
      PROVE  x.prevVersion <= k
  <2>1. CASE x = m
    BY <1>4, <1>6, <2>1
  <2>2. CASE x \in queue[r]
    <3>1. x.prevVersion <= needed[r]
      BY <1>6, <2>2 DEF NeededInv
    <3>2. x.prevVersion \in Nat
      <4>1. x \in Request
        BY <1>1, <2>2 DEF TypeOK
      <4> QED
        BY <4>1 DEF Request
    <3> QED
      BY <1>4, <3>1, <3>2
  <2> QED
    BY <2>1, <2>2
<1>7. OverLimit(r, recent[r])' <=> OverLimit(r, recent[r])
  BY <1>2 DEF OverLimit, Sized
<1>8. \A q : Behind(r, recent[r], lastVersion[r][q])' <=> Behind(r, recent[r], lastVersion[r][q])
  BY <1>2 DEF Behind, Sized
<1> QED
  BY <1>2, <1>5, <1>6, <1>7, <1>8 DEF NeededInv

LEMMA SizedIs ==
    ASSUME TypeOK, NEW r \in Resolver
    PROVE  /\ Sized(r, recent[r]) \subseteq Nat /\ Sized(r, recent[r]) \subseteq DOMAIN recent[r]
           /\ OverLimit(r, recent[r]) => Sized(r, recent[r]) # {}
           /\ Sized(r, recent[r]) # {} =>
                 /\ Least(Sized(r, recent[r])) \in Sized(r, recent[r])
                 /\ \A x \in Sized(r, recent[r]) : Least(Sized(r, recent[r])) <= x
<1>1. \A v \in DOMAIN recent[r] : v \in Nat
  BY DEF TypeOK
<1>2. PICK S : S = Sized(r, recent[r])
  OBVIOUS
<1>3. S \subseteq DOMAIN recent[r]
  BY <1>2 DEF Sized
<1>4. S \subseteq Nat
  BY <1>1, <1>3
<1>5. OverLimit(r, recent[r]) => S # {}
  <2> SUFFICES ASSUME Cardinality(S) > StateMemoryLimit, S = {} PROVE FALSE
    BY <1>2 DEF OverLimit
  <2>1. Cardinality(S) = 0
    BY FS_EmptySet
  <2> QED
    BY <2>1, LimitAssumption
<1>6. S # {} => Least(S) \in S /\ \A x \in S : Least(S) <= x
  BY <1>4, LeastVersion
<1> QED
  BY <1>2, <1>3, <1>4, <1>5, <1>6

\* The oldest state transaction stays the oldest when one is added and none goes.
LEMMA StillBehind ==
    ASSUME CoreInv, NEW r, NEW p, NEW n, NEW c, Serves(r, p, n, c), NEW q \in CommitProxy,
           OverLimit(r, recent[r]),
           Sized(r, AfterOf(r, batch[p][n], c)) = Sized(r, AddedOf(r, batch[p][n], c)),
           Behind(r, AfterOf(r, batch[p][n], c), LastOf(r, batch[p][n])[q])
    PROVE  Behind(r, recent[r], lastVersion[r][q])
<1>1. r \in Resolver /\ p \in CommitProxy /\ n \in DOMAIN batch[p]
  BY DEF Serves
<1>2. TypeOK /\ BatchInv /\ SeenInv(r) /\ RecentInv(r)
  BY <1>1 DEF CoreInv, ResolversInv
<1>3. PICK m : m = batch[p][n]
  OBVIOUS
<1>4. m.version = resolverVersion[r] + 1 /\ resolverVersion[r] \in Nat
  BY <1>2, <1>3, ServesFacts
<1>5. PICK S : S = Sized(r, recent[r])
  OBVIOUS
<1>6. PICK T : T = Sized(r, AddedOf(r, m, c))
  OBVIOUS
<1>7. PICK l : l = Least(S)
  OBVIOUS
<1>8. S \subseteq Nat /\ S \subseteq DOMAIN recent[r] /\ l \in S /\ \A x \in S : l <= x
  BY <1>1, <1>2, <1>5, <1>7, SizedIs
<1>9. \A v \in DOMAIN recent[r] : v \in Nat /\ v < m.version
  <2> SUFFICES ASSUME NEW v \in DOMAIN recent[r] PROVE v \in Nat /\ v < m.version
    OBVIOUS
  <2>1. v \in LastEpochEnd..resolverVersion[r]
    BY <1>2 DEF RecentInv
  <2> QED
    BY <1>4, <2>1, Constants
<1>10. S \subseteq T /\ T \subseteq S \cup {m.version}
  <2>1. DOMAIN AddedOf(r, m, c) = DOMAIN recent[r] \cup {m.version}
    BY DEF AddedOf
  <2>2. \A v \in DOMAIN recent[r] : v # m.version
    BY <1>4, <1>9
  <2>3. \A v \in DOMAIN recent[r] : AddedOf(r, m, c)[v] = recent[r][v]
    BY <2>2 DEF AddedOf
  <2> QED
    BY <1>5, <1>6, <2>1, <2>3 DEF Sized
<1>11. l \in T /\ \A x \in T : x \in Nat /\ l <= x
  <2>1. l \in Nat /\ l < m.version /\ m.version \in Nat
    BY <1>4, <1>8, <1>9
  <2>2. ASSUME NEW x \in T PROVE x \in Nat /\ l <= x
    <3>1. CASE x \in S
      BY <1>8, <3>1
    <3>2. CASE x = m.version
      BY <2>1, <3>2
    <3> QED
      BY <1>10, <2>2, <3>1, <3>2
  <2> QED
    BY <1>8, <1>10, <2>2
<1>12. Least(T) = l
  <2>1. T \subseteq Nat \cup {-1} /\ T # {}
    BY <1>11
  <2>2. Least(T) \in T /\ \A x \in T : Least(T) <= x
    BY <2>1, LeastVersion
  <2>3. PICK k : k = Least(T)
    OBVIOUS
  <2>4. k \in Nat /\ l \in Nat /\ k <= l /\ l <= k
    BY <1>11, <2>2, <2>3
  <2> QED
    BY <2>3, <2>4
<1>13. LastOf(r, m)[q] <= l
  BY <1>3, <1>6, <1>12 DEF Behind
<1>14. q # p
  <2>1. LastOf(r, m)[p] = m.version
    BY <1>1, <1>2, <1>3, LastOfIs
  <2>2. l < m.version /\ l \in Nat
    BY <1>8, <1>9
  <2> QED
    BY <1>4, <1>13, <2>1, <2>2
<1>15. LastOf(r, m)[q] = lastVersion[r][q]
  BY <1>1, <1>2, <1>3, <1>14, LastOfIs
<1>16. S # {} /\ lastVersion[r][q] <= Least(S)
  BY <1>7, <1>8, <1>13, <1>15
<1> QED
  BY <1>5, <1>16 DEF Behind

LEMMA ResolveNeeded ==
    ASSUME CoreInv, NEW r \in Resolver, NeededInv(r), NEW m \in Sent,
           NEW committed \in BOOLEAN, NEW answered \in BOOLEAN, Resolve(r, m, committed, answered)
    PROVE  NeededInv(r)'
<1>1. TypeOK /\ BatchInv /\ SeenInv(r) /\ RecentInv(r)
  BY DEF CoreInv, ResolversInv
<1>2. PICK p \in CommitProxy : \E n \in DOMAIN batch[p] : m = batch[p][n] /\ m.proxy = p
  BY <1>1, SentFacts
<1>3. PICK n \in DOMAIN batch[p] : m = batch[p][n]
  BY <1>2
<1>4. Resolves(r, m, committed)
  BY ResolveIs
<1>5. Serves(r, p, n, committed)
  BY <1>3, <1>4 DEF Serves
<1>6. PICK after : after = AfterOf(r, m, committed)
  OBVIOUS
<1>7. PICK last : last = LastOf(r, m)
  OBVIOUS
<1>8. PICK k : k = NeededOf(r, m, committed)
  OBVIOUS
<1>9. /\ m.version = resolverVersion[r] + 1 /\ resolverVersion[r] \in Nat
      /\ resolverVersion'[r] = m.version /\ lastVersion'[r] = last /\ recent'[r] = after
      /\ queue'[r] = queue[r] \ {m}
  BY <1>1, <1>3, <1>5, <1>6, <1>7, ServesFacts
<1>10. needed'[r] = k
  <2>1. needed' = [needed EXCEPT ![r] = k]
    BY <1>8, ResolveNeeds
  <2> QED
    BY <1>1, <2>1 DEF TypeOK
<1>11. \A x \in queue[r] : x \in Sent /\ x.prevVersion \in Nat /\ x.proxy \in CommitProxy
  <2> SUFFICES ASSUME NEW x \in queue[r] PROVE x \in Sent /\ x.prevVersion \in Nat /\ x.proxy \in CommitProxy
    OBVIOUS
  <2>1. x \in Sent
    BY <1>1 DEF SeenInv
  <2>2. x \in Request
    BY <1>1 DEF TypeOK
  <2> QED
    BY <2>1, <2>2 DEF Request
<1>12. ASSUME OverLimit(r, after), NEW x \in queue[r], x.prevVersion > m.version, Behind(r, after, last[x.proxy])
       PROVE  x.prevVersion <= k
  <2>1. CASE \/ Sized(r, after) # Sized(r, AddedOf(r, m, committed))
             \/ ~ OverLimit(r, recent[r]) /\ OverLimit(r, after)
    <3>1. PICK M : M = {y \in queue[r] : y.prevVersion > m.version}
      OBVIOUS
    <3>2. M \subseteq Sent /\ x \in M
      BY <1>11, <1>12, <3>1
    <3>3. k = Needed(r, M, after, last)
      BY <1>6, <1>7, <1>8, <2>1, <3>1 DEF NeededOf
    <3> QED
      BY <1>1, <1>12, <3>2, <3>3, NeededIs
  <2>2. CASE ~ (\/ Sized(r, after) # Sized(r, AddedOf(r, m, committed))
                \/ ~ OverLimit(r, recent[r]) /\ OverLimit(r, after))
    <3>1. k = needed[r]
      BY <1>6, <1>8, <2>2 DEF NeededOf
    <3>2. OverLimit(r, recent[r]) /\ Sized(r, after) = Sized(r, AddedOf(r, m, committed))
      BY <1>12, <2>2
    <3>3. Behind(r, recent[r], lastVersion[r][x.proxy])
      BY <1>3, <1>5, <1>6, <1>7, <1>11, <1>12, <3>2, StillBehind
    <3>4. x.prevVersion > resolverVersion[r]
      BY <1>9, <1>11, <1>12
    <3> QED
      BY <3>1, <3>2, <3>3, <3>4 DEF NeededInv
  <2> QED
    BY <2>1, <2>2
<1>13. OverLimit(r, recent[r])' <=> OverLimit(r, after)
  BY <1>9 DEF OverLimit, Sized
<1>14. \A q : Behind(r, recent[r], lastVersion[r][q])' <=> Behind(r, after, last[q])
  BY <1>9 DEF Behind, Sized
<1> QED
  BY <1>9, <1>10, <1>12, <1>13, <1>14 DEF NeededInv

-----------------------------------------------------------------------------
(***************************************************************************)
(* The theorems.                                                           *)
(***************************************************************************)

LEMMA InitInv ==
    ASSUME Init
    PROVE  IInv
<1>1. TypeOK
  <2>1. <<>> \in Seq(Nat) /\ <<>> \in Seq(Request) /\ <<>> \in Seq(Slots) /\ <<>> \in Seq(BOOLEAN)
    OBVIOUS
  <2>2. \A r \in Resolver : \A v \in DOMAIN recent[r] : v \in Nat /\ recent[r][v] \in Seq(BOOLEAN)
    BY <2>1, Constants DEF Init
  <2>3. /\ batch \in [CommitProxy -> Seq(Request)] /\ applied \in [CommitProxy -> Seq(Nat)]
        /\ resolution \in [CommitProxy -> Seq([Resolver -> Reply \cup {NoReply}])]
        /\ verdict \in [Resolver -> Seq(BOOLEAN)]
    BY <2>1 DEF Init, Slots
  <2>4. /\ lastVersion \in [Resolver -> [CommitProxy -> Nat \cup {-1}]]
        /\ outstanding \in [Resolver -> [CommitProxy -> SUBSET Reply]]
        /\ queue \in [Resolver -> SUBSET Request]
    BY DEF Init
  <2> QED
    BY <2>2, <2>3, <2>4, Constants DEF Init, TypeOK
<1>2. \A p \in CommitProxy : DOMAIN batch[p] = {} /\ Len(batch[p]) = Len(resolution[p]) /\ DOMAIN applied[p] = {}
  BY DEF Init
<1>3. BatchInv
  BY <1>2, Constants DEF Init, BatchInv
<1>4. ProxyInv
  BY <1>2 DEF Init, ProxyInv
<1>5. Sent = {}
  BY <1>2 DEF Sent
<1>6. SameMetadata
  <2>1. \A u : Effective(u) = {}
    BY <1>5 DEF Effective
  <2> QED
    BY <1>2, <2>1 DEF SameMetadata
<1>7. ASSUME NEW r \in Resolver PROVE SeenInv(r) /\ RecentInv(r) /\ ReplyInv(r)
  <2>1. /\ resolverVersion[r] = LastEpochEnd /\ version = LastEpochEnd /\ verdict[r] = <<>>
        /\ minRecent[r] = 0 /\ queue[r] = {} /\ DOMAIN recent[r] = {LastEpochEnd}
        /\ recent[r][LastEpochEnd] = <<>>
        /\ \A p \in CommitProxy : lastVersion[r][p] = -1 /\ outstanding[r][p] = {}
    BY DEF Init
  <2>2. SeenInv(r)
    BY <1>2, <2>1, Constants DEF SeenInv
  <2>3. ~ HasTxn(LastEpochEnd)
    BY <1>2 DEF HasTxn
  <2>4. DOMAIN recent[r] = {v \in LastEpochEnd..resolverVersion[r] : \E p \in CommitProxy : lastVersion[r][p] < v}
    <3>1. PICK p : p \in CommitProxy
      BY ProxyAssumption
    <3>2. \A v \in LastEpochEnd..LastEpochEnd : v = LastEpochEnd
      BY Constants
    <3>3. LastEpochEnd \in LastEpochEnd..LastEpochEnd /\ -1 < LastEpochEnd
      BY Constants
    <3> QED
      BY <2>1, <3>1, <3>2, <3>3
  <2>5. RecentInv(r)
    BY <2>1, <2>3, <2>4 DEF RecentInv, Entry
  <2>6. ReplyInv(r)
    BY <1>2, <2>1 DEF ReplyInv
  <2> QED
    BY <2>2, <2>5, <2>6
<1>8. ASSUME NEW r \in Resolver PROVE NeededInv(r)
  <2>1. queue[r] = {}
    BY DEF Init
  <2> QED
    BY <2>1 DEF NeededInv
<1> QED
  BY <1>1, <1>3, <1>4, <1>5, <1>6, <1>7, <1>8 DEF IInv, CoreInv, LockInv, ResolversInv

LEMMA StutterInv ==
    ASSUME CoreInv, UNCHANGED vars
    PROVE  CoreInv'
<1>1. TypeOK /\ BatchInv /\ ProxyInv /\ ResolversInv /\ SameMetadata
  BY DEF CoreInv
<1>2. /\ version' = version /\ batch' = batch /\ proxyVersion' = proxyVersion /\ applied' = applied
      /\ resolverVersion' = resolverVersion /\ lastVersion' = lastVersion /\ outstanding' = outstanding
      /\ recent' = recent /\ minRecent' = minRecent /\ verdict' = verdict /\ resolution' = resolution
      /\ queue' = queue /\ needed' = needed /\ budget' = budget
  BY DEF vars
<1>3. TypeOK'
  BY <1>1, <1>2 DEF TypeOK
<1>4. BatchInv'
  BY <1>1, <1>2 DEF BatchInv
<1>5. Kept /\ Arrived
  BY <1>2 DEF Kept, HasTxn, Arrived
<1>6. ProxyInv' /\ SameMetadata'
  BY <1>2, <1>3, <1>5, OtherProxies
<1>7. ASSUME NEW s \in Resolver PROVE SeenInv(s)' /\ RecentInv(s)' /\ ReplyInv(s)'
  <2>1. Fills(s)
    BY <1>2 DEF Fills
  <2>2. queue[s] \subseteq Sent /\ Sent' = Sent /\ version \in Nat
    <3>1. Sent' = Sent
      BY <1>2 DEF Sent
    <3>2. queue[s] \subseteq Sent
      BY <1>1 DEF ResolversInv, SeenInv
    <3> QED
      BY <1>1, <3>1, <3>2 DEF TypeOK
  <2>3. SameResolver(s)
    BY <1>2, <2>2 DEF SameResolver
  <2> QED
    BY <1>3, <1>5, <2>1, <2>3, OtherResolver
<1> QED
  BY <1>3, <1>4, <1>6, <1>7 DEF CoreInv, ResolversInv

LEMMA StepInv ==
    ASSUME IInv, [Next]_vars
    PROVE  IInv'
<1>1. CoreInv /\ LockInv /\ \A r \in Resolver : NeededInv(r)
  BY DEF IInv
<1>2. TypeOK
  BY <1>1 DEF CoreInv
<1>3. ASSUME CoreInv', Kept, resolverVersion' = resolverVersion, batch' = batch, recent' = recent,
             lastVersion' = lastVersion, needed' = needed, \A r \in Resolver : queue'[r] \subseteq queue[r]
      PROVE  IInv'
  <2>1. LockInv'
    BY <1>1, <1>3, LockStays DEF CoreInv
  <2>2. \A r \in Resolver : NeededInv(r)'
    BY <1>1, <1>3, NeededStays
  <2> QED
    BY <1>3, <2>1, <2>2 DEF IInv
<1>4. CASE UNCHANGED vars
  <2>1. CoreInv'
    BY <1>1, <1>4, StutterInv
  <2>2. /\ resolverVersion' = resolverVersion /\ batch' = batch /\ recent' = recent /\ verdict' = verdict
        /\ lastVersion' = lastVersion /\ needed' = needed /\ queue' = queue
    BY <1>4 DEF vars
  <2>3. Kept
    BY <2>2 DEF Kept, HasTxn
  <2> QED
    BY <1>3, <2>1, <2>2, <2>3
<1>5. ASSUME NEW p \in CommitProxy, NEW kind \in Kind, NEW snapshot \in {0} \cup {m.version : m \in Sent},
             SendBatch(p, kind, snapshot)
      PROVE  IInv'
  <2>1. snapshot \in Nat
    <3>1. \A m \in Sent : m.version \in Nat
      <4> SUFFICES ASSUME NEW m \in Sent PROVE m.version \in Nat
        OBVIOUS
      <4>1. PICK q \in CommitProxy : \E n \in DOMAIN batch[q] : m = batch[q][n] /\ m.proxy = q
        BY <1>1, SentFacts DEF CoreInv
      <4> QED
        BY <1>1, <4>1, BatchFacts DEF CoreInv
    <3> QED
      BY <3>1
  <2>2. CoreInv'
    BY <1>1, <1>5, <2>1, SendBatchInv
  <2>3. LockInv'
    BY <1>1, <1>5, <2>1, <2>2, SendBatchLock
  <2>4. recent' = recent /\ lastVersion' = lastVersion /\ resolverVersion' = resolverVersion
        /\ needed' = needed /\ queue' = queue
    BY <1>5 DEF SendBatch
  <2>5. \A r \in Resolver : NeededInv(r)'
    BY <1>1, <2>4, NeededStays
  <2> QED
    BY <2>2, <2>3, <2>5 DEF IInv
<1>6. ASSUME NEW p \in CommitProxy, NEW n \in DOMAIN batch[p], PostResolution(p, n) PROVE IInv'
  <2>1. CoreInv'
    BY <1>1, <1>6, PostResolutionInv
  <2>2. /\ resolverVersion' = resolverVersion /\ batch' = batch /\ recent' = recent /\ verdict' = verdict
        /\ lastVersion' = lastVersion /\ needed' = needed /\ queue' = queue
    BY <1>6 DEF PostResolution
  <2>3. Kept
    BY <2>2 DEF Kept, HasTxn
  <2> QED
    BY <1>3, <2>1, <2>2, <2>3
<1>7. ASSUME NEW r \in Resolver, NEW m \in Sent, Admit(r, m) PROVE IInv'
  <2>1. CoreInv'
    BY <1>1, <1>7, AdmitInv
  <2>2. /\ resolverVersion' = resolverVersion /\ batch' = batch /\ recent' = recent /\ verdict' = verdict
        /\ lastVersion' = lastVersion
        /\ \A s \in Resolver : s # r => needed'[s] = needed[s] /\ queue'[s] = queue[s]
    BY <1>2, <1>7 DEF Admit, TypeOK
  <2>3. Kept
    BY <2>2 DEF Kept, HasTxn
  <2>4. LockInv'
    BY <1>1, <2>1, <2>2, <2>3, LockStays DEF CoreInv
  <2>5. ASSUME NEW s \in Resolver PROVE NeededInv(s)'
    <3>1. CASE s = r
      BY <1>1, <1>7, <3>1, AdmitNeeded
    <3>2. CASE s # r
      BY <1>1, <2>2, <3>2, NeededStays
    <3> QED
      BY <3>1, <3>2
  <2> QED
    BY <2>1, <2>4, <2>5 DEF IInv
<1>8. ASSUME NEW r \in Resolver, NEW m \in Sent, NEW committed \in BOOLEAN, NEW answered \in BOOLEAN,
             Resolve(r, m, committed, answered)
      PROVE  IInv'
  <2>1. CoreInv'
    BY <1>1, <1>8, ResolveInv
  <2>2. LockInv'
    BY <1>1, <1>8, <2>1, ResolveLock
  <2>3. ASSUME NEW s \in Resolver PROVE NeededInv(s)'
    <3>1. CASE s = r
      BY <1>1, <1>8, <3>1, ResolveNeeded
    <3>2. CASE s # r
      <4>1. /\ resolverVersion'[s] = resolverVersion[s] /\ recent'[s] = recent[s]
            /\ lastVersion'[s] = lastVersion[s] /\ queue'[s] = queue[s]
        <5>1. Resolves(r, m, committed)
          BY <1>8, ResolveIs
        <5> QED
          BY <1>2, <3>2, <5>1 DEF Resolves, TypeOK
      <4>2. needed'[s] = needed[s]
        <5>1. PICK k : k = NeededOf(r, m, committed)
          OBVIOUS
        <5>2. needed' = [needed EXCEPT ![r] = k]
          BY <1>8, <5>1, ResolveNeeds
        <5> QED
          BY <1>2, <3>2, <5>2 DEF TypeOK
      <4> QED
        BY <1>1, <4>1, <4>2, NeededStays
    <3> QED
      BY <3>1, <3>2
  <2> QED
    BY <2>1, <2>2, <2>3 DEF IInv
<1>9. ASSUME NEW r \in Resolver, NEW m \in Sent, NEW answered \in BOOLEAN, ResolveDuplicate(r, m, answered)
      PROVE  IInv'
  <2>1. CoreInv'
    BY <1>1, <1>9, ResolveDuplicateInv
  <2>2. /\ resolverVersion' = resolverVersion /\ batch' = batch /\ recent' = recent /\ verdict' = verdict
        /\ lastVersion' = lastVersion /\ needed' = needed /\ queue' = [queue EXCEPT ![r] = @ \ {m}]
    BY <1>9 DEF ResolveDuplicate
  <2>3. Kept
    BY <2>2 DEF Kept, HasTxn
  <2>4. \A s \in Resolver : queue'[s] \subseteq queue[s]
    BY <1>2, <2>2 DEF TypeOK
  <2> QED
    BY <1>3, <2>1, <2>2, <2>3, <2>4
<1> QED
  BY <1>4, <1>5, <1>6, <1>7, <1>8, <1>9 DEF Next

\* The invariant holds in every reachable state: what resolveBatch keeps, erases and answers
\* from its maps is what the order of versions asks for, whatever is delayed, repeated or lost.
THEOREM Invariance == Spec => []IInv
<1>1. Init => IInv
  BY InitInv
<1>2. IInv /\ [Next]_vars => IInv'
  BY StepInv
<1> QED
  BY <1>1, <1>2, PTL DEF Spec

\* Every commit proxy has applied, in postResolution, exactly the state transactions that all
\* resolvers let commit up to the version it has processed, each once and in order, although
\* only the owner of a transaction looks at the database lock.
THEOREM ProxiesAgree == Spec => []SameMetadata
<1>1. IInv => SameMetadata
  BY DEF IInv, CoreInv
<1> QED
  BY <1>1, Invariance, PTL

\* The replies to one batch can be combined by position.
LEMMA RepliesCombine ==
    ASSUME IInv
    PROVE  RepliesAgree
<1>1. TypeOK /\ BatchInv /\ ResolversInv
  BY DEF IInv, CoreInv
<1> SUFFICES ASSUME NEW p \in CommitProxy, NEW n \in DOMAIN batch[p], Resolved(p, n),
                    NEW r \in Resolver, NEW s \in Resolver
             PROVE  LET x == resolution[p][n][r].stateMutations
                        y == resolution[p][n][s].stateMutations
                    IN  Len(x) = Len(y) /\ \A i \in DOMAIN x : Len(x[i].committed) = Len(y[i].committed)
  BY DEF RepliesAgree
<1>2. PICK a : a = FirstUnseen(p, n)
  OBVIOUS
<1>3. PICK v : v = batch[p][n].version
  OBVIOUS
<1>4. /\ resolution[p][n][r].stateMutations = Entries(r, a, v)
      /\ resolution[p][n][s].stateMutations = Entries(s, a, v)
  BY <1>1, <1>2, <1>3, RepliesAre
<1>5. /\ v \in Nat /\ a \in Nat /\ a <= v
  BY <1>1, <1>2, <1>3, RepliesAre
<1>6. \A t \in Resolver : v <= resolverVersion[t] /\ SeenInv(t) /\ resolverVersion[t] \in Nat
  BY <1>1, <1>2, <1>3, RepliesAre
<1>7. \A t \in Resolver : /\ DOMAIN Entries(t, a, v) = 1..(v - a) /\ Len(Entries(t, a, v)) = v - a
                          /\ \A i \in 1..(v - a) : Entries(t, a, v)[i].committed = Entry(t, a + i - 1)
  <2> SUFFICES ASSUME NEW t \in Resolver
               PROVE  /\ DOMAIN Entries(t, a, v) = 1..(v - a) /\ Len(Entries(t, a, v)) = v - a
                      /\ \A i \in 1..(v - a) : Entries(t, a, v)[i].committed = Entry(t, a + i - 1)
    OBVIOUS
  <2>1. DOMAIN Entries(t, a, v) = 1..(v - a)
    BY DEF Entries
  <2>2. \A i \in 1..(v - a) : Entries(t, a, v)[i].committed = Entry(t, a + i - 1)
    BY DEF Entries
  <2>3. v <= resolverVersion[t] + 1
    BY <1>5, <1>6
  <2>4. Entries(t, a, v) \in Seq(StateTransactions)
    BY <1>1, <1>5, <1>6, <2>3, EntriesType
  <2>5. PICK e : e = Entries(t, a, v)
    OBVIOUS
  <2>6. Len(e) = v - a
    BY <1>5, <2>1, <2>4, <2>5
  <2> QED
    BY <2>1, <2>2, <2>5, <2>6
<1>8. ASSUME NEW i \in 1..(v - a) PROVE Len(Entry(r, a + i - 1)) = Len(Entry(s, a + i - 1))
  <2>1. PICK w : w = a + i - 1
    OBVIOUS
  <2>2. w \in Nat /\ w <= resolverVersion[r] /\ w <= resolverVersion[s]
    BY <1>5, <1>6, <2>1
  <2>3. CASE HasTxn(w)
    <3>1. Entry(r, w) = <<verdict[r][w - LastEpochEnd]>> /\ Entry(s, w) = <<verdict[s][w - LastEpochEnd]>>
      BY <1>1, <1>6, <2>2, <2>3, EntryType
    <3>2. \A c : Len(<<c>>) = 1
      OBVIOUS
    <3> QED
      BY <2>1, <3>1, <3>2
  <2>4. CASE ~ HasTxn(w)
    BY <1>1, <1>6, <2>1, <2>2, <2>4, EntryType
  <2> QED
    BY <2>3, <2>4
<1> QED
  BY <1>4, <1>7, <1>8

LEMMA SeenIsErased ==
    ASSUME IInv
    PROVE  ErasedWhenSeen
<1>1. TypeOK /\ BatchInv /\ ResolversInv
  BY DEF IInv, CoreInv
<1> SUFFICES ASSUME NEW r \in Resolver
             PROVE  /\ \A p \in CommitProxy : lastVersion[r][p] + 1 >= minRecent[r]
                    /\ \A v \in DOMAIN recent[r] : v > Least({lastVersion[r][p] : p \in CommitProxy})
  BY DEF ErasedWhenSeen
<1>2. SeenInv(r) /\ RecentInv(r)
  BY <1>1 DEF ResolversInv
<1>3. /\ \A p \in CommitProxy : lastVersion[r][p] \in Nat \cup {-1} /\ lastVersion[r][p] \in Int
      /\ minRecent[r] \in Nat
  BY <1>1, <1>2, ResolverFacts DEF TypeOK
<1>4. \A p \in CommitProxy : lastVersion[r][p] + 1 >= minRecent[r]
  BY <1>2, <1>3 DEF SeenInv
<1> DEFINE S == {lastVersion[r][p] : p \in CommitProxy}
<1>5. S \subseteq Nat \cup {-1} /\ S # {}
  BY <1>3, ProxyAssumption
<1>6. Least(S) \in S /\ \A x \in S : Least(S) <= x
  <2> HIDE DEF S
  <2> QED
    BY <1>5, LeastVersion
<1>7. PICK l : l = Least(S)
  OBVIOUS
<1>8. l \in Int /\ \A p \in CommitProxy : l <= lastVersion[r][p]
  BY <1>3, <1>6, <1>7
<1>9. ASSUME NEW v \in DOMAIN recent[r] PROVE v > l
  <2>1. v \in Int
    BY <1>1, <1>9 DEF TypeOK
  <2>2. PICK p \in CommitProxy : lastVersion[r][p] < v
    BY <1>2 DEF RecentInv
  <2> QED
    BY <1>3, <1>8, <2>1, <2>2
<1> QED
  BY <1>4, <1>7, <1>9

\* What a resolver keeps in recentStateTransactions and outstandingBatches answers every request
\* that may still come or come again, and the replies of all resolvers to one batch go together.
THEOREM ResolversKeepEnough == Spec => []ResolverInv
<1>1. IInv => TypeOK
  BY DEF IInv, CoreInv
<1>2. IInv => RepliesAgree
  BY RepliesCombine
<1>3. IInv => ErasedWhenSeen
  BY SeenIsErased
<1>4. IInv => ReplyKept
  <2> SUFFICES ASSUME IInv, NEW r \in Resolver, NEW p \in CommitProxy, NEW n \in DOMAIN batch[p],
                      batch[p][n].version <= resolverVersion[r], resolution[p][n][r] = NoReply
               PROVE  \E k \in outstanding[r][p] : k.version = batch[p][n].version
    BY DEF ReplyKept
  <2>1. ReplyInv(r)
    BY DEF IInv, CoreInv, ResolversInv
  <2> QED
    BY <2>1 DEF ReplyInv, Served
<1>5. IInv => ResolverInv
  BY <1>1, <1>2, <1>3, <1>4 DEF ResolverInv
<1> QED
  BY <1>5, Invariance, PTL

\* The batch that is next is held back only for a proxy that is behind and has no batch
\* waiting at the resolver: by neededVersion, nobody waits for a batch that waits for him.
THEOREM NobodyWaitsInACircle == Spec => []NoCircularWait
<1>1. ASSUME IInv, NEW r \in Resolver, NEW m \in Sent, m.prevVersion = resolverVersion[r],
             m \notin queue[r], Delayed(r, m)
      PROVE  /\ \E p \in CommitProxy : Behind(r, recent[r], lastVersion[r][p])
             /\ \A x \in queue[r] :
                   x.version > resolverVersion[r] => ~ Behind(r, recent[r], lastVersion[r][x.proxy])
  <2>1. TypeOK /\ BatchInv /\ SeenInv(r) /\ RecentInv(r) /\ NeededInv(r)
    BY <1>1 DEF IInv, CoreInv, ResolversInv
  <2>2. OverLimit(r, recent[r]) /\ m.version > needed[r] /\ needed[r] \in Nat
    BY <1>1, <2>1 DEF Delayed, TypeOK
  <2>3. PICK l : l = Least(Sized(r, recent[r]))
    OBVIOUS
  <2>4. l \in DOMAIN recent[r] /\ l \in Nat /\ Sized(r, recent[r]) # {}
    BY <2>1, <2>2, <2>3, SizedIs
  <2>5. \E p \in CommitProxy : Behind(r, recent[r], lastVersion[r][p])
    <3>1. PICK p \in CommitProxy : lastVersion[r][p] < l
      BY <2>1, <2>4 DEF RecentInv
    <3>2. lastVersion[r][p] <= l
      BY <2>1, <2>4, <3>1, ResolverFacts
    <3> QED
      BY <2>3, <2>4, <3>2 DEF Behind
  <2>6. ASSUME NEW x \in queue[r], x.version > resolverVersion[r],
               Behind(r, recent[r], lastVersion[r][x.proxy])
        PROVE  FALSE
    <3>1. \A y \in Sent : \E q \in CommitProxy : \E i \in DOMAIN batch[q] :
             /\ y = batch[q][i] /\ y.version \in Nat /\ y.prevVersion \in Nat /\ y.version = y.prevVersion + 1
      <4> SUFFICES ASSUME NEW y \in Sent
                   PROVE  \E q \in CommitProxy : \E i \in DOMAIN batch[q] :
                             /\ y = batch[q][i] /\ y.version \in Nat /\ y.prevVersion \in Nat
                             /\ y.version = y.prevVersion + 1
        OBVIOUS
      <4>1. PICK q \in CommitProxy : \E i \in DOMAIN batch[q] : y = batch[q][i] /\ y.proxy = q
        BY <2>1, SentFacts
      <4>2. PICK i \in DOMAIN batch[q] : y = batch[q][i]
        BY <4>1
      <4> QED
        BY <2>1, <4>2, BatchFacts
    <3>2. x \in Sent
      BY <2>1 DEF SeenInv
    <3>3. x.version # m.version
      <4>1. PICK q \in CommitProxy : \E i \in DOMAIN batch[q] : x = batch[q][i]
        BY <3>1, <3>2
      <4>2. PICK i \in DOMAIN batch[q] : x = batch[q][i]
        BY <4>1
      <4>3. PICK p \in CommitProxy : \E n \in DOMAIN batch[p] : m = batch[p][n]
        BY <1>1, <3>1
      <4>4. PICK n \in DOMAIN batch[p] : m = batch[p][n]
        BY <4>3
      <4>5. x.version = m.version => q = p /\ i = n
        BY <2>1, <4>2, <4>4 DEF BatchInv
      <4> QED
        BY <1>1, <4>2, <4>4, <4>5
    <3>4. /\ x.version \in Nat /\ x.prevVersion \in Nat /\ x.version = x.prevVersion + 1
          /\ m.version \in Nat /\ m.prevVersion \in Nat /\ m.version = m.prevVersion + 1
      BY <1>1, <3>1, <3>2
    <3>5. x.prevVersion > resolverVersion[r] /\ m.version <= x.prevVersion
      BY <1>1, <2>6, <3>3, <3>4
    <3>6. x.prevVersion <= needed[r]
      BY <2>1, <2>2, <2>6, <3>5 DEF NeededInv
    <3> QED
      BY <2>2, <3>4, <3>5, <3>6
  <2> QED
    BY <2>5, <2>6
<1>2. IInv => NoCircularWait
  BY <1>1 DEF NoCircularWait
<1> QED
  BY <1>2, Invariance, PTL
=============================================================================
