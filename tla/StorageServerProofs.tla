---------------------------- MODULE StorageServerProofs ----------------------------
(***************************************************************************)
(* Reads of a storage server, and what it leaves on disk, are snapshots of *)
(* the database, for every window of versions and every history.           *)
(*                                                                         *)
(* What a server holds was applied from the log of some epoch d, which the *)
(* cluster may have left behind.  The invariant says that its memory is    *)
(* that of a server which applied this log, that nothing above the end of  *)
(* the epoch was handed to the engine, and that below its end the log of   *)
(* an epoch and those of all later ones are the same.                      *)
(***************************************************************************)
EXTENDS StorageServer, FiniteSetTheorems, WellFoundedInduction, TLAPS

-----------------------------------------------------------------------------
(***************************************************************************)
(* The parts of the invariant.                                             *)
(***************************************************************************)

Flight == MAX_VERSIONS_IN_FLIGHT
Touching == Op \ {"none"}

Histories == UNION {[D -> Op \cup {"end"}] : D \in SUBSET (Nat \ {0})}
Entry == [insertVersion : Nat, value : Value]
Trees == UNION {[D -> Entry] : D \in SUBSET Nat}
MutationLogs == UNION {[D -> Value] : D \in SUBSET Nat}

\* The versions of a history are numbers.
Dated(h) == DOMAIN h \subseteq Nat \ {0}

HasData(h, w) == w \in DOMAIN h /\ h[w] # "none"

\* Two histories have the same data in the versions up to v.
SameData(g, h, v) ==
    /\ \A w \in DOMAIN g : w <= v /\ g[w] # "none" => w \in DOMAIN h /\ h[w] = g[w]
    /\ \A w \in DOMAIN h : w <= v /\ h[w] # "none" => w \in DOMAIN g /\ h[w] = g[w]

\* Nothing touches the key between two versions.
Quiet(h, a, b) == \A w \in DOMAIN h : a < w /\ w <= b => h[w] \notin Touching

\* Epoch d ended at version end, and epoch e is one that came after it.
Fork(d, e, end) ==
    /\ end + Flight \in DOMAIN Hist(e) /\ Hist(e)[end + Flight] = "end"
    /\ \A w \in DOMAIN Hist(d) : w <= end => w \in DOMAIN Hist(e) /\ Hist(e)[w] = Hist(d)[w]
    /\ \A w \in DOMAIN Hist(e) : w < end + Flight => w <= end /\ w \in DOMAIN Hist(d)

\* The version below which an epoch loses nothing: its end, or what is committed in it.
EndsInv(ends) ==
    /\ ends \in [1..log.epoch -> Nat]
    /\ ends[log.epoch] = log.committed
    /\ \A d, e \in 1..log.epoch : d < e => Fork(d, e, ends[d])

\* What one epoch's log holds: the window above what is safe, and nothing in the versions
\* that a recovery skipped.
EpochInv(h, end) ==
    /\ \A w \in DOMAIN h : w <= end + Life
    /\ \A w \in DOMAIN h : h[w] = "end" =>
          w <= end /\ LastEpochEnd(w) > 0 /\ \A x \in DOMAIN h : x < w => x <= LastEpochEnd(w)

LogType ==
    /\ log \in [epoch : Nat \ {0}, hist : Seq(Histories), committed : Nat, popped : Nat]
    /\ Len(log.hist) = log.epoch

LogInv(ends) ==
    /\ EndsInv(ends)
    /\ \A e \in 1..log.epoch : EpochInv(Hist(e), ends[e])
    /\ log.committed \in DOMAIN Hist(log.epoch)
    /\ \A w \in DOMAIN Hist(log.epoch) : \A v \in log.committed..w : v \in DOMAIN Hist(log.epoch)

ServerType(s) ==
    s \in [mode : {"restored", "running", "rebooting", "assert"}, version : Nat,
           desiredOldestVersion : Nat, oldestVersion : Nat, durableVersion : Nat,
           storageMinRecoverVersion : Nat, lastVersionWithData : Nat, restoredVersion : Nat,
           recoveryVersionSkips : Seq(Int \X Nat), tree : Trees, mutationLog : MutationLogs,
           peek : Nat]

\* The versions of a server are in order.
Ordered(s) ==
    /\ s.restoredVersion <= s.storageMinRecoverVersion
    /\ s.storageMinRecoverVersion <= s.durableVersion
    /\ s.durableVersion <= s.oldestVersion
    /\ s.oldestVersion <= s.desiredOldestVersion
    /\ s.desiredOldestVersion <= s.version

\* An entry of the map is the value at v; where there is none, the engine has it.
Good(entry, h, durable, v) ==
    \/ entry = NoEntry /\ Quiet(h, durable, v)
    \/ /\ entry.value = DatabaseAt(h, v)
       /\ entry.insertVersion \in DOMAIN h /\ h[entry.insertVersion] \in Touching
       /\ entry.insertVersion <= v /\ Quiet(h, entry.insertVersion, v)

\* versionedData holds the roots of the versions between oldestVersion and version, and
\* no entry in the latest root that is durable.
TreeInv(s, h) ==
    /\ s.oldestVersion \in DOMAIN s.tree /\ s.version \in DOMAIN s.tree
    /\ \A k \in DOMAIN s.tree : s.oldestVersion <= k /\ k <= s.version + 1
    /\ \A w \in DOMAIN h : s.oldestVersion < w /\ w <= s.version /\ h[w] \in Touching => w \in DOMAIN s.tree
    /\ \A k \in DOMAIN s.tree :
          Good(s.tree[k], h, s.durableVersion, IF k <= s.version THEN k ELSE s.version)
    /\ \A k \in DOMAIN s.tree :
          (\A j \in DOMAIN s.tree : j <= k) /\ s.tree[k] # NoEntry => s.tree[k].insertVersion > s.durableVersion

\* The mutation log holds what was applied and is not durable.
MutationsInv(s, h) ==
    /\ DOMAIN s.mutationLog = {w \in DOMAIN h : s.durableVersion < w /\ w <= s.version /\ h[w] # "none"}
    /\ \A w \in DOMAIN s.mutationLog :
          s.mutationLog[w] = IF h[w] = "end" THEN Untouched ELSE DatabaseAt(h, w)

LastDataInv(s, h) ==
    /\ s.restoredVersion <= s.lastVersionWithData /\ s.lastVersionWithData <= s.version
    /\ s.lastVersionWithData = s.restoredVersion \/ HasData(h, s.lastVersionWithData)
    /\ \A w \in DOMAIN h : s.lastVersionWithData < w /\ w <= s.version => h[w] = "none"

\* The memory of a server that applied history h.
Memory(s, h) == Ordered(s) /\ TreeInv(s, h) /\ MutationsInv(s, h) /\ LastDataInv(s, h)

\* The engine is at durableVersion, or as far as updateStorage has got.
EngineInv(h) ==
    /\ kv \in [written : [version : Version, value : Value], disk : [version : Version, value : Value]]
    /\ kv.disk.value = DatabaseAt(h, kv.disk.version)
    /\ kv.written.value = DatabaseAt(h, ss.oldestVersion)
    /\ ss.durableVersion <= kv.disk.version /\ kv.disk.version <= ss.oldestVersion
    /\ dur.phase \in {"idle", "durable", "changing"} => kv.written = kv.disk /\ kv.disk.version = ss.oldestVersion
    /\ dur.phase \in {"idle", "writing", "committing"} => kv.disk.version = ss.durableVersion
    /\ dur.phase = "committing" => kv.written.version = ss.oldestVersion
    /\ log.popped <= kv.disk.version + 1

StoringInv ==
    \/ dur = Idle
    \/ /\ dur \in [phase : {"writing", "committing", "durable", "changing"}, new : Nat, desired : Nat]
       /\ dur.new = ss.oldestVersion /\ dur.new <= dur.desired /\ dur.desired <= ss.desiredOldestVersion
       /\ Serving

UpdateInv(ends, d) ==
    \/ upd = Idle
    \/ /\ upd \in [phase : {"apply"}, epoch : Nat, to : Nat, eager : Value, lastTLogVersion : Nat]
       /\ Running
       /\ d <= upd.epoch /\ upd.epoch <= ss.peek /\ upd.epoch <= log.epoch
       /\ upd.to \in DOMAIN Hist(upd.epoch) /\ upd.to > ss.version
       /\ upd.lastTLogVersion <= ends[upd.epoch] + Life
       /\ AtLatest(ss.tree) = NoEntry => upd.eager = DatabaseAt(Hist(d), ss.version)

\* A server restores a version that no later epoch loses, and peeks only in epochs that
\* end above it.
ModeInv(ends, d) ==
    /\ ss.mode # "assert"
    /\ ss.desiredOldestVersion <= ends[d] /\ ss.version <= ends[d] + Life
    /\ \E w \in DOMAIN Hist(d) : ss.version <= w
    /\ ss.mode = "restored" =>
          /\ d = log.epoch /\ ss.peek = 0 /\ ss.version = ss.restoredVersion
          /\ ss.oldestVersion = ss.restoredVersion
    /\ Serving => ss.restoredVersion < ends[d] /\ d <= ss.peek /\ ss.peek <= log.epoch

ReaderInv ==
    \/ reader = Idle
    \/ /\ reader \in [phase : {"waiting", "engine", "read", "replied"}, version : Nat, value : Value]
       /\ reader.version \in DOMAIN Hist(log.epoch) /\ reader.version <= log.committed
       /\ reader.phase # "replied" => Serving
       /\ reader.phase = "engine" /\ ss.oldestVersion <= reader.version =>
             Quiet(Hist(log.epoch), ss.durableVersion, reader.version)
       /\ reader.phase = "read" /\ ss.oldestVersion <= reader.version =>
             reader.value = DatabaseAt(Hist(log.epoch), reader.version)
       /\ reader.phase = "replied" => reader.value = DatabaseAt(Hist(log.epoch), reader.version)

\* What a server that applied the log of epoch d looks like.
SourceInv(ends, d) ==
    /\ ServerType(ss) /\ Memory(ss, Hist(d)) /\ ModeInv(ends, d)
    /\ EngineInv(Hist(d)) /\ StoringInv /\ UpdateInv(ends, d)

\* The inductive invariant.
IInv ==
    /\ LogType /\ ReaderInv
    /\ \E ends \in [1..log.epoch -> Nat], d \in 1..log.epoch : LogInv(ends) /\ SourceInv(ends, d)

-----------------------------------------------------------------------------
(***************************************************************************)
(* Numbers.                                                                *)
(***************************************************************************)

\* The least number of a set.
LEMMA Least ==
    ASSUME NEW T, T \subseteq Nat, T # {}
    PROVE  \E n \in T : \A m \in T : n <= m
<1> DEFINE R == OpToRel(<, Nat)
<1>1. IsWellFoundedOn(R, Nat)
  BY NatLessThanWellFounded
<1>2. \A m, n \in Nat : m < n => <<m, n>> \in R
  BY DEF OpToRel
<1> HIDE DEF R
<1>3. PICK n \in T : \A m \in T : ~ (<<m, n>> \in R)
  BY <1>1, WFMin
<1>4. ASSUME NEW m \in T PROVE n <= m
  <2>1. m \in Nat /\ n \in Nat /\ ~ (<<m, n>> \in R)
    BY <1>3
  <2>2. ~ (m < n)
    BY <1>2, <2>1
  <2> QED
    BY <2>1, <2>2
<1> QED
  BY <1>4

LEMMA MinIsLeast ==
    ASSUME NEW S, S \subseteq Nat, S # {}
    PROVE  Min(S) \in S /\ Min(S) \in Nat /\ \A y \in S : Min(S) <= y
<1>1. \E x \in S : \A y \in S : x =< y
  BY Least
<1>2. Min(S) \in S /\ \A y \in S : Min(S) =< y
  BY <1>1, Zenon DEF Min
<1> QED
  BY <1>2

\* A bounded set of numbers that is not empty has a greatest one.
LEMMA MaxIsGreatest ==
    ASSUME NEW S, S \subseteq Nat, S # {}, NEW b \in Nat, \A y \in S : y <= b
    PROVE  Max(S) \in S /\ Max(S) \in Nat /\ \A y \in S : y <= Max(S)
<1> DEFINE T == {n \in Nat : \A y \in S : y <= n}
<1>1. T \subseteq Nat /\ T # {}
  OBVIOUS
<1>2. PICK n \in T : \A m \in T : n <= m
  <2> HIDE DEF T
  <2> QED
    BY <1>1, Least
<1>3. n \in S
  <2>1. CASE n = 0
    <3>1. PICK y \in S : y \in Nat
      OBVIOUS
    <3>2. y <= n
      BY <1>2
    <3>3. y = 0
      BY <2>1, <3>1, <3>2
    <3> QED
      BY <2>1, <3>3
  <2>2. CASE n # 0
    <3>1. n - 1 \in Nat /\ n - 1 \notin T
      BY <1>2, <2>2
    <3>2. PICK y \in S : ~ (y <= n - 1)
      BY <3>1
    <3>3. y <= n /\ y \in Nat
      BY <1>2
    <3> QED
      BY <1>2, <3>2, <3>3
  <2> QED
    BY <2>1, <2>2
<1>4. \E x \in S : \A y \in S : x >= y
  BY <1>2, <1>3
<1>5. Max(S) \in S /\ \A y \in S : Max(S) >= y
  BY <1>4, Zenon DEF Max
<1> HIDE DEF T
<1> QED
  BY <1>5

LEMMA MaxOfTwo ==
    ASSUME NEW a \in Int, NEW b \in Int
    PROVE  Max({a, b}) \in {a, b} /\ Max({a, b}) >= a /\ Max({a, b}) >= b
<1>1. \E x \in {a, b} : \A y \in {a, b} : x >= y
  OBVIOUS
<1>2. Max({a, b}) \in {a, b} /\ \A y \in {a, b} : Max({a, b}) >= y
  BY <1>1, Zenon DEF Max
<1> QED
  BY <1>2

LEMMA MinOfTwo ==
    ASSUME NEW a \in Int, NEW b \in Int
    PROVE  Min({a, b}) \in {a, b} /\ Min({a, b}) <= a /\ Min({a, b}) <= b
<1>1. \E x \in {a, b} : \A y \in {a, b} : x =< y
  OBVIOUS
<1>2. Min({a, b}) \in {a, b} /\ \A y \in {a, b} : Min({a, b}) =< y
  BY <1>1, Zenon DEF Min
<1> QED
  BY <1>2

LEMMA MaxOfThree ==
    ASSUME NEW a \in Int, NEW b \in Int, NEW c \in Int
    PROVE  /\ Max({a, b, c}) \in {a, b, c}
           /\ Max({a, b, c}) >= a /\ Max({a, b, c}) >= b /\ Max({a, b, c}) >= c
<1>1. \E x \in {a, b, c} : \A y \in {a, b, c} : x >= y
  OBVIOUS
<1>2. Max({a, b, c}) \in {a, b, c} /\ \A y \in {a, b, c} : Max({a, b, c}) >= y
  BY <1>1, Zenon DEF Max
<1> QED
  BY <1>2

-----------------------------------------------------------------------------
(***************************************************************************)
(* The numbers of a set in order.                                          *)
(***************************************************************************)

LEMMA SeqOfMore ==
    ASSUME NEW S, NEW T, S \subseteq T, NEW s \in Seq(S)
    PROVE  s \in Seq(T)
<1>1. Len(s) \in Nat /\ s \in [1..Len(s) -> S]
  OBVIOUS
<1>2. s \in [1..Len(s) -> T]
  BY <1>1
<1> QED
  BY <1>1, <1>2

LEMMA ConcatAssociates ==
    ASSUME NEW S, NEW r \in Seq(S), NEW s \in Seq(S), NEW t \in Seq(S)
    PROVE  (r \o s) \o t = r \o (s \o t)
OBVIOUS

\* How many numbers of S are at most w.
Rank(S, w) == Cardinality({x \in S : x <= w})

LEMMA RankType ==
    ASSUME NEW S, S \subseteq Nat, NEW b \in Nat, \A y \in S : y <= b, NEW w
    PROVE  /\ IsFiniteSet(S) /\ Cardinality(S) \in Nat
           /\ IsFiniteSet({x \in S : x <= w}) /\ Rank(S, w) \in Nat /\ Rank(S, w) <= Cardinality(S)
<1>1. IsFiniteSet(S)
  BY FS_BoundedSetOfNaturals
<1>2. {x \in S : x <= w} \in SUBSET S
  OBVIOUS
<1> QED
  BY <1>1, <1>2, FS_Subset, FS_CardinalityType DEF Rank

\* A greater number of the set has a greater rank.
LEMMA RankGrows ==
    ASSUME NEW S, S \subseteq Nat, NEW b \in Nat, \A y \in S : y <= b,
           NEW v \in S, NEW w \in S, v < w
    PROVE  Rank(S, v) < Rank(S, w)
<1> DEFINE A == {x \in S : x <= v}
           B == {x \in S : x <= w}
<1>1. A \in SUBSET B /\ A # B
  <2>1. \A x \in S : x \in Nat
    OBVIOUS
  <2>2. \A x \in S : x <= v => x <= w
    BY <2>1
  <2>3. w \in B /\ w \notin A
    BY <2>1
  <2> QED
    BY <2>2, <2>3
<1>2. IsFiniteSet(B) /\ Cardinality(B) \in Nat /\ Cardinality(A) \in Nat
  BY RankType DEF Rank
<1>3. Cardinality(A) <= Cardinality(B) /\ Cardinality(B) # Cardinality(A)
  <2> HIDE DEF A, B
  <2> QED
    BY <1>1, <1>2, FS_Subset
<1> QED
  BY <1>2, <1>3 DEF Rank

LEMMA RankUnique ==
    ASSUME NEW S, S \subseteq Nat, NEW b \in Nat, \A y \in S : y <= b,
           NEW v \in S, NEW w \in S, Rank(S, v) = Rank(S, w)
    PROVE  v = w
<1>1. v \in Nat /\ w \in Nat /\ Rank(S, v) \in Nat /\ Rank(S, w) \in Nat
  BY RankType
<1>2. ASSUME v < w PROVE FALSE
  <2>1. Rank(S, v) < Rank(S, w)
    BY <1>2, RankGrows
  <2> QED
    BY <1>1, <2>1
<1>3. ASSUME w < v PROVE FALSE
  <2>1. Rank(S, w) < Rank(S, v)
    BY <1>3, RankGrows
  <2> QED
    BY <1>1, <2>1
<1> QED
  BY <1>1, <1>2, <1>3

\* Every rank is taken.
LEMMA RankTaken ==
    ASSUME NEW S, S \subseteq Nat, NEW b \in Nat, \A y \in S : y <= b,
           NEW i \in 1..Cardinality(S)
    PROVE  \E w \in S : Rank(S, w) = i
<1> DEFINE T == {k \in Nat : Rank(S, k) >= i}
<1>1. Cardinality(S) \in Nat /\ \A k : Rank(S, k) \in Nat /\ IsFiniteSet({x \in S : x <= k})
  BY RankType
<1>2. b \in T
  <2>1. {x \in S : x <= b} = S
    OBVIOUS
  <2> QED
    BY <1>1, <2>1 DEF Rank
<1>3. PICK k \in T : \A m \in T : k <= m
  <2>1. T \subseteq Nat /\ T # {}
    BY <1>2
  <2> HIDE DEF T
  <2> QED
    BY <2>1, Least
<1>4. k \in Nat /\ Rank(S, k) >= i
  BY <1>3
<1> DEFINE B == {x \in S : x <= k - 1}
<1>51. \A x \in S : x \in Nat /\ (x <= k <=> x <= k - 1 \/ x = k) /\ ~ (k <= k - 1)
  BY <1>4
<1>5. IsFiniteSet(B) /\ Cardinality(B) \in Nat
  BY <1>1 DEF Rank
<1>6. Cardinality(B) < i
  <2>1. CASE k = 0
    <3>1. \A x \in S : x \in Nat /\ ~ (x <= 0 - 1)
      BY <1>51
    <3>2. B = {}
      BY <2>1, <3>1
    <3> QED
      BY <3>2, FS_EmptySet
  <2>2. CASE k # 0
    <3>1. k - 1 \in Nat /\ k - 1 \notin T
      BY <1>3, <1>4, <2>2
    <3>2. ~ (Rank(S, k - 1) >= i)
      BY <3>1
    <3>3. i \in Nat
      BY <1>1
    <3>4. Rank(S, k - 1) < i
      <4> DEFINE j == k - 1
      <4>1. Rank(S, j) \in Nat
        <5> HIDE DEF j
        <5> QED
          BY <1>1
      <4> QED
        BY <3>2, <3>3, <4>1
    <3> QED
      BY <3>4 DEF Rank
  <2> QED
    BY <2>1, <2>2
<1>7. k \in S
  <2>1. SUFFICES ASSUME k \notin S PROVE FALSE
    OBVIOUS
  <2>2. {x \in S : x <= k} = B
    BY <1>51, <2>1
  <2> QED
    BY <1>4, <1>5, <1>6, <2>2 DEF Rank
<1>8. {x \in S : x <= k} = B \cup {k} /\ k \notin B
  BY <1>51, <1>7
<1>9. Cardinality(B \cup {k}) = Cardinality(B) + 1
  <2> HIDE DEF B
  <2> QED
    BY <1>5, <1>8, FS_AddElement
<1>10. Rank(S, k) = Cardinality(B) + 1
  BY <1>8, <1>9 DEF Rank
<1> QED
  BY <1>4, <1>5, <1>6, <1>7, <1>10

LEMMA AscendingRank ==
    ASSUME NEW S, S \subseteq Nat, NEW b \in Nat, \A y \in S : y <= b
    PROVE  /\ DOMAIN Ascending(S) = 1..Cardinality(S)
           /\ \A i \in 1..Cardinality(S) : Ascending(S)[i] \in S /\ Rank(S, Ascending(S)[i]) = i
<1>1. DOMAIN Ascending(S) = 1..Cardinality(S)
  BY DEF Ascending
<1>2. ASSUME NEW i \in 1..Cardinality(S)
      PROVE  Ascending(S)[i] \in S /\ Rank(S, Ascending(S)[i]) = i
  <2>1. \E w \in S : Cardinality({x \in S : x <= w}) = i
    BY RankTaken DEF Rank
  <2>2. Ascending(S)[i] = CHOOSE w \in S : Cardinality({x \in S : x <= w}) = i
    BY DEF Ascending
  <2>3. /\ (CHOOSE w \in S : Cardinality({x \in S : x <= w}) = i) \in S
        /\ Cardinality({y \in S : y <= (CHOOSE w \in S : Cardinality({x \in S : x <= w}) = i)}) = i
    BY <2>1, Zenon
  <2> QED
    BY <2>2, <2>3 DEF Rank
<1> QED
  BY <1>1, <1>2

LEMMA AscendingType ==
    ASSUME NEW S, S \subseteq Nat, NEW b \in Nat, \A y \in S : y <= b
    PROVE  Ascending(S) \in Seq(S) /\ Len(Ascending(S)) = Cardinality(S) /\ Cardinality(S) \in Nat
<1>1. Cardinality(S) \in Nat
  BY RankType
<1>2. Ascending(S) \in [1..Cardinality(S) -> S]
  <2>1. Ascending(S) = [i \in 1..Cardinality(S) |-> Ascending(S)[i]]
    BY DEF Ascending
  <2> QED
    BY <2>1, AscendingRank
<1> QED
  BY <1>1, <1>2

\* The numbers of two sets, one above the other, are those of one and then the other.
LEMMA AscendingSplit ==
    ASSUME NEW S, NEW T, S \subseteq Nat, T \subseteq Nat, NEW b \in Nat, \A y \in S \cup T : y <= b,
           \A x \in S, y \in T : x < y
    PROVE  Ascending(S \cup T) = Ascending(S) \o Ascending(T)
<1> DEFINE U == S \cup T
<1>1. /\ IsFiniteSet(S) /\ IsFiniteSet(T) /\ Cardinality(S) \in Nat /\ Cardinality(T) \in Nat
      /\ S \cap T = {} /\ U \subseteq Nat /\ \A y \in U : y <= b
  <2>1. \A y \in S : y \in Nat /\ y <= b /\ ~ (y < y)
    OBVIOUS
  <2>2. \A y \in T : y \in Nat /\ y <= b
    OBVIOUS
  <2>3. S \cap T = {}
    BY <2>1
  <2>4. IsFiniteSet(S) /\ Cardinality(S) \in Nat
    BY <2>1, RankType
  <2>5. IsFiniteSet(T) /\ Cardinality(T) \in Nat
    BY <2>2, RankType
  <2> QED
    BY <2>1, <2>2, <2>3, <2>4, <2>5
<1>2. Cardinality(U) = Cardinality(S) + Cardinality(T)
  <2>1. Cardinality(U) = Cardinality(S) + Cardinality(T) - Cardinality(S \cap T)
    BY <1>1, FS_Union
  <2>2. Cardinality(S \cap T) = 0
    BY <1>1, FS_EmptySet
  <2> QED
    BY <1>1, <2>1, <2>2
<1>3. ASSUME NEW i \in 1..Cardinality(S) PROVE Ascending(U)[i] = Ascending(S)[i]
  <2> DEFINE w == Ascending(S)[i]
  <2>1. w \in S /\ Rank(S, w) = i
    BY AscendingRank
  <2>2. {x \in U : x <= w} = {x \in S : x <= w}
    <3>1. w \in Nat /\ \A y \in T : y \in Nat /\ w < y
      BY <2>1
    <3>2. \A y \in T : ~ (y <= w)
      BY <3>1
    <3> HIDE DEF w
    <3> QED
      BY <3>2
  <2>3. Rank(U, w) = i
    BY <2>1, <2>2 DEF Rank
  <2>4. i \in 1..Cardinality(U)
    BY <1>1, <1>2
  <2>5. Ascending(U)[i] \in U /\ Rank(U, Ascending(U)[i]) = i
    BY <1>1, <2>4, AscendingRank
  <2> HIDE DEF w, U
  <2> QED
    BY <1>1, <2>1, <2>3, <2>5, RankUnique DEF w, U
<1>4. ASSUME NEW i \in 1..Cardinality(T) PROVE Ascending(U)[Cardinality(S) + i] = Ascending(T)[i]
  <2> DEFINE w == Ascending(T)[i]
             j == Cardinality(S) + i
  <2>1. w \in T /\ Rank(T, w) = i
    BY AscendingRank
  <2>2. {x \in U : x <= w} = S \cup {x \in T : x <= w} /\ S \cap {x \in T : x <= w} = {}
    <3>1. w \in Nat /\ \A y \in S : y \in Nat /\ y < w
      BY <2>1
    <3>2. \A y \in S : y <= w
      BY <3>1
    <3> HIDE DEF w
    <3> QED
      BY <1>1, <3>2
  <2>3. IsFiniteSet({x \in T : x <= w})
    BY RankType
  <2>4. Cardinality(S \cup {x \in T : x <= w}) = Cardinality(S) + Cardinality({x \in T : x <= w})
    BY <1>1, <2>1, <2>2, <2>3, FS_Union, FS_EmptySet DEF Rank
  <2>5. Rank(U, w) = j
    BY <2>1, <2>2, <2>4 DEF Rank
  <2>6. j \in 1..Cardinality(U)
    BY <1>1, <1>2
  <2>7. Ascending(U)[j] \in U /\ Rank(U, Ascending(U)[j]) = j
    BY <1>1, <2>6, AscendingRank
  <2>8. w \in U
    BY <2>1
  <2> HIDE DEF w, j, U
  <2>9. Ascending(U)[j] = w
    BY <1>1, <2>5, <2>7, <2>8, RankUnique
  <2> QED
    BY <2>9 DEF w, j
<1>5. /\ Ascending(S) \in Seq(Nat) /\ Len(Ascending(S)) = Cardinality(S)
      /\ Ascending(T) \in Seq(Nat) /\ Len(Ascending(T)) = Cardinality(T)
      /\ Ascending(U) \in Seq(Nat) /\ Len(Ascending(U)) = Cardinality(U)
  <2>1. Ascending(S) \in Seq(S) /\ Len(Ascending(S)) = Cardinality(S)
    BY AscendingType
  <2>2. Ascending(T) \in Seq(T) /\ Len(Ascending(T)) = Cardinality(T)
    BY AscendingType
  <2>3. Ascending(U) \in Seq(U) /\ Len(Ascending(U)) = Cardinality(U)
    <3> HIDE DEF U
    <3> QED
      BY <1>1, AscendingType
  <2>4. Ascending(S) \in Seq(Nat) /\ Ascending(T) \in Seq(Nat)
    BY <2>1, <2>2, SeqOfMore
  <2>5. Ascending(U) \in Seq(Nat)
    <3> HIDE DEF U
    <3> QED
      BY <1>1, <2>3, SeqOfMore
  <2> QED
    BY <2>1, <2>2, <2>3, <2>4, <2>5
<1> HIDE DEF U
<1>6. /\ Ascending(S) \o Ascending(T) \in Seq(Nat)
      /\ Len(Ascending(S) \o Ascending(T)) = Cardinality(U)
  BY <1>2, <1>5
<1>7. ASSUME NEW i \in 1..Cardinality(U) PROVE Ascending(U)[i] = (Ascending(S) \o Ascending(T))[i]
  <2>1. CASE i <= Cardinality(S)
    BY <1>1, <1>3, <1>5, <2>1
  <2>2. CASE i > Cardinality(S)
    <3>1. i - Cardinality(S) \in 1..Cardinality(T) /\ Cardinality(S) + (i - Cardinality(S)) = i
      BY <1>1, <1>2, <2>2
    <3>2. Ascending(U)[i] = Ascending(T)[i - Cardinality(S)]
      BY <1>4, <3>1
    <3> QED
      BY <1>1, <1>2, <1>5, <2>2, <3>1, <3>2
  <2>3. i <= Cardinality(S) \/ i > Cardinality(S)
    BY <1>1, <1>2
  <2> QED
    BY <2>1, <2>2, <2>3
<1>8. Ascending(U) = Ascending(S) \o Ascending(T)
  <2> DEFINE a == Ascending(U)
             c == Ascending(S) \o Ascending(T)
  <2>1. a \in Seq(Nat) /\ c \in Seq(Nat) /\ Len(a) = Len(c) /\ \A i \in 1..Len(a) : a[i] = c[i]
    BY <1>5, <1>6, <1>7
  <2> HIDE DEF a, c
  <2>2. a = c
    BY <2>1
  <2> QED
    BY <2>2 DEF a, c
<1> QED
  BY <1>8 DEF U

-----------------------------------------------------------------------------
(***************************************************************************)
(* What mutations make of a value.                                         *)
(***************************************************************************)

Mutations(h, vs) == {w \in vs : h[w] \in Touching}
Blind(h, vs) == {w \in Mutations(h, vs) : h[w] # "add"}
Since(h, vs) == {w \in Mutations(h, vs) : h[w] # "clear" /\ \A x \in Blind(h, vs) : x <= w}

LEMMA ValueAfterIs ==
    ASSUME NEW old, NEW h, NEW vs
    PROVE  ValueAfter(old, h, vs) = (IF Blind(h, vs) = {} THEN old ELSE <<>>) \o Ascending(Since(h, vs))
BY DEF ValueAfter, Mutations, Blind, Since, Touching

\* A value depends on the versions that touch the key, and on what they do.
LEMMA ValueDepends ==
    ASSUME NEW old, NEW g, NEW h, NEW us, NEW vs,
           Mutations(g, us) = Mutations(h, vs), \A w \in Mutations(h, vs) : g[w] = h[w]
    PROVE  ValueAfter(old, g, us) = ValueAfter(old, h, vs)
<1>1. Blind(g, us) = Blind(h, vs)
  BY DEF Blind
<1>2. Since(g, us) = Since(h, vs)
  BY <1>1 DEF Since
<1> QED
  BY <1>1, <1>2, ValueAfterIs

LEMMA ValueType ==
    ASSUME NEW old \in Value, NEW h, NEW vs, vs \subseteq Nat, NEW b \in Nat, \A w \in vs : w <= b
    PROVE  ValueAfter(old, h, vs) \in Value
<1>1. Since(h, vs) \subseteq Nat /\ \A w \in Since(h, vs) : w <= b
  BY DEF Since, Mutations
<1>2. Ascending(Since(h, vs)) \in Seq(Nat)
  BY <1>1, AscendingType, SeqOfMore
<1> DEFINE base == IF Blind(h, vs) = {} THEN old ELSE <<>>
<1>3. base \in Seq(Nat)
  BY DEF Value
<1>4. ValueAfter(old, h, vs) = base \o Ascending(Since(h, vs))
  BY ValueAfterIs
<1> HIDE DEF base
<1> QED
  BY <1>2, <1>3, <1>4 DEF Value

\* Two sets of versions, one above the other.
Stacked(us, vs, b) ==
    /\ us \in SUBSET Nat /\ vs \in SUBSET Nat /\ b \in Nat
    /\ (\A w \in us : w <= b) /\ (\A w \in vs : w <= b)
    /\ \A x \in us : \A y \in vs : x < y

\* Mutations in two steps.
LEMMA ValueInSteps ==
    ASSUME NEW old, old \in Value, NEW h, NEW us, NEW vs, NEW b, Stacked(us, vs, b)
    PROVE  ValueAfter(ValueAfter(old, h, us), h, vs) = ValueAfter(old, h, us \cup vs)
<1> DEFINE all == us \cup vs
<1>1. b \in Nat /\ us \in SUBSET Nat /\ vs \in SUBSET Nat /\ \A w \in all : w \in Nat /\ w <= b
  BY DEF Stacked
<1>2. Mutations(h, all) = Mutations(h, us) \cup Mutations(h, vs)
  BY DEF Mutations
<1>3. Blind(h, all) = Blind(h, us) \cup Blind(h, vs)
  BY <1>2 DEF Blind
<1>4. \A x \in us, y \in vs : x \in Nat /\ y \in Nat /\ x <= y /\ ~ (y <= x) /\ x < y
  BY DEF Stacked
<1>5. Blind(h, us) \subseteq us /\ Blind(h, vs) \subseteq vs /\ Since(h, us) \subseteq us /\ Since(h, vs) \subseteq vs
  BY DEF Since, Blind, Mutations
<1>6. CASE Blind(h, vs) # {}
  <2>1. PICK y \in vs : y \in Blind(h, vs)
    BY <1>5, <1>6
  <2>2. Since(h, all) = Since(h, vs)
    <3>1. ASSUME NEW w \in Since(h, all) PROVE w \in Since(h, vs)
      <4>1. w \in Mutations(h, all) /\ h[w] # "clear" /\ y <= w
        BY <1>3, <2>1, <3>1 DEF Since
      <4>2. w \notin us
        BY <1>4, <2>1, <4>1
      <4>3. w \in Mutations(h, vs)
        BY <4>1, <4>2 DEF Mutations
      <4> QED
        BY <1>3, <3>1, <4>1, <4>3 DEF Since
    <3>2. ASSUME NEW w \in Since(h, vs) PROVE w \in Since(h, all)
      <4>1. w \in Mutations(h, vs) /\ w \in vs /\ h[w] # "clear" /\ \A x \in Blind(h, vs) : x <= w
        BY <3>2 DEF Since, Mutations
      <4>2. \A x \in Blind(h, us) : x <= w
        BY <1>4, <1>5, <4>1
      <4> QED
        BY <1>2, <1>3, <4>1, <4>2 DEF Since
    <3> QED
      BY <3>1, <3>2
  <2>3. Blind(h, all) # {}
    BY <1>3, <1>6
  <2> QED
    BY <1>6, <2>2, <2>3, ValueAfterIs
<1>7. CASE Blind(h, vs) = {}
  <2>1. Blind(h, all) = Blind(h, us)
    BY <1>3, <1>7
  <2>2. Since(h, all) = Since(h, us) \cup Since(h, vs)
    <3>1. ASSUME NEW w \in Since(h, all) PROVE w \in Since(h, us) \cup Since(h, vs)
      BY <1>2, <1>7, <2>1 DEF Since
    <3>2. ASSUME NEW w \in Since(h, us) PROVE w \in Since(h, all)
      BY <1>2, <2>1 DEF Since
    <3>3. ASSUME NEW w \in Since(h, vs) PROVE w \in Since(h, all)
      <4>1. w \in Mutations(h, vs) /\ w \in vs /\ h[w] # "clear"
        BY <3>3 DEF Since, Mutations
      <4>2. \A x \in Blind(h, us) : x <= w
        BY <1>4, <1>5, <4>1
      <4> QED
        BY <1>2, <2>1, <4>1, <4>2 DEF Since
    <3> QED
      BY <3>1, <3>2, <3>3
  <2> DEFINE S == Since(h, us)
             T == Since(h, vs)
             base == IF Blind(h, us) = {} THEN old ELSE <<>>
  <2>3. S \subseteq Nat /\ T \subseteq Nat /\ (\A w \in S \cup T : w <= b) /\ \A x \in S, y \in T : x < y
    BY <1>1, <1>4, <1>5
  <2>4. Ascending(Since(h, all)) = Ascending(S) \o Ascending(T)
    <3> HIDE DEF S, T
    <3>1. Ascending(S \cup T) = Ascending(S) \o Ascending(T)
      BY <1>1, <2>3, AscendingSplit
    <3> QED
      BY <2>2, <3>1 DEF S, T
  <2>5. Ascending(S) \in Seq(Nat) /\ Ascending(T) \in Seq(Nat) /\ base \in Seq(Nat)
    <3>1. base \in Seq(Nat)
      BY DEF Value
    <3> HIDE DEF S, T, base
    <3>2. (\A w \in S : w <= b) /\ (\A w \in T : w <= b)
      BY <2>3
    <3> QED
      BY <1>1, <2>3, <3>1, <3>2, AscendingType, SeqOfMore
  <2>6. ValueAfter(old, h, us) = base \o Ascending(S)
    BY ValueAfterIs
  <2>7. ValueAfter(old, h, all) = base \o (Ascending(S) \o Ascending(T))
    BY <2>1, <2>4, ValueAfterIs
  <2>8. ValueAfter(ValueAfter(old, h, us), h, vs) = (base \o Ascending(S)) \o Ascending(T)
    BY <1>7, <2>6, ValueAfterIs
  <2>9. (base \o Ascending(S)) \o Ascending(T) = base \o (Ascending(S) \o Ascending(T))
    <3> HIDE DEF base
    <3> QED
      BY <2>5, ConcatAssociates
  <2> HIDE DEF base, S, T
  <2> QED
    BY <2>7, <2>8, <2>9
<1> QED
  BY <1>6, <1>7

\* The value of the key is one of the versions in a history.
LEMMA DatabaseType ==
    ASSUME NEW h, Dated(h), NEW v \in Nat
    PROVE  DatabaseAt(h, v) \in Value
<1> DEFINE vs == {w \in DOMAIN h : w <= v}
<1>1. vs \subseteq Nat /\ \A w \in vs : w <= v
  BY DEF Dated
<1>2. <<>> \in Value
  BY DEF Value
<1> HIDE DEF vs
<1> QED
  BY <1>1, <1>2, ValueType DEF DatabaseAt, vs

\* A mutation is never taken for a version without one.
LEMMA DatabaseNotUntouched ==
    ASSUME NEW h, Dated(h), NEW v \in Nat
    PROVE  DatabaseAt(h, v) # Untouched
<1> DEFINE vs == {w \in DOMAIN h : w <= v}
           S == Since(h, vs)
<1>1. S \subseteq Nat /\ 0 \notin S /\ \A w \in S : w <= v
  BY DEF Since, Mutations, Dated
<1>2. DatabaseAt(h, v) = <<>> \o Ascending(S)
  BY ValueAfterIs DEF DatabaseAt
<1> HIDE DEF S
<1>3. Ascending(S) \in Seq(S)
  BY <1>1, AscendingType
<1>4. <<>> \o Ascending(S) = Ascending(S)
  BY <1>3
<1>5. Ascending(S) # Untouched
  <2> SUFFICES ASSUME Ascending(S) = Untouched PROVE FALSE
    OBVIOUS
  <2>1. Len(Ascending(S)) = 1 /\ Ascending(S)[1] = 0
    BY DEF Untouched
  <2>2. Ascending(S)[1] \in S
    BY <1>3, <2>1
  <2> QED
    BY <1>1, <2>1, <2>2
<1> QED
  BY <1>2, <1>4, <1>5

\* Histories with the same data make the same value.
LEMMA DatabaseSame ==
    ASSUME NEW g, NEW h, Dated(g), Dated(h),
           NEW v \in Nat, NEW u \in Nat, u <= v, SameData(g, h, v)
    PROVE  DatabaseAt(g, u) = DatabaseAt(h, u)
<1> DEFINE us == {w \in DOMAIN g : w <= u}
           vs == {w \in DOMAIN h : w <= u}
<1>1. \A x \in Touching : x # "none"
  BY DEF Touching
<1>2. \A w \in Nat : w <= u => w <= v
  OBVIOUS
<1>3. \A w \in Mutations(g, us) : w \in Mutations(h, vs) /\ g[w] = h[w]
  BY <1>1, <1>2 DEF Mutations, SameData, Dated
<1>4. \A w \in Mutations(h, vs) : w \in Mutations(g, us) /\ g[w] = h[w]
  BY <1>1, <1>2 DEF Mutations, SameData, Dated
<1>5. Mutations(g, us) = Mutations(h, vs)
  BY <1>3, <1>4
<1> HIDE DEF us, vs
<1> QED
  BY <1>4, <1>5, ValueDepends DEF DatabaseAt, us, vs

\* Where nothing touches the key its value stays.
LEMMA DatabaseQuiet ==
    ASSUME NEW h, Dated(h), NEW a \in Nat, NEW b \in Nat, a <= b, Quiet(h, a, b)
    PROVE  DatabaseAt(h, a) = DatabaseAt(h, b)
<1> DEFINE us == {w \in DOMAIN h : w <= a}
           vs == {w \in DOMAIN h : w <= b}
<1>1. \A w \in DOMAIN h : w \in Nat /\ (w <= a => w <= b) /\ (w <= b => w <= a \/ a < w)
  BY DEF Dated
<1>2. Mutations(h, us) = Mutations(h, vs)
  BY <1>1 DEF Mutations, Quiet
<1> HIDE DEF us, vs
<1> QED
  BY <1>2, ValueDepends DEF DatabaseAt, us, vs

\* All mutations of the key between two versions, and nothing outside.
Covers(vs, h, a, b) ==
    /\ \A w \in vs : w \in DOMAIN h /\ a < w /\ w <= b
    /\ \A w \in DOMAIN h : a < w /\ w <= b /\ h[w] \in Touching => w \in vs

\* The value after a batch that starts above version a.
LEMMA DatabaseExtends ==
    ASSUME NEW h, Dated(h), NEW a \in Nat, NEW b \in Nat, a <= b,
           NEW vs, Covers(vs, h, a, b)
    PROVE  ValueAfter(DatabaseAt(h, a), h, vs) = DatabaseAt(h, b)
<1> DEFINE us == {w \in DOMAIN h : w <= a}
           all == {w \in DOMAIN h : w <= b}
<1>1. \A w \in DOMAIN h : w \in Nat /\ (w <= a => w <= b) /\ (w <= b => w <= a \/ a < w)
  BY DEF Dated
<1>2. us \subseteq Nat /\ vs \subseteq Nat /\ \A w \in us \cup vs : w <= b
  BY <1>1 DEF Covers
<1>3. \A x \in us, y \in vs : x < y
  BY <1>1 DEF Covers
<1>4. <<>> \in Value
  BY DEF Value
<1>5. Mutations(h, us \cup vs) = Mutations(h, all)
  BY <1>1 DEF Mutations, Covers
<1>6. ValueAfter(ValueAfter(<<>>, h, us), h, vs) = ValueAfter(<<>>, h, us \cup vs)
  <2> DEFINE old == <<>>
  <2>1. old \in Value
    BY <1>4
  <2> HIDE DEF us, old
  <2>2. ValueAfter(ValueAfter(old, h, us), h, vs) = ValueAfter(old, h, us \cup vs)
    <3>1. Stacked(us, vs, b)
      BY <1>2, <1>3 DEF Stacked
    <3> QED
      BY <2>1, <3>1, ValueInSteps
  <2> QED
    BY <2>2 DEF old
<1>7. ValueAfter(<<>>, h, us \cup vs) = ValueAfter(<<>>, h, all)
  <2> HIDE DEF us, all
  <2> QED
    BY <1>5, ValueDepends
<1> QED
  BY <1>6, <1>7 DEF DatabaseAt

-----------------------------------------------------------------------------
(***************************************************************************)
(* The versions that recoveries skipped.                                   *)
(***************************************************************************)

LEMMA SkippedType ==
    ASSUME NEW skips \in Seq(Int \X Nat)
    PROVE  Skipped(skips) \in Nat
<1> DEFINE n == Len(skips)
           Sums(f, k) == f = [i \in 0..k |-> IF i = 0 THEN 0 ELSE f[i - 1] + skips[i][2]]
           T == {k \in 0..n : ~ \E f : Sums(f, k)}
<1>1. n \in Nat /\ \A i \in 1..n : skips[i][2] \in Nat
  OBVIOUS
<1>2. T = {}
  <2>1. SUFFICES ASSUME T # {} PROVE FALSE
    OBVIOUS
  <2>2. T \subseteq Nat
    BY <1>1
  <2>3. PICK k \in T : \A m \in T : k <= m
    <3> HIDE DEF T
    <3> QED
      BY <2>1, <2>2, Least
  <2>4. k \in Nat /\ k <= n /\ ~ \E f : Sums(f, k)
    BY <1>1, <2>3
  <2>5. CASE k = 0
    <3> DEFINE f == [i \in 0..0 |-> 0]
    <3>1. Sums(f, 0)
      OBVIOUS
    <3> QED
      BY <2>4, <2>5, <3>1
  <2>6. CASE k # 0
    <3>1. k - 1 \in 0..n /\ k - 1 \notin T
      <4>1. k - 1 \in 0..n /\ ~ (k <= k - 1)
        BY <1>1, <2>4, <2>6
      <4> HIDE DEF T
      <4> QED
        BY <2>3, <4>1
    <3>2. PICK f : Sums(f, k - 1)
      BY <3>1
    <3> DEFINE g == [i \in 0..k |-> IF i = 0 THEN 0 ELSE f[i - 1] + skips[i][2]]
    <3>3. \A i \in 0..(k - 1) : g[i] = f[i]
      <4>1. \A i \in 0..(k - 1) : i \in 0..k
        BY <2>4
      <4>2. \A i \in 0..k : g[i] = IF i = 0 THEN 0 ELSE f[i - 1] + skips[i][2]
        OBVIOUS
      <4>3. \A i \in 0..(k - 1) : f[i] = IF i = 0 THEN 0 ELSE f[i - 1] + skips[i][2]
        BY <3>2
      <4> HIDE DEF g
      <4> QED
        BY <4>1, <4>2, <4>3
    <3>4. \A i \in 0..k : i # 0 => i - 1 \in 0..(k - 1)
      BY <2>4
    <3>5. \A i \in 0..k : g[i] = IF i = 0 THEN 0 ELSE g[i - 1] + skips[i][2]
      BY <3>3, <3>4
    <3>6. Sums(g, k)
      BY <3>5
    <3> QED
      BY <2>4, <3>6
  <2> QED
    BY <2>5, <2>6
<1> DEFINE sum == CHOOSE f : Sums(f, n)
<1>3. Sums(sum, n)
  <2>1. \E f : Sums(f, n)
    BY <1>1, <1>2
  <2> HIDE DEF Sums
  <2> QED
    BY <2>1
<1>4. Skipped(skips) = sum[n]
  BY DEF Skipped
<1> HIDE DEF sum
<1>5. \A i \in 0..n : sum[i] = IF i = 0 THEN 0 ELSE sum[i - 1] + skips[i][2]
  BY <1>3
<1> DEFINE U == {k \in 0..n : sum[k] \notin Nat}
<1>6. U = {}
  <2>1. SUFFICES ASSUME U # {} PROVE FALSE
    OBVIOUS
  <2>2. U \subseteq Nat
    BY <1>1
  <2>3. PICK k \in U : \A m \in U : k <= m
    <3> HIDE DEF U
    <3> QED
      BY <2>1, <2>2, Least
  <2>4. k \in 0..n /\ k \in Nat /\ sum[k] \notin Nat
    BY <1>1, <2>3
  <2>5. k # 0
    BY <1>5, <2>4
  <2>6. k - 1 \in 0..n /\ k - 1 \notin U /\ k \in 1..n
    BY <1>1, <2>3, <2>4, <2>5
  <2>7. sum[k - 1] \in Nat
    BY <2>6
  <2>8. sum[k] = sum[k - 1] + skips[k][2] /\ skips[k][2] \in Nat
    BY <1>1, <1>5, <2>4, <2>5, <2>6
  <2> QED
    BY <2>4, <2>7, <2>8
<1> QED
  BY <1>1, <1>4, <1>6

-----------------------------------------------------------------------------
(***************************************************************************)
(* The versioned map.                                                      *)
(***************************************************************************)

LEMMA TreeFacts ==
    ASSUME NEW t \in Trees
    PROVE  DOMAIN t \subseteq Nat /\ \A k \in DOMAIN t : t[k] \in Entry
BY DEF Trees

LEMMA IsTree ==
    ASSUME NEW D, D \subseteq Nat, NEW t, t \in [D -> Entry]
    PROVE  t \in Trees
BY DEF Trees

LEMMA IsMutationLog ==
    ASSUME NEW D, D \subseteq Nat, NEW t, t \in [D -> Value]
    PROVE  t \in MutationLogs
BY DEF MutationLogs

LEMMA NoEntryType == NoEntry \in Entry /\ NoEntry.insertVersion = 0
BY DEF NoEntry, Entry, Value

\* The root that a read at v meets.
RootOf(t, v, k) ==
    k \in DOMAIN t /\ k \in Nat /\ k <= v /\ (\A j \in DOMAIN t : j <= v => j <= k) /\ At(t, v) = t[k]

LEMMA AtRoot ==
    ASSUME NEW t \in Trees, NEW v \in Nat, NEW m \in DOMAIN t, m <= v
    PROVE  \E k : RootOf(t, v, k)
<1> DEFINE S == {w \in DOMAIN t : w <= v}
<1>1. S \subseteq Nat /\ S # {} /\ \A y \in S : y <= v
  BY TreeFacts
<1>2. At(t, v) = t[Max(S)]
  BY DEF At
<1>3. Max(S) \in S /\ Max(S) \in Nat /\ \A y \in S : y <= Max(S)
  <2> HIDE DEF S
  <2> QED
    BY <1>1, MaxIsGreatest
<1>4. Max(S) \in DOMAIN t /\ Max(S) <= v
  BY <1>3
<1>5. \A j \in DOMAIN t : j <= v => j <= Max(S)
  BY <1>3
<1>6. RootOf(t, v, Max(S))
  <2> HIDE DEF S
  <2> QED
    BY <1>2, <1>3, <1>4, <1>5 DEF RootOf
<1> QED
  BY <1>6

LEMMA LatestRoot ==
    ASSUME NEW t \in Trees, NEW b \in Nat, DOMAIN t # {}, \A k \in DOMAIN t : k <= b
    PROVE  /\ LatestVersion(t) \in DOMAIN t /\ LatestVersion(t) \in Nat
           /\ \A j \in DOMAIN t : j <= LatestVersion(t)
           /\ AtLatest(t) = t[LatestVersion(t)] /\ AtLatest(t) \in Entry
<1>1. DOMAIN t \subseteq Nat
  BY TreeFacts
<1> DEFINE D == DOMAIN t
<1>2. Max(D) \in D /\ Max(D) \in Nat /\ \A y \in D : y <= Max(D)
  <2>1. D \subseteq Nat /\ D # {} /\ \A y \in D : y <= b
    BY <1>1
  <2> HIDE DEF D
  <2> QED
    BY <2>1, MaxIsGreatest
<1> QED
  BY <1>2, TreeFacts DEF LatestVersion, AtLatest

LEMMA GoodLater ==
    ASSUME NEW entry, NEW h, Dated(h), NEW durable \in Nat, NEW u \in Nat, NEW v \in Nat, u <= v,
           Good(entry, h, durable, u), Quiet(h, u, v)
    PROVE  Good(entry, h, durable, v)
<1>1. DatabaseAt(h, u) = DatabaseAt(h, v)
  BY DatabaseQuiet
<1>2. \A w \in DOMAIN h : w \in Nat
  BY DEF Dated
<1>3. ASSUME NEW a \in Nat, Quiet(h, a, u) PROVE Quiet(h, a, v)
  <2> SUFFICES ASSUME NEW w \in DOMAIN h, a < w, w <= v PROVE h[w] \notin Touching
    BY DEF Quiet
  <2>1. w \in Nat
    BY <1>2
  <2>2. CASE w <= u
    BY <1>3, <2>2 DEF Quiet
  <2>3. CASE u < w
    BY <2>3 DEF Quiet
  <2> QED
    BY <2>1, <2>2, <2>3
<1>4. CASE entry = NoEntry /\ Quiet(h, durable, u)
  BY <1>3, <1>4 DEF Good
<1>5. CASE /\ entry.value = DatabaseAt(h, u)
           /\ entry.insertVersion \in DOMAIN h /\ h[entry.insertVersion] \in Touching
           /\ entry.insertVersion <= u /\ Quiet(h, entry.insertVersion, u)
  <2> DEFINE i == entry.insertVersion
  <2>1. i \in Nat /\ i <= u /\ i <= v
    BY <1>2, <1>5
  <2>2. Quiet(h, i, v)
    <3> HIDE DEF i
    <3> QED
      BY <1>3, <1>5, <2>1 DEF i
  <2> QED
    BY <1>1, <1>5, <2>1, <2>2 DEF Good
<1> QED
  BY <1>4, <1>5 DEF Good

\* What a server's numbers and maps are.
LEMMA ServerFacts ==
    ASSUME NEW s, ServerType(s)
    PROVE  /\ s.version \in Nat /\ s.desiredOldestVersion \in Nat /\ s.oldestVersion \in Nat
           /\ s.durableVersion \in Nat /\ s.storageMinRecoverVersion \in Nat
           /\ s.lastVersionWithData \in Nat /\ s.restoredVersion \in Nat /\ s.peek \in Nat
           /\ s.recoveryVersionSkips \in Seq(Int \X Nat) /\ s.tree \in Trees
           /\ s.mutationLog \in MutationLogs
BY DEF ServerType

\* Between two roots nothing touches the key.
LEMMA RootQuiet ==
    ASSUME NEW s, ServerType(s), NEW h, Dated(h), TreeInv(s, h), NEW v \in Nat, v <= s.version,
           NEW k, RootOf(s.tree, v, k)
    PROVE  Quiet(h, k, v)
<1> SUFFICES ASSUME NEW w \in DOMAIN h, k < w, w <= v, h[w] \in Touching PROVE FALSE
  BY DEF Quiet
<1>1. w \in Nat /\ k \in Nat /\ s.oldestVersion \in Nat /\ s.version \in Nat
  BY ServerFacts DEF Dated, RootOf
<1>2. s.oldestVersion <= k
  BY DEF TreeInv, RootOf
<1>3. s.oldestVersion < w /\ w <= s.version
  BY <1>1, <1>2
<1>4. w \in DOMAIN s.tree
  BY <1>3 DEF TreeInv
<1>5. w <= k
  BY <1>4 DEF RootOf
<1> QED
  BY <1>1, <1>5

LEMMA AtGood ==
    ASSUME NEW s, ServerType(s), NEW h, Dated(h), TreeInv(s, h), NEW v \in Nat,
           s.oldestVersion <= v, v <= s.version
    PROVE  At(s.tree, v) \in Entry /\ Good(At(s.tree, v), h, s.durableVersion, v)
<1>1. s.tree \in Trees /\ s.version \in Nat /\ s.oldestVersion \in Nat /\ s.durableVersion \in Nat
  BY ServerFacts
<1>2. s.oldestVersion \in DOMAIN s.tree
  BY DEF TreeInv
<1>3. PICK k : RootOf(s.tree, v, k)
  BY <1>1, <1>2, AtRoot
<1>4. k \in DOMAIN s.tree /\ k \in Nat /\ k <= v /\ At(s.tree, v) = s.tree[k]
  BY <1>3 DEF RootOf
<1>5. k <= s.version
  BY <1>1, <1>4
<1>6. Good(s.tree[k], h, s.durableVersion, k)
  BY <1>4, <1>5 DEF TreeInv
<1>7. Quiet(h, k, v)
  BY <1>3, RootQuiet
<1>8. Good(s.tree[k], h, s.durableVersion, v)
  BY <1>1, <1>4, <1>6, <1>7, GoodLater
<1>9. s.tree[k] \in Entry
  BY <1>1, <1>4, TreeFacts
<1> QED
  BY <1>4, <1>8, <1>9

\* The latest root is that of the version that was applied last.
LEMMA LatestGood ==
    ASSUME NEW s, ServerType(s), NEW h, Dated(h), TreeInv(s, h)
    PROVE  /\ LatestVersion(s.tree) \in DOMAIN s.tree /\ LatestVersion(s.tree) \in Nat
           /\ \A j \in DOMAIN s.tree : j <= LatestVersion(s.tree)
           /\ s.version <= LatestVersion(s.tree) /\ LatestVersion(s.tree) <= s.version + 1
           /\ AtLatest(s.tree) = s.tree[LatestVersion(s.tree)] /\ AtLatest(s.tree) \in Entry
           /\ Good(AtLatest(s.tree), h, s.durableVersion, s.version)
           /\ AtLatest(s.tree) # NoEntry => AtLatest(s.tree).insertVersion > s.durableVersion
<1> DEFINE k == LatestVersion(s.tree)
<1>1. s.tree \in Trees /\ s.version \in Nat /\ s.version + 1 \in Nat
  BY ServerFacts
<1>2. s.version \in DOMAIN s.tree /\ \A j \in DOMAIN s.tree : j <= s.version + 1
  BY DEF TreeInv
<1>3. /\ k \in DOMAIN s.tree /\ k \in Nat /\ \A j \in DOMAIN s.tree : j <= k
      /\ AtLatest(s.tree) = s.tree[k] /\ AtLatest(s.tree) \in Entry
  <2>1. DOMAIN s.tree # {}
    BY <1>2
  <2> DEFINE b == s.version + 1
  <2>2. b \in Nat /\ \A j \in DOMAIN s.tree : j <= b
    BY <1>1, <1>2
  <2> HIDE DEF b
  <2> QED
    BY <1>1, <2>1, <2>2, LatestRoot
<1> HIDE DEF k
<1>4. s.version <= k /\ k <= s.version + 1
  BY <1>2, <1>3
<1>5. Good(s.tree[k], h, s.durableVersion, s.version)
  <2>1. Good(s.tree[k], h, s.durableVersion, IF k <= s.version THEN k ELSE s.version)
    BY <1>3 DEF TreeInv
  <2>2. (IF k <= s.version THEN k ELSE s.version) = s.version
    BY <1>1, <1>3, <1>4
  <2> QED
    BY <2>1, <2>2
<1>6. s.tree[k] # NoEntry => s.tree[k].insertVersion > s.durableVersion
  BY <1>3 DEF TreeInv
<1> QED
  BY <1>3, <1>4, <1>5, <1>6 DEF k

\* forgetVersionsBefore leaves the roots above, and one for the new oldest version.
LEMMA ForgetMemory ==
    ASSUME NEW s, ServerType(s), NEW h, Dated(h), Memory(s, h), NEW new \in Nat,
           s.oldestVersion <= new, new <= s.desiredOldestVersion,
           NEW z, z = [s EXCEPT !.oldestVersion = new, !.tree = ForgetVersionsBefore(@, new)]
    PROVE  ServerType(z) /\ Memory(z, h) /\ AtLatest(z.tree) = AtLatest(s.tree)
<1> DEFINE D == {x \in DOMAIN s.tree : x > new} \cup {new}
<1>1. /\ s.version \in Nat /\ s.desiredOldestVersion \in Nat /\ s.oldestVersion \in Nat
      /\ s.durableVersion \in Nat /\ s.tree \in Trees
  BY ServerFacts
<1>2. Ordered(s) /\ TreeInv(s, h) /\ MutationsInv(s, h) /\ LastDataInv(s, h)
  BY DEF Memory
<1>3. DOMAIN s.tree \subseteq Nat /\ \A k \in DOMAIN s.tree : s.tree[k] \in Entry
  BY <1>1, TreeFacts
<1>4. new <= s.version
  BY <1>1, <1>2 DEF Ordered
<1>5. z.tree = [w \in D |-> At(s.tree, w)] /\ DOMAIN z.tree = D
  BY DEF ServerType, ForgetVersionsBefore
<1>6. /\ z.mode = s.mode /\ z.version = s.version /\ z.desiredOldestVersion = s.desiredOldestVersion
      /\ z.oldestVersion = new /\ z.durableVersion = s.durableVersion
      /\ z.storageMinRecoverVersion = s.storageMinRecoverVersion
      /\ z.lastVersionWithData = s.lastVersionWithData /\ z.restoredVersion = s.restoredVersion
      /\ z.recoveryVersionSkips = s.recoveryVersionSkips /\ z.mutationLog = s.mutationLog
      /\ z.peek = s.peek
  BY DEF ServerType
<1>7. \A k \in DOMAIN s.tree : s.oldestVersion <= k /\ k <= s.version + 1
  BY <1>2 DEF TreeInv
<1>8. ASSUME NEW k \in DOMAIN s.tree PROVE At(s.tree, k) = s.tree[k]
  <2>1. k \in Nat /\ k <= k
    BY <1>3
  <2>2. PICK r : RootOf(s.tree, k, r)
    BY <1>1, <2>1, AtRoot
  <2>3. r \in Nat /\ r <= k /\ k <= r /\ At(s.tree, k) = s.tree[r]
    BY <2>1, <2>2 DEF RootOf
  <2>4. r = k
    BY <2>1, <2>3
  <2> QED
    BY <2>3, <2>4
<1>9. \A k \in DOMAIN z.tree : k \in Nat /\ new <= k /\ k <= s.version + 1
  BY <1>1, <1>3, <1>4, <1>5, <1>7
<1>10. At(s.tree, new) \in Entry /\ Good(At(s.tree, new), h, s.durableVersion, new)
  BY <1>1, <1>2, <1>4, AtGood
<1>11. \A k \in DOMAIN z.tree :
          \/ k = new /\ z.tree[k] = At(s.tree, new)
          \/ k \in DOMAIN s.tree /\ k > new /\ z.tree[k] = s.tree[k]
  BY <1>5, <1>8
<1>12. z.tree \in Trees
  <2>1. \A k \in D : At(s.tree, k) \in Entry
    BY <1>3, <1>8, <1>10
  <2>2. D \subseteq Nat
    BY <1>3
  <2> HIDE DEF D
  <2> QED
    BY <1>5, <2>1, <2>2, IsTree
<1>13. ServerType(z)
  BY <1>12, <1>6 DEF ServerType
<1>14. Ordered(z)
  BY <1>1, <1>2, <1>6 DEF Ordered
<1>15. TreeInv(z, h)
  <2>1. z.oldestVersion \in DOMAIN z.tree /\ z.version \in DOMAIN z.tree
    <3>1. CASE s.version = new
      BY <1>5, <1>6, <3>1
    <3>2. CASE s.version # new
      <4>1. s.version > new /\ s.version \in DOMAIN s.tree
        BY <1>1, <1>2, <1>4, <3>2 DEF TreeInv
      <4> QED
        BY <1>5, <1>6, <4>1
    <3> QED
      BY <3>1, <3>2
  <2>2. \A k \in DOMAIN z.tree : z.oldestVersion <= k /\ k <= z.version + 1
    BY <1>6, <1>9
  <2>3. ASSUME NEW w \in DOMAIN h, new < w, w <= s.version, h[w] \in Touching
        PROVE  w \in DOMAIN z.tree
    <3>1. w \in Nat
      BY DEF Dated
    <3>2. s.oldestVersion < w
      BY <1>1, <2>3, <3>1
    <3>3. w \in DOMAIN s.tree
      BY <1>2, <2>3, <3>2 DEF TreeInv
    <3>4. w > new
      BY <2>3, <3>1
    <3> QED
      BY <1>5, <3>3, <3>4
  <2>4. ASSUME NEW k \in DOMAIN z.tree
        PROVE  Good(z.tree[k], h, s.durableVersion, IF k <= s.version THEN k ELSE s.version)
    <3>1. CASE k = new /\ z.tree[k] = At(s.tree, new)
      BY <1>4, <1>10, <3>1
    <3>2. CASE k \in DOMAIN s.tree /\ z.tree[k] = s.tree[k]
      BY <1>2, <3>2 DEF TreeInv
    <3> QED
      BY <1>11, <3>1, <3>2
  <2>5. ASSUME NEW k \in DOMAIN z.tree, \A j \in DOMAIN z.tree : j <= k, z.tree[k] # NoEntry
        PROVE  z.tree[k].insertVersion > s.durableVersion
    <3>1. k \in Nat /\ s.version <= k
      BY <1>6, <1>9, <2>1, <2>5
    <3>2. \A j \in DOMAIN s.tree : j <= k
      <4> SUFFICES ASSUME NEW j \in DOMAIN s.tree PROVE j <= k
        OBVIOUS
      <4>1. CASE j > new
        BY <1>5, <2>5, <4>1
      <4>2. CASE j <= new
        BY <1>1, <1>3, <1>4, <3>1, <4>2
      <4> QED
        BY <1>3, <4>1, <4>2
    <3>3. k \in DOMAIN s.tree
      <4>1. s.version \in DOMAIN s.tree
        BY <1>2 DEF TreeInv
      <4>2. CASE k = new
        <5>1. k = s.version
          BY <1>1, <1>4, <3>1, <4>2
        <5> QED
          BY <4>1, <5>1
      <4> QED
        BY <1>11, <4>2
    <3>4. z.tree[k] = s.tree[k]
      BY <1>8, <1>11, <3>3
    <3> QED
      BY <1>2, <2>5, <3>2, <3>3, <3>4 DEF TreeInv
  <2> QED
    BY <1>6, <2>1, <2>2, <2>3, <2>4, <2>5 DEF TreeInv
<1>16. MutationsInv(z, h) /\ LastDataInv(z, h)
  BY <1>2, <1>6 DEF MutationsInv, LastDataInv
<1>17. AtLatest(z.tree) = AtLatest(s.tree)
  <2> DEFINE k == LatestVersion(s.tree)
             j == LatestVersion(z.tree)
  <2>1. /\ k \in DOMAIN s.tree /\ k \in Nat /\ s.version <= k
        /\ (\A i \in DOMAIN s.tree : i <= k) /\ AtLatest(s.tree) = s.tree[k]
    BY <1>2, LatestGood
  <2>2. /\ j \in DOMAIN z.tree /\ j \in Nat /\ z.version <= j
        /\ (\A i \in DOMAIN z.tree : i <= j) /\ AtLatest(z.tree) = z.tree[j]
    BY <1>13, <1>15, LatestGood
  <2> HIDE DEF k, j
  <2>3. k \in DOMAIN z.tree
    <3>1. CASE k = new
      BY <1>5, <3>1
    <3>2. CASE k # new
      <4>1. k > new
        BY <1>1, <1>4, <2>1, <3>2
      <4> QED
        BY <1>5, <2>1, <4>1
    <3> QED
      BY <3>1, <3>2
  <2>4. j <= k
    <3>1. CASE j \in DOMAIN s.tree
      BY <2>1, <3>1
    <3>2. CASE j = new
      BY <1>1, <1>4, <2>1, <3>2
    <3> QED
      BY <1>11, <2>2, <3>1, <3>2
  <2>5. j = k
    BY <2>1, <2>2, <2>3, <2>4
  <2> QED
    BY <1>8, <1>11, <2>1, <2>2, <2>5
<1> QED
  BY <1>13, <1>14, <1>15, <1>16, <1>17 DEF Memory

\* createNewVersion above the last version copies the latest root.
LEMMA NewRoot ==
    ASSUME NEW s, ServerType(s), NEW h, Dated(h), TreeInv(s, h),
           NEW z, z = [s EXCEPT !.tree = CreateNewVersion(@, s.version + 1)]
    PROVE  /\ ServerType(z) /\ TreeInv(z, h) /\ LatestVersion(z.tree) = s.version + 1
<1> DEFINE n == s.version + 1
<1>1. /\ s.version \in Nat /\ s.oldestVersion \in Nat /\ s.durableVersion \in Nat
      /\ s.tree \in Trees /\ n \in Nat
  BY ServerFacts
<1>2. /\ z.version = s.version /\ z.oldestVersion = s.oldestVersion
      /\ z.durableVersion = s.durableVersion /\ z.tree = CreateNewVersion(s.tree, n)
  BY DEF ServerType
<1>3. DOMAIN s.tree \subseteq Nat /\ \A k \in DOMAIN s.tree : s.tree[k] \in Entry
  BY <1>1, TreeFacts
<1>4. /\ s.version \in DOMAIN s.tree /\ s.oldestVersion \in DOMAIN s.tree
      /\ \A k \in DOMAIN s.tree : s.oldestVersion <= k /\ k <= n
  BY DEF TreeInv
<1>5. /\ DOMAIN z.tree = DOMAIN s.tree \cup {n}
      /\ z.tree[n] = At(s.tree, n)
      /\ \A k \in DOMAIN s.tree : k # n => z.tree[k] = s.tree[k]
      /\ z.tree = [w \in DOMAIN s.tree \cup {n} |-> IF w = n THEN At(s.tree, n) ELSE s.tree[w]]
  BY <1>2 DEF CreateNewVersion
<1>6. At(s.tree, n) = AtLatest(s.tree)
  <2>1. s.version <= n
    BY <1>1
  <2>2. PICK k : RootOf(s.tree, n, k)
    BY <1>1, <1>4, <2>1, AtRoot
  <2>3. k \in DOMAIN s.tree /\ k \in Nat /\ At(s.tree, n) = s.tree[k] /\ \A j \in DOMAIN s.tree : j <= k
    BY <1>4, <2>2 DEF RootOf
  <2>4. /\ LatestVersion(s.tree) \in DOMAIN s.tree /\ LatestVersion(s.tree) \in Nat
        /\ AtLatest(s.tree) = s.tree[LatestVersion(s.tree)]
        /\ \A j \in DOMAIN s.tree : j <= LatestVersion(s.tree)
    BY LatestGood
  <2>5. k = LatestVersion(s.tree)
    BY <2>3, <2>4
  <2> QED
    BY <2>3, <2>4, <2>5
<1>7. /\ AtLatest(s.tree) \in Entry
      /\ Good(AtLatest(s.tree), h, s.durableVersion, s.version)
      /\ AtLatest(s.tree) # NoEntry => AtLatest(s.tree).insertVersion > s.durableVersion
  BY LatestGood
<1>8. z.tree \in Trees
  <2> DEFINE D == DOMAIN s.tree \cup {n}
  <2>1. D \subseteq Nat
    BY <1>1, <1>3
  <2>2. z.tree \in [D -> Entry]
    BY <1>3, <1>5, <1>6, <1>7
  <2> HIDE DEF D
  <2> QED
    BY <2>1, <2>2, IsTree
<1>9. ServerType(z)
  BY <1>8 DEF ServerType
<1>10. \A k \in DOMAIN z.tree : k \in Nat /\ s.oldestVersion <= k /\ k <= n
  <2>1. s.oldestVersion <= n
    BY <1>4
  <2> QED
    BY <1>1, <1>3, <1>4, <1>5, <2>1
<1>11. TreeInv(z, h)
  <2>1. s.oldestVersion \in DOMAIN z.tree /\ s.version \in DOMAIN z.tree
    BY <1>4, <1>5
  <2>2. \A w \in DOMAIN h :
           s.oldestVersion < w /\ w <= s.version /\ h[w] \in Touching => w \in DOMAIN z.tree
    BY <1>5 DEF TreeInv
  <2>3. ASSUME NEW k \in DOMAIN z.tree
        PROVE  Good(z.tree[k], h, s.durableVersion, IF k <= s.version THEN k ELSE s.version)
    <3>1. CASE k = n
      <4>1. (IF k <= s.version THEN k ELSE s.version) = s.version
        BY <1>1, <3>1
      <4> QED
        BY <1>5, <1>6, <1>7, <3>1, <4>1
    <3>2. CASE k # n
      <4>1. k \in DOMAIN s.tree /\ z.tree[k] = s.tree[k]
        BY <1>5, <3>2
      <4> QED
        BY <4>1 DEF TreeInv
    <3> QED
      BY <3>1, <3>2
  <2>4. ASSUME NEW k \in DOMAIN z.tree, \A j \in DOMAIN z.tree : j <= k, z.tree[k] # NoEntry
        PROVE  z.tree[k].insertVersion > s.durableVersion
    <3>1. n \in DOMAIN z.tree
      BY <1>5
    <3>2. k = n
      BY <1>1, <1>10, <2>4, <3>1
    <3> QED
      BY <1>5, <1>6, <1>7, <2>4, <3>2
  <2> QED
    BY <1>2, <1>10, <2>1, <2>2, <2>3, <2>4 DEF TreeInv
<1>12. LatestVersion(z.tree) = n
  <2>1. /\ LatestVersion(z.tree) \in DOMAIN z.tree /\ LatestVersion(z.tree) \in Nat
        /\ \A j \in DOMAIN z.tree : j <= LatestVersion(z.tree)
    BY <1>9, <1>11, LatestGood
  <2>2. n \in DOMAIN z.tree
    BY <1>5
  <2> QED
    BY <1>1, <1>10, <2>1, <2>2
<1> QED
  BY <1>9, <1>11, <1>12

\* An entry that is good stays good when more becomes durable.
LEMMA GoodMoreDurable ==
    ASSUME NEW entry, NEW h, Dated(h), NEW a \in Nat, NEW b \in Nat, a <= b, NEW v, Good(entry, h, a, v)
    PROVE  Good(entry, h, b, v)
<1>1. ASSUME Quiet(h, a, v) PROVE Quiet(h, b, v)
  <2>1. \A w \in DOMAIN h : w \in Nat /\ (b < w => a < w)
    BY DEF Dated
  <2> QED
    BY <1>1, <2>1 DEF Quiet
<1> QED
  BY <1>1 DEF Good

\* What the mutation log has is above durableVersion; an entry of the map is in it.
LEMMA MutationFacts ==
    ASSUME NEW s, ServerType(s), NEW h, Dated(h), MutationsInv(s, h)
    PROVE  /\ DOMAIN s.mutationLog \subseteq Nat
           /\ \A w \in DOMAIN s.mutationLog :
                 s.durableVersion < w /\ w <= s.version /\ w \in DOMAIN h /\ h[w] # "none"
           /\ \A w \in DOMAIN h :
                 s.durableVersion < w /\ w <= s.version /\ h[w] # "none" => w \in DOMAIN s.mutationLog
           /\ \A w \in DOMAIN s.mutationLog : s.mutationLog[w] = Untouched <=> h[w] = "end"
           /\ \A w \in DOMAIN s.mutationLog : h[w] # "end" => s.mutationLog[w] = DatabaseAt(h, w)
<1>1. \A w \in DOMAIN h : w \in Nat
  BY DEF Dated
<1>2. ASSUME NEW w \in DOMAIN s.mutationLog PROVE s.mutationLog[w] = Untouched <=> h[w] = "end"
  <2>1. w \in Nat /\ s.mutationLog[w] = IF h[w] = "end" THEN Untouched ELSE DatabaseAt(h, w)
    BY <1>1 DEF MutationsInv
  <2>2. DatabaseAt(h, w) # Untouched
    BY <2>1, DatabaseNotUntouched
  <2> QED
    BY <2>1, <2>2
<1>3. \A w \in DOMAIN s.mutationLog : h[w] # "end" => s.mutationLog[w] = DatabaseAt(h, w)
  BY DEF MutationsInv
<1>4. DOMAIN s.mutationLog = {w \in DOMAIN h : s.durableVersion < w /\ w <= s.version /\ h[w] # "none"}
  BY DEF MutationsInv
<1> QED
  BY <1>1, <1>2, <1>3, <1>4

\* changeDurableVersion moves durableVersion, and drops from the latest root what has
\* become durable; its assertion holds.
LEMMA ChangeMemory ==
    ASSUME NEW s, ServerType(s), NEW h, Dated(h), Memory(s, h),
           NEW desired \in Nat, s.durableVersion <= desired, desired <= s.oldestVersion,
           NEW z, z = ChangeDurableVersion(s, desired)
    PROVE  /\ ServerType(z) /\ Memory(z, h)
           /\ z.mode = s.mode /\ z.version = s.version /\ z.oldestVersion = s.oldestVersion
           /\ z.desiredOldestVersion = s.desiredOldestVersion /\ z.restoredVersion = s.restoredVersion
           /\ z.storageMinRecoverVersion = s.durableVersion /\ z.peek = s.peek
           /\ s.durableVersion <= z.durableVersion /\ z.durableVersion <= desired
<1> DEFINE begin == Min(DOMAIN s.mutationLog)
           found == DOMAIN s.mutationLog # {} /\ begin <= desired
           next == IF found THEN begin ELSE desired
           tree == IF found /\ LatestVersion(s.tree) <= s.version
                   THEN CreateNewVersion(s.tree, s.version + 1) ELSE s.tree
           entry == AtLatest(tree)
           touched == found /\ s.mutationLog[begin] # Untouched /\ entry # NoEntry
           top == LatestVersion(tree)
           drop == touched /\ entry.insertVersion = next
           m == [s EXCEPT !.tree = tree]
<1>1. /\ s.version \in Nat /\ s.oldestVersion \in Nat /\ s.durableVersion \in Nat
      /\ s.tree \in Trees /\ s.mutationLog \in MutationLogs /\ s.desiredOldestVersion \in Nat
      /\ s.restoredVersion \in Nat /\ s.storageMinRecoverVersion \in Nat
      /\ s.lastVersionWithData \in Nat
  BY ServerFacts
<1>2. Ordered(s) /\ TreeInv(s, h) /\ MutationsInv(s, h) /\ LastDataInv(s, h)
  BY DEF Memory
<1>3. /\ DOMAIN s.mutationLog \subseteq Nat
      /\ \A w \in DOMAIN s.mutationLog :
            s.durableVersion < w /\ w <= s.version /\ w \in DOMAIN h /\ h[w] # "none"
      /\ \A w \in DOMAIN h :
            s.durableVersion < w /\ w <= s.version /\ h[w] # "none" => w \in DOMAIN s.mutationLog
      /\ \A w \in DOMAIN s.mutationLog : s.mutationLog[w] = Untouched <=> h[w] = "end"
  BY <1>2, MutationFacts
<1>4. DOMAIN s.mutationLog # {} =>
          /\ begin \in DOMAIN s.mutationLog /\ begin \in Nat
          /\ \A w \in DOMAIN s.mutationLog : begin <= w
  BY <1>3, MinIsLeast
<1>5. z = [s EXCEPT !.mode = IF touched /\ entry.insertVersion < next THEN "assert" ELSE @,
                    !.tree = IF drop THEN [tree EXCEPT ![top] = NoEntry] ELSE tree,
                    !.mutationLog = [w \in {x \in DOMAIN @ : x > next} |-> @[w]],
                    !.storageMinRecoverVersion = s.durableVersion,
                    !.durableVersion = next]
  BY DEF ChangeDurableVersion
<1> HIDE DEF begin
<1>6. /\ next \in Nat /\ s.durableVersion <= next /\ next <= desired
      /\ \A w \in DOMAIN s.mutationLog : w >= next
      /\ ~ found => \A w \in DOMAIN s.mutationLog : w > next
  BY <1>1, <1>3, <1>4
<1>7. ServerType(m) /\ TreeInv(m, h) /\ (found => top = s.version + 1)
  <2>1. CASE found /\ LatestVersion(s.tree) <= s.version
    <3>1. tree = CreateNewVersion(s.tree, s.version + 1)
      BY <2>1
    <3> HIDE DEF tree
    <3>2. m = [s EXCEPT !.tree = CreateNewVersion(@, s.version + 1)] /\ m.tree = tree
      BY <3>1 DEF ServerType
    <3> HIDE DEF m
    <3> QED
      BY <1>2, <3>2, NewRoot
  <2>2. CASE ~ (found /\ LatestVersion(s.tree) <= s.version)
    <3>1. tree = s.tree
      BY <2>2
    <3> HIDE DEF tree
    <3>2. m = s
      BY <3>1 DEF ServerType
    <3>3. LatestVersion(s.tree) \in Nat /\ LatestVersion(s.tree) <= s.version + 1
      BY <1>2, LatestGood
    <3>4. found => LatestVersion(s.tree) = s.version + 1
      BY <1>1, <2>2, <3>3
    <3> HIDE DEF m, found
    <3> QED
      BY <1>2, <3>1, <3>2, <3>4
  <2> QED
    BY <2>1, <2>2
<1> HIDE DEF tree
<1>8. /\ m.tree = tree /\ m.version = s.version /\ m.oldestVersion = s.oldestVersion
      /\ m.durableVersion = s.durableVersion
  BY DEF ServerType
<1> HIDE DEF m
<1>9. /\ tree \in Trees /\ DOMAIN tree \subseteq Nat /\ (\A k \in DOMAIN tree : tree[k] \in Entry)
      /\ top \in DOMAIN tree /\ top \in Nat /\ s.version <= top
      /\ (\A j \in DOMAIN tree : j <= top)
      /\ entry = tree[top] /\ entry \in Entry
      /\ Good(entry, h, s.durableVersion, s.version)
      /\ entry # NoEntry => entry.insertVersion > s.durableVersion
  <2>1. tree \in Trees
    BY <1>7, <1>8, ServerFacts
  <2> QED
    BY <1>7, <1>8, <2>1, LatestGood, TreeFacts
<1> HIDE DEF top
<1>10. entry # NoEntry =>
          /\ entry.insertVersion \in DOMAIN s.mutationLog
          /\ s.mutationLog[entry.insertVersion] # Untouched
          /\ entry.insertVersion >= next
          /\ Quiet(h, entry.insertVersion, s.version)
  <2> SUFFICES ASSUME entry # NoEntry
               PROVE  /\ entry.insertVersion \in DOMAIN s.mutationLog
                      /\ s.mutationLog[entry.insertVersion] # Untouched
                      /\ entry.insertVersion >= next
                      /\ Quiet(h, entry.insertVersion, s.version)
    OBVIOUS
  <2> DEFINE i == entry.insertVersion
  <2>1. i \in DOMAIN h /\ h[i] \in Touching /\ i <= s.version /\ Quiet(h, i, s.version)
    BY <1>9 DEF Good
  <2>2. i > s.durableVersion /\ i \in Nat
    BY <1>9, <2>1 DEF Entry
  <2>3. h[i] # "none" /\ h[i] # "end"
    BY <2>1 DEF Touching, Op
  <2> HIDE DEF i
  <2>4. i \in DOMAIN s.mutationLog
    BY <1>1, <1>3, <2>1, <2>2, <2>3
  <2>5. i >= next /\ s.mutationLog[i] # Untouched
    BY <1>3, <1>6, <2>3, <2>4
  <2> QED
    BY <2>1, <2>4, <2>5 DEF i
<1> HIDE DEF entry
<1>11. ~ (touched /\ entry.insertVersion < next)
  <2>1. CASE entry = NoEntry
    BY <2>1
  <2>2. CASE entry # NoEntry
    <3>1. entry.insertVersion \in Nat /\ entry.insertVersion >= next
      BY <1>3, <1>10, <2>2
    <3> QED
      BY <1>6, <3>1
  <2> QED
    BY <2>1, <2>2
<1>12. drop => top = s.version + 1 /\ Quiet(h, next, s.version)
  BY <1>7, <1>10
<1>13. ~ drop /\ entry # NoEntry => entry.insertVersion > next
  <2> SUFFICES ASSUME ~ drop, entry # NoEntry PROVE entry.insertVersion > next
    OBVIOUS
  <2>1. /\ entry.insertVersion \in DOMAIN s.mutationLog /\ entry.insertVersion \in Nat
        /\ entry.insertVersion >= next /\ s.mutationLog[entry.insertVersion] # Untouched
    BY <1>3, <1>10
  <2>2. CASE found
    <3>1. entry.insertVersion # next
      BY <2>1, <2>2
    <3> QED
      BY <1>6, <2>1, <3>1
  <2>3. CASE ~ found
    BY <1>6, <2>1, <2>3
  <2> QED
    BY <2>2, <2>3
<1> HIDE DEF drop
<1>14. z = [s EXCEPT !.tree = z.tree, !.mutationLog = z.mutationLog,
                     !.storageMinRecoverVersion = s.durableVersion, !.durableVersion = next]
  <2> HIDE DEF touched, next
  <2> QED
    BY <1>5, <1>11 DEF ServerType
<1>15. /\ z.tree = IF drop THEN [tree EXCEPT ![top] = NoEntry] ELSE tree
       /\ z.mutationLog = [w \in {x \in DOMAIN s.mutationLog : x > next} |-> s.mutationLog[w]]
  <2> HIDE DEF touched, next
  <2> QED
    BY <1>5 DEF ServerType
<1> HIDE DEF touched, found, next
<1>16. z.tree \in Trees /\ DOMAIN z.tree = DOMAIN tree
  <2>1. z.tree \in [DOMAIN tree -> Entry]
    BY <1>9, <1>15, NoEntryType DEF Trees
  <2> QED
    BY <1>9, <2>1, IsTree
<1>17. z.mutationLog \in MutationLogs
  <2> DEFINE D == {x \in DOMAIN s.mutationLog : x > next}
  <2>1. D \subseteq Nat
    BY <1>3
  <2>2. \A w \in DOMAIN s.mutationLog : s.mutationLog[w] \in Value
    BY <1>1 DEF MutationLogs
  <2>3. z.mutationLog \in [D -> Value]
    BY <1>15, <2>2
  <2> HIDE DEF D
  <2> QED
    BY <2>1, <2>3, IsMutationLog
<1>18. /\ ServerType(z)
       /\ z.mode = s.mode /\ z.version = s.version /\ z.oldestVersion = s.oldestVersion
       /\ z.desiredOldestVersion = s.desiredOldestVersion /\ z.restoredVersion = s.restoredVersion
       /\ z.storageMinRecoverVersion = s.durableVersion /\ z.peek = s.peek
       /\ z.durableVersion = next /\ z.lastVersionWithData = s.lastVersionWithData
  BY <1>6, <1>14, <1>16, <1>17 DEF ServerType
<1>19. Ordered(z)
  BY <1>1, <1>2, <1>6, <1>18 DEF Ordered
<1>20. /\ s.oldestVersion \in DOMAIN tree /\ s.version \in DOMAIN tree
       /\ \A k \in DOMAIN tree : s.oldestVersion <= k /\ k <= s.version + 1
       /\ \A w \in DOMAIN h :
             s.oldestVersion < w /\ w <= s.version /\ h[w] \in Touching => w \in DOMAIN tree
       /\ \A k \in DOMAIN tree :
             Good(tree[k], h, s.durableVersion, IF k <= s.version THEN k ELSE s.version)
  BY <1>7, <1>8 DEF TreeInv
<1>21. ASSUME NEW k \in DOMAIN z.tree
       PROVE  Good(z.tree[k], h, next, IF k <= s.version THEN k ELSE s.version)
  <2>1. CASE drop /\ k = top
    <3>1. z.tree[k] = NoEntry
      BY <1>9, <1>15, <1>16, <2>1
    <3>2. (IF k <= s.version THEN k ELSE s.version) = s.version
      BY <1>1, <1>12, <2>1
    <3> QED
      BY <1>12, <2>1, <3>1, <3>2 DEF Good
  <2>2. CASE ~ (drop /\ k = top)
    <3>1. z.tree[k] = tree[k] /\ k \in DOMAIN tree
      BY <1>15, <1>16, <2>2
    <3> QED
      BY <1>1, <1>6, <1>20, <3>1, GoodMoreDurable
  <2> QED
    BY <2>1, <2>2
<1>22. ASSUME NEW k \in DOMAIN z.tree, \A j \in DOMAIN z.tree : j <= k, z.tree[k] # NoEntry
       PROVE  z.tree[k].insertVersion > next
  <2>1. k = top
    <3>1. k \in Nat /\ k <= top /\ top <= k
      BY <1>9, <1>16, <1>22
    <3> QED
      BY <1>9, <3>1
  <2>2. ~ drop
    BY <1>9, <1>15, <1>16, <1>22, <2>1
  <2> QED
    BY <1>9, <1>13, <1>15, <1>22, <2>1, <2>2
<1>23. TreeInv(z, h)
  BY <1>16, <1>18, <1>20, <1>21, <1>22 DEF TreeInv
<1>24. MutationsInv(z, h)
  <2>1. DOMAIN z.mutationLog = {x \in DOMAIN s.mutationLog : x > next}
    BY <1>15
  <2>2. DOMAIN z.mutationLog = {w \in DOMAIN h : next < w /\ w <= s.version /\ h[w] # "none"}
    <3>1. \A w \in DOMAIN h : w \in Nat
      BY DEF Dated
    <3>2. ASSUME NEW w \in DOMAIN h, next < w, w <= s.version, h[w] # "none"
          PROVE  w \in DOMAIN s.mutationLog /\ w > next
      <4>1. s.durableVersion < w
        BY <1>1, <1>6, <3>1, <3>2
      <4> QED
        BY <1>3, <1>6, <3>1, <3>2, <4>1
    <3>3. ASSUME NEW w \in DOMAIN s.mutationLog, w > next
          PROVE  w \in DOMAIN h /\ next < w /\ w <= s.version /\ h[w] # "none"
      BY <1>3, <1>6, <3>3
    <3> QED
      BY <2>1, <3>2, <3>3
  <2>3. \A w \in DOMAIN z.mutationLog :
           z.mutationLog[w] = IF h[w] = "end" THEN Untouched ELSE DatabaseAt(h, w)
    BY <1>2, <1>15, <2>1 DEF MutationsInv
  <2> QED
    BY <1>18, <2>2, <2>3 DEF MutationsInv
<1>25. LastDataInv(z, h)
  BY <1>2, <1>18 DEF LastDataInv
<1> QED
  BY <1>6, <1>18, <1>19, <1>23, <1>24, <1>25 DEF Memory

\* A server starts with nothing in memory.
LEMMA InitialMemory ==
    ASSUME NEW h, Dated(h), NEW v \in Nat
    PROVE  ServerType(SetInitialVersion(v)) /\ Memory(SetInitialVersion(v), h)
<1> DEFINE s == SetInitialVersion(v)
           t == [w \in {v} |-> NoEntry]
<1>1. /\ s.mode = "restored" /\ s.version = v /\ s.desiredOldestVersion = v /\ s.oldestVersion = v
      /\ s.durableVersion = v /\ s.storageMinRecoverVersion = v /\ s.lastVersionWithData = v
      /\ s.restoredVersion = v /\ s.recoveryVersionSkips = <<>> /\ s.tree = t
      /\ s.mutationLog = <<>> /\ s.peek = 0
  BY DEF SetInitialVersion
<1>2. t \in Trees
  <2>1. t \in [{v} -> Entry] /\ {v} \subseteq Nat
    BY NoEntryType
  <2> HIDE DEF t
  <2> QED
    BY <2>1, IsTree
<1>3. <<>> \in MutationLogs /\ DOMAIN <<>> = {}
  <2>1. <<>> \in [{} -> Value] /\ {} \subseteq Nat
    OBVIOUS
  <2> QED
    BY <2>1, IsMutationLog
<1>4. ServerType(s)
  <2> HIDE DEF t
  <2>1. s.recoveryVersionSkips \in Seq(Int \X Nat)
    BY <1>1
  <2> QED
    BY <1>1, <1>2, <1>3, <2>1 DEF ServerType, SetInitialVersion, t
<1>5. DOMAIN t = {v} /\ t[v] = NoEntry
  OBVIOUS
<1> HIDE DEF s, t
<1>6. \A w \in DOMAIN h : w \in Nat /\ ~ (v < w /\ w <= v)
  BY DEF Dated
<1>7. Good(NoEntry, h, v, v)
  BY <1>6 DEF Good, Quiet
<1>8. TreeInv(s, h)
  BY <1>1, <1>5, <1>6, <1>7 DEF TreeInv
<1>9. MutationsInv(s, h) /\ LastDataInv(s, h) /\ Ordered(s)
  BY <1>1, <1>3, <1>6 DEF MutationsInv, LastDataInv, Ordered
<1> QED
  BY <1>4, <1>8, <1>9 DEF Memory, s

\* The memory of a server says nothing about versions it has not applied.
LEMMA SameMemory ==
    ASSUME NEW s, ServerType(s), NEW g, NEW h, Dated(g), Dated(h), Memory(s, g), SameData(g, h, s.version)
    PROVE  Memory(s, h)
<1> DEFINE v == s.version
<1>1. /\ v \in Nat /\ s.oldestVersion \in Nat /\ s.durableVersion \in Nat /\ s.tree \in Trees
      /\ s.lastVersionWithData \in Nat /\ s.restoredVersion \in Nat
  BY ServerFacts
<1>2. Ordered(s) /\ TreeInv(s, g) /\ MutationsInv(s, g) /\ LastDataInv(s, g)
  BY DEF Memory
<1>3. /\ \A w \in DOMAIN g : w \in Nat /\ (w <= v /\ g[w] # "none" => w \in DOMAIN h /\ h[w] = g[w])
      /\ \A w \in DOMAIN h : w \in Nat /\ (w <= v /\ h[w] # "none" => w \in DOMAIN g /\ h[w] = g[w])
  BY DEF SameData, Dated
<1>4. ASSUME NEW u \in Nat, u <= v PROVE DatabaseAt(g, u) = DatabaseAt(h, u)
  BY <1>1, <1>4, DatabaseSame
<1>5. "none" \notin Touching /\ "end" \notin Touching
  BY DEF Touching, Op
<1>6. ASSUME NEW a, NEW u \in Nat, u <= v, Quiet(g, a, u) PROVE Quiet(h, a, u)
  <2> SUFFICES ASSUME NEW w \in DOMAIN h, a < w, w <= u, h[w] \in Touching PROVE FALSE
    BY DEF Quiet
  <2>1. w \in Nat /\ w <= v /\ h[w] # "none"
    BY <1>1, <1>3, <1>5, <1>6
  <2>2. w \in DOMAIN g /\ g[w] = h[w]
    BY <1>3, <2>1
  <2> QED
    BY <1>6, <2>2 DEF Quiet
<1>7. ASSUME NEW entry, NEW u \in Nat, u <= v, Good(entry, g, s.durableVersion, u)
      PROVE  Good(entry, h, s.durableVersion, u)
  <2>1. CASE entry = NoEntry /\ Quiet(g, s.durableVersion, u)
    BY <1>6, <1>7, <2>1 DEF Good
  <2>2. CASE /\ entry.value = DatabaseAt(g, u)
             /\ entry.insertVersion \in DOMAIN g /\ g[entry.insertVersion] \in Touching
             /\ entry.insertVersion <= u /\ Quiet(g, entry.insertVersion, u)
    <3> DEFINE i == entry.insertVersion
    <3>1. i \in Nat /\ i <= v /\ g[i] # "none"
      BY <1>1, <1>3, <1>5, <1>7, <2>2
    <3>2. i \in DOMAIN h /\ h[i] = g[i]
      <4> HIDE DEF i
      <4> QED
        BY <1>3, <2>2, <3>1 DEF i
    <3>3. Quiet(h, i, u)
      <4> HIDE DEF i
      <4> QED
        BY <1>6, <1>7, <2>2 DEF i
    <3>4. entry.value = DatabaseAt(h, u)
      BY <1>4, <1>7, <2>2
    <3> QED
      BY <2>2, <3>2, <3>3, <3>4 DEF Good
  <2> QED
    BY <1>7, <2>1, <2>2 DEF Good
<1>8. TreeInv(s, h)
  <2>1. \A w \in DOMAIN h : s.oldestVersion < w /\ w <= v /\ h[w] \in Touching => w \in DOMAIN s.tree
    BY <1>2, <1>3, <1>5 DEF TreeInv
  <2>2. ASSUME NEW k \in DOMAIN s.tree
        PROVE  Good(s.tree[k], h, s.durableVersion, IF k <= v THEN k ELSE v)
    <3> DEFINE u == IF k <= v THEN k ELSE v
    <3>1. u \in Nat /\ u <= v
      BY <1>1, TreeFacts
    <3>2. Good(s.tree[k], g, s.durableVersion, u)
      BY <1>2 DEF TreeInv
    <3> HIDE DEF u
    <3>3. Good(s.tree[k], h, s.durableVersion, u)
      BY <1>7, <3>1, <3>2
    <3> QED
      BY <3>3 DEF u
  <2> QED
    BY <1>2, <2>1, <2>2 DEF TreeInv
<1>9. MutationsInv(s, h)
  <2>1. /\ DOMAIN s.mutationLog = {w \in DOMAIN g : s.durableVersion < w /\ w <= v /\ g[w] # "none"}
        /\ \A w \in DOMAIN s.mutationLog :
              s.mutationLog[w] = IF g[w] = "end" THEN Untouched ELSE DatabaseAt(g, w)
    BY <1>2 DEF MutationsInv
  <2>2. DOMAIN s.mutationLog = {w \in DOMAIN h : s.durableVersion < w /\ w <= v /\ h[w] # "none"}
    BY <1>3, <2>1
  <2>3. ASSUME NEW w \in DOMAIN s.mutationLog
        PROVE  s.mutationLog[w] = IF h[w] = "end" THEN Untouched ELSE DatabaseAt(h, w)
    <3>1. w \in Nat /\ w <= v /\ h[w] = g[w]
      BY <1>3, <2>1
    <3> QED
      BY <1>4, <2>1, <3>1
  <2> QED
    BY <2>2, <2>3 DEF MutationsInv
<1>10. LastDataInv(s, h)
  <2>1. s.lastVersionWithData = s.restoredVersion \/ HasData(h, s.lastVersionWithData)
    BY <1>2, <1>3 DEF LastDataInv, HasData
  <2>2. \A w \in DOMAIN h : s.lastVersionWithData < w /\ w <= v => h[w] = "none"
    BY <1>2, <1>3 DEF LastDataInv
  <2> QED
    BY <1>2, <2>1, <2>2 DEF LastDataInv
<1> QED
  BY <1>2, <1>8, <1>9, <1>10 DEF Memory

-----------------------------------------------------------------------------
(***************************************************************************)
(* The log system.                                                         *)
(***************************************************************************)

LEMMA Constants ==
    /\ Life \in Nat /\ Life > 0 /\ Flight \in Nat /\ Life < Flight
    /\ Life = MAX_READ_TRANSACTION_LIFE_VERSIONS /\ Flight = MAX_VERSIONS_IN_FLIGHT
BY FlightAssumption DEF Life, Flight

LEMMA OpFacts ==
    /\ "end" \notin Op /\ "none" \in Op /\ "none" \notin Touching /\ "end" \notin Touching
    /\ \A x \in Op \cup {"end"} : x \in Touching <=> x # "none" /\ x # "end"
BY DEF Touching, Op

LEMMA HistoryFacts ==
    ASSUME NEW h \in Histories
    PROVE  /\ Dated(h) /\ DOMAIN h \subseteq Nat /\ (\A w \in DOMAIN h : w \in Nat /\ w > 0)
           /\ \A w \in DOMAIN h : h[w] \in Op \cup {"end"}
<1>1. PICK D \in SUBSET (Nat \ {0}) : h \in [D -> Op \cup {"end"}]
  BY DEF Histories
<1>2. DOMAIN h = D /\ \A w \in D : w \in Nat /\ w # 0
  BY <1>1
<1> QED
  BY <1>1, <1>2 DEF Dated

LEMMA IsHistory ==
    ASSUME NEW D, D \subseteq Nat \ {0}, NEW h, h \in [D -> Op \cup {"end"}]
    PROVE  h \in Histories
BY DEF Histories

LEMMA EpochHistory ==
    ASSUME LogType, NEW e \in 1..log.epoch
    PROVE  /\ log.epoch \in Nat /\ log.epoch > 0 /\ e \in Nat
           /\ log.committed \in Nat /\ log.popped \in Nat
           /\ Hist(e) \in Histories /\ Dated(Hist(e)) /\ DOMAIN Hist(e) \subseteq Nat
           /\ \A w \in DOMAIN Hist(e) : w \in Nat /\ w > 0
           /\ \A w \in DOMAIN Hist(e) : Hist(e)[w] \in Op \cup {"end"}
<1>1. Hist(e) \in Histories
  BY DEF LogType, Hist
<1>2. log.epoch \in Nat /\ log.epoch > 0 /\ e \in Nat /\ log.committed \in Nat /\ log.popped \in Nat
  BY DEF LogType
<1> QED
  BY <1>1, <1>2, HistoryFacts

LEMMA LastEpoch ==
    ASSUME LogType
    PROVE  /\ log.epoch \in 1..log.epoch /\ log.epoch \in Nat /\ log.epoch > 0
           /\ log.committed \in Nat /\ log.popped \in Nat
BY DEF LogType

LEMMA EndsType ==
    ASSUME LogType, NEW ends, LogInv(ends)
    PROVE  /\ ends \in [1..log.epoch -> Nat] /\ ends[log.epoch] = log.committed
           /\ \A e \in 1..log.epoch : ends[e] \in Nat /\ EpochInv(Hist(e), ends[e])
BY DEF LogInv, EndsInv

\* Epochs end one after the other, and further apart than any version reaches.
LEMMA EndsGrow ==
    ASSUME LogType, NEW ends, LogInv(ends), NEW d \in 1..log.epoch, NEW e \in 1..log.epoch, d < e
    PROVE  ends[d] + Flight <= ends[e]
<1>1. Fork(d, e, ends[d]) /\ EpochInv(Hist(e), ends[e])
  BY DEF LogInv, EndsInv
<1> DEFINE w == ends[d] + Flight
<1>2. w \in DOMAIN Hist(e) /\ Hist(e)[w] = "end"
  BY <1>1 DEF Fork
<1> HIDE DEF w
<1>3. w <= ends[e]
  BY <1>1, <1>2 DEF EpochInv
<1> QED
  BY <1>3 DEF w

\* Below the end of an epoch its log and those of later epochs are the same.
LEMMA EpochsAgree ==
    ASSUME LogType, NEW ends, LogInv(ends), NEW d \in 1..log.epoch, NEW e \in 1..log.epoch, d <= e
    PROVE  /\ ends[d] <= ends[e] /\ SameData(Hist(d), Hist(e), ends[d])
           /\ \A w \in DOMAIN Hist(e) : w <= ends[d] => w \in DOMAIN Hist(d)
           /\ \A w \in DOMAIN Hist(d) : w <= ends[d] => w \in DOMAIN Hist(e) /\ Hist(e)[w] = Hist(d)[w]
<1>1. ends[d] \in Nat /\ ends[e] \in Nat
  BY EndsType
<1>2. CASE d = e
  BY <1>1, <1>2 DEF SameData
<1>3. CASE d # e
  <2>1. d < e
    BY <1>3, EpochHistory
  <2>2. Fork(d, e, ends[d])
    BY <2>1 DEF LogInv, EndsInv
  <2>3. ends[d] + Flight <= ends[e]
    BY <2>1, EndsGrow
  <2>4. \A w \in DOMAIN Hist(d) : w <= ends[d] => w \in DOMAIN Hist(e) /\ Hist(e)[w] = Hist(d)[w]
    BY <2>2 DEF Fork
  <2>5. ASSUME NEW w \in DOMAIN Hist(e), w <= ends[d] PROVE w \in DOMAIN Hist(d)
    <3>1. w \in Nat
      BY EpochHistory
    <3>2. w < ends[d] + Flight
      BY <1>1, <2>5, <3>1, Constants
    <3> QED
      BY <2>2, <3>2 DEF Fork
  <2>6. ends[d] <= ends[e]
    BY <1>1, <2>3, Constants
  <2>7. SameData(Hist(d), Hist(e), ends[d])
    BY <2>4, <2>5 DEF SameData
  <2> QED
    BY <2>4, <2>5, <2>6, <2>7
<1> QED
  BY <1>2, <1>3

LEMMA TopFacts ==
    ASSUME LogType, NEW e \in 1..log.epoch, NEW b \in Nat, EpochInv(Hist(e), b), NEW x \in DOMAIN Hist(e)
    PROVE  /\ Top(e) \in DOMAIN Hist(e) /\ Top(e) \in Nat /\ Top(e) <= b + Life
           /\ \A w \in DOMAIN Hist(e) : w <= Top(e)
<1> DEFINE c == b + Life
           S == DOMAIN Hist(e)
<1>1. c \in Nat
  BY Constants
<1>2. S \subseteq Nat /\ S # {} /\ \A w \in S : w <= c
  BY EpochHistory DEF EpochInv
<1> HIDE DEF c, S
<1>3. Max(S) \in S /\ Max(S) \in Nat /\ \A y \in S : y <= Max(S)
  BY <1>1, <1>2, MaxIsGreatest
<1> QED
  BY <1>2, <1>3 DEF Top, S, c

\* A step of the log system loses nothing that an epoch has, and adds only above.
Extends(g, h) ==
    /\ \A w \in DOMAIN g : w \in DOMAIN h /\ h[w] = g[w]
    /\ \A w \in DOMAIN h : w \notin DOMAIN g => \A x \in DOMAIN g : x < w

\* The versions up to v, and their data, are in another history too.
Survives(g, h, v) == SameData(g, h, v) /\ \A w \in DOMAIN g : w <= v => w \in DOMAIN h

Kept(ends, ends2) ==
    /\ log.epoch <= log'.epoch /\ log.committed <= log'.committed
    /\ \A e \in 1..log.epoch : ends[e] <= ends2[e] /\ Extends(Hist(e), Hist(e)')
    /\ Survives(Hist(log.epoch), log'.hist[log'.epoch], log.committed)

\* What an extension leaves alone.
LEMMA ExtendsSame ==
    ASSUME NEW g \in Histories, NEW h \in Histories, Extends(g, h), NEW v \in Nat, NEW x \in DOMAIN g, v <= x
    PROVE  SameData(g, h, v) /\ Survives(g, h, v)
<1>1. (\A w \in DOMAIN g : w \in Nat) /\ (\A w \in DOMAIN h : w \in Nat)
  BY HistoryFacts
<1>2. ASSUME NEW w \in DOMAIN h, w <= v PROVE w \in DOMAIN g
  <2> SUFFICES ASSUME w \notin DOMAIN g PROVE FALSE
    OBVIOUS
  <2>1. x < w
    BY DEF Extends
  <2> QED
    BY <1>1, <1>2, <2>1
<1> QED
  BY <1>2 DEF SameData, Survives, Extends

\* Only the logs are told what they need not keep.
LEMMA LogUnchanged ==
    ASSUME LogType, NEW ends, LogInv(ends), NEW p \in Nat,
           log' = [log EXCEPT !.popped = p]
    PROVE  /\ LogType' /\ LogInv(ends)' /\ Kept(ends, ends) /\ log'.popped = p
           /\ log'.epoch = log.epoch /\ log'.committed = log.committed /\ log'.hist = log.hist
           /\ \A e : Hist(e)' = Hist(e)
<1>1. /\ log'.popped = p
      /\ log'.epoch = log.epoch /\ log'.committed = log.committed /\ log'.hist = log.hist
  BY DEF LogType
<1>2. LogType'
  BY <1>1 DEF LogType
<1>3. \A e : Hist(e)' = Hist(e)
  BY <1>1 DEF Hist
<1>4. LogInv(ends)'
  BY <1>1, <1>3 DEF LogInv, EndsInv, Fork
<1>5. Kept(ends, ends)
  <2>1. /\ log.epoch \in Nat /\ log.committed \in Nat /\ ends[log.epoch] = log.committed
        /\ \A e \in 1..log.epoch : ends[e] \in Nat
    BY LastEpoch, EndsType
  <2>2. \A e : Extends(Hist(e), Hist(e)')
    BY <1>3 DEF Extends
  <2>3. Survives(Hist(log.epoch), log'.hist[log'.epoch], log.committed)
    BY <1>1 DEF Survives, SameData, Hist
  <2> QED
    BY <1>1, <2>1, <2>2, <2>3 DEF Kept
<1> QED
  BY <1>1, <1>2, <1>3, <1>4, <1>5

\* A version above all others enters the log of the last epoch, and may be committed.
LEMMA PushKeeps ==
    ASSUME LogType, NEW ends, LogInv(ends), NEW op \in Op, NEW p \in Nat,
           NEW v, v = Top(log.epoch) + 1, NEW c, (c = log.committed /\ v <= c + Life) \/ c = v,
           log' = [epoch |-> log.epoch, hist |-> [log.hist EXCEPT ![log.epoch] = Over(@, [w \in {v} |-> op])],
                   committed |-> c, popped |-> p],
           NEW ends2, ends2 = [ends EXCEPT ![log.epoch] = c]
    PROVE  LogType' /\ LogInv(ends2)' /\ Kept(ends, ends2) /\ log.committed < v
<1> DEFINE n == log.epoch
           g == Hist(n)
           h == Over(g, [w \in {v} |-> op])
<1>1. n \in 1..n /\ n \in Nat /\ log.committed \in Nat /\ log.committed \in DOMAIN g
  BY LastEpoch DEF LogInv
<1>2. /\ ends \in [1..n -> Nat] /\ ends[n] = log.committed
      /\ \A e \in 1..n : ends[e] \in Nat /\ EpochInv(Hist(e), ends[e])
  BY EndsType
<1>3. Top(n) \in DOMAIN g /\ Top(n) \in Nat /\ \A w \in DOMAIN g : w <= Top(n)
  BY <1>1, <1>2, TopFacts
<1>4. g \in Histories /\ (\A w \in DOMAIN g : w \in Nat /\ w > 0) /\ \A w \in DOMAIN g : g[w] \in Op \cup {"end"}
  BY <1>1, EpochHistory
<1>5. v \in Nat /\ v > 0 /\ v \notin DOMAIN g /\ (\A w \in DOMAIN g : w < v) /\ log.committed < v
  BY <1>1, <1>3, <1>4
<1>6. c \in Nat /\ log.committed <= c /\ c <= v
  BY <1>1, <1>5
<1>7. DOMAIN h = DOMAIN g \cup {v} /\ h[v] = op /\ \A w \in DOMAIN g : h[w] = g[w]
  BY <1>5 DEF Over
<1>8. log'.epoch = n /\ log'.committed = c /\ log'.popped = p /\ log'.hist = [log.hist EXCEPT ![n] = h]
  BY DEF Hist
<1>9. h \in Histories
  <2> DEFINE D == DOMAIN g \cup {v}
  <2>1. D \subseteq Nat \ {0}
    BY <1>4, <1>5
  <2>2. h \in [D -> Op \cup {"end"}]
    BY <1>4, <1>7 DEF Over
  <2> HIDE DEF D, h
  <2> QED
    BY <2>1, <2>2, IsHistory
<1> HIDE DEF h
<1>10. LogType'
  <2>1. log'.hist \in Seq(Histories) /\ Len(log'.hist) = n
    BY <1>1, <1>8, <1>9 DEF LogType
  <2> QED
    BY <1>1, <1>6, <1>8, <2>1 DEF LogType
<1>11. Hist(n)' = h /\ \A e \in 1..n : e # n => Hist(e)' = Hist(e)
  BY <1>1, <1>8 DEF Hist, LogType
<1>12. /\ ends2 \in [1..n -> Nat] /\ ends2[n] = c
       /\ \A e \in 1..n : e # n => ends2[e] = ends[e]
  BY <1>1, <1>2, <1>6
<1>13. ASSUME NEW d \in 1..n, NEW e \in 1..n, d < e PROVE Fork(d, e, ends2[d])'
  <2>1. Fork(d, e, ends[d])
    BY <1>13 DEF LogInv, EndsInv
  <2>2. d # n
    BY <1>1, <1>13
  <2>3. ends2[d] = ends[d] /\ Hist(d)' = Hist(d)
    BY <1>11, <1>12, <2>2
  <2>4. CASE e # n
    BY <1>11, <2>1, <2>3, <2>4 DEF Fork
  <2>5. CASE e = n
    <3> DEFINE x == ends[d] + Flight
    <3>1. x \in DOMAIN g /\ g[x] = "end"
      BY <2>1, <2>5 DEF Fork
    <3>2. \A w \in DOMAIN Hist(d) : w <= ends[d] => w \in DOMAIN g /\ g[w] = Hist(d)[w]
      BY <2>1, <2>5 DEF Fork
    <3>3. \A w \in DOMAIN g : w < x => w <= ends[d] /\ w \in DOMAIN Hist(d)
      BY <2>1, <2>5 DEF Fork
    <3> HIDE DEF x
    <3>4. x < v
      BY <1>5, <3>1
    <3>5. x \in DOMAIN h /\ h[x] = "end"
      BY <1>7, <3>1
    <3>6. \A w \in DOMAIN Hist(d) : w <= ends[d] => w \in DOMAIN h /\ h[w] = Hist(d)[w]
      BY <1>7, <3>2
    <3>7. \A w \in DOMAIN h : w < x => w <= ends[d] /\ w \in DOMAIN Hist(d)
      BY <1>4, <1>5, <1>7, <3>1, <3>3, <3>4
    <3>8. Hist(e)' = h
      BY <1>11, <2>5
    <3> QED
      BY <2>3, <3>5, <3>6, <3>7, <3>8 DEF Fork, x
  <2> QED
    BY <2>4, <2>5
<1>14. ASSUME NEW e \in 1..n PROVE EpochInv(Hist(e)', ends2[e])
  <2>1. CASE e # n
    BY <1>2, <1>11, <1>12, <2>1
  <2>2. CASE e = n
    <3>1. EpochInv(g, log.committed)
      BY <1>1, <1>2
    <3>2. \A w \in DOMAIN g : w <= log.committed + Life
      BY <3>1 DEF EpochInv
    <3>3. \A w \in DOMAIN h : w <= c + Life
      BY <1>1, <1>4, <1>5, <1>6, <1>7, <3>2, Constants
    <3>4. ASSUME NEW w \in DOMAIN h, h[w] = "end"
          PROVE  w <= c /\ LastEpochEnd(w) > 0 /\ \A x \in DOMAIN h : x < w => x <= LastEpochEnd(w)
      <4>1. w \in DOMAIN g /\ g[w] = "end"
        BY <1>7, <3>4, OpFacts
      <4>2. w <= log.committed /\ LastEpochEnd(w) > 0 /\ \A x \in DOMAIN g : x < w => x <= LastEpochEnd(w)
        BY <3>1, <4>1 DEF EpochInv
      <4>3. w \in Nat /\ ~ (v < w)
        BY <1>4, <1>5, <4>1
      <4> QED
        BY <1>1, <1>6, <1>7, <4>2, <4>3
    <3>5. EpochInv(h, c)
      BY <3>3, <3>4 DEF EpochInv
    <3> QED
      BY <1>11, <1>12, <2>2, <3>5
  <2> QED
    BY <2>1, <2>2
<1>15. c \in DOMAIN h /\ \A w \in DOMAIN h : \A u \in c..w : u \in DOMAIN h
  <2>1. CASE c = v
    <3>1. \A w \in DOMAIN h : w \in Nat /\ w <= v
      BY <1>4, <1>5, <1>7
    <3>2. \A w \in DOMAIN h : \A u \in c..w : u = v
      BY <1>6, <2>1, <3>1
    <3> QED
      BY <1>7, <2>1, <3>2
  <2>2. CASE c = log.committed
    <3>1. \A w \in DOMAIN g : \A u \in c..w : u \in DOMAIN g
      BY <2>2 DEF LogInv
    <3>2. \A u \in c..Top(n) : u \in DOMAIN g
      BY <1>3, <3>1
    <3>3. \A u \in c..v : u = v \/ u \in c..Top(n)
      BY <1>3, <1>6
    <3> QED
      BY <1>1, <1>7, <2>2, <3>1, <3>2, <3>3
  <2> QED
    BY <2>1, <2>2
<1>16. LogInv(ends2)'
  <2>1. EndsInv(ends2)'
    BY <1>8, <1>12, <1>13 DEF EndsInv
  <2>2. \A e \in 1..log'.epoch : EpochInv(Hist(e)', ends2[e])
    BY <1>8, <1>14
  <2>3. (\A e \in 1..log.epoch : EpochInv(Hist(e), ends2[e]))'
    BY <2>2
  <2>4. Hist(log.epoch)' = h
    BY <1>8, <1>11 DEF Hist
  <2> QED
    BY <1>8, <1>15, <2>1, <2>3, <2>4 DEF LogInv
<1>17. Kept(ends, ends2)
  <2>1. Extends(g, h)
    BY <1>5, <1>7 DEF Extends
  <2>2. \A e \in 1..n : Extends(Hist(e), Hist(e)')
    <3> SUFFICES ASSUME NEW e \in 1..n PROVE Extends(Hist(e), Hist(e)')
      OBVIOUS
    <3>1. CASE e = n
      BY <1>11, <2>1, <3>1
    <3>2. CASE e # n
      BY <1>11, <3>2 DEF Extends
    <3> QED
      BY <3>1, <3>2
  <2>3. \A e \in 1..n : ends[e] <= ends2[e]
    BY <1>2, <1>6, <1>12
  <2>4. Survives(g, h, log.committed)
    <3>1. log.committed <= log.committed
      BY <1>1
    <3> QED
      BY <1>1, <1>4, <1>9, <2>1, <3>1, ExtendsSame
  <2>5. log'.hist[log'.epoch] = h
    BY <1>1, <1>8 DEF LogType
  <2> QED
    BY <1>1, <1>6, <1>8, <2>2, <2>3, <2>4, <2>5 DEF Kept
<1> QED
  BY <1>5, <1>10, <1>16, <1>17

\* The next version is committed.
LEMMA CommitKeeps ==
    ASSUME LogType, NEW ends, LogInv(ends), log.committed < Top(log.epoch),
           log' = [log EXCEPT !.committed = @ + 1],
           NEW ends2, ends2 = [ends EXCEPT ![log.epoch] = log.committed + 1]
    PROVE  LogType' /\ LogInv(ends2)' /\ Kept(ends, ends2)
<1> DEFINE n == log.epoch
           g == Hist(n)
           c == log.committed + 1
<1>1. n \in 1..n /\ n \in Nat /\ log.committed \in Nat /\ log.committed \in DOMAIN g /\ c \in Nat
  BY LastEpoch DEF LogInv
<1>2. /\ ends \in [1..n -> Nat] /\ ends[n] = log.committed
      /\ \A e \in 1..n : ends[e] \in Nat /\ EpochInv(Hist(e), ends[e])
  BY EndsType
<1>3. Top(n) \in DOMAIN g /\ Top(n) \in Nat
  BY <1>1, <1>2, TopFacts
<1>4. \A w \in DOMAIN g : w \in Nat
  BY <1>1, EpochHistory
<1>5. log'.epoch = n /\ log'.committed = c /\ log'.popped = log.popped /\ log'.hist = log.hist
  BY DEF LogType
<1>6. \A e : Hist(e)' = Hist(e)
  BY <1>5 DEF Hist
<1>7. LogType'
  BY <1>1, <1>5 DEF LogType
<1>8. /\ ends2 \in [1..n -> Nat] /\ ends2[n] = c
      /\ \A e \in 1..n : e # n => ends2[e] = ends[e]
  BY <1>1, <1>2
<1>9. \A d, e \in 1..n : d < e => Fork(d, e, ends2[d])'
  <2> SUFFICES ASSUME NEW d \in 1..n, NEW e \in 1..n, d < e PROVE Fork(d, e, ends2[d])'
    OBVIOUS
  <2>1. Fork(d, e, ends[d])
    BY DEF LogInv, EndsInv
  <2>2. ends2[d] = ends[d]
    BY <1>1, <1>8
  <2> QED
    BY <1>6, <2>1, <2>2 DEF Fork
<1>10. \A e \in 1..n : EpochInv(Hist(e), ends2[e])
  <2> SUFFICES ASSUME NEW e \in 1..n PROVE EpochInv(Hist(e), ends2[e])
    OBVIOUS
  <2>1. CASE e # n
    BY <1>2, <1>8, <2>1
  <2>2. CASE e = n
    <3>1. EpochInv(g, log.committed)
      BY <1>1, <1>2
    <3>2. EpochInv(g, c)
      BY <1>1, <1>4, <3>1, Constants DEF EpochInv
    <3> QED
      BY <1>8, <2>2, <3>2
  <2> QED
    BY <2>1, <2>2
<1>11. c \in DOMAIN g /\ \A w \in DOMAIN g : \A u \in c..w : u \in DOMAIN g
  <2>1. \A w \in DOMAIN g : \A u \in log.committed..w : u \in DOMAIN g
    BY DEF LogInv
  <2>2. c \in log.committed..Top(n)
    BY <1>1, <1>3
  <2>3. \A w \in DOMAIN g : \A u \in c..w : u \in log.committed..w
    BY <1>1, <1>4
  <2> QED
    BY <1>3, <2>1, <2>2, <2>3
<1> HIDE DEF c
<1>12. LogInv(ends2)'
  <2>1. EndsInv(ends2)'
    BY <1>5, <1>8, <1>9 DEF EndsInv
  <2> QED
    BY <1>5, <1>6, <1>10, <1>11, <2>1 DEF LogInv
<1>13. Kept(ends, ends2)
  <2>1. \A e \in 1..n : Extends(Hist(e), Hist(e)')
    BY <1>6 DEF Extends
  <2>2. log.committed <= c
    BY <1>1 DEF c
  <2>3. \A e \in 1..n : ends[e] <= ends2[e]
    BY <1>2, <1>8, <2>2
  <2>4. Survives(Hist(n), log'.hist[log'.epoch], log.committed)
    BY <1>5 DEF Survives, SameData, Hist
  <2> QED
    BY <1>1, <1>5, <1>8, <2>1, <2>2, <2>3, <2>4 DEF Kept
<1> QED
  BY <1>7, <1>12, <1>13

\* The ends when epoch n has ended at lastEpochEnd and the next one begins at v.
EndsAfter(ends, n, lastEpochEnd, v) ==
    [i \in 1..(n + 1) |-> IF i < n THEN ends[i] ELSE IF i = n THEN lastEpochEnd ELSE v]

\* A recovery starts an epoch from the log of the last one up to lastEpochEnd.
LEMMA RecoverKeeps ==
    ASSUME LogType, NEW ends, LogInv(ends), NEW lastEpochEnd, LogRecover(lastEpochEnd),
           NEW n, n = log.epoch, NEW v, v = lastEpochEnd + Flight,
           NEW ends2, ends2 = EndsAfter(ends, n, lastEpochEnd, v)
    PROVE  /\ LogType' /\ LogInv(ends2)' /\ Kept(ends, ends2)
           /\ log'.epoch = n + 1 /\ log'.committed = v /\ log'.popped = log.popped
<1> DEFINE g == Hist(n)
           D == {x \in DOMAIN g : x <= lastEpochEnd} \cup {v}
           h == [w \in D |-> IF w = v THEN "end" ELSE g[w]]
<1>1. n \in 1..n /\ n \in Nat /\ log.committed \in Nat /\ log.committed \in DOMAIN g
  BY LastEpoch DEF LogInv
<1>2. /\ ends \in [1..n -> Nat] /\ ends[n] = log.committed
      /\ \A e \in 1..n : ends[e] \in Nat /\ EpochInv(Hist(e), ends[e])
  BY EndsType
<1>3. Top(n) \in DOMAIN g /\ Top(n) \in Nat /\ \A w \in DOMAIN g : w <= Top(n)
  BY <1>1, <1>2, TopFacts
<1>4. g \in Histories /\ (\A w \in DOMAIN g : w \in Nat /\ w > 0) /\ \A w \in DOMAIN g : g[w] \in Op \cup {"end"}
  BY <1>1, EpochHistory
<1>5. /\ lastEpochEnd \in Nat /\ log.committed <= lastEpochEnd /\ lastEpochEnd \in DOMAIN g /\ lastEpochEnd > 0
  <2>1. lastEpochEnd \in log.committed..Top(n)
    BY DEF LogRecover
  <2>2. lastEpochEnd \in DOMAIN g
    BY <1>3, <2>1 DEF LogInv
  <2> QED
    BY <1>1, <1>4, <2>1, <2>2
<1>6. v \in Nat /\ lastEpochEnd < v
  BY <1>5, Constants
<1>7. DOMAIN h = D /\ h[v] = "end" /\ \A w \in DOMAIN g : w <= lastEpochEnd => w \in D /\ h[w] = g[w]
  BY <1>4, <1>5, <1>6
<1>8. /\ log'.epoch = n + 1 /\ log'.committed = v /\ log'.popped = log.popped
      /\ log'.hist = Append(log.hist, h)
  BY Constants DEF LogRecover, LogType
<1>9. h \in Histories
  <2>1. D \subseteq Nat \ {0}
    BY <1>4, <1>5, <1>6
  <2>2. h \in [D -> Op \cup {"end"}]
    BY <1>4
  <2> HIDE DEF D, h
  <2> QED
    BY <2>1, <2>2, IsHistory
<1>10. \A w \in DOMAIN h : w \in Nat /\ (w = v \/ (w \in DOMAIN g /\ w <= lastEpochEnd /\ h[w] = g[w]))
  BY <1>4, <1>6, <1>7
<1> HIDE DEF h, D
<1>11. LogType'
  <2>1. log'.hist \in Seq(Histories) /\ Len(log'.hist) = n + 1
    BY <1>1, <1>8, <1>9 DEF LogType
  <2>2. log' = [epoch |-> log'.epoch, hist |-> log'.hist, committed |-> log'.committed,
                popped |-> log'.popped]
    BY DEF LogRecover, LogType
  <2>3. log'.epoch \in Nat \ {0} /\ log'.committed \in Nat /\ log'.popped \in Nat
    BY <1>1, <1>6, <1>8, LastEpoch
  <2> QED
    BY <1>8, <2>1, <2>2, <2>3 DEF LogType
<1>12. Hist(n + 1)' = h /\ \A e \in 1..n : Hist(e)' = Hist(e)
  BY <1>1, <1>8 DEF Hist, LogType
<1>13. /\ ends2 \in [1..(n + 1) -> Nat] /\ ends2[n] = lastEpochEnd /\ ends2[n + 1] = v
       /\ \A e \in 1..n : e # n => ends2[e] = ends[e]
  BY <1>1, <1>2, <1>5, <1>6 DEF EndsAfter
<1>14. ASSUME NEW d \in 1..n, d # n
       PROVE  d < n /\ ends[d] \in Nat /\ ends[d] + Flight <= lastEpochEnd
  <2>1. d < n /\ ends[d] \in Nat
    BY <1>1, <1>2, <1>14
  <2>2. ends[d] + Flight <= ends[n]
    BY <1>1, <2>1, EndsGrow
  <2> QED
    BY <1>1, <1>2, <1>5, <2>1, <2>2, Constants
<1>15. ASSUME NEW d \in 1..(n + 1), NEW e \in 1..(n + 1), d < e PROVE Fork(d, e, ends2[d])'
  <2>1. d \in 1..n
    BY <1>1, <1>15
  <2>2. CASE e \in 1..n
    <3>1. Fork(d, e, ends[d])
      BY <1>15, <2>1, <2>2 DEF LogInv, EndsInv
    <3>2. d # n
      BY <1>1, <1>15, <2>2
    <3>3. ends2[d] = ends[d] /\ Hist(d)' = Hist(d) /\ Hist(e)' = Hist(e)
      BY <1>12, <1>13, <2>1, <2>2, <3>2
    <3> QED
      BY <3>1, <3>3 DEF Fork
  <2>3. CASE e = n + 1 /\ d # n
    <3> DEFINE x == ends[d] + Flight
    <3>1. Fork(d, n, ends[d])
      BY <1>1, <1>14, <2>1, <2>3 DEF LogInv, EndsInv
    <3>2. x \in DOMAIN g /\ g[x] = "end"
      BY <3>1 DEF Fork
    <3>3. \A w \in DOMAIN Hist(d) : w <= ends[d] => w \in DOMAIN g /\ g[w] = Hist(d)[w]
      BY <3>1 DEF Fork
    <3>4. \A w \in DOMAIN g : w < x => w <= ends[d] /\ w \in DOMAIN Hist(d)
      BY <3>1 DEF Fork
    <3>5. x <= lastEpochEnd /\ ends[d] <= lastEpochEnd /\ ends[d] \in Nat
      BY <1>5, <1>14, <2>1, <2>3, Constants
    <3>6. ends2[d] = ends[d] /\ Hist(d)' = Hist(d) /\ Hist(e)' = h
      BY <1>12, <1>13, <2>1, <2>3
    <3> HIDE DEF x
    <3>7. x \in DOMAIN h /\ h[x] = "end"
      BY <1>7, <3>2, <3>5
    <3>8. ASSUME NEW w \in DOMAIN Hist(d), w <= ends[d] PROVE w \in DOMAIN h /\ h[w] = Hist(d)[w]
      <4>1. w \in DOMAIN g /\ g[w] = Hist(d)[w]
        BY <3>3, <3>8
      <4>2. w <= lastEpochEnd
        BY <1>4, <1>5, <3>5, <3>8, <4>1
      <4> QED
        BY <1>7, <4>1, <4>2
    <3>9. ASSUME NEW w \in DOMAIN h, w < x PROVE w <= ends[d] /\ w \in DOMAIN Hist(d)
      <4>1. w # v
        BY <1>4, <1>5, <1>6, <3>2, <3>5, <3>9
      <4> QED
        BY <1>10, <3>4, <3>9, <4>1
    <3> QED
      BY <3>6, <3>7, <3>8, <3>9 DEF Fork, x
  <2>4. CASE e = n + 1 /\ d = n
    <3>1. ends2[d] = lastEpochEnd /\ Hist(d)' = g /\ Hist(e)' = h
      BY <1>1, <1>12, <1>13, <2>4
    <3>2. v \in DOMAIN h /\ h[v] = "end"
      BY <1>7 DEF D
    <3>3. \A w \in DOMAIN g : w <= lastEpochEnd => w \in DOMAIN h /\ h[w] = g[w]
      BY <1>7
    <3>4. \A w \in DOMAIN h : w < v => w <= lastEpochEnd /\ w \in DOMAIN g
      BY <1>6, <1>10
    <3> QED
      BY <3>1, <3>2, <3>3, <3>4 DEF Fork
  <2>5. e \in 1..n \/ e = n + 1
    BY <1>1
  <2> QED
    BY <2>2, <2>3, <2>4, <2>5
<1>16. EpochInv(g, lastEpochEnd)
  <2>1. EpochInv(g, log.committed)
    BY <1>1, <1>2
  <2> QED
    BY <1>1, <1>4, <1>5, <2>1, Constants DEF EpochInv
<1>17. EpochInv(h, v)
  <2>1. \A w \in DOMAIN h : w <= v + Life
    BY <1>5, <1>6, <1>10, Constants
  <2>2. ASSUME NEW w \in DOMAIN h, h[w] = "end"
        PROVE  w <= v /\ LastEpochEnd(w) > 0 /\ \A x \in DOMAIN h : x < w => x <= LastEpochEnd(w)
    <3>1. CASE w = v
      <4>1. LastEpochEnd(v) = lastEpochEnd
        BY <1>5, Constants DEF LastEpochEnd
      <4>2. v <= v
        BY <1>6
      <4> QED
        BY <1>5, <1>6, <1>10, <3>1, <4>1, <4>2
    <3>2. CASE w # v
      <4>1. w \in DOMAIN g /\ w <= lastEpochEnd /\ g[w] = "end" /\ w \in Nat
        BY <1>10, <2>2, <3>2
      <4>2. LastEpochEnd(w) > 0 /\ \A x \in DOMAIN g : x < w => x <= LastEpochEnd(w)
        BY <1>16, <4>1 DEF EpochInv
      <4>3. w <= v /\ ~ (v < w)
        BY <1>5, <1>6, <4>1
      <4> QED
        BY <1>10, <4>2, <4>3
    <3> QED
      BY <3>1, <3>2
  <2> QED
    BY <2>1, <2>2 DEF EpochInv
<1>18. ASSUME NEW e \in 1..(n + 1) PROVE EpochInv(Hist(e)', ends2[e])
  <2>1. e = n + 1 \/ e = n \/ (e \in 1..n /\ e # n)
    BY <1>1
  <2> QED
    BY <1>1, <1>2, <1>12, <1>13, <1>16, <1>17, <2>1
<1>19. v \in DOMAIN h /\ \A w \in DOMAIN h : \A u \in v..w : u \in DOMAIN h
  <2>1. v \in DOMAIN h
    BY <1>7 DEF D
  <2>2. \A w \in DOMAIN h : w \in Nat /\ w <= v
    BY <1>5, <1>6, <1>10
  <2>3. \A w \in DOMAIN h : \A u \in v..w : u = v
    BY <1>6, <2>2
  <2> QED
    BY <2>1, <2>3
<1>20. LogInv(ends2)'
  <2>1. EndsInv(ends2)'
    BY <1>8, <1>13, <1>15 DEF EndsInv
  <2>2. \A e \in 1..log'.epoch : EpochInv(Hist(e)', ends2[e])
    BY <1>8, <1>18
  <2>3. (\A e \in 1..log.epoch : EpochInv(Hist(e), ends2[e]))'
    BY <2>2
  <2>4. Hist(log.epoch)' = h
    BY <1>8, <1>12 DEF Hist
  <2> QED
    BY <1>8, <1>19, <2>1, <2>3, <2>4 DEF LogInv
<1>21. Kept(ends, ends2)
  <2>1. \A e \in 1..n : Extends(Hist(e), Hist(e)')
    BY <1>12 DEF Extends
  <2>2. \A e \in 1..n : ends[e] <= ends2[e]
    <3> SUFFICES ASSUME NEW e \in 1..n PROVE ends[e] <= ends2[e]
      OBVIOUS
    <3>1. CASE e = n
      BY <1>2, <1>5, <1>13, <3>1
    <3>2. CASE e # n
      <4>1. ends2[e] = ends[e] /\ ends[e] \in Nat
        BY <1>2, <1>13, <3>2
      <4> QED
        BY <4>1
    <3> QED
      BY <3>1, <3>2
  <2>3. log.committed <= v /\ n <= n + 1
    BY <1>1, <1>5, <1>6
  <2>4. Survives(g, h, log.committed)
    <3>1. \A w \in DOMAIN g : w <= log.committed => w \in DOMAIN h /\ h[w] = g[w]
      BY <1>1, <1>4, <1>5, <1>7
    <3>2. \A w \in DOMAIN h : w <= log.committed => w \in DOMAIN g /\ h[w] = g[w]
      BY <1>1, <1>5, <1>6, <1>10
    <3> QED
      BY <3>1, <3>2 DEF Survives, SameData
  <2>5. log'.hist[log'.epoch] = h
    BY <1>8, <1>12 DEF Hist
  <2> QED
    BY <1>8, <2>1, <2>2, <2>3, <2>4, <2>5 DEF Kept
<1> QED
  BY <1>8, <1>11, <1>20, <1>21

-----------------------------------------------------------------------------
(***************************************************************************)
(* Steps that leave parts of the state alone.                              *)
(***************************************************************************)

LEMMA QuietSame ==
    ASSUME NEW g, NEW h, NEW u, NEW a, Dated(g), Dated(h), u \in Nat, a \in Nat,
           SameData(g, h, u), Quiet(g, a, u), NEW b, b \in Nat, a <= b
    PROVE  Quiet(h, b, u)
<1> SUFFICES ASSUME NEW w \in DOMAIN h, b < w, w <= u, h[w] \in Touching PROVE FALSE
  BY DEF Quiet
<1>1. w \in Nat /\ h[w] # "none"
  BY OpFacts DEF Dated
<1>2. w \in DOMAIN g /\ g[w] = h[w]
  BY <1>1 DEF SameData
<1>3. a < w
  BY <1>1
<1> QED
  BY <1>2, <1>3 DEF Quiet

LEMMA SameDataLess ==
    ASSUME NEW g, NEW h, Dated(g), Dated(h), NEW u \in Nat, NEW v \in Nat, u <= v, SameData(g, h, v)
    PROVE  SameData(g, h, u)
<1>1. (\A w \in DOMAIN g : w \in Nat) /\ \A w \in DOMAIN h : w \in Nat
  BY DEF Dated
<1> QED
  BY <1>1 DEF SameData

\* A request that waits or is answered, in a step of the log or of the server.
LEMMA ReaderKept ==
    ASSUME LogType, LogType', NEW ends, NEW ends2, Kept(ends, ends2), ReaderInv, reader' = reader,
           ServerType(ss), ServerType(ss'), ss.oldestVersion <= ss'.oldestVersion,
           ss.durableVersion <= ss'.durableVersion, Serving => Serving'
    PROVE  ReaderInv'
<1>1. CASE reader = Idle
  BY <1>1 DEF ReaderInv, Idle
<1>2. CASE reader # Idle
  <2> DEFINE g == Hist(log.epoch)
             h == log'.hist[log'.epoch]
             v == reader.version
  <2>1. /\ reader \in [phase : {"waiting", "engine", "read", "replied"}, version : Nat, value : Value]
        /\ v \in DOMAIN g /\ v <= log.committed
        /\ reader.phase # "replied" => Serving
        /\ reader.phase = "engine" /\ ss.oldestVersion <= v => Quiet(g, ss.durableVersion, v)
        /\ reader.phase = "read" /\ ss.oldestVersion <= v => reader.value = DatabaseAt(g, v)
        /\ reader.phase = "replied" => reader.value = DatabaseAt(g, v)
    BY <1>2 DEF ReaderInv
  <2>2. v \in Nat
    BY <2>1
  <2>3. /\ ss.oldestVersion \in Nat /\ ss'.oldestVersion \in Nat
        /\ ss.durableVersion \in Nat /\ ss'.durableVersion \in Nat
    BY ServerFacts
  <2>4. log.committed \in Nat /\ log'.committed \in Nat /\ g \in Histories /\ h \in Histories
    BY DEF LogType, Hist
  <2>5. Dated(g) /\ Dated(h)
    BY <2>4, HistoryFacts
  <2>6. log.committed <= log'.committed /\ Survives(g, h, log.committed)
    BY DEF Kept
  <2>7. SameData(g, h, log.committed) /\ v \in DOMAIN h
    BY <2>1, <2>6 DEF Survives
  <2>8. Hist(log.epoch)' = h
    BY DEF Hist
  <2> HIDE DEF g, h, v
  <2>9. DatabaseAt(g, v) = DatabaseAt(h, v) /\ SameData(g, h, v)
    BY <2>1, <2>2, <2>4, <2>5, <2>7, DatabaseSame, SameDataLess
  <2>10. v <= log'.committed
    BY <2>1, <2>2, <2>4, <2>6
  <2>11. ss'.oldestVersion <= v => ss.oldestVersion <= v
    BY <2>2, <2>3
  <2>12. Quiet(g, ss.durableVersion, v) => Quiet(h, ss'.durableVersion, v)
    BY <2>2, <2>3, <2>5, <2>9, QuietSame
  <2> QED
    BY <2>1, <2>7, <2>8, <2>9, <2>10, <2>11, <2>12 DEF ReaderInv, v
<1> QED
  BY <1>1, <1>2

\* What the server holds, in a step of the log.
LEMMA SourceKept ==
    ASSUME LogType, LogType', NEW ends, NEW ends2, LogInv(ends), LogInv(ends2)', Kept(ends, ends2),
           NEW d \in 1..log.epoch, NEW d2, d2 \in 1..log'.epoch, SourceInv(ends, d),
           UNCHANGED <<ss, upd, dur, kv>>, log'.popped = log.popped,
           SameData(Hist(d), log'.hist[d2], ss.version), ends[d] <= ends2[d2],
           \E w \in DOMAIN log'.hist[d2] : ss.version <= w,
           ss.mode = "restored" => d2 = log'.epoch, ss.mode # "restored" => d2 = d
    PROVE  SourceInv(ends2, d2)'
<1> DEFINE g == Hist(d)
           h == log'.hist[d2]
<1>1. g \in Histories /\ h \in Histories /\ Dated(g) /\ Dated(h)
  <2>1. g \in Histories /\ h \in Histories
    BY DEF LogType, Hist
  <2> QED
    BY <2>1, HistoryFacts
<1>2. Hist(d2)' = h
  BY DEF Hist
<1>3. /\ ss.version \in Nat /\ ss.oldestVersion \in Nat /\ ss.desiredOldestVersion \in Nat
      /\ ss.restoredVersion \in Nat /\ ss.durableVersion \in Nat /\ ss.peek \in Nat
  BY ServerFacts DEF SourceInv
<1>4. ServerType(ss) /\ Memory(ss, g) /\ ModeInv(ends, d) /\ EngineInv(g) /\ StoringInv /\ UpdateInv(ends, d)
  BY DEF SourceInv
<1>5. ends[d] \in Nat /\ ends2[d2] \in Nat /\ log.epoch \in Nat /\ log'.epoch \in Nat /\ log.epoch <= log'.epoch
  BY DEF LogInv, EndsInv, LogType, Kept
<1> HIDE DEF g, h
<1>6. Memory(ss, h)
  BY <1>1, <1>4, SameMemory DEF g, h
<1>7. SameData(g, h, ss.version)
  BY DEF g, h
<1>8. ServerType(ss)' /\ Memory(ss, Hist(d2))'
  BY <1>2, <1>4, <1>6
<1>9. ModeInv(ends2, d2)'
  <2>1. ss.desiredOldestVersion <= ends2[d2] /\ ss.version <= ends2[d2] + Life
    BY <1>3, <1>4, <1>5, Constants DEF ModeInv
  <2>2. Serving => ss.restoredVersion < ends2[d2] /\ d2 <= ss.peek /\ ss.peek <= log'.epoch
    BY <1>3, <1>4, <1>5 DEF ModeInv, Serving
  <2>3. \E w \in DOMAIN h : ss.version <= w
    BY DEF h
  <2> QED
    BY <1>2, <1>4, <2>1, <2>2, <2>3 DEF ModeInv, Serving
<1>10. ASSUME NEW u \in Nat, u <= ss.version PROVE DatabaseAt(h, u) = DatabaseAt(g, u)
  BY <1>1, <1>3, <1>7, <1>10, DatabaseSame
<1>11. EngineInv(Hist(d2))'
  <2>1. kv.disk.version \in Nat /\ kv.disk.version <= ss.version /\ ss.oldestVersion <= ss.version
    BY <1>3, <1>4 DEF EngineInv, Version, Memory, Ordered
  <2>2. DatabaseAt(h, kv.disk.version) = DatabaseAt(g, kv.disk.version)
    BY <1>10, <2>1
  <2>3. DatabaseAt(h, ss.oldestVersion) = DatabaseAt(g, ss.oldestVersion)
    BY <1>3, <1>10, <2>1
  <2> QED
    BY <1>2, <1>4, <2>2, <2>3 DEF EngineInv
<1>12. StoringInv'
  BY <1>4 DEF StoringInv, Serving
<1>13. UpdateInv(ends2, d2)'
  <2>1. CASE upd = Idle
    BY <2>1 DEF UpdateInv, Idle
  <2>2. CASE upd # Idle
    <3>1. /\ upd \in [phase : {"apply"}, epoch : Nat, to : Nat, eager : Value, lastTLogVersion : Nat]
          /\ Running
          /\ d <= upd.epoch /\ upd.epoch <= ss.peek /\ upd.epoch <= log.epoch
          /\ upd.to \in DOMAIN Hist(upd.epoch) /\ upd.to > ss.version
          /\ upd.lastTLogVersion <= ends[upd.epoch] + Life
          /\ AtLatest(ss.tree) = NoEntry => upd.eager = DatabaseAt(g, ss.version)
      BY <1>4, <2>2 DEF UpdateInv, g
    <3> DEFINE e == upd.epoch
    <3>2. e \in 1..log.epoch /\ d2 = d /\ e \in 1..log'.epoch
      BY <1>5, <3>1 DEF Running
    <3>3. ends[e] <= ends2[e] /\ Extends(Hist(e), Hist(e)') /\ ends[e] \in Nat /\ ends2[e] \in Nat
      <4>1. ends[e] <= ends2[e] /\ Extends(Hist(e), log'.hist[e])
        BY <3>2 DEF Kept, Hist
      <4>2. ends[e] \in Nat /\ ends2[e] \in Nat
        BY <3>2 DEF LogInv, EndsInv
      <4> QED
        BY <4>1, <4>2 DEF Hist
    <3>4. upd.to \in DOMAIN Hist(e)'
      BY <3>1, <3>3 DEF Extends
    <3>5. upd.lastTLogVersion <= ends2[e] + Life
      BY <3>1, <3>3, Constants
    <3>6. e <= log'.epoch
      BY <3>2
    <3>7. DatabaseAt(h, ss.version) = DatabaseAt(g, ss.version)
      BY <1>3, <1>10
    <3>8. Hist(upd.epoch)' = Hist(e)'
      BY DEF Hist
    <3> QED
      BY <1>2, <3>1, <3>2, <3>4, <3>5, <3>6, <3>7, <3>8 DEF UpdateInv, Running
  <2> QED
    BY <2>1, <2>2
<1> QED
  BY <1>8, <1>9, <1>11, <1>12, <1>13 DEF SourceInv

LEMMA NextInv ==
    ASSUME LogType', ReaderInv', NEW ends2, NEW d2, d2 \in 1..log'.epoch, LogInv(ends2)', SourceInv(ends2, d2)'
    PROVE  IInv'
<1>1. ends2 \in [1..log'.epoch -> Nat]
  BY DEF LogInv, EndsInv
<1>2. (\E ends \in [1..log.epoch -> Nat], d \in 1..log.epoch : LogInv(ends) /\ SourceInv(ends, d))'
  BY <1>1
<1> QED
  BY <1>2 DEF IInv

\* A step of the log that leaves the server in its epoch.
LEMMA LogStepInv ==
    ASSUME IInv, LogType', NEW ends, NEW ends2, LogInv(ends), LogInv(ends2)', Kept(ends, ends2),
           NEW d \in 1..log.epoch, SourceInv(ends, d), UNCHANGED <<ss, upd, dur, kv, reader>>,
           log'.popped = log.popped, ss.mode = "restored" => log'.epoch = log.epoch
    PROVE  IInv'
<1>1. LogType /\ ReaderInv /\ ServerType(ss) /\ ModeInv(ends, d)
  BY DEF IInv, SourceInv
<1>2. log.epoch \in Nat /\ log'.epoch \in Nat /\ log.epoch <= log'.epoch
  BY <1>1 DEF LogType, Kept
<1>3. d \in 1..log'.epoch
  BY <1>2
<1> DEFINE h == log'.hist[d]
<1>4. Hist(d) \in Histories /\ h \in Histories /\ Extends(Hist(d), h) /\ ends[d] <= ends2[d]
  BY <1>1, <1>3 DEF LogType, Hist, Kept
<1>5. ss.version \in Nat /\ ss.oldestVersion \in Nat /\ ss.durableVersion \in Nat
  BY <1>1, ServerFacts
<1>6. PICK x \in DOMAIN Hist(d) : ss.version <= x
  BY <1>1 DEF ModeInv
<1>7. x \in DOMAIN h
  BY <1>4 DEF Extends
<1> HIDE DEF h
<1>8. SameData(Hist(d), h, ss.version)
  BY <1>4, <1>5, <1>6, ExtendsSame
<1>9. ss.mode = "restored" => d = log'.epoch
  BY <1>1 DEF ModeInv
<1>10. SourceInv(ends2, d)'
  BY <1>1, <1>3, <1>4, <1>6, <1>7, <1>8, <1>9, SourceKept DEF h
<1>11. ReaderInv'
  <2>1. ServerType(ss') /\ ss.oldestVersion <= ss'.oldestVersion /\ ss.durableVersion <= ss'.durableVersion
    BY <1>1, <1>5
  <2>2. Serving => Serving'
    BY DEF Serving
  <2> QED
    BY <1>1, <2>1, <2>2, ReaderKept
<1> QED
  BY <1>3, <1>10, <1>11, NextInv

LEMMA LogPushInv ==
    ASSUME IInv, NEW op \in Op, LogPush(op)
    PROVE  IInv'
<1>1. LogType
  BY DEF IInv
<1>2. PICK ends \in [1..log.epoch -> Nat], d \in 1..log.epoch : LogInv(ends) /\ SourceInv(ends, d)
  BY DEF IInv
<1>3. PICK v : v = Top(log.epoch) + 1
  OBVIOUS
<1>4. PICK c : c = log.committed
  OBVIOUS
<1>5. PICK p : p = log.popped
  OBVIOUS
<1>6. PICK ends2 : ends2 = [ends EXCEPT ![log.epoch] = c]
  OBVIOUS
<1>7. log.committed >= v - Life /\ log' = [log EXCEPT !.hist[log.epoch] = Over(@, [w \in {v} |-> op])]
  BY <1>3 DEF LogPush
<1>8. log' = [epoch |-> log.epoch, hist |-> [log.hist EXCEPT ![log.epoch] = Over(@, [w \in {v} |-> op])],
              committed |-> c, popped |-> p]
  BY <1>1, <1>4, <1>5, <1>7 DEF LogType
<1>9. p \in Nat /\ c \in Nat /\ Life \in Nat
  BY <1>1, <1>4, <1>5, Constants DEF LogType
<1>10. v \in Int
  <2>1. log.committed \in DOMAIN Hist(log.epoch)
    BY <1>2 DEF LogInv
  <2>2. Top(log.epoch) \in Nat
    BY <1>1, <1>2, <2>1, LastEpoch, EndsType, TopFacts
  <2> QED
    BY <1>3, <2>2
<1>11. v <= c + Life
  BY <1>4, <1>7, <1>9, <1>10
<1>12. LogType' /\ LogInv(ends2)' /\ Kept(ends, ends2)
  BY <1>1, <1>2, <1>3, <1>4, <1>6, <1>8, <1>9, <1>11, PushKeeps
<1>13. log'.popped = log.popped /\ log'.epoch = log.epoch
  BY <1>5, <1>8
<1>14. UNCHANGED <<ss, upd, dur, kv, reader>>
  BY DEF LogPush
<1> QED
  BY <1>1, <1>2, <1>12, <1>13, <1>14, LogStepInv

LEMMA LogCommitInv ==
    ASSUME IInv, LogCommit
    PROVE  IInv'
<1>1. LogType
  BY DEF IInv
<1>2. PICK ends \in [1..log.epoch -> Nat], d \in 1..log.epoch : LogInv(ends) /\ SourceInv(ends, d)
  BY DEF IInv
<1>3. PICK ends2 : ends2 = [ends EXCEPT ![log.epoch] = log.committed + 1]
  OBVIOUS
<1>4. /\ log.committed < Top(log.epoch) /\ log' = [log EXCEPT !.committed = @ + 1]
      /\ UNCHANGED <<ss, upd, dur, kv, reader>>
  BY DEF LogCommit
<1>5. LogType' /\ LogInv(ends2)' /\ Kept(ends, ends2)
  BY <1>1, <1>2, <1>3, <1>4, CommitKeeps
<1>6. log'.popped = log.popped /\ log'.epoch = log.epoch
  BY <1>1, <1>4 DEF LogType
<1> QED
  BY <1>1, <1>2, <1>4, <1>5, <1>6, LogStepInv

\* A server that has not started to peek takes its data for that of the new epoch.
LEMMA LogRecoverInv ==
    ASSUME IInv, NEW lastEpochEnd, LogRecover(lastEpochEnd)
    PROVE  IInv'
<1>1. LogType
  BY DEF IInv
<1>2. PICK ends \in [1..log.epoch -> Nat], d \in 1..log.epoch : LogInv(ends) /\ SourceInv(ends, d)
  BY DEF IInv
<1>3. PICK n : n = log.epoch
  OBVIOUS
<1>4. PICK v : v = lastEpochEnd + Flight
  OBVIOUS
<1>5. PICK ends2 : ends2 = EndsAfter(ends, n, lastEpochEnd, v)
  OBVIOUS
<1>6. /\ LogType' /\ LogInv(ends2)' /\ Kept(ends, ends2)
      /\ log'.epoch = n + 1 /\ log'.committed = v /\ log'.popped = log.popped
  BY <1>1, <1>2, <1>3, <1>4, <1>5, RecoverKeeps
<1>7. UNCHANGED <<ss, upd, dur, kv, reader>>
  BY DEF LogRecover
<1>8. CASE ss.mode # "restored"
  BY <1>1, <1>2, <1>6, <1>7, <1>8, LogStepInv
<1>9. CASE ss.mode = "restored"
  <2> DEFINE h == log'.hist[n + 1]
  <2>1. ServerType(ss) /\ Memory(ss, Hist(d)) /\ ModeInv(ends, d)
    BY <1>2 DEF SourceInv
  <2>2. d = log.epoch /\ ss.version = ss.restoredVersion /\ ss.version = ss.oldestVersion
    BY <1>9, <2>1 DEF ModeInv
  <2>3. /\ ss.version \in Nat /\ ss.desiredOldestVersion \in Nat
        /\ ss.oldestVersion \in Nat /\ ss.durableVersion \in Nat
    BY <2>1, ServerFacts
  <2>4. log.committed \in Nat /\ ends[d] = log.committed
    BY <1>1, <1>2, <2>2, EndsType, LastEpoch
  <2>5. ss.version <= log.committed
    BY <2>1, <2>2, <2>3, <2>4 DEF ModeInv, Memory, Ordered
  <2>6. n \in Nat /\ n + 1 \in 1..log'.epoch /\ log.committed <= v /\ v \in Nat
    BY <1>1, <1>3, <1>6 DEF LogType, Kept
  <2>7. /\ v \in DOMAIN h /\ ends2[n + 1] = v /\ Hist(d) \in Histories /\ h \in Histories
        /\ Survives(Hist(d), h, log.committed)
    <3>1. v \in DOMAIN h /\ ends2[n + 1] = v
      BY <1>6 DEF LogInv, EndsInv, Hist
    <3>2. Hist(d) \in Histories /\ h \in Histories
      BY <1>1, <1>6, <2>6 DEF LogType, Hist
    <3>3. Survives(Hist(d), h, log.committed)
      BY <1>6, <2>2 DEF Kept
    <3> QED
      BY <3>1, <3>2, <3>3
  <2>8. SameData(Hist(d), h, ss.version)
    <3>1. Dated(Hist(d)) /\ Dated(h) /\ SameData(Hist(d), h, log.committed)
      BY <2>7, HistoryFacts DEF Survives
    <3> HIDE DEF h
    <3> QED
      BY <2>3, <2>4, <2>5, <3>1, SameDataLess
  <2>9. ss.version <= v /\ ends[d] <= ends2[n + 1]
    BY <2>3, <2>4, <2>5, <2>6, <2>7
  <2>10. PICK m : m = n + 1
    OBVIOUS
  <2>11. SourceInv(ends2, m)'
    BY <1>1, <1>2, <1>6, <1>7, <1>9, <2>6, <2>7, <2>8, <2>9, <2>10, SourceKept
  <2>12. ReaderInv'
    <3>1. ServerType(ss') /\ ss.oldestVersion <= ss'.oldestVersion /\ ss.durableVersion <= ss'.durableVersion
      BY <1>7, <2>1, <2>3
    <3>2. Serving => Serving'
      BY <1>7 DEF Serving
    <3> QED
      BY <1>1, <1>6, <1>7, <2>1, <3>1, <3>2, ReaderKept DEF IInv
  <2> QED
    BY <1>6, <2>6, <2>10, <2>11, <2>12, NextInv
<1> QED
  BY <1>8, <1>9

-----------------------------------------------------------------------------
(***************************************************************************)
(* Requests.                                                               *)
(***************************************************************************)

\* What the engine may return, where nothing changed since what is durable.
LEMMA EngineRead ==
    ASSUME NEW g, NEW h, Dated(g), Dated(h), ServerType(ss), Ordered(ss), EngineInv(g),
           SameData(g, h, ss.oldestVersion), NEW v \in Nat, ss.oldestVersion <= v,
           Quiet(h, ss.durableVersion, v), NEW value \in EngineValues
    PROVE  value = DatabaseAt(h, v)
<1>1. ss.oldestVersion \in Nat /\ ss.durableVersion \in Nat
  BY ServerFacts
<1>2. PICK u \in Nat : value = DatabaseAt(g, u) /\ ss.durableVersion <= u /\ u <= ss.oldestVersion
  <2>1. CASE value = kv.disk.value
    <3>1. /\ kv.disk.version \in Nat /\ value = DatabaseAt(g, kv.disk.version)
          /\ ss.durableVersion <= kv.disk.version /\ kv.disk.version <= ss.oldestVersion
      BY <2>1 DEF EngineInv, Version
    <3> QED
      BY <3>1
  <2>2. CASE value = kv.written.value
    <3>1. value = DatabaseAt(g, ss.oldestVersion) /\ ss.durableVersion <= ss.oldestVersion
      BY <2>2 DEF EngineInv, Ordered
    <3> QED
      BY <1>1, <3>1
  <2> QED
    BY <2>1, <2>2 DEF EngineValues
<1>3. DatabaseAt(g, u) = DatabaseAt(h, u)
  BY <1>1, <1>2, DatabaseSame
<1>4. Quiet(h, u, v)
  <2>1. \A w \in DOMAIN h : w \in Nat
    BY DEF Dated
  <2> QED
    BY <1>1, <1>2, <2>1 DEF Quiet
<1>5. u <= v
  BY <1>1, <1>2
<1>6. DatabaseAt(h, u) = DatabaseAt(h, v)
  BY <1>2, <1>4, <1>5, DatabaseQuiet
<1> QED
  BY <1>2, <1>3, <1>6

\* A version of the last epoch that a server has applied is one of its own epoch too.
LEMMA Visible ==
    ASSUME LogType, NEW ends, LogInv(ends), NEW d \in 1..log.epoch, ServerType(ss), ModeInv(ends, d),
           NEW v \in DOMAIN Hist(log.epoch), v <= ss.version
    PROVE  v \in Nat /\ SameData(Hist(d), Hist(log.epoch), v)
<1>1. v \in Nat /\ ss.version \in Nat /\ Dated(Hist(d)) /\ Dated(Hist(log.epoch))
  BY LastEpoch, EpochHistory, ServerFacts
<1>2. CASE d = log.epoch
  BY <1>1, <1>2 DEF SameData
<1>3. CASE d # log.epoch
  <2>1. d < log.epoch /\ d <= log.epoch
    BY <1>3, LastEpoch
  <2>2. Fork(d, log.epoch, ends[d])
    BY <2>1, LastEpoch DEF LogInv, EndsInv
  <2>3. ends[d] \in Nat /\ ss.version <= ends[d] + Life
    BY EndsType DEF ModeInv
  <2>4. v < ends[d] + Flight
    BY <1>1, <2>3, Constants
  <2>5. v <= ends[d]
    BY <2>2, <2>4 DEF Fork
  <2>6. SameData(Hist(d), Hist(log.epoch), ends[d])
    BY <2>1, LastEpoch, EpochsAgree
  <2> QED
    BY <1>1, <2>3, <2>5, <2>6, SameDataLess
<1> QED
  BY <1>2, <1>3

\* Nothing but the request changes.
LEMMA ReaderStepInv ==
    ASSUME IInv, UNCHANGED <<log, ss, upd, dur, kv>>, ReaderInv'
    PROVE  IInv'
<1>1. LogType /\ \E ends \in [1..log.epoch -> Nat], d \in 1..log.epoch : LogInv(ends) /\ SourceInv(ends, d)
  BY DEF IInv
<1>2. LogType'
  BY <1>1 DEF LogType
<1>3. PICK ends \in [1..log.epoch -> Nat], d \in 1..log.epoch : LogInv(ends) /\ SourceInv(ends, d)
  BY <1>1
<1>4. LogInv(ends)'
  BY <1>3 DEF LogInv, EndsInv, Fork, Hist
<1>5. SourceInv(ends, d)'
  BY <1>3 DEF SourceInv, ModeInv, EngineInv, StoringInv, UpdateInv, Hist, Running, Serving
<1> QED
  BY <1>2, <1>3, <1>4, <1>5, NextInv

LEMMA ReadBeginInv ==
    ASSUME IInv, NEW v, ReadBegin(v)
    PROVE  IInv'
<1>1. LogType
  BY DEF IInv
<1>2. v \in DOMAIN Hist(log.epoch) /\ v <= log.committed /\ Serving /\ UNCHANGED <<log, ss, upd, dur, kv>>
  BY DEF ReadBegin
<1>3. v \in Nat
  BY <1>1, <1>2, LastEpoch, EpochHistory
<1>4. reader' = [phase |-> "waiting", version |-> v, value |-> <<>>] /\ <<>> \in Value
  BY DEF ReadBegin, Value
<1>5. ReaderInv'
  <2>1. reader' \in [phase : {"waiting", "engine", "read", "replied"}, version : Nat, value : Value]
    BY <1>3, <1>4
  <2>2. reader'.phase = "waiting" /\ reader'.version = v
    BY <1>4
  <2> QED
    BY <1>2, <2>1, <2>2 DEF ReaderInv, Hist, Serving
<1> QED
  BY <1>2, <1>5, ReaderStepInv

LEMMA ReadRefusedInv ==
    ASSUME IInv, ReadRefused \/ (reader' = Idle /\ UNCHANGED <<log, ss, upd, dur, kv>>)
    PROVE  IInv'
<1>1. reader' = Idle /\ UNCHANGED <<log, ss, upd, dur, kv>>
  BY DEF ReadRefused
<1>2. ReaderInv'
  BY <1>1 DEF ReaderInv, Idle
<1> QED
  BY <1>1, <1>2, ReaderStepInv

\* A version that a request may read at: found in the map, or to be read from the engine.
LEMMA ReadLookupInv ==
    ASSUME IInv, ReadLookup
    PROVE  IInv'
<1> DEFINE v == reader.version
           entry == At(ss.tree, v)
           h == Hist(log.epoch)
<1>1. LogType /\ ReaderInv
  BY DEF IInv
<1>2. PICK ends \in [1..log.epoch -> Nat], d \in 1..log.epoch : LogInv(ends) /\ SourceInv(ends, d)
  BY DEF IInv
<1>3. /\ Serving /\ reader.phase = "waiting" /\ v <= ss.version
      /\ UNCHANGED <<log, ss, upd, dur, kv>>
      /\ reader' = IF v < ss.oldestVersion THEN Idle
                   ELSE IF entry = NoEntry THEN [reader EXCEPT !.phase = "engine"]
                   ELSE [reader EXCEPT !.phase = "replied", !.value = entry.value]
  BY DEF ReadLookup
<1>4. CASE v < ss.oldestVersion
  BY <1>3, <1>4, ReadRefusedInv
<1>5. CASE ~ (v < ss.oldestVersion)
  <2>1. /\ reader \in [phase : {"waiting", "engine", "read", "replied"}, version : Nat, value : Value]
        /\ v \in DOMAIN h /\ v <= log.committed
    BY <1>1, <1>3 DEF ReaderInv, Idle
  <2>2. /\ ServerType(ss) /\ Memory(ss, Hist(d)) /\ TreeInv(ss, Hist(d)) /\ ModeInv(ends, d)
    BY <1>2 DEF SourceInv, Memory
  <2>3. ss.oldestVersion \in Nat /\ ss.durableVersion \in Nat /\ v \in Nat /\ ss.oldestVersion <= v
    BY <1>5, <2>1, <2>2, ServerFacts
  <2>4. Dated(Hist(d)) /\ Dated(h)
    BY <1>1, LastEpoch, EpochHistory
  <2>5. SameData(Hist(d), h, v)
    BY <1>1, <1>2, <1>3, <2>1, <2>2, Visible
  <2> HIDE DEF v, entry, h
  <2>6. entry \in Entry /\ Good(entry, Hist(d), ss.durableVersion, v)
    BY <1>3, <2>2, <2>3, <2>4, AtGood DEF entry
  <2>7. h = Hist(log.epoch)' /\ ss' = ss
    BY <1>3 DEF h, Hist
  <2>8. CASE entry = NoEntry
    <3>1. Quiet(Hist(d), ss.durableVersion, v)
      <4>1. NoEntry.insertVersion \notin DOMAIN Hist(d)
        BY <2>4, NoEntryType DEF Dated
      <4> QED
        BY <2>6, <2>8, <4>1 DEF Good
    <3>2. Quiet(h, ss.durableVersion, v)
      <4>1. ss.durableVersion <= ss.durableVersion
        BY <2>3
      <4> QED
        BY <2>3, <2>4, <2>5, <3>1, <4>1, QuietSame
    <3>3. reader' = [reader EXCEPT !.phase = "engine"]
      BY <1>3, <1>5, <2>8
    <3>4. /\ reader' \in [phase : {"waiting", "engine", "read", "replied"}, version : Nat, value : Value]
          /\ reader'.phase = "engine" /\ reader'.version = v
      BY <2>1, <3>3 DEF v
    <3>5. ReaderInv'
      BY <1>3, <2>1, <2>7, <3>2, <3>4 DEF ReaderInv, Serving
    <3> QED
      BY <1>3, <3>5, ReaderStepInv
  <2>9. CASE entry # NoEntry
    <3>1. entry.value = DatabaseAt(Hist(d), v)
      BY <2>6, <2>9 DEF Good
    <3>2. DatabaseAt(Hist(d), v) = DatabaseAt(h, v)
      <4>1. v <= v
        BY <2>3
      <4> QED
        BY <2>3, <2>4, <2>5, <4>1, DatabaseSame
    <3>3. reader' = [reader EXCEPT !.phase = "replied", !.value = entry.value]
      BY <1>3, <1>5, <2>9
    <3>4. /\ reader' \in [phase : {"waiting", "engine", "read", "replied"}, version : Nat, value : Value]
          /\ reader'.phase = "replied" /\ reader'.version = v /\ reader'.value = entry.value
      <4>1. entry.value \in Value
        BY <2>6 DEF Entry
      <4> QED
        BY <2>1, <3>3, <4>1 DEF v
    <3>5. ReaderInv'
      BY <1>3, <2>1, <2>7, <3>1, <3>2, <3>4 DEF ReaderInv, Serving
    <3> QED
      BY <1>3, <3>5, ReaderStepInv
  <2> QED
    BY <2>8, <2>9
<1> QED
  BY <1>4, <1>5

\* The engine has moved on, or its answer is that for the version of the request.
LEMMA ReadEngineInv ==
    ASSUME IInv, NEW value, ReadEngine(value)
    PROVE  IInv'
<1> DEFINE v == reader.version
           h == Hist(log.epoch)
<1>1. LogType /\ ReaderInv
  BY DEF IInv
<1>2. PICK ends \in [1..log.epoch -> Nat], d \in 1..log.epoch : LogInv(ends) /\ SourceInv(ends, d)
  BY DEF IInv
<1>3. /\ Serving /\ reader.phase = "engine" /\ value \in EngineValues
      /\ UNCHANGED <<log, ss, upd, dur, kv>>
      /\ reader' = [reader EXCEPT !.phase = "read", !.value = value]
  BY DEF ReadEngine
<1>4. /\ reader \in [phase : {"waiting", "engine", "read", "replied"}, version : Nat, value : Value]
      /\ v \in DOMAIN h /\ v <= log.committed
      /\ ss.oldestVersion <= v => Quiet(h, ss.durableVersion, v)
  BY <1>1, <1>3 DEF ReaderInv, Idle
<1>5. /\ ServerType(ss) /\ Ordered(ss) /\ EngineInv(Hist(d)) /\ ModeInv(ends, d)
  BY <1>2 DEF SourceInv, Memory
<1>6. ss.oldestVersion \in Nat /\ ss.desiredOldestVersion \in Nat /\ v \in Nat /\ ends[d] \in Nat
  BY <1>1, <1>2, <1>4, <1>5, ServerFacts, EndsType
<1>7. Dated(Hist(d)) /\ Dated(h)
  BY <1>1, LastEpoch, EpochHistory
<1>8. SameData(Hist(d), h, ss.oldestVersion)
  <2>1. SameData(Hist(d), h, ends[d])
    <3>1. d <= log.epoch
      BY <1>1, LastEpoch
    <3> QED
      BY <1>1, <1>2, <3>1, LastEpoch, EpochsAgree
  <2>2. ss.oldestVersion <= ends[d]
    BY <1>5, <1>6 DEF Ordered, ModeInv
  <2> HIDE DEF h
  <2> QED
    BY <1>6, <1>7, <2>1, <2>2, SameDataLess
<1> HIDE DEF v, h
<1>9. ss.oldestVersion <= v => value = DatabaseAt(h, v)
  BY <1>3, <1>4, <1>5, <1>6, <1>7, <1>8, EngineRead
<1>10. value \in Value
  BY <1>3, <1>5 DEF EngineValues, EngineInv
<1>11. h = Hist(log.epoch)' /\ ss' = ss
  BY <1>3 DEF h, Hist
<1>12. /\ reader' \in [phase : {"waiting", "engine", "read", "replied"}, version : Nat, value : Value]
       /\ reader'.phase = "read" /\ reader'.version = v /\ reader'.value = value
  BY <1>3, <1>4, <1>10 DEF v
<1>13. ReaderInv'
  BY <1>3, <1>4, <1>9, <1>11, <1>12 DEF ReaderInv, Serving
<1> QED
  BY <1>3, <1>13, ReaderStepInv

LEMMA ReadReplyInv ==
    ASSUME IInv, ReadReply
    PROVE  IInv'
<1>1. LogType /\ ReaderInv
  BY DEF IInv
<1>2. /\ Serving /\ reader.phase = "read" /\ UNCHANGED <<log, ss, upd, dur, kv>>
      /\ reader' = IF reader.version < ss.oldestVersion THEN Idle ELSE [reader EXCEPT !.phase = "replied"]
  BY DEF ReadReply
<1>3. CASE reader.version < ss.oldestVersion
  BY <1>2, <1>3, ReadRefusedInv
<1>4. CASE ~ (reader.version < ss.oldestVersion)
  <2>1. /\ reader \in [phase : {"waiting", "engine", "read", "replied"}, version : Nat, value : Value]
        /\ reader.version \in DOMAIN Hist(log.epoch) /\ reader.version <= log.committed
        /\ ss.oldestVersion <= reader.version => reader.value = DatabaseAt(Hist(log.epoch), reader.version)
    BY <1>1, <1>2 DEF ReaderInv, Idle
  <2>2. ss.oldestVersion \in Nat
    BY ServerFacts DEF IInv, SourceInv
  <2>3. ss.oldestVersion <= reader.version
    BY <1>4, <2>1, <2>2
  <2>4. reader' = [reader EXCEPT !.phase = "replied"] /\ Hist(log.epoch)' = Hist(log.epoch)
    BY <1>2, <1>4 DEF Hist
  <2>5. /\ reader' \in [phase : {"waiting", "engine", "read", "replied"}, version : Nat, value : Value]
        /\ reader'.phase = "replied" /\ reader'.version = reader.version /\ reader'.value = reader.value
    BY <2>1, <2>4
  <2>6. ReaderInv'
    BY <1>2, <2>1, <2>3, <2>4, <2>5 DEF ReaderInv
  <2> QED
    BY <1>2, <2>6, ReaderStepInv
<1> QED
  BY <1>3, <1>4

-----------------------------------------------------------------------------
(***************************************************************************)
(* updateStorage.                                                          *)
(***************************************************************************)

LEMMA LogStutters ==
    ASSUME LogType, log' = log
    PROVE  log' = [log EXCEPT !.popped = log.popped] /\ log.popped \in Nat
BY DEF LogType

LEMMA PoppedIs ==
    ASSUME LogType, NEW v \in Nat
    PROVE  \E p \in Nat : Popped(v) = [log EXCEPT !.popped = p] /\ (p = log.popped \/ p = v)
<1>1. log.popped \in Nat /\ Popped(v) = [log EXCEPT !.popped = Max({log.popped, v})]
  BY DEF LogType, Popped
<1>2. Max({log.popped, v}) \in {log.popped, v}
  BY <1>1, MaxOfTwo
<1> QED
  BY <1>1, <1>2

\* A step of the server while requests wait.
LEMMA ServerStepInv ==
    ASSUME LogType, ReaderInv, NEW ends, LogInv(ends), ServerType(ss), NEW p \in Nat,
           log' = [log EXCEPT !.popped = p], reader' = reader, ServerType(ss'),
           ss.oldestVersion <= ss'.oldestVersion, ss.durableVersion <= ss'.durableVersion,
           Serving => Serving', NEW d \in 1..log.epoch, SourceInv(ends, d)'
    PROVE  IInv'
<1>1. LogType' /\ LogInv(ends)' /\ Kept(ends, ends) /\ log'.epoch = log.epoch
  BY LogUnchanged
<1>2. ReaderInv'
  BY <1>1, ReaderKept
<1>3. d \in 1..log'.epoch
  BY <1>1
<1> QED
  BY <1>1, <1>2, <1>3, NextInv

\* The parts of the invariant that the next steps start from.
LEMMA SourceFacts ==
    ASSUME LogType, NEW ends, LogInv(ends), NEW d \in 1..log.epoch, SourceInv(ends, d)
    PROVE  /\ ServerType(ss) /\ Memory(ss, Hist(d)) /\ ModeInv(ends, d)
           /\ EngineInv(Hist(d)) /\ StoringInv /\ UpdateInv(ends, d)
           /\ Ordered(ss) /\ TreeInv(ss, Hist(d)) /\ MutationsInv(ss, Hist(d)) /\ Dated(Hist(d))
           /\ ends[d] \in Nat /\ log.epoch \in Nat /\ d \in Nat
           /\ ss.version \in Nat /\ ss.desiredOldestVersion \in Nat /\ ss.oldestVersion \in Nat
           /\ ss.durableVersion \in Nat /\ ss.storageMinRecoverVersion \in Nat
           /\ ss.lastVersionWithData \in Nat /\ ss.restoredVersion \in Nat /\ ss.peek \in Nat
           /\ kv.disk.version \in Nat /\ kv.disk.value \in Value
           /\ kv.written.version \in Nat /\ kv.written.value \in Value
<1>1. /\ ServerType(ss) /\ Memory(ss, Hist(d)) /\ ModeInv(ends, d)
      /\ EngineInv(Hist(d)) /\ StoringInv /\ UpdateInv(ends, d)
      /\ Ordered(ss) /\ TreeInv(ss, Hist(d)) /\ MutationsInv(ss, Hist(d))
  BY DEF SourceInv, Memory
<1>2. Dated(Hist(d)) /\ ends[d] \in Nat /\ log.epoch \in Nat /\ d \in Nat
  BY EpochHistory, EndsType, LastEpoch
<1>3. /\ ss.version \in Nat /\ ss.desiredOldestVersion \in Nat /\ ss.oldestVersion \in Nat
      /\ ss.durableVersion \in Nat /\ ss.storageMinRecoverVersion \in Nat
      /\ ss.lastVersionWithData \in Nat /\ ss.restoredVersion \in Nat /\ ss.peek \in Nat
  BY <1>1, ServerFacts
<1>4. /\ kv.disk.version \in Nat /\ kv.disk.value \in Value
      /\ kv.written.version \in Nat /\ kv.written.value \in Value
  BY <1>1 DEF EngineInv, Version
<1> QED
  BY <1>1, <1>2, <1>3, <1>4

LEMMA StoreBeginInv ==
    ASSUME IInv, StoreBegin
    PROVE  IInv'
<1>1. LogType /\ ReaderInv
  BY DEF IInv
<1>2. PICK ends \in [1..log.epoch -> Nat], d \in 1..log.epoch : LogInv(ends) /\ SourceInv(ends, d)
  BY DEF IInv
<1>3. /\ ServerType(ss) /\ Memory(ss, Hist(d)) /\ ModeInv(ends, d)
      /\ EngineInv(Hist(d)) /\ UpdateInv(ends, d)
      /\ ss.desiredOldestVersion \in Nat /\ ss.oldestVersion \in Nat /\ ss.durableVersion \in Nat
  BY <1>1, <1>2, SourceFacts
<1>4. /\ Running /\ dur = Idle /\ ss.desiredOldestVersion > ss.oldestVersion
      /\ dur' = [phase |-> "writing", new |-> ss.oldestVersion, desired |-> ss.desiredOldestVersion]
      /\ UNCHANGED <<log, ss, upd, kv, reader>>
  BY DEF StoreBegin
<1>5. Hist(d)' = Hist(d) /\ dur.phase = "idle" /\ dur'.phase = "writing" /\ Serving
  BY <1>4 DEF Hist, Idle, Running, Serving
<1>6. StoringInv'
  BY <1>3, <1>4, <1>5 DEF StoringInv, Serving
<1>7. EngineInv(Hist(d))'
  BY <1>3, <1>4, <1>5 DEF EngineInv
<1>8. ServerType(ss)' /\ Memory(ss, Hist(d))' /\ ModeInv(ends, d)' /\ UpdateInv(ends, d)'
  BY <1>3, <1>4, <1>5 DEF ModeInv, UpdateInv, Hist, Running, Serving
<1>9. SourceInv(ends, d)'
  BY <1>6, <1>7, <1>8 DEF SourceInv
<1>10. /\ ServerType(ss') /\ ss.oldestVersion <= ss'.oldestVersion
       /\ ss.durableVersion <= ss'.durableVersion /\ (Serving => Serving')
  BY <1>3, <1>4 DEF Serving
<1> QED
  BY <1>1, <1>2, <1>3, <1>4, <1>9, <1>10, LogStutters, ServerStepInv

\* The oldest version moves up to what was handed to the engine.
LEMMA ForgetInv ==
    ASSUME LogType, ReaderInv, NEW ends, LogInv(ends), NEW d \in 1..log.epoch, SourceInv(ends, d), Serving,
           NEW new \in Nat, ss.oldestVersion <= new, new <= ss.desiredOldestVersion,
           ss' = [ss EXCEPT !.oldestVersion = new, !.tree = ForgetVersionsBefore(@, new)],
           dur' \in [phase : {"writing", "committing", "durable", "changing"}, new : Nat, desired : Nat],
           dur'.new = new, new <= dur'.desired, dur'.desired <= ss.desiredOldestVersion,
           UNCHANGED <<log, upd, reader>>, EngineInv(Hist(d))'
    PROVE  IInv'
<1>1. /\ ServerType(ss) /\ Memory(ss, Hist(d)) /\ ModeInv(ends, d) /\ UpdateInv(ends, d) /\ Dated(Hist(d))
      /\ ss.desiredOldestVersion \in Nat /\ ss.oldestVersion \in Nat /\ ss.durableVersion \in Nat
  BY SourceFacts
<1>2. ServerType(ss') /\ Memory(ss', Hist(d)) /\ AtLatest(ss'.tree) = AtLatest(ss.tree)
  BY <1>1, ForgetMemory
<1>3. /\ ss'.mode = ss.mode /\ ss'.version = ss.version /\ ss'.oldestVersion = new
      /\ ss'.desiredOldestVersion = ss.desiredOldestVersion /\ ss'.peek = ss.peek
      /\ ss'.durableVersion = ss.durableVersion /\ ss'.restoredVersion = ss.restoredVersion
  BY <1>1 DEF ServerType
<1>4. Hist(d)' = Hist(d) /\ Serving' /\ ss.mode # "restored" /\ (Running <=> Running')
  BY <1>3 DEF Hist, Serving, Running
<1>5. ServerType(ss)' /\ Memory(ss, Hist(d))'
  BY <1>2, <1>4
<1>6. ModeInv(ends, d)'
  BY <1>1, <1>3, <1>4 DEF ModeInv, Serving, Hist
<1>7. StoringInv'
  BY <1>3, <1>4 DEF StoringInv
<1>8. UpdateInv(ends, d)'
  BY <1>1, <1>2, <1>3, <1>4 DEF UpdateInv, Hist
<1>9. SourceInv(ends, d)'
  BY <1>5, <1>6, <1>7, <1>8 DEF SourceInv
<1>10. ss.oldestVersion <= ss'.oldestVersion /\ ss.durableVersion <= ss'.durableVersion
  BY <1>1, <1>3
<1> QED
  BY <1>1, <1>2, <1>4, <1>9, <1>10, LogStutters, ServerStepInv

\* Between what is written and the next version of the mutation log nothing changes.
LEMMA NotMutated ==
    ASSUME NEW s, ServerType(s), NEW h, Dated(h), Memory(s, h), NEW v \in Nat, v <= s.version,
           \A w \in DOMAIN s.mutationLog : s.oldestVersion < w /\ w <= v => h[w] = "end"
    PROVE  Quiet(h, s.oldestVersion, v)
<1> SUFFICES ASSUME NEW w \in DOMAIN h, s.oldestVersion < w, w <= v, h[w] \in Touching PROVE FALSE
  BY DEF Quiet
<1>1. /\ w \in Nat /\ s.oldestVersion \in Nat /\ s.durableVersion \in Nat /\ s.version \in Nat
      /\ s.durableVersion <= s.oldestVersion /\ MutationsInv(s, h)
  BY ServerFacts DEF Dated, Memory, Ordered
<1>2. s.durableVersion < w /\ w <= s.version /\ h[w] # "none" /\ h[w] # "end"
  BY <1>1, OpFacts
<1>3. w \in DOMAIN s.mutationLog
  BY <1>1, <1>2, MutationFacts
<1> QED
  BY <1>2, <1>3

LEMMA StoreWriteInv ==
    ASSUME IInv, StoreWrite
    PROVE  IInv'
<1> DEFINE S == {w \in DOMAIN ss.mutationLog : w > dur.new}
           next == Min(S)
<1>1. LogType /\ ReaderInv
  BY DEF IInv
<1>2. PICK ends \in [1..log.epoch -> Nat], d \in 1..log.epoch : LogInv(ends) /\ SourceInv(ends, d)
  BY DEF IInv
<1> DEFINE h == Hist(d)
<1>3. /\ ServerType(ss) /\ Memory(ss, h) /\ Ordered(ss) /\ MutationsInv(ss, h) /\ EngineInv(h) /\ StoringInv
      /\ Dated(h) /\ ss.version \in Nat
      /\ ss.desiredOldestVersion \in Nat /\ ss.oldestVersion \in Nat /\ ss.durableVersion \in Nat
      /\ kv.disk.version \in Nat
  BY <1>1, <1>2, SourceFacts
<1>4. /\ Serving /\ dur.phase = "writing"
      /\ \E w \in DOMAIN ss.mutationLog : w > dur.new /\ w <= dur.desired
      /\ kv' = IF ss.mutationLog[next] = Untouched THEN kv
               ELSE [kv EXCEPT !.written.value = ss.mutationLog[next]]
      /\ ss' = [ss EXCEPT !.oldestVersion = next, !.tree = ForgetVersionsBefore(@, next)]
      /\ dur' = [dur EXCEPT !.new = next]
      /\ UNCHANGED <<log, upd, reader>>
  BY DEF StoreWrite
<1>5. /\ dur \in [phase : {"writing", "committing", "durable", "changing"}, new : Nat, desired : Nat]
      /\ dur.new = ss.oldestVersion /\ dur.desired <= ss.desiredOldestVersion
  BY <1>3, <1>4 DEF StoringInv, Idle
<1>6. /\ DOMAIN ss.mutationLog \subseteq Nat
      /\ \A w \in DOMAIN ss.mutationLog : w <= ss.version /\ w \in DOMAIN h
      /\ \A w \in DOMAIN ss.mutationLog : ss.mutationLog[w] = Untouched <=> h[w] = "end"
      /\ \A w \in DOMAIN ss.mutationLog : h[w] # "end" => ss.mutationLog[w] = DatabaseAt(h, w)
  BY <1>3, MutationFacts
<1>7. S \subseteq Nat /\ S # {}
  BY <1>4, <1>6
<1>8. next \in S /\ next \in Nat /\ \A w \in S : next <= w
  <2> HIDE DEF S
  <2> QED
    BY <1>7, MinIsLeast
<1>9. /\ next \in DOMAIN ss.mutationLog /\ next > ss.oldestVersion
      /\ \A w \in DOMAIN ss.mutationLog : w > ss.oldestVersion => next <= w
  BY <1>5, <1>8
<1>10. next <= dur.desired
  <2>1. PICK w \in DOMAIN ss.mutationLog : w > dur.new /\ w <= dur.desired
    BY <1>4
  <2>2. next <= w /\ w \in Nat /\ dur.desired \in Nat
    BY <1>5, <1>6, <1>8, <2>1
  <2> QED
    BY <1>8, <2>1, <2>2
<1> HIDE DEF next, S, h
<1>11. ss.oldestVersion <= next /\ next <= ss.desiredOldestVersion
  BY <1>3, <1>5, <1>8, <1>9, <1>10
<1>12. dur' \in [phase : {"writing", "committing", "durable", "changing"}, new : Nat, desired : Nat]
       /\ dur'.new = next /\ dur'.desired = dur.desired /\ dur'.phase = "writing"
  BY <1>4, <1>5, <1>8
<1>13. kv'.written.value = DatabaseAt(h, next)
  <2>1. CASE h[next] = "end"
    <3>1. \A w \in DOMAIN ss.mutationLog : ss.oldestVersion < w /\ w <= next => h[w] = "end"
      BY <1>3, <1>6, <1>8, <1>9, <2>1
    <3>2. Quiet(h, ss.oldestVersion, next)
      BY <1>3, <1>6, <1>8, <1>9, <3>1, NotMutated
    <3>3. DatabaseAt(h, ss.oldestVersion) = DatabaseAt(h, next)
      BY <1>3, <1>8, <1>11, <3>2, DatabaseQuiet
    <3>4. kv' = kv
      BY <1>4, <1>6, <1>9, <2>1
    <3> QED
      BY <1>3, <3>3, <3>4 DEF EngineInv
  <2>2. CASE h[next] # "end"
    <3>1. kv' = [kv EXCEPT !.written.value = DatabaseAt(h, next)]
      BY <1>4, <1>6, <1>9, <2>2
    <3> QED
      BY <1>3, <3>1 DEF EngineInv
  <2> QED
    BY <2>1, <2>2
<1>14. DatabaseAt(h, next) \in Value
  BY <1>3, <1>8, DatabaseType
<1>15. /\ kv'.disk = kv.disk
       /\ kv' \in [written : [version : Version, value : Value], disk : [version : Version, value : Value]]
  <2>1. CASE ss.mutationLog[next] = Untouched
    BY <1>3, <1>4, <2>1 DEF EngineInv
  <2>2. CASE ss.mutationLog[next] # Untouched
    <3>1. kv' = [kv EXCEPT !.written.value = DatabaseAt(h, next)]
      BY <1>4, <1>6, <1>9, <2>2
    <3> QED
      BY <1>3, <1>14, <3>1 DEF EngineInv
  <2> QED
    BY <2>1, <2>2
<1>16. ss'.oldestVersion = next /\ ss'.durableVersion = ss.durableVersion
  BY <1>3, <1>4 DEF ServerType
<1>17. /\ kv.disk.value = DatabaseAt(h, kv.disk.version) /\ ss.durableVersion <= kv.disk.version
       /\ kv.disk.version <= ss.oldestVersion /\ kv.disk.version = ss.durableVersion
       /\ log.popped <= kv.disk.version + 1
  BY <1>3, <1>4 DEF EngineInv
<1>18. kv.disk.version <= next
  BY <1>3, <1>8, <1>11, <1>17
<1>19. Hist(d)' = h
  BY <1>4 DEF Hist, h
<1>20. EngineInv(Hist(d))'
  BY <1>4, <1>12, <1>13, <1>15, <1>16, <1>17, <1>18, <1>19 DEF EngineInv
<1> QED
  BY <1>1, <1>2, <1>4, <1>5, <1>8, <1>10, <1>11, <1>12, <1>20, ForgetInv

LEMMA StoreCommitInv ==
    ASSUME IInv, NEW new, StoreCommit(new)
    PROVE  IInv'
<1>1. LogType /\ ReaderInv
  BY DEF IInv
<1>2. PICK ends \in [1..log.epoch -> Nat], d \in 1..log.epoch : LogInv(ends) /\ SourceInv(ends, d)
  BY DEF IInv
<1> DEFINE h == Hist(d)
<1>3. /\ ServerType(ss) /\ Memory(ss, h) /\ Ordered(ss) /\ MutationsInv(ss, h) /\ EngineInv(h) /\ StoringInv
      /\ Dated(h) /\ ss.version \in Nat
      /\ ss.desiredOldestVersion \in Nat /\ ss.oldestVersion \in Nat /\ ss.durableVersion \in Nat
      /\ kv.disk.version \in Nat
  BY <1>1, <1>2, SourceFacts
<1>4. /\ Serving /\ dur.phase = "writing"
      /\ ss' = [ss EXCEPT !.oldestVersion = new, !.tree = ForgetVersionsBefore(@, new)]
      /\ kv' = [kv EXCEPT !.written.version = new]
      /\ dur' = [dur EXCEPT !.phase = "committing", !.new = new]
      /\ UNCHANGED <<log, upd, reader>>
  BY DEF StoreCommit
<1>5. /\ dur \in [phase : {"writing", "committing", "durable", "changing"}, new : Nat, desired : Nat]
      /\ dur.new = ss.oldestVersion /\ dur.new <= dur.desired /\ dur.desired <= ss.desiredOldestVersion
  BY <1>3, <1>4 DEF StoringInv, Idle
<1>6. /\ new \in Nat /\ ss.oldestVersion <= new /\ new <= dur.desired
      /\ Quiet(h, ss.oldestVersion, new)
  <2>1. CASE /\ new = dur.desired
             /\ ~ \E w \in DOMAIN ss.mutationLog : w > dur.new /\ w <= dur.desired
    <3>1. new \in Nat /\ ss.oldestVersion <= new /\ new <= dur.desired /\ new <= ss.version
      BY <1>3, <1>5, <2>1 DEF Ordered
    <3>2. DOMAIN ss.mutationLog \subseteq Nat
      BY <1>3, MutationFacts
    <3>3. \A w \in DOMAIN ss.mutationLog : ss.oldestVersion < w /\ w <= new => h[w] = "end"
      BY <1>3, <1>5, <2>1, <3>2
    <3> HIDE DEF h
    <3>4. Quiet(h, ss.oldestVersion, new)
      BY <1>3, <3>1, <3>3, NotMutated
    <3> QED
      BY <3>1, <3>4
  <2>2. CASE new = dur.new
    <3>1. \A w \in DOMAIN h : w \in Nat
      BY <1>3 DEF Dated
    <3> QED
      BY <1>3, <1>5, <2>2, <3>1 DEF Quiet
  <2> QED
    BY <2>1, <2>2 DEF StoreCommit
<1> HIDE DEF h
<1>7. DatabaseAt(h, ss.oldestVersion) = DatabaseAt(h, new)
  BY <1>3, <1>6, DatabaseQuiet
<1>8. /\ dur' \in [phase : {"writing", "committing", "durable", "changing"}, new : Nat, desired : Nat]
      /\ dur'.new = new /\ dur'.desired = dur.desired /\ dur'.phase = "committing"
  BY <1>4, <1>5, <1>6
<1>9. ss'.oldestVersion = new /\ ss'.durableVersion = ss.durableVersion
  BY <1>3, <1>4 DEF ServerType
<1>10. /\ kv'.disk = kv.disk /\ kv'.written.version = new /\ kv'.written.value = kv.written.value
       /\ kv' \in [written : [version : Version, value : Value], disk : [version : Version, value : Value]]
  BY <1>3, <1>4, <1>6 DEF EngineInv, Version
<1>11. /\ kv.disk.value = DatabaseAt(h, kv.disk.version) /\ ss.durableVersion <= kv.disk.version
       /\ kv.disk.version <= ss.oldestVersion /\ kv.disk.version = ss.durableVersion
       /\ kv.written.value = DatabaseAt(h, new)
       /\ log.popped <= kv.disk.version + 1
  BY <1>3, <1>4, <1>7 DEF EngineInv
<1>12. kv.disk.version <= new /\ new <= ss.desiredOldestVersion
  BY <1>3, <1>5, <1>6, <1>11
<1>13. Hist(d)' = h
  BY <1>4 DEF Hist, h
<1>14. EngineInv(Hist(d))'
  BY <1>4, <1>8, <1>9, <1>10, <1>11, <1>12, <1>13 DEF EngineInv
<1> QED
  BY <1>1, <1>2, <1>4, <1>5, <1>6, <1>8, <1>12, <1>14, ForgetInv

LEMMA StoreDurableInv ==
    ASSUME IInv, StoreDurable
    PROVE  IInv'
<1>1. LogType /\ ReaderInv
  BY DEF IInv
<1>2. PICK ends \in [1..log.epoch -> Nat], d \in 1..log.epoch : LogInv(ends) /\ SourceInv(ends, d)
  BY DEF IInv
<1>3. /\ ServerType(ss) /\ Memory(ss, Hist(d)) /\ ModeInv(ends, d) /\ Ordered(ss)
      /\ EngineInv(Hist(d)) /\ StoringInv /\ UpdateInv(ends, d)
      /\ ss.oldestVersion \in Nat /\ ss.durableVersion \in Nat /\ kv.disk.version \in Nat
      /\ log.popped \in Nat
  BY <1>1, <1>2, SourceFacts, LastEpoch
<1>4. /\ Serving /\ dur.phase = "committing" /\ kv' = [kv EXCEPT !.disk = kv.written]
      /\ dur' = [dur EXCEPT !.phase = "durable"] /\ UNCHANGED <<log, ss, upd, reader>>
  BY DEF StoreDurable
<1>5. /\ dur \in [phase : {"writing", "committing", "durable", "changing"}, new : Nat, desired : Nat]
      /\ dur.new = ss.oldestVersion /\ dur.new <= dur.desired /\ dur.desired <= ss.desiredOldestVersion
  BY <1>3, <1>4 DEF StoringInv, Idle
<1>6. /\ dur' \in [phase : {"writing", "committing", "durable", "changing"}, new : Nat, desired : Nat]
      /\ dur'.new = dur.new /\ dur'.desired = dur.desired /\ dur'.phase = "durable"
  BY <1>4, <1>5
<1>7. Hist(d)' = Hist(d)
  BY <1>4 DEF Hist
<1>8. StoringInv'
  BY <1>4, <1>5, <1>6 DEF StoringInv, Serving
<1>9. /\ kv'.disk = kv.written /\ kv'.written = kv.written
      /\ kv' \in [written : [version : Version, value : Value], disk : [version : Version, value : Value]]
  BY <1>3, <1>4 DEF EngineInv
<1>10. /\ kv.written.version = ss.oldestVersion
       /\ kv.written.value = DatabaseAt(Hist(d), ss.oldestVersion)
       /\ log.popped <= kv.written.version + 1 /\ ss.durableVersion <= ss.oldestVersion
       /\ ss.oldestVersion <= ss.oldestVersion
  BY <1>3, <1>4 DEF EngineInv, Ordered
<1>11. EngineInv(Hist(d))'
  BY <1>4, <1>6, <1>7, <1>9, <1>10 DEF EngineInv
<1>12. ServerType(ss)' /\ Memory(ss, Hist(d))' /\ ModeInv(ends, d)' /\ UpdateInv(ends, d)'
  BY <1>3, <1>4, <1>7 DEF ModeInv, UpdateInv, Hist, Running, Serving
<1>13. SourceInv(ends, d)'
  BY <1>8, <1>11, <1>12 DEF SourceInv
<1>14. /\ ServerType(ss') /\ ss.oldestVersion <= ss'.oldestVersion
       /\ ss.durableVersion <= ss'.durableVersion /\ (Serving => Serving')
  BY <1>3, <1>4 DEF Serving
<1> QED
  BY <1>1, <1>2, <1>3, <1>4, <1>13, <1>14, LogStutters, ServerStepInv

\* durableVersion moves to what is on disk while no update holds the lock.
LEMMA StoreChangeInv ==
    ASSUME IInv, StoreChange
    PROVE  IInv'
<1>1. LogType /\ ReaderInv
  BY DEF IInv
<1>2. PICK ends \in [1..log.epoch -> Nat], d \in 1..log.epoch : LogInv(ends) /\ SourceInv(ends, d)
  BY DEF IInv
<1> DEFINE h == Hist(d)
<1>3. /\ ServerType(ss) /\ Memory(ss, h) /\ ModeInv(ends, d) /\ Ordered(ss)
      /\ EngineInv(h) /\ StoringInv /\ Dated(h)
      /\ ss.oldestVersion \in Nat /\ ss.durableVersion \in Nat /\ kv.disk.version \in Nat
      /\ ss.storageMinRecoverVersion \in Nat /\ log.popped \in Nat
  BY <1>1, <1>2, SourceFacts, LastEpoch
<1>4. /\ Running /\ dur.phase \in {"durable", "changing"} /\ upd = Idle
      /\ log' = IF dur.phase = "durable" THEN Popped(ss.storageMinRecoverVersion + 1) ELSE log
      /\ ss' = ChangeDurableVersion(ss, dur.new)
      /\ dur' = IF ss'.durableVersion = dur.new THEN Idle ELSE [dur EXCEPT !.phase = "changing"]
      /\ UNCHANGED <<upd, kv, reader>>
  BY DEF StoreChange
<1>5. /\ dur \in [phase : {"writing", "committing", "durable", "changing"}, new : Nat, desired : Nat]
      /\ dur.new = ss.oldestVersion /\ dur.new <= dur.desired /\ dur.desired <= ss.desiredOldestVersion
      /\ dur.new \in Nat
  BY <1>3, <1>4 DEF StoringInv, Idle
<1>6. /\ kv.written = kv.disk /\ kv.disk.version = ss.oldestVersion /\ log.popped <= kv.disk.version + 1
      /\ kv.disk.value = DatabaseAt(h, kv.disk.version)
  BY <1>3, <1>4 DEF EngineInv
<1>7. PICK p \in Nat : log' = [log EXCEPT !.popped = p] /\ p <= kv.disk.version + 1
  <2> DEFINE r == ss.storageMinRecoverVersion + 1
  <2>1. r \in Nat /\ r <= kv.disk.version + 1
    BY <1>3, <1>6 DEF Ordered
  <2>2. CASE dur.phase = "durable"
    <3>1. log' = Popped(r)
      BY <1>4, <2>2
    <3> HIDE DEF r
    <3>2. PICK p \in Nat : Popped(r) = [log EXCEPT !.popped = p] /\ (p = log.popped \/ p = r)
      BY <1>1, <2>1, PoppedIs
    <3> QED
      BY <1>6, <2>1, <3>1, <3>2
  <2>3. CASE dur.phase # "durable"
    BY <1>1, <1>4, <1>6, <2>3, LogStutters
  <2> QED
    BY <2>2, <2>3
<1>8. /\ ServerType(ss') /\ Memory(ss', h)
      /\ ss'.mode = ss.mode /\ ss'.version = ss.version /\ ss'.oldestVersion = ss.oldestVersion
      /\ ss'.desiredOldestVersion = ss.desiredOldestVersion /\ ss'.restoredVersion = ss.restoredVersion
      /\ ss'.storageMinRecoverVersion = ss.durableVersion /\ ss'.peek = ss.peek
      /\ ss.durableVersion <= ss'.durableVersion /\ ss'.durableVersion <= dur.new
  <2>1. ss.durableVersion <= dur.new /\ dur.new <= ss.oldestVersion
    BY <1>3, <1>5 DEF Ordered
  <2> HIDE DEF h
  <2> QED
    BY <1>3, <1>4, <1>5, <2>1, ChangeMemory
<1>9. /\ log'.popped = p /\ log'.epoch = log.epoch /\ \A e : Hist(e)' = Hist(e)
  BY <1>1, <1>2, <1>7, LogUnchanged
<1>10. Hist(d)' = h
  BY <1>9
<1> HIDE DEF h
<1>11. StoringInv'
  <2>1. CASE ss'.durableVersion = dur.new
    BY <1>4, <2>1 DEF StoringInv, Idle
  <2>2. CASE ss'.durableVersion # dur.new
    <3>1. /\ dur' \in [phase : {"writing", "committing", "durable", "changing"}, new : Nat, desired : Nat]
          /\ dur'.new = dur.new /\ dur'.desired = dur.desired
      BY <1>4, <1>5, <2>2
    <3> QED
      BY <1>4, <1>5, <1>8, <3>1 DEF StoringInv, Serving, Running
  <2> QED
    BY <2>1, <2>2
<1>12. EngineInv(Hist(d))'
  <2>1. (dur'.phase = "idle" /\ ss'.durableVersion = dur.new) \/ dur'.phase = "changing"
    BY <1>4, <1>5 DEF Idle
  <2>2. ss'.durableVersion <= kv.disk.version /\ kv.disk.version <= ss.oldestVersion
    BY <1>3, <1>5, <1>6, <1>8
  <2>3. kv \in [written : [version : Version, value : Value], disk : [version : Version, value : Value]]
    BY <1>3 DEF EngineInv
  <2> QED
    BY <1>4, <1>5, <1>6, <1>7, <1>8, <1>9, <1>10, <2>1, <2>2, <2>3 DEF EngineInv
<1>13. ServerType(ss)' /\ Memory(ss, Hist(d))'
  BY <1>8, <1>10
<1>14. ModeInv(ends, d)'
  BY <1>3, <1>4, <1>8, <1>9 DEF ModeInv, Serving, Running
<1>15. UpdateInv(ends, d)'
  BY <1>4 DEF UpdateInv, Idle
<1>16. SourceInv(ends, d)'
  BY <1>11, <1>12, <1>13, <1>14, <1>15 DEF SourceInv
<1>17. ss.oldestVersion <= ss'.oldestVersion /\ (Serving => Serving')
  BY <1>3, <1>8 DEF Serving
<1> QED
  BY <1>1, <1>2, <1>3, <1>4, <1>7, <1>8, <1>16, <1>17, ServerStepInv

-----------------------------------------------------------------------------
(***************************************************************************)
(* Restarts.                                                               *)
(***************************************************************************)

\* A server starts from a state of its engine: it is that of the last epoch.
LEMMA StartInv ==
    ASSUME LogType, ReaderInv, NEW ends, LogInv(ends), NEW d \in 1..log.epoch, SourceInv(ends, d), log' = log,
           NEW disk \in [version : Version, value : Value], Start(disk),
           disk.value = DatabaseAt(Hist(d), disk.version),
           kv.disk.version <= disk.version, disk.version <= ss.oldestVersion
    PROVE  IInv'
<1> DEFINE n == log.epoch
           h == Hist(n)
           v == disk.version
<1>1. /\ ModeInv(ends, d) /\ EngineInv(Hist(d)) /\ Ordered(ss) /\ Dated(Hist(d)) /\ ends[d] \in Nat
      /\ ss.desiredOldestVersion \in Nat /\ ss.oldestVersion \in Nat /\ kv.disk.version \in Nat
      /\ log.popped \in Nat
  BY SourceFacts, LastEpoch
<1>2. n \in 1..n /\ n \in Nat /\ d <= n /\ Dated(h) /\ ends[n] = log.committed /\ log.committed \in Nat
      /\ log.committed \in DOMAIN h
  BY LastEpoch, EpochHistory, EndsType DEF LogInv
<1>3. ends[d] <= ends[n] /\ SameData(Hist(d), h, ends[d])
  BY <1>2, EpochsAgree
<1>4. v \in Nat /\ v <= ends[d] /\ v <= ends[n]
  BY <1>1, <1>2, <1>3 DEF Version, Ordered, ModeInv
<1>5. ss' = SetInitialVersion(v)
  BY DEF Start
<1>6. Hist(log.epoch)' = h /\ log'.epoch = n
  BY DEF Hist
<1> HIDE DEF h, v
<1>7. DatabaseAt(Hist(d), v) = DatabaseAt(h, v)
  BY <1>1, <1>2, <1>3, <1>4, DatabaseSame
<1>8. ServerType(ss') /\ Memory(ss', h)
  BY <1>2, <1>4, <1>5, InitialMemory
<1>9. /\ ss'.mode = "restored" /\ ss'.version = v /\ ss'.desiredOldestVersion = v
      /\ ss'.oldestVersion = v /\ ss'.durableVersion = v /\ ss'.restoredVersion = v /\ ss'.peek = 0
  BY <1>5 DEF SetInitialVersion
<1>10. kv' = [written |-> disk, disk |-> disk] /\ upd' = Idle /\ dur' = Idle
  BY DEF Start
<1>11. PICK m : m = n
  OBVIOUS
<1>12. Hist(m)' = h /\ m \in 1..log'.epoch /\ m = log'.epoch
  BY <1>2, <1>6, <1>11 DEF Hist
<1>13. ModeInv(ends, m)'
  <2>1. v <= ends[m] + Life /\ v <= ends[m]
    BY <1>1, <1>2, <1>4, <1>11, Constants
  <2>2. log.committed \in DOMAIN h /\ v <= log.committed
    BY <1>2, <1>4
  <2> QED
    BY <1>9, <1>12, <2>1, <2>2 DEF ModeInv, Serving
<1>14. EngineInv(Hist(m))'
  <2>1. log.popped <= v + 1 /\ v <= v
    BY <1>1, <1>4 DEF EngineInv, v
  <2>2. /\ kv' \in [written : [version : Version, value : Value], disk : [version : Version, value : Value]]
        /\ kv'.disk.value = DatabaseAt(h, v) /\ kv'.disk.version = v /\ kv'.written = kv'.disk
    BY <1>7, <1>10 DEF v
  <2> QED
    BY <1>9, <1>10, <1>12, <2>1, <2>2 DEF EngineInv, Idle
<1>15. StoringInv' /\ UpdateInv(ends, m)'
  BY <1>10 DEF StoringInv, UpdateInv, Idle
<1>16. SourceInv(ends, m)'
  BY <1>8, <1>12, <1>13, <1>14, <1>15 DEF SourceInv
<1>17. LogType' /\ LogInv(ends)'
  BY LogStutters, LogUnchanged
<1>18. ReaderInv'
  <2>1. CASE reader.phase = "replied"
    <3>1. reader' = reader
      BY <2>1 DEF Start
    <3> QED
      BY <2>1, <3>1 DEF ReaderInv, Hist, Idle
  <2>2. CASE reader.phase # "replied"
    BY <2>2 DEF Start, ReaderInv, Idle
  <2> QED
    BY <2>1, <2>2
<1> QED
  BY <1>12, <1>16, <1>17, <1>18, NextInv

LEMMA RebootInv ==
    ASSUME IInv, Reboot
    PROVE  IInv'
<1>1. LogType /\ ReaderInv
  BY DEF IInv
<1>2. PICK ends \in [1..log.epoch -> Nat], d \in 1..log.epoch : LogInv(ends) /\ SourceInv(ends, d)
  BY DEF IInv
<1>3. EngineInv(Hist(d)) /\ StoringInv /\ kv.disk.version \in Nat
  BY <1>1, <1>2, SourceFacts
<1>4. dur.phase \notin {"writing", "committing"} /\ Start(kv.written) /\ log' = log
  BY DEF Reboot
<1>5. dur.phase \in {"idle", "durable", "changing"}
  BY <1>3, <1>4 DEF StoringInv, Idle
<1>6. /\ kv.written = kv.disk /\ kv.written \in [version : Version, value : Value]
      /\ kv.disk.value = DatabaseAt(Hist(d), kv.disk.version) /\ kv.disk.version <= ss.oldestVersion
  BY <1>3, <1>5 DEF EngineInv
<1>7. kv.disk.version <= kv.disk.version
  BY <1>3
<1>8. PICK disk : disk = kv.written
  OBVIOUS
<1> QED
  BY <1>1, <1>2, <1>4, <1>6, <1>7, <1>8, StartInv

LEMMA CrashInv ==
    ASSUME IInv, NEW disk, Crash(disk)
    PROVE  IInv'
<1>1. LogType /\ ReaderInv
  BY DEF IInv
<1>2. PICK ends \in [1..log.epoch -> Nat], d \in 1..log.epoch : LogInv(ends) /\ SourceInv(ends, d)
  BY DEF IInv
<1>3. EngineInv(Hist(d)) /\ kv.disk.version \in Nat /\ ss.oldestVersion \in Nat
  BY <1>1, <1>2, SourceFacts
<1>4. /\ disk \in {kv.disk} \cup (IF dur.phase = "committing" THEN {kv.written} ELSE {})
      /\ Start(disk) /\ log' = log
  BY DEF Crash
<1>5. CASE disk = kv.disk
  <2>1. /\ disk \in [version : Version, value : Value] /\ disk.value = DatabaseAt(Hist(d), disk.version)
        /\ kv.disk.version <= disk.version /\ disk.version <= ss.oldestVersion
    BY <1>3, <1>5 DEF EngineInv
  <2> QED
    BY <1>1, <1>2, <1>4, <2>1, StartInv
<1>6. CASE disk = kv.written /\ dur.phase = "committing"
  <2>1. /\ disk \in [version : Version, value : Value] /\ disk.value = DatabaseAt(Hist(d), disk.version)
        /\ kv.disk.version <= disk.version /\ disk.version <= ss.oldestVersion
    BY <1>3, <1>6 DEF EngineInv
  <2> QED
    BY <1>1, <1>2, <1>4, <2>1, StartInv
<1> QED
  BY <1>4, <1>5, <1>6

\* A server that is registered peeks in the last epoch, which goes on above what it restored.
LEMMA RegisterStep ==
    ASSUME LogType, LogType', ReaderInv, NEW ends, NEW ends2, LogInv(ends), LogInv(ends2)', Kept(ends, ends2),
           NEW d \in 1..log.epoch, SourceInv(ends, d), ss.mode = "restored",
           ss' = [ss EXCEPT !.mode = "running", !.peek = log.epoch],
           log'.epoch = log.epoch, log'.popped <= kv.disk.version + 1,
           ss.restoredVersion < ends2[d], UNCHANGED <<upd, dur, kv, reader>>
    PROVE  IInv'
<1> DEFINE g == Hist(d)
           h == log'.hist[d]
<1>1. /\ ServerType(ss) /\ Memory(ss, g) /\ ModeInv(ends, d) /\ EngineInv(g) /\ StoringInv /\ UpdateInv(ends, d)
      /\ Ordered(ss) /\ Dated(g) /\ ends[d] \in Nat /\ log.epoch \in Nat /\ d \in Nat
      /\ ss.version \in Nat /\ ss.desiredOldestVersion \in Nat /\ ss.oldestVersion \in Nat
      /\ ss.durableVersion \in Nat /\ ss.restoredVersion \in Nat /\ kv.disk.version \in Nat
  BY SourceFacts
<1>2. d = log.epoch /\ d <= d /\ dur = Idle /\ upd = Idle
  BY <1>1 DEF ModeInv, StoringInv, UpdateInv, Serving, Running
<1>3. g \in Histories /\ h \in Histories /\ Extends(g, h) /\ ends[d] <= ends2[d] /\ ends2[d] \in Nat
  BY <1>2 DEF LogType, Hist, Kept, LogInv, EndsInv
<1>4. Dated(h) /\ Hist(d)' = h
  BY <1>3, HistoryFacts DEF Hist
<1>5. PICK x \in DOMAIN g : ss.version <= x
  BY <1>1 DEF ModeInv
<1> HIDE DEF g, h
<1>6. SameData(g, h, ss.version) /\ x \in DOMAIN h
  BY <1>1, <1>3, <1>5, ExtendsSame DEF Extends
<1>7. Memory(ss, h)
  BY <1>1, <1>4, <1>6, SameMemory
<1>8. /\ ss'.mode = "running" /\ ss'.peek = d /\ ss'.version = ss.version
      /\ ss'.desiredOldestVersion = ss.desiredOldestVersion /\ ss'.oldestVersion = ss.oldestVersion
      /\ ss'.durableVersion = ss.durableVersion /\ ss'.restoredVersion = ss.restoredVersion
      /\ ss'.storageMinRecoverVersion = ss.storageMinRecoverVersion
      /\ ss'.lastVersionWithData = ss.lastVersionWithData /\ ss'.tree = ss.tree
      /\ ss'.mutationLog = ss.mutationLog
  BY <1>1, <1>2 DEF ServerType
<1>9. ServerType(ss')
  BY <1>1 DEF ServerType
<1>10. Memory(ss', h)
  BY <1>7, <1>8 DEF Memory, Ordered, TreeInv, MutationsInv, LastDataInv
<1>11. ModeInv(ends2, d)'
  <2>1. ss.desiredOldestVersion <= ends2[d] /\ ss.version <= ends2[d] + Life
    BY <1>1, <1>3, Constants DEF ModeInv
  <2>2. d <= log'.epoch
    BY <1>2
  <2> QED
    BY <1>2, <1>4, <1>5, <1>6, <1>8, <2>1, <2>2 DEF ModeInv, Serving
<1>12. EngineInv(Hist(d))'
  <2>1. /\ kv \in [written : [version : Version, value : Value], disk : [version : Version, value : Value]]
        /\ kv.disk.value = DatabaseAt(g, kv.disk.version)
        /\ kv.written.value = DatabaseAt(g, ss.oldestVersion)
        /\ ss.durableVersion <= kv.disk.version /\ kv.disk.version <= ss.oldestVersion
        /\ kv.written = kv.disk /\ kv.disk.version = ss.oldestVersion /\ kv.disk.version = ss.durableVersion
    BY <1>1, <1>2 DEF EngineInv, Idle
  <2>2. ss.oldestVersion <= ss.version
    BY <1>1 DEF Ordered
  <2>3. DatabaseAt(g, ss.oldestVersion) = DatabaseAt(h, ss.oldestVersion)
    BY <1>1, <1>4, <1>6, <2>2, DatabaseSame
  <2> QED
    BY <1>2, <1>4, <1>8, <2>1, <2>3 DEF EngineInv, Idle
<1>13. StoringInv' /\ UpdateInv(ends2, d)'
  BY <1>2 DEF StoringInv, UpdateInv, Idle
<1>14. SourceInv(ends2, d)'
  BY <1>4, <1>9, <1>10, <1>11, <1>12, <1>13 DEF SourceInv
<1>15. ReaderInv'
  <2>1. /\ ss.oldestVersion <= ss'.oldestVersion /\ ss.durableVersion <= ss'.durableVersion
        /\ (Serving => Serving')
    BY <1>1, <1>8 DEF Serving
  <2> QED
    BY <1>1, <1>9, <2>1, ReaderKept
<1> QED
  BY <1>14, <1>15, NextInv

LEMMA RegisterInv ==
    ASSUME IInv, Register
    PROVE  IInv'
<1>1. LogType /\ ReaderInv
  BY DEF IInv
<1>2. PICK ends \in [1..log.epoch -> Nat], d \in 1..log.epoch : LogInv(ends) /\ SourceInv(ends, d)
  BY DEF IInv
<1>3. /\ ServerType(ss) /\ ModeInv(ends, d) /\ EngineInv(Hist(d)) /\ Ordered(ss)
      /\ ss.storageMinRecoverVersion \in Nat /\ ss.restoredVersion \in Nat /\ ss.durableVersion \in Nat
      /\ ss.version \in Nat /\ ss.desiredOldestVersion \in Nat
      /\ kv.disk.version \in Nat /\ log.popped \in Nat /\ log.committed \in Nat
  BY <1>1, <1>2, SourceFacts, LastEpoch
<1>4. ss.mode = "restored" /\ ss' = [ss EXCEPT !.mode = "running", !.peek = log.epoch]
      /\ UNCHANGED <<upd, dur, kv, reader>>
  BY DEF Register
<1>5. d = log.epoch /\ ends[d] = log.committed
  BY <1>1, <1>2, <1>3, <1>4, EndsType DEF ModeInv
<1> DEFINE r == ss.storageMinRecoverVersion + 1
<1>6. r \in Nat /\ r <= kv.disk.version + 1
  BY <1>3 DEF Ordered, EngineInv
<1>7. /\ log.committed > ss.restoredVersion => log' = Popped(r)
      /\ ~ (log.committed > ss.restoredVersion) =>
            log' = [Popped(r) EXCEPT !.hist[log.epoch] = Over(@, [w \in {Top(log.epoch) + 1} |-> "none"]),
                                     !.committed = Top(log.epoch) + 1]
  BY DEF Register
<1> HIDE DEF r
<1>8. PICK p \in Nat : Popped(r) = [log EXCEPT !.popped = p] /\ (p = log.popped \/ p = r)
  BY <1>1, <1>6, PoppedIs
<1>9. p <= kv.disk.version + 1
  BY <1>3, <1>6, <1>8 DEF EngineInv
<1>10. CASE log.committed > ss.restoredVersion
  <2>1. log' = [log EXCEPT !.popped = p]
    BY <1>7, <1>8, <1>10
  <2>2. /\ LogType' /\ LogInv(ends)' /\ Kept(ends, ends) /\ log'.popped = p /\ log'.epoch = log.epoch
    BY <1>1, <1>2, <2>1, LogUnchanged
  <2>3. ss.restoredVersion < ends[d]
    BY <1>3, <1>5, <1>10
  <2> QED
    BY <1>1, <1>2, <1>4, <1>9, <2>2, <2>3, RegisterStep
<1>11. CASE ~ (log.committed > ss.restoredVersion)
  <2>1. PICK v : v = Top(log.epoch) + 1
    OBVIOUS
  <2>2. PICK ends2 : ends2 = [ends EXCEPT ![log.epoch] = v]
    OBVIOUS
  <2>3. log' = [epoch |-> log.epoch, hist |-> [log.hist EXCEPT ![log.epoch] = Over(@, [w \in {v} |-> "none"])],
                committed |-> v, popped |-> p]
    BY <1>1, <1>7, <1>8, <1>11, <2>1 DEF LogType
  <2>4. LogType' /\ LogInv(ends2)' /\ Kept(ends, ends2) /\ log.committed < v
    BY <1>1, <1>2, <2>1, <2>2, <2>3, OpFacts, PushKeeps
  <2>5. ends2[d] = v /\ v \in Nat
    <3>1. ends2[d] = v
      BY <1>2, <1>5, <2>2
    <3>2. v \in Nat
      BY <2>3, <2>4 DEF LogType
    <3> QED
      BY <3>1, <3>2
  <2>6. ss.restoredVersion < ends2[d]
    BY <1>3, <1>5, <2>4, <2>5, <1>4 DEF ModeInv, Ordered
  <2>7. log'.epoch = log.epoch /\ log'.popped = p
    BY <2>3
  <2> QED
    BY <1>1, <1>2, <1>4, <1>9, <2>4, <2>6, <2>7, RegisterStep
<1> QED
  BY <1>10, <1>11

-----------------------------------------------------------------------------
(***************************************************************************)
(* update.                                                                 *)
(***************************************************************************)

LEMMA NewLogSystemInv ==
    ASSUME IInv, NewLogSystem
    PROVE  IInv'
<1>1. LogType /\ ReaderInv
  BY DEF IInv
<1>2. PICK ends \in [1..log.epoch -> Nat], d \in 1..log.epoch : LogInv(ends) /\ SourceInv(ends, d)
  BY DEF IInv
<1> DEFINE h == Hist(d)
           r == ss.storageMinRecoverVersion + 1
<1>3. /\ ServerType(ss) /\ Memory(ss, h) /\ ModeInv(ends, d) /\ EngineInv(h) /\ StoringInv /\ UpdateInv(ends, d)
      /\ Ordered(ss) /\ log.epoch \in Nat /\ log.popped \in Nat
      /\ ss.oldestVersion \in Nat /\ ss.storageMinRecoverVersion \in Nat
      /\ ss.durableVersion \in Nat /\ kv.disk.version \in Nat
  BY <1>1, <1>2, SourceFacts, LastEpoch
<1>4. /\ Serving /\ ss.peek < log.epoch /\ ss' = [ss EXCEPT !.peek = log.epoch]
      /\ log' = Popped(r) /\ UNCHANGED <<upd, dur, kv, reader>>
  BY DEF NewLogSystem
<1>5. r \in Nat /\ r <= kv.disk.version + 1
  BY <1>3 DEF Ordered, EngineInv
<1> HIDE DEF r
<1>6. PICK p \in Nat : Popped(r) = [log EXCEPT !.popped = p] /\ (p = log.popped \/ p = r)
  BY <1>1, <1>5, PoppedIs
<1>7. log' = [log EXCEPT !.popped = p] /\ p <= kv.disk.version + 1
  BY <1>3, <1>4, <1>5, <1>6 DEF EngineInv
<1>8. log'.popped = p /\ log'.epoch = log.epoch /\ \A e : Hist(e)' = Hist(e)
  BY <1>1, <1>2, <1>7, LogUnchanged
<1>9. /\ ss'.mode = ss.mode /\ ss'.peek = log.epoch /\ ss'.version = ss.version
      /\ ss'.desiredOldestVersion = ss.desiredOldestVersion /\ ss'.oldestVersion = ss.oldestVersion
      /\ ss'.durableVersion = ss.durableVersion /\ ss'.restoredVersion = ss.restoredVersion
      /\ ss'.storageMinRecoverVersion = ss.storageMinRecoverVersion
      /\ ss'.lastVersionWithData = ss.lastVersionWithData /\ ss'.tree = ss.tree
      /\ ss'.mutationLog = ss.mutationLog /\ ServerType(ss')
  BY <1>3, <1>4 DEF ServerType
<1>10. Memory(ss', h) /\ Hist(d)' = h
  BY <1>3, <1>8, <1>9 DEF Memory, Ordered, TreeInv, MutationsInv, LastDataInv
<1> HIDE DEF h
<1>11. ModeInv(ends, d)'
  <2>1. d <= log.epoch /\ log.epoch <= log.epoch /\ ss.mode # "restored"
    BY <1>3, <1>4 DEF Serving
  <2> QED
    BY <1>3, <1>4, <1>8, <1>9, <2>1 DEF ModeInv, Serving
<1>12. EngineInv(Hist(d))'
  BY <1>3, <1>4, <1>7, <1>8, <1>9, <1>10 DEF EngineInv
<1>13. StoringInv'
  BY <1>3, <1>4, <1>9 DEF StoringInv, Serving
<1>14. UpdateInv(ends, d)'
  BY <1>3, <1>4, <1>8, <1>9 DEF UpdateInv, Running
<1>15. SourceInv(ends, d)'
  BY <1>9, <1>10, <1>11, <1>12, <1>13, <1>14 DEF SourceInv
<1>16. /\ ss.oldestVersion <= ss'.oldestVersion /\ ss.durableVersion <= ss'.durableVersion
       /\ (Serving => Serving')
  BY <1>3, <1>9 DEF Serving
<1> QED
  BY <1>1, <1>2, <1>3, <1>4, <1>7, <1>9, <1>15, <1>16, ServerStepInv

\* The old value that an update reads from the engine is that of the version it starts from.
LEMMA UpdateBeginInv ==
    ASSUME IInv, NEW to, NEW eager, UpdateBegin(to, eager)
    PROVE  IInv'
<1>1. LogType /\ ReaderInv
  BY DEF IInv
<1>2. PICK ends \in [1..log.epoch -> Nat], d \in 1..log.epoch : LogInv(ends) /\ SourceInv(ends, d)
  BY DEF IInv
<1> DEFINE h == Hist(d)
           e == ss.peek
<1>3. /\ ServerType(ss) /\ Memory(ss, h) /\ ModeInv(ends, d) /\ EngineInv(h) /\ StoringInv
      /\ Ordered(ss) /\ TreeInv(ss, h) /\ Dated(h) /\ log.epoch \in Nat /\ e \in Nat /\ d \in Nat
      /\ ss.version \in Nat /\ ss.oldestVersion \in Nat /\ ss.desiredOldestVersion \in Nat
      /\ ss.durableVersion \in Nat
  BY <1>1, <1>2, SourceFacts
<1>4. /\ Running /\ upd = Idle /\ to \in DOMAIN Hist(e) /\ to > ss.version /\ eager \in EngineValues
      /\ upd' = [phase |-> "apply", epoch |-> e, to |-> to, eager |-> eager, lastTLogVersion |-> Top(e)]
      /\ UNCHANGED <<log, ss, dur, kv, reader>>
  BY DEF UpdateBegin
<1>5. d <= e /\ e <= e /\ e <= log.epoch /\ e \in 1..log.epoch
  BY <1>3, <1>4 DEF ModeInv, Serving, Running
<1>6. ends[e] \in Nat /\ EpochInv(Hist(e), ends[e]) /\ to \in Nat
  BY <1>1, <1>2, <1>4, <1>5, EndsType, EpochHistory
<1>7. Top(e) \in Nat /\ Top(e) <= ends[e] + Life
  BY <1>1, <1>4, <1>5, <1>6, TopFacts
<1>8. eager \in Value
  BY <1>3, <1>4 DEF EngineValues, EngineInv
<1>9. AtLatest(ss.tree) = NoEntry => eager = DatabaseAt(h, ss.version)
  <2> SUFFICES ASSUME AtLatest(ss.tree) = NoEntry PROVE eager = DatabaseAt(h, ss.version)
    OBVIOUS
  <2>1. Good(AtLatest(ss.tree), h, ss.durableVersion, ss.version)
    BY <1>3, LatestGood
  <2>2. NoEntry.insertVersion \notin DOMAIN h
    BY <1>3, NoEntryType DEF Dated
  <2>3. Quiet(h, ss.durableVersion, ss.version)
    BY <2>1, <2>2 DEF Good
  <2>4. SameData(h, h, ss.oldestVersion) /\ ss.oldestVersion <= ss.version
    BY <1>3 DEF SameData, Ordered
  <2> HIDE DEF h
  <2> QED
    BY <1>3, <1>4, <2>3, <2>4, EngineRead
<1>10. /\ upd' \in [phase : {"apply"}, epoch : Nat, to : Nat, eager : Value, lastTLogVersion : Nat]
       /\ upd'.epoch = e /\ upd'.to = to /\ upd'.eager = eager /\ upd'.lastTLogVersion = Top(e)
  BY <1>3, <1>4, <1>6, <1>7, <1>8
<1>11. log' = log /\ ss' = ss /\ Hist(d)' = h
  BY <1>4 DEF Hist
<1>12. UpdateInv(ends, d)'
  <2>1. Hist(upd.epoch)' = Hist(e)
    BY <1>10, <1>11 DEF Hist
  <2> QED
    BY <1>4, <1>5, <1>7, <1>9, <1>10, <1>11, <2>1 DEF UpdateInv, Running
<1>13. ServerType(ss)' /\ Memory(ss, Hist(d))' /\ ModeInv(ends, d)' /\ EngineInv(Hist(d))' /\ StoringInv'
  BY <1>3, <1>4, <1>11 DEF ModeInv, EngineInv, StoringInv, Hist, Serving
<1>14. SourceInv(ends, d)'
  BY <1>12, <1>13 DEF SourceInv
<1>15. /\ ServerType(ss') /\ ss.oldestVersion <= ss'.oldestVersion
       /\ ss.durableVersion <= ss'.durableVersion /\ (Serving => Serving')
  BY <1>3, <1>4 DEF Serving
<1> QED
  BY <1>1, <1>2, <1>3, <1>4, <1>14, <1>15, LogStutters, ServerStepInv

\* The versions that an update applies.
Batch(h, to) == {w \in DOMAIN h : ss.version < w /\ w <= to}

\* What a version of the batch that begins an epoch is compared with.
LEMMA FromVersion ==
    ASSUME NEW h \in Histories, NEW to \in Nat, ServerType(ss), NEW w,
           NEW from, from = Max({ss.lastVersionWithData} \cup {x \in Batch(h, to) : x < w /\ h[x] # "none"})
    PROVE  /\ from \in Nat /\ ss.lastVersionWithData <= from
           /\ from = ss.lastVersionWithData \/ (from \in Batch(h, to) /\ from < w)
<1> DEFINE S == {ss.lastVersionWithData} \cup {x \in Batch(h, to) : x < w /\ h[x] # "none"}
           b == ss.lastVersionWithData + to
<1>1. ss.lastVersionWithData \in Nat /\ b \in Nat
  BY ServerFacts
<1>2. \A x \in Batch(h, to) : x \in Nat /\ x <= to
  BY HistoryFacts DEF Batch
<1>3. S \subseteq Nat /\ S # {} /\ \A y \in S : y <= b
  BY <1>1, <1>2
<1> HIDE DEF S, b
<1>4. Max(S) \in S /\ Max(S) \in Nat /\ \A y \in S : y <= Max(S)
  BY <1>1, <1>3, MaxIsGreatest
<1>5. from = Max(S)
  BY DEF S
<1> QED
  BY <1>4, <1>5 DEF S

\* A rollback finds nothing that it takes back handed to the engine: the epoch that ended
\* is the one the server applied, or a later one.
LEMMA RollbackSafe ==
    ASSUME LogType, NEW ends, LogInv(ends), NEW d \in 1..log.epoch, SourceInv(ends, d),
           NEW e \in 1..log.epoch, d <= e, NEW to \in Nat, NEW w,
           w \in RollbacksIn(Hist(e), Batch(Hist(e), to))
    PROVE  LastEpochEnd(w) >= ss.oldestVersion
<1> DEFINE g == Hist(d)
           h == Hist(e)
           L == LastEpochEnd(w)
           lv == ss.lastVersionWithData
<1>1. /\ ServerType(ss) /\ Memory(ss, g) /\ ModeInv(ends, d) /\ Ordered(ss) /\ ends[d] \in Nat
      /\ ss.version \in Nat /\ ss.desiredOldestVersion \in Nat /\ ss.oldestVersion \in Nat
      /\ lv \in Nat /\ ss.restoredVersion \in Nat /\ d \in Nat /\ e \in Nat
  BY SourceFacts, EpochHistory
<1>2. /\ g \in Histories /\ h \in Histories /\ EpochInv(g, ends[d]) /\ EpochInv(h, ends[e])
      /\ (\A x \in DOMAIN g : x \in Nat) /\ (\A x \in DOMAIN h : x \in Nat)
  BY EpochHistory, EndsType
<1>3. PICK from : from = Max({lv} \cup {x \in Batch(h, to) : x < w /\ h[x] # "none"})
  OBVIOUS
<1>4. w \in Batch(h, to) /\ h[w] = "end" /\ L < from /\ L > ss.restoredVersion
  BY <1>3 DEF RollbacksIn, RollsBack
<1>5. w \in DOMAIN h /\ w \in Nat /\ ss.version < w /\ L = w - Flight /\ L \in Int
  BY <1>2, <1>4, Constants DEF Batch, LastEpochEnd
<1>6. \A x \in DOMAIN h : x < w => x <= L
  BY <1>2, <1>4, <1>5 DEF EpochInv
<1>7. from \in Nat /\ (from = lv \/ (from \in Batch(h, to) /\ from < w))
  BY <1>1, <1>2, <1>3, FromVersion
<1>8. from = lv
  <2>1. CASE from \in Batch(h, to) /\ from < w
    <3>1. from <= L
      BY <1>6, <2>1 DEF Batch
    <3> QED
      BY <1>4, <1>5, <1>7, <3>1
  <2> QED
    BY <1>7, <2>1
<1> HIDE DEF L, lv, g, h
<1>9. lv > L /\ lv # ss.restoredVersion
  BY <1>1, <1>4, <1>5, <1>8
<1>10. lv \in DOMAIN g /\ lv <= ss.version /\ lv < w
  <2>1. lv \in DOMAIN g /\ lv <= ss.version
    BY <1>1, <1>9 DEF Memory, LastDataInv, HasData, lv
  <2> QED
    BY <1>1, <1>5, <2>1
<1>11. CASE d = e
  <2>1. lv <= L
    BY <1>6, <1>10, <1>11 DEF g, h
  <2> QED
    BY <1>1, <1>5, <1>9, <2>1
<1>12. CASE d # e
  <2>1. d < e
    BY <1>1, <1>12
  <2>2. Fork(d, e, ends[d])
    BY <2>1 DEF LogInv, EndsInv
  <2>3. L >= ends[d]
    <3> SUFFICES ASSUME L < ends[d] PROVE FALSE
      BY <1>1, <1>5
    <3>1. w < ends[d] + Flight
      BY <1>1, <1>5, Constants
    <3>2. w <= ends[d] /\ w \in DOMAIN g
      BY <1>5, <2>2, <3>1 DEF Fork, g, h
    <3>3. g[w] = "end"
      BY <1>4, <2>2, <3>2 DEF Fork, g, h
    <3>4. lv <= L
      BY <1>2, <1>10, <3>2, <3>3 DEF EpochInv, L
    <3> QED
      BY <1>1, <1>5, <1>9, <3>4
  <2>4. ss.oldestVersion <= ends[d]
    BY <1>1 DEF Ordered, ModeInv
  <2> QED
    BY <1>1, <1>5, <2>3, <2>4 DEF L
<1> QED
  BY <1>11, <1>12

\* An update that finds no rollback applies a log that agrees with what was applied.
LEMMA NoRollback ==
    ASSUME LogType, NEW ends, LogInv(ends), NEW d \in 1..log.epoch, SourceInv(ends, d), Serving,
           NEW e \in 1..log.epoch, d <= e, NEW to \in DOMAIN Hist(e), to > ss.version,
           RollbacksIn(Hist(e), Batch(Hist(e), to)) = {}
    PROVE  SameData(Hist(d), Hist(e), ss.version)
<1> DEFINE g == Hist(d)
           h == Hist(e)
           F == ends[d] + Flight
           lv == ss.lastVersionWithData
<1>1. /\ ServerType(ss) /\ Memory(ss, g) /\ ModeInv(ends, d) /\ ends[d] \in Nat
      /\ ss.version \in Nat /\ lv \in Nat /\ ss.restoredVersion \in Nat /\ d \in Nat /\ e \in Nat
  BY SourceFacts, EpochHistory
<1>2. /\ g \in Histories /\ h \in Histories /\ Dated(g) /\ Dated(h)
      /\ (\A x \in DOMAIN g : x \in Nat) /\ (\A x \in DOMAIN h : x \in Nat)
  BY EpochHistory
<1>3. /\ SameData(g, h, ends[d])
  BY EpochsAgree
<1>4. CASE d = e
  BY <1>4 DEF SameData
<1>5. CASE ss.version <= ends[d]
  <2> HIDE DEF g, h
  <2> QED
    BY <1>1, <1>2, <1>3, <1>5, SameDataLess DEF g, h
<1>6. CASE d # e /\ ss.version > ends[d]
  <2>1. d < e
    BY <1>1, <1>6
  <2>2. Fork(d, e, ends[d])
    BY <2>1 DEF LogInv, EndsInv
  <2>3. F \in DOMAIN h /\ h[F] = "end" /\ \A w \in DOMAIN h : w < F => w <= ends[d] /\ w \in DOMAIN g
    BY <2>2 DEF Fork
  <2>4. ss.version < F /\ F \in Nat /\ to \in Nat /\ LastEpochEnd(F) = ends[d]
    BY <1>1, <1>2, Constants DEF ModeInv, LastEpochEnd
  <2>5. F <= to
    BY <1>1, <1>6, <2>3, <2>4
  <2> HIDE DEF F
  <2>6. F \in Batch(h, to)
    BY <2>3, <2>4, <2>5 DEF Batch
  <2>7. PICK from : from = Max({lv} \cup {x \in Batch(h, to) : x < F /\ h[x] # "none"})
    OBVIOUS
  <2>8. ~ RollsBack(LastEpochEnd(F), from, ss.restoredVersion)
    BY <2>3, <2>6, <2>7 DEF RollbacksIn
  <2>9. from \in Nat /\ lv <= from
    BY <1>1, <1>2, <2>4, <2>7, FromVersion
  <2>10. ss.restoredVersion < ends[d]
    BY <1>1 DEF ModeInv
  <2>11. lv <= ends[d]
    BY <1>1, <2>4, <2>8, <2>9, <2>10 DEF RollsBack
  <2>12. \A w \in DOMAIN g : lv < w /\ w <= ss.version => g[w] = "none"
    BY <1>1 DEF Memory, LastDataInv
  <2> HIDE DEF g, h, lv
  <2>13. ASSUME NEW w \in DOMAIN g, w <= ss.version, g[w] # "none" PROVE w \in DOMAIN h /\ h[w] = g[w]
    <3>1. w <= ends[d]
      BY <1>1, <1>2, <2>11, <2>12, <2>13
    <3> QED
      BY <1>3, <2>13, <3>1 DEF SameData
  <2>14. ASSUME NEW w \in DOMAIN h, w <= ss.version, h[w] # "none" PROVE w \in DOMAIN g /\ h[w] = g[w]
    <3>1. w < F
      BY <1>1, <1>2, <2>4, <2>14
    <3>2. w <= ends[d]
      BY <2>3, <3>1
    <3> QED
      BY <1>3, <2>14, <3>2 DEF SameData
  <2> QED
    BY <2>13, <2>14 DEF SameData, g, h
<1> QED
  BY <1>1, <1>4, <1>5, <1>6

Ops(h, to) == {w \in Batch(h, to) : h[w] \in Touching}

LEMMA BatchFacts ==
    ASSUME NEW h \in Histories, ServerType(ss), NEW to \in DOMAIN h, to > ss.version
    PROVE  /\ to \in Nat /\ Max(Batch(h, to)) = to
           /\ \A w \in Batch(h, to) : w \in Nat /\ w \in DOMAIN h /\ ss.version < w /\ w <= to
           /\ \A w \in DOMAIN h : ss.version < w /\ w <= to => w \in Batch(h, to)
<1>1. to \in Nat /\ ss.version \in Nat /\ \A w \in DOMAIN h : w \in Nat
  BY HistoryFacts, ServerFacts
<1>2. /\ \A w \in Batch(h, to) : w \in Nat /\ w \in DOMAIN h /\ ss.version < w /\ w <= to
      /\ \A w \in DOMAIN h : ss.version < w /\ w <= to => w \in Batch(h, to)
  BY <1>1 DEF Batch
<1>3. to \in Batch(h, to)
  BY <1>1, <1>2
<1> DEFINE S == Batch(h, to)
<1>4. S \subseteq Nat /\ S # {} /\ (\A y \in S : y <= to) /\ to \in S
  BY <1>2, <1>3
<1> HIDE DEF S
<1>5. Max(S) \in S /\ Max(S) \in Nat /\ \A y \in S : y <= Max(S)
  BY <1>1, <1>4, MaxIsGreatest
<1>6. Max(S) = to
  BY <1>1, <1>4, <1>5
<1> QED
  BY <1>1, <1>2, <1>6 DEF S

\* The value that an atomic operation starts from.
LEMMA OldValueIs ==
    ASSUME NEW h, Dated(h), ServerType(ss), TreeInv(ss, h), NEW eager,
           AtLatest(ss.tree) = NoEntry => eager = DatabaseAt(h, ss.version)
    PROVE  OldValue(ss.tree, eager) = DatabaseAt(h, ss.version)
<1>1. Good(AtLatest(ss.tree), h, ss.durableVersion, ss.version)
  BY LatestGood
<1> QED
  BY <1>1 DEF OldValue, Good

\* What applying a batch makes of each version is the database at that version.
LEMMA AppliedValue ==
    ASSUME NEW h \in Histories, ServerType(ss), NEW to \in DOMAIN h, to > ss.version, NEW w \in Ops(h, to)
    PROVE  ValueAfter(DatabaseAt(h, ss.version), h, {x \in Ops(h, to) : x <= w}) = DatabaseAt(h, w)
<1> DEFINE vs == {x \in Ops(h, to) : x <= w}
<1>1. Dated(h) /\ ss.version \in Nat /\ to \in Nat
  BY HistoryFacts, ServerFacts
<1>2. /\ \A x \in Batch(h, to) : x \in Nat /\ x \in DOMAIN h /\ ss.version < x /\ x <= to
      /\ \A x \in DOMAIN h : ss.version < x /\ x <= to => x \in Batch(h, to)
  BY BatchFacts
<1>3. w \in Nat /\ ss.version < w /\ ss.version <= w /\ w <= to
  BY <1>1, <1>2 DEF Ops
<1>4. \A x \in vs : x \in DOMAIN h /\ ss.version < x /\ x <= w
  BY <1>2 DEF Ops
<1>5. ASSUME NEW x \in DOMAIN h, ss.version < x, x <= w, h[x] \in Touching PROVE x \in vs
  <2>1. x \in Nat /\ x <= to
    BY <1>1, <1>3, <1>5, HistoryFacts
  <2> QED
    BY <1>2, <1>5, <2>1 DEF Ops
<1> HIDE DEF vs
<1>6. Covers(vs, h, ss.version, w)
  BY <1>4, <1>5 DEF Covers
<1>7. ValueAfter(DatabaseAt(h, ss.version), h, vs) = DatabaseAt(h, w)
  BY <1>1, <1>3, <1>6, DatabaseExtends
<1> QED
  BY <1>7 DEF vs

\* The values of the versions of a batch.
ValuesOf(h, to) == [w \in Ops(h, to) |-> DatabaseAt(h, w)]

\* The roots after the values were inserted.
InsertedTree(t, h, to) ==
    /\ t \in Trees /\ DOMAIN t = Ops(h, to) \cup DOMAIN ss.tree
    /\ \A k \in DOMAIN t : k \in Nat /\ ss.oldestVersion <= k /\ k <= to
    /\ \A k \in DOMAIN t : Good(t[k], h, ss.durableVersion, k)
    /\ \A k \in Ops(h, to) : t[k].insertVersion = k
    /\ \A k \in DOMAIN t : k \notin Ops(h, to) => t[k] = ss.tree[k]

LEMMA InsertGood ==
    ASSUME NEW h \in Histories, ServerType(ss), Ordered(ss), TreeInv(ss, h), NEW to \in DOMAIN h, to > ss.version
    PROVE  InsertedTree(Insert(ss.tree, ValuesOf(h, to)), h, to)
<1> DEFINE t == Insert(ss.tree, ValuesOf(h, to))
           O == Ops(h, to)
<1>1. /\ Dated(h) /\ ss.version \in Nat /\ ss.oldestVersion \in Nat /\ ss.durableVersion \in Nat
      /\ ss.tree \in Trees /\ to \in Nat /\ ss.desiredOldestVersion \in Nat
  BY HistoryFacts, ServerFacts
<1>2. /\ \A k \in O : k \in Nat /\ k \in DOMAIN h /\ ss.version < k /\ k <= to /\ h[k] \in Touching
      /\ \A k \in DOMAIN h : ss.version < k /\ k <= to /\ h[k] \in Touching => k \in O
  BY BatchFacts DEF Ops
<1>3. DOMAIN ss.tree \subseteq Nat /\ \A k \in DOMAIN ss.tree : ss.tree[k] \in Entry
  BY <1>1, TreeFacts
<1>4. DOMAIN t = O \cup DOMAIN ss.tree
  BY DEF Insert, ValuesOf
<1>5. \A k \in O : /\ t[k] = [insertVersion |-> k, value |-> DatabaseAt(h, k)]
                   /\ t[k].insertVersion = k /\ t[k].value = DatabaseAt(h, k)
  <2> SUFFICES ASSUME NEW k \in O
               PROVE  /\ t[k] = [insertVersion |-> k, value |-> DatabaseAt(h, k)]
                      /\ t[k].insertVersion = k /\ t[k].value = DatabaseAt(h, k)
    OBVIOUS
  <2>1. t[k] = [insertVersion |-> k, value |-> DatabaseAt(h, k)]
    BY DEF Insert, ValuesOf
  <2> HIDE DEF t
  <2> QED
    BY <2>1
<1>6. \A k \in DOMAIN t : k \notin O => k \in DOMAIN ss.tree /\ t[k] = ss.tree[k]
  BY DEF Insert, ValuesOf
<1>7. t \in [O \cup DOMAIN ss.tree -> Entry]
  <2>1. \A k \in O : [insertVersion |-> k, value |-> DatabaseAt(h, k)] \in Entry
    <3> SUFFICES ASSUME NEW k \in O PROVE [insertVersion |-> k, value |-> DatabaseAt(h, k)] \in Entry
      OBVIOUS
    <3>1. k \in Nat /\ DatabaseAt(h, k) \in Value
      BY <1>1, <1>2, DatabaseType
    <3> QED
      BY <3>1 DEF Entry
  <2>2. \A k \in DOMAIN t : t[k] \in Entry
    BY <1>3, <1>4, <1>5, <1>6, <2>1
  <2>3. t = [k \in DOMAIN t |-> t[k]]
    BY DEF Insert
  <2> HIDE DEF t, O
  <2> QED
    BY <1>4, <2>2, <2>3
<1> HIDE DEF t, O
<1>8. t \in Trees
  <2> DEFINE D == O \cup DOMAIN ss.tree
  <2>1. D \subseteq Nat
    BY <1>2, <1>3
  <2>2. t \in [D -> Entry]
    BY <1>7
  <2> HIDE DEF D
  <2> QED
    BY <2>1, <2>2, IsTree
<1>9. \A k \in DOMAIN ss.tree : k \in Nat /\ ss.oldestVersion <= k /\ k <= ss.version + 1
  BY <1>3 DEF TreeInv
<1>10. ss.version + 1 <= to /\ ss.oldestVersion <= ss.version
  BY <1>1 DEF Ordered
<1>11. \A k \in DOMAIN t : k \in Nat /\ ss.oldestVersion <= k /\ k <= to
  BY <1>1, <1>2, <1>4, <1>9, <1>10
<1>12. ASSUME NEW k \in DOMAIN t PROVE Good(t[k], h, ss.durableVersion, k)
  <2>1. CASE k \in O
    <3>1. /\ t[k].value = DatabaseAt(h, k) /\ t[k].insertVersion = k /\ k \in Nat
          /\ k \in DOMAIN h /\ h[k] \in Touching
      BY <1>2, <1>5, <2>1
    <3>2. \A x \in DOMAIN h : x \in Nat
      BY <1>1 DEF Dated
    <3>3. Quiet(h, k, k) /\ k <= k
      BY <3>1, <3>2 DEF Quiet
    <3> QED
      BY <3>1, <3>3 DEF Good
  <2>2. CASE k \notin O
    <3>1. k \in DOMAIN ss.tree /\ t[k] = ss.tree[k] /\ k \in Nat /\ k <= ss.version + 1
      BY <1>6, <1>9, <2>2
    <3>2. Good(t[k], h, ss.durableVersion, IF k <= ss.version THEN k ELSE ss.version)
      BY <3>1 DEF TreeInv
    <3>3. CASE k <= ss.version
      BY <3>2, <3>3
    <3>4. CASE ~ (k <= ss.version)
      <4>1. k = ss.version + 1 /\ ss.version <= k
        BY <1>1, <3>1, <3>4
      <4>2. Good(t[k], h, ss.durableVersion, ss.version)
        BY <3>2, <3>4
      <4>3. ASSUME NEW x \in DOMAIN h, ss.version < x, x <= k PROVE h[x] \notin Touching
        <5>1. x \in Nat
          BY <1>1 DEF Dated
        <5>2. x = k /\ x <= to
          BY <1>1, <1>10, <4>1, <4>3, <5>1
        <5> QED
          BY <1>2, <2>2, <4>3, <5>2
      <4>4. Quiet(h, ss.version, k)
        BY <4>3 DEF Quiet
      <4> QED
        BY <1>1, <3>1, <4>1, <4>2, <4>4, GoodLater
    <3> QED
      BY <3>3, <3>4
  <2> QED
    BY <2>1, <2>2
<1> QED
  BY <1>4, <1>5, <1>6, <1>8, <1>11, <1>12 DEF InsertedTree, t, O

\* The tree of a server after an update.
LEMMA AppliedTree ==
    ASSUME NEW h \in Histories, ServerType(ss), Ordered(ss), TreeInv(ss, h), NEW to \in DOMAIN h, to > ss.version,
           NEW s, s.version = to, s.oldestVersion = ss.oldestVersion, s.durableVersion = ss.durableVersion,
           s.tree = CreateNewVersion(Insert(ss.tree, ValuesOf(h, to)), to)
    PROVE  s.tree \in Trees /\ TreeInv(s, h)
<1> DEFINE t == Insert(ss.tree, ValuesOf(h, to))
           O == Ops(h, to)
           D == DOMAIN t \cup {to}
<1>1. /\ Dated(h) /\ ss.version \in Nat /\ ss.oldestVersion \in Nat /\ ss.durableVersion \in Nat /\ to \in Nat
      /\ ss.desiredOldestVersion \in Nat
  BY HistoryFacts, ServerFacts
<1>2. /\ t \in Trees /\ DOMAIN t = O \cup DOMAIN ss.tree
      /\ \A k \in DOMAIN t : k \in Nat /\ ss.oldestVersion <= k /\ k <= to
      /\ \A k \in DOMAIN t : Good(t[k], h, ss.durableVersion, k)
      /\ \A k \in O : t[k].insertVersion = k
      /\ \A k \in DOMAIN t : k \notin O => t[k] = ss.tree[k]
  BY InsertGood DEF InsertedTree
<1>3. /\ \A k \in O : k \in Nat /\ k \in DOMAIN h /\ ss.version < k /\ k <= to /\ h[k] \in Touching
      /\ \A k \in DOMAIN h : ss.version < k /\ k <= to /\ h[k] \in Touching => k \in O
  BY BatchFacts DEF Ops
<1> HIDE DEF O
<1>4. ss.oldestVersion \in DOMAIN ss.tree /\ ss.version \in DOMAIN ss.tree
  BY DEF TreeInv
<1>5. PICK r : RootOf(t, to, r)
  <2>1. ss.version \in DOMAIN t /\ ss.version <= to
    BY <1>1, <1>2, <1>4
  <2> HIDE DEF t
  <2> QED
    BY <1>1, <1>2, <2>1, AtRoot
<1> HIDE DEF t
<1>6. r \in DOMAIN t /\ r \in Nat /\ r <= to /\ (\A j \in DOMAIN t : j <= r) /\ At(t, to) = t[r]
  BY <1>2, <1>5 DEF RootOf
<1>7. s.tree = [w \in D |-> IF w = to THEN At(t, to) ELSE t[w]] /\ DOMAIN s.tree = D
  BY DEF CreateNewVersion, t
<1>8. s.tree[to] = t[r] /\ \A k \in DOMAIN t : k # to => s.tree[k] = t[k]
  BY <1>6, <1>7
<1>9. \A k \in DOMAIN t : t[k] \in Entry
  BY <1>2, TreeFacts
<1>10. s.tree \in Trees
  <2>1. D \subseteq Nat
    BY <1>1, <1>2
  <2>2. s.tree \in [D -> Entry]
    BY <1>6, <1>7, <1>9
  <2> HIDE DEF D
  <2> QED
    BY <2>1, <2>2, IsTree
<1>11. Good(t[r], h, ss.durableVersion, to)
  <2>1. ASSUME NEW w \in DOMAIN h, r < w, w <= to PROVE h[w] \notin Touching
    <3> SUFFICES ASSUME h[w] \in Touching PROVE FALSE
      OBVIOUS
    <3>1. w \in Nat
      BY <1>1 DEF Dated
    <3>2. ss.version <= r
      BY <1>2, <1>4, <1>6
    <3>3. w \in O
      BY <1>1, <1>3, <1>6, <2>1, <3>1, <3>2
    <3>4. w <= r
      BY <1>2, <1>6, <3>3
    <3> QED
      BY <1>6, <2>1, <3>1, <3>4
  <2>2. Quiet(h, r, to)
    BY <2>1 DEF Quiet
  <2>3. Good(t[r], h, ss.durableVersion, r)
    BY <1>2, <1>6
  <2> QED
    BY <1>1, <1>6, <2>2, <2>3, GoodLater
<1>12. t[r] # NoEntry => t[r].insertVersion > ss.durableVersion
  <2> SUFFICES ASSUME t[r] # NoEntry PROVE t[r].insertVersion > ss.durableVersion
    OBVIOUS
  <2>1. CASE r \in O
    BY <1>1, <1>2, <1>3, <2>1 DEF Ordered
  <2>2. CASE r \notin O
    <3>1. r \in DOMAIN ss.tree /\ t[r] = ss.tree[r] /\ \A j \in DOMAIN ss.tree : j <= r
      BY <1>2, <1>6, <2>2
    <3> QED
      BY <3>1 DEF TreeInv
  <2> QED
    BY <2>1, <2>2
<1>13. TreeInv(s, h)
  <2>1. s.oldestVersion \in DOMAIN s.tree /\ s.version \in DOMAIN s.tree
    BY <1>2, <1>4, <1>7
  <2>2. \A k \in DOMAIN s.tree : s.oldestVersion <= k /\ k <= s.version + 1
    <3>1. ss.oldestVersion <= to
      BY <1>1 DEF Ordered
    <3> QED
      BY <1>1, <1>2, <1>7, <3>1
  <2>3. ASSUME NEW w \in DOMAIN h, ss.oldestVersion < w, w <= to, h[w] \in Touching PROVE w \in DOMAIN s.tree
    <3>1. w \in Nat
      BY <1>1 DEF Dated
    <3>2. CASE w <= ss.version
      <4>1. w \in DOMAIN ss.tree
        BY <2>3, <3>2 DEF TreeInv
      <4> QED
        BY <1>2, <1>7, <4>1
    <3>3. CASE ss.version < w
      BY <1>2, <1>3, <1>7, <2>3, <3>3
    <3> QED
      BY <1>1, <3>1, <3>2, <3>3
  <2>4. ASSUME NEW k \in DOMAIN s.tree
        PROVE  Good(s.tree[k], h, ss.durableVersion, IF k <= to THEN k ELSE to)
    <3>1. CASE k = to
      BY <1>8, <1>11, <3>1
    <3>2. CASE k # to
      BY <1>2, <1>7, <1>8, <3>2
    <3> QED
      BY <3>1, <3>2
  <2>5. ASSUME NEW k \in DOMAIN s.tree, \A j \in DOMAIN s.tree : j <= k, s.tree[k] # NoEntry
        PROVE  s.tree[k].insertVersion > ss.durableVersion
    <3>1. k = to
      BY <1>1, <1>2, <1>7, <2>5
    <3> QED
      BY <1>8, <1>12, <2>5, <3>1
  <2> QED
    BY <2>1, <2>2, <2>3, <2>4, <2>5 DEF TreeInv
<1> QED
  BY <1>10, <1>13

\* What the recoveries of a batch skipped.
NewSkips(marks) ==
    [i \in 1..Cardinality(marks) |->
        LET v == Ascending(marks)[i] IN <<LastEpochEnd(v), v - LastEpochEnd(v)>>]

LEMMA NewSkipsType ==
    ASSUME NEW marks, marks \subseteq Nat, NEW b \in Nat, \A w \in marks : w <= b
    PROVE  NewSkips(marks) \in Seq(Int \X Nat)
<1> DEFINE n == Cardinality(marks)
<1>1. n \in Nat /\ \A i \in 1..n : Ascending(marks)[i] \in marks
  BY AscendingType, AscendingRank
<1>2. \A i \in 1..n : Ascending(marks)[i] \in Nat
  BY <1>1
<1>3. ASSUME NEW v \in Nat PROVE <<LastEpochEnd(v), v - LastEpochEnd(v)>> \in Int \X Nat
  BY FlightAssumption DEF LastEpochEnd
<1>4. NewSkips(marks) \in [1..n -> Int \X Nat]
  BY <1>2, <1>3 DEF NewSkips
<1> HIDE DEF n
<1> QED
  BY <1>1, <1>4

LEMMA SkipsAfterType ==
    ASSUME NEW skips \in Seq(Int \X Nat), NEW proposed
    PROVE  SkipsAfter(skips, proposed) \in Seq(Int \X Nat)
<1> DEFINE n == Len(skips)
           P == {i \in 1..n : \A j \in 1..i : proposed > skips[j][1]}
<1>1. n \in Nat
  OBVIOUS
<1>2. P \subseteq Nat /\ \A i \in P : i <= n
  BY <1>1
<1>3. IsFiniteSet(P)
  <2> HIDE DEF P
  <2> QED
    BY <1>1, <1>2, FS_BoundedSetOfNaturals
<1>4. Cardinality(P) \in Nat
  BY <1>3, FS_CardinalityType
<1>5. SkipsAfter(skips, proposed) = SubSeq(skips, Cardinality(P) + 1, n)
  BY DEF SkipsAfter
<1> HIDE DEF P
<1> QED
  BY <1>1, <1>4, <1>5

\* The versions of a batch with data, and those of them that begin an epoch.
Data(h, to) == {w \in Batch(h, to) : h[w] # "none"}
Marks(h, to) == {w \in Data(h, to) : h[w] = "end"}

\* What a batch makes of the server, by the database at each of its versions.
AppliedOf(h, to) ==
    [ss EXCEPT !.version = to,
               !.lastVersionWithData = Max({@} \cup Data(h, to)),
               !.tree = Insert(@, ValuesOf(h, to)),
               !.mutationLog = Over(ValuesOf(h, to), Over([w \in Marks(h, to) |-> Untouched], @)),
               !.recoveryVersionSkips = @ \o NewSkips(Marks(h, to))]

LEMMA AppliedIs ==
    ASSUME NEW h \in Histories, ServerType(ss), TreeInv(ss, h), NEW to \in DOMAIN h, to > ss.version, NEW eager,
           AtLatest(ss.tree) = NoEntry => eager = DatabaseAt(h, ss.version)
    PROVE  Applied(h, Batch(h, to), eager) = AppliedOf(h, to)
<1> DEFINE values == [w \in Data(h, to) \ Marks(h, to) |->
                         ValueAfter(OldValue(ss.tree, eager), h, {x \in Data(h, to) \ Marks(h, to) : x <= w})]
<1>1. Dated(h) /\ \A w \in DOMAIN h : h[w] \in Op \cup {"end"}
  BY HistoryFacts
<1>2. Max(Batch(h, to)) = to /\ \A w \in Batch(h, to) : w \in DOMAIN h
  BY BatchFacts
<1>3. Data(h, to) \ Marks(h, to) = Ops(h, to)
  BY <1>1, <1>2, OpFacts DEF Data, Marks, Ops
<1>4. OldValue(ss.tree, eager) = DatabaseAt(h, ss.version)
  BY <1>1, OldValueIs
<1>5. \A w \in Ops(h, to) :
         ValueAfter(OldValue(ss.tree, eager), h, {x \in Ops(h, to) : x <= w}) = DatabaseAt(h, w)
  BY <1>4, AppliedValue
<1>6. values = ValuesOf(h, to)
  BY <1>3, <1>5 DEF ValuesOf
<1>7. Applied(h, Batch(h, to), eager) =
         [ss EXCEPT !.version = Max(Batch(h, to)),
                    !.lastVersionWithData = Max({@} \cup Data(h, to)),
                    !.tree = Insert(@, values),
                    !.mutationLog = Over(values, Over([w \in Marks(h, to) |-> Untouched], @)),
                    !.recoveryVersionSkips = @ \o NewSkips(Marks(h, to))]
  BY Zenon DEF Applied, Data, Marks, NewSkips
<1> HIDE DEF values
<1> QED
  BY <1>2, <1>6, <1>7 DEF AppliedOf

\* The server with the new version, and the version up to which updateStorage may go.
Published(s, proposed) ==
    [s EXCEPT !.recoveryVersionSkips = SkipsAfter(@, proposed),
              !.tree = CreateNewVersion(@, s.version),
              !.desiredOldestVersion = proposed]

\* The memory of a server after an update that found no rollback.
LEMMA AppliedMemory ==
    ASSUME NEW h \in Histories, ServerType(ss), Memory(ss, h), NEW to \in DOMAIN h, to > ss.version,
           NEW proposed \in Nat, ss.desiredOldestVersion <= proposed, proposed <= to,
           NEW z, z = Published(AppliedOf(h, to), proposed)
    PROVE  /\ ServerType(z) /\ Memory(z, h)
           /\ z.mode = ss.mode /\ z.version = to /\ z.oldestVersion = ss.oldestVersion
           /\ z.desiredOldestVersion = proposed /\ z.restoredVersion = ss.restoredVersion
           /\ z.durableVersion = ss.durableVersion /\ z.peek = ss.peek
<1> DEFINE V == ValuesOf(h, to)
           D == Data(h, to)
           M == Marks(h, to)
           O == Ops(h, to)
           lv == Max({ss.lastVersionWithData} \cup D)
           ml == Over(V, Over([w \in M |-> Untouched], ss.mutationLog))
           skips == ss.recoveryVersionSkips \o NewSkips(M)
           left0 == SkipsAfter(skips, proposed)
           tree == CreateNewVersion(Insert(ss.tree, V), to)
<1>0. PICK s : s = AppliedOf(h, to)
  OBVIOUS
<1>1. /\ Dated(h) /\ to \in Nat /\ ss.version \in Nat /\ ss.oldestVersion \in Nat
      /\ ss.desiredOldestVersion \in Nat /\ ss.durableVersion \in Nat
      /\ ss.lastVersionWithData \in Nat /\ ss.restoredVersion \in Nat
      /\ ss.storageMinRecoverVersion \in Nat
      /\ ss.recoveryVersionSkips \in Seq(Int \X Nat) /\ ss.mutationLog \in MutationLogs
      /\ \A w \in DOMAIN h : w \in Nat
  BY HistoryFacts, ServerFacts
<1>2. Ordered(ss) /\ TreeInv(ss, h) /\ MutationsInv(ss, h) /\ LastDataInv(ss, h)
  BY DEF Memory
<1>3. /\ \A w \in Batch(h, to) : w \in Nat /\ w \in DOMAIN h /\ ss.version < w /\ w <= to
      /\ \A w \in DOMAIN h : ss.version < w /\ w <= to => w \in Batch(h, to)
  BY BatchFacts
<1>4. /\ \A w \in D : w \in Nat /\ w \in DOMAIN h /\ ss.version < w /\ w <= to /\ h[w] # "none"
      /\ \A w \in DOMAIN h : ss.version < w /\ w <= to /\ h[w] # "none" => w \in D
  BY <1>3 DEF Data
<1>5. /\ \A w \in D : w \in O \/ w \in M
      /\ \A w \in O : w \in D /\ h[w] # "end"
      /\ \A w \in M : w \in D /\ h[w] = "end"
  <2>1. \A w \in DOMAIN h : h[w] \in Op \cup {"end"}
    BY HistoryFacts
  <2> QED
    BY <1>3, <2>1, OpFacts DEF Data, Marks, Ops
<1>6. /\ z.mode = ss.mode /\ z.version = to /\ z.oldestVersion = ss.oldestVersion
      /\ z.desiredOldestVersion = proposed /\ z.restoredVersion = ss.restoredVersion
      /\ z.durableVersion = ss.durableVersion /\ z.peek = ss.peek
      /\ z.storageMinRecoverVersion = ss.storageMinRecoverVersion
      /\ z.lastVersionWithData = lv /\ z.mutationLog = ml /\ z.tree = tree
      /\ z.recoveryVersionSkips = left0
      /\ z = [ss EXCEPT !.version = to, !.desiredOldestVersion = proposed, !.lastVersionWithData = lv,
                        !.mutationLog = ml, !.tree = tree, !.recoveryVersionSkips = left0]
  <2>1. s = [ss EXCEPT !.version = to, !.lastVersionWithData = lv, !.tree = Insert(ss.tree, V),
                       !.mutationLog = ml, !.recoveryVersionSkips = skips]
    BY <1>0 DEF AppliedOf
  <2> HIDE DEF lv, ml, skips, V
  <2>2. s.version = to /\ s.tree = Insert(ss.tree, V) /\ s.recoveryVersionSkips = skips
    BY <2>1 DEF ServerType
  <2>3. z = [s EXCEPT !.recoveryVersionSkips = left0, !.tree = tree, !.desiredOldestVersion = proposed]
    BY <1>0, <2>2 DEF Published
  <2> HIDE DEF left0, tree
  <2> QED
    BY <2>1, <2>3 DEF ServerType
<1> HIDE DEF V
<1>7. tree \in Trees /\ TreeInv(z, h)
  <2>1. z.tree = CreateNewVersion(Insert(ss.tree, ValuesOf(h, to)), to)
    BY <1>6 DEF V
  <2>2. z.version = to /\ z.oldestVersion = ss.oldestVersion /\ z.durableVersion = ss.durableVersion
    BY <1>6
  <2>3. z.tree \in Trees /\ TreeInv(z, h)
    BY <1>2, <2>1, <2>2, AppliedTree
  <2> HIDE DEF tree
  <2> QED
    BY <1>6, <2>3
<1>8. left0 \in Seq(Int \X Nat)
  <2>1. M \subseteq Nat /\ \A w \in M : w <= to
    BY <1>4, <1>5
  <2> HIDE DEF M
  <2>2. NewSkips(M) \in Seq(Int \X Nat)
    BY <1>1, <2>1, NewSkipsType
  <2>3. skips \in Seq(Int \X Nat)
    BY <1>1, <2>2
  <2> HIDE DEF skips
  <2> QED
    BY <2>3, SkipsAfterType
<1> HIDE DEF left0, tree, D, M, O
<1>9. /\ lv \in Nat /\ ss.lastVersionWithData <= lv /\ (\A w \in D : w <= lv)
      /\ (lv = ss.lastVersionWithData \/ lv \in D)
  <2> DEFINE S == {ss.lastVersionWithData} \cup D
             b == ss.lastVersionWithData + to
  <2>1. S \subseteq Nat /\ S # {} /\ b \in Nat /\ \A y \in S : y <= b
    BY <1>1, <1>4
  <2>2. ss.lastVersionWithData \in S /\ \A w \in D : w \in S
    OBVIOUS
  <2>3. \A w \in S : w = ss.lastVersionWithData \/ w \in D
    OBVIOUS
  <2>4. lv = Max(S)
    OBVIOUS
  <2> HIDE DEF S, b, lv
  <2>5. Max(S) \in S /\ Max(S) \in Nat /\ \A y \in S : y <= Max(S)
    BY <2>1, MaxIsGreatest
  <2> QED
    BY <2>2, <2>3, <2>4, <2>5
<1> HIDE DEF lv
<1>10. DOMAIN V = O /\ \A w \in O : V[w] = DatabaseAt(h, w)
  BY DEF V, ValuesOf, O
<1>11. /\ DOMAIN ml = O \cup M \cup DOMAIN ss.mutationLog
       /\ \A w \in O : ml[w] = DatabaseAt(h, w)
       /\ \A w \in M : ml[w] = Untouched
       /\ \A w \in DOMAIN ss.mutationLog : w \notin O /\ w \notin M => ml[w] = ss.mutationLog[w]
       /\ ml = [w \in DOMAIN ml |-> ml[w]]
  <2>1. \A w \in M : w \notin O
    BY <1>5
  <2> QED
    BY <1>10, <2>1 DEF Over
<1> HIDE DEF ml
<1>12. /\ \A w \in DOMAIN ss.mutationLog :
             ss.durableVersion < w /\ w <= ss.version /\ w \in DOMAIN h /\ h[w] # "none"
       /\ \A w \in DOMAIN h :
             ss.durableVersion < w /\ w <= ss.version /\ h[w] # "none" => w \in DOMAIN ss.mutationLog
       /\ \A w \in DOMAIN ss.mutationLog : w \in Nat
  BY <1>1, <1>2, MutationFacts
<1>13. ss.durableVersion <= ss.version
  BY <1>1, <1>2 DEF Ordered
<1>14. DOMAIN ml = {w \in DOMAIN h : ss.durableVersion < w /\ w <= to /\ h[w] # "none"}
  <2>1. ASSUME NEW w \in DOMAIN ml
        PROVE  w \in DOMAIN h /\ ss.durableVersion < w /\ w <= to /\ h[w] # "none"
    <3>1. CASE w \in O \/ w \in M
      <4>1. w \in D
        BY <1>5, <3>1
      <4> QED
        BY <1>1, <1>4, <1>13, <4>1
    <3>2. CASE w \in DOMAIN ss.mutationLog
      BY <1>1, <1>12, <3>2
    <3> QED
      BY <1>11, <3>1, <3>2
  <2>2. ASSUME NEW w \in DOMAIN h, ss.durableVersion < w, w <= to, h[w] # "none"
        PROVE  w \in DOMAIN ml
    <3>1. CASE w <= ss.version
      BY <1>11, <1>12, <2>2, <3>1
    <3>2. CASE ss.version < w
      BY <1>4, <1>5, <1>11, <2>2, <3>2
    <3> QED
      BY <1>1, <3>1, <3>2
  <2> QED
    BY <2>1, <2>2
<1>15. ASSUME NEW w \in DOMAIN ml
       PROVE  ml[w] = IF h[w] = "end" THEN Untouched ELSE DatabaseAt(h, w)
  <2>1. CASE w \in O
    BY <1>5, <1>11, <2>1
  <2>2. CASE w \in M
    BY <1>5, <1>11, <2>2
  <2>3. CASE w \notin O /\ w \notin M
    BY <1>2, <1>11, <2>3 DEF MutationsInv
  <2> QED
    BY <2>1, <2>2, <2>3
<1>16. MutationsInv(z, h)
  BY <1>6, <1>14, <1>15 DEF MutationsInv
<1>17. ml \in MutationLogs
  <2>1. \A w \in DOMAIN ml : w \in Nat
    BY <1>1, <1>14
  <2>2. ASSUME NEW w \in DOMAIN ml PROVE ml[w] \in Value
    <3>1. w \in Nat /\ DatabaseAt(h, w) \in Value
      BY <1>1, <2>1, DatabaseType
    <3>2. Untouched \in Value
      BY DEF Untouched, Value
    <3> QED
      BY <1>15, <3>1, <3>2
  <2> DEFINE N == DOMAIN ml
  <2>3. N \subseteq Nat
    BY <2>1
  <2>4. ml \in [N -> Value]
    BY <1>11, <2>2
  <2> HIDE DEF N
  <2> QED
    BY <2>3, <2>4, IsMutationLog
<1>18. ServerType(z)
  <2>1. z = [ss EXCEPT !.version = to, !.desiredOldestVersion = proposed, !.lastVersionWithData = lv,
                       !.mutationLog = ml, !.tree = tree, !.recoveryVersionSkips = left0]
    BY <1>6
  <2>2. to \in Nat /\ tree \in Trees /\ lv \in Nat
    BY <1>1, <1>7, <1>9
  <2> QED
    BY <1>8, <1>17, <2>1, <2>2 DEF ServerType
<1>19. Ordered(z)
  BY <1>1, <1>2, <1>6 DEF Ordered
<1>20. LastDataInv(z, h)
  <2>1. /\ ss.restoredVersion <= ss.lastVersionWithData /\ ss.lastVersionWithData <= ss.version
        /\ ss.lastVersionWithData = ss.restoredVersion \/ HasData(h, ss.lastVersionWithData)
        /\ \A w \in DOMAIN h : ss.lastVersionWithData < w /\ w <= ss.version => h[w] = "none"
    BY <1>2 DEF LastDataInv
  <2>2. ss.restoredVersion <= lv /\ lv <= to
    BY <1>1, <1>4, <1>9, <2>1
  <2>3. lv = ss.restoredVersion \/ HasData(h, lv)
    BY <1>4, <1>9, <2>1 DEF HasData
  <2>4. ASSUME NEW w \in DOMAIN h, lv < w, w <= to PROVE h[w] = "none"
    <3>1. w \in Nat /\ ss.lastVersionWithData < w
      BY <1>1, <1>9, <2>4
    <3>2. CASE w <= ss.version
      BY <2>1, <3>1, <3>2
    <3>3. CASE ss.version < w
      <4>1. w \notin D
        BY <1>9, <2>4, <3>1
      <4> QED
        BY <1>4, <2>4, <3>3, <4>1
    <3> QED
      BY <1>1, <3>1, <3>2, <3>3
  <2> QED
    BY <1>6, <2>2, <2>3, <2>4 DEF LastDataInv
<1> QED
  BY <1>6, <1>7, <1>16, <1>18, <1>19, <1>20 DEF Memory

\* The version up to which updateStorage may go is one that no later epoch loses.
LEMMA ProposedBound ==
    ASSUME NEW s, NEW to \in Nat, NEW last \in Nat, NEW end \in Nat,
           to <= end + Life, last <= end + Life, s.recoveryVersionSkips \in Seq(Int \X Nat),
           s.oldestVersion \in Nat, s.desiredOldestVersion \in Nat,
           s.oldestVersion <= s.desiredOldestVersion, s.desiredOldestVersion <= end,
           s.desiredOldestVersion < to,
           NEW p, p = ProposedOldestVersion(s, to, last)
    PROVE  p \in Nat /\ s.desiredOldestVersion <= p /\ p <= to /\ p <= end
<1> DEFINE m == Max({to, last})
           k == Skipped(s.recoveryVersionSkips)
           c == m - Life - k
           i == to - 1
           a == Min({c, i})
<1>1. m \in Nat /\ m <= end + Life
  <2>1. Max({to, last}) \in {to, last}
    <3>1. to \in Int /\ last \in Int
      OBVIOUS
    <3> QED
      BY <3>1, MaxOfTwo
  <2> QED
    BY <2>1
<1> HIDE DEF m
<1>2. k \in Nat
  BY SkippedType
<1> HIDE DEF k
<1>3. c \in Int /\ i \in Int /\ c <= end /\ i <= to
  BY <1>1, <1>2, Constants
<1> HIDE DEF c, i
<1>4. a \in Int /\ a <= end /\ a <= to
  <2>1. a \in {c, i} /\ a <= c /\ a <= i
    BY <1>3, MinOfTwo
  <2> HIDE DEF a
  <2> QED
    BY <1>3, <2>1
<1>5. p = Max({a, s.oldestVersion, s.desiredOldestVersion})
  BY DEF ProposedOldestVersion, m, k, c, i
<1> HIDE DEF a
<1>6. p \in {a, s.oldestVersion, s.desiredOldestVersion} /\ p >= s.desiredOldestVersion
  <2> DEFINE o == s.oldestVersion
             q == s.desiredOldestVersion
  <2>1. o \in Int /\ q \in Int
    OBVIOUS
  <2> HIDE DEF o, q
  <2>2. Max({a, o, q}) \in {a, o, q} /\ Max({a, o, q}) >= q
    BY <1>4, <2>1, MaxOfThree
  <2> QED
    BY <1>5, <2>2 DEF o, q
<1> QED
  BY <1>4, <1>6

\* An update either finds what it has to take back still in memory, or leaves the memory
\* of a server that applied the log it peeked.
LEMMA UpdateApplyInv ==
    ASSUME IInv, UpdateApply
    PROVE  IInv'
<1>1. LogType /\ ReaderInv
  BY DEF IInv
<1>2. PICK ends \in [1..log.epoch -> Nat], d \in 1..log.epoch : LogInv(ends) /\ SourceInv(ends, d)
  BY DEF IInv
<1>3. PICK e : e = upd.epoch
  OBVIOUS
<1>4. PICK to : to = upd.to
  OBVIOUS
<1> DEFINE g == Hist(d)
           h == Hist(e)
           batch == Batch(h, to)
           rollbacks == RollbacksIn(h, batch)
<1>5. /\ ServerType(ss) /\ Memory(ss, g) /\ ModeInv(ends, d) /\ EngineInv(g) /\ StoringInv /\ UpdateInv(ends, d)
      /\ Ordered(ss) /\ Dated(g) /\ ends[d] \in Nat /\ log.epoch \in Nat /\ d \in Nat
      /\ ss.version \in Nat /\ ss.desiredOldestVersion \in Nat /\ ss.oldestVersion \in Nat
      /\ ss.durableVersion \in Nat /\ ss.restoredVersion \in Nat /\ ss.peek \in Nat
      /\ kv.disk.version \in Nat
  BY <1>1, <1>2, SourceFacts
<1>6. Running /\ upd # Idle /\ upd' = Idle /\ UNCHANGED <<log, dur, kv, reader>> /\ Serving
  BY DEF UpdateApply, Running, Serving
<1>7. /\ upd \in [phase : {"apply"}, epoch : Nat, to : Nat, eager : Value, lastTLogVersion : Nat]
      /\ d <= e /\ e <= ss.peek /\ e <= log.epoch /\ e \in Nat
      /\ to \in DOMAIN h /\ to > ss.version
      /\ upd.lastTLogVersion <= ends[e] + Life /\ upd.lastTLogVersion \in Nat
      /\ AtLatest(ss.tree) = NoEntry => upd.eager = DatabaseAt(g, ss.version)
  BY <1>3, <1>4, <1>5, <1>6 DEF UpdateInv
<1>8. e \in 1..log.epoch
  BY <1>5, <1>7
<1>9. h \in Histories /\ Dated(h) /\ to \in Nat /\ ends[e] \in Nat /\ EpochInv(h, ends[e])
  BY <1>1, <1>2, <1>7, <1>8, EpochHistory, EndsType
<1>10. \/ /\ rollbacks # {}
          /\ ss' = [ss EXCEPT !.mode = IF LastEpochEnd(Min(rollbacks)) >= ss.oldestVersion
                                       THEN "rebooting" ELSE "assert"]
       \/ /\ rollbacks = {}
          /\ \E s \in {Applied(h, batch, upd.eager)} :
             \E proposed \in {ProposedOldestVersion(s, to, upd.lastTLogVersion)} :
                ss' = [s EXCEPT !.recoveryVersionSkips = SkipsAfter(@, proposed),
                                !.tree = CreateNewVersion(@, s.version),
                                !.desiredOldestVersion = proposed]
  <2>1. batch = {w \in DOMAIN Hist(upd.epoch) : ss.version < w /\ w <= upd.to}
    BY <1>3, <1>4 DEF Batch
  <2>2. h = Hist(upd.epoch)
    BY <1>3
  <2> HIDE DEF h, batch
  <2> QED
    BY <1>4, <2>1, <2>2, Zenon DEF UpdateApply
<1>11. log' = log /\ Hist(d)' = g /\ Hist(e)' = h /\ log.popped \in Nat
  BY <1>1, <1>6, LastEpoch DEF Hist
<1>12. CASE rollbacks # {}
  <2> DEFINE w == Min(rollbacks)
  <2>1. rollbacks \subseteq Nat
    BY <1>7, <1>9, <1>5, BatchFacts DEF RollbacksIn
  <2>2. w \in rollbacks
    <3> HIDE DEF rollbacks
    <3> QED
      BY <1>12, <2>1, MinIsLeast
  <2>3. PICK x : x = w
    OBVIOUS
  <2>4. LastEpochEnd(x) >= ss.oldestVersion
    BY <1>1, <1>2, <1>7, <1>8, <1>9, <2>2, <2>3, RollbackSafe
  <2>5. ss' = [ss EXCEPT !.mode = "rebooting"]
    BY <1>10, <1>12, <2>3, <2>4
  <2>6. /\ ss'.mode = "rebooting" /\ ss'.peek = ss.peek /\ ss'.version = ss.version
        /\ ss'.desiredOldestVersion = ss.desiredOldestVersion /\ ss'.oldestVersion = ss.oldestVersion
        /\ ss'.durableVersion = ss.durableVersion /\ ss'.restoredVersion = ss.restoredVersion
        /\ ss'.storageMinRecoverVersion = ss.storageMinRecoverVersion
        /\ ss'.lastVersionWithData = ss.lastVersionWithData /\ ss'.tree = ss.tree
        /\ ss'.mutationLog = ss.mutationLog /\ ServerType(ss')
    BY <1>5, <2>5 DEF ServerType
  <2>7. Memory(ss', g)
    BY <1>5, <2>6 DEF Memory, Ordered, TreeInv, MutationsInv, LastDataInv
  <2> HIDE DEF g
  <2>8. ModeInv(ends, d)'
    BY <1>5, <1>6, <1>11, <2>6 DEF ModeInv, Serving, g
  <2>9. EngineInv(Hist(d))'
    BY <1>5, <1>6, <1>11, <2>6 DEF EngineInv
  <2>10. StoringInv' /\ UpdateInv(ends, d)'
    BY <1>5, <1>6, <2>6 DEF StoringInv, UpdateInv, Serving, Idle
  <2>11. SourceInv(ends, d)'
    BY <1>11, <2>6, <2>7, <2>8, <2>9, <2>10 DEF SourceInv
  <2>12. /\ ss.oldestVersion <= ss'.oldestVersion /\ ss.durableVersion <= ss'.durableVersion
         /\ (Serving => Serving')
    BY <1>5, <2>6 DEF Serving
  <2> QED
    BY <1>1, <1>2, <1>5, <1>6, <2>6, <2>11, <2>12, LogStutters, ServerStepInv
<1>13. CASE rollbacks = {}
  <2>1. SameData(g, h, ss.version)
    BY <1>1, <1>2, <1>6, <1>7, <1>8, <1>13, NoRollback
  <2> HIDE DEF g, h, rollbacks
  <2>2. Memory(ss, h) /\ TreeInv(ss, h)
    BY <1>5, <1>9, <2>1, SameMemory DEF Memory
  <2>3. ASSUME NEW u \in Nat, u <= ss.version PROVE DatabaseAt(g, u) = DatabaseAt(h, u)
    BY <1>5, <1>9, <2>1, <2>3, DatabaseSame
  <2>4. AtLatest(ss.tree) = NoEntry => upd.eager = DatabaseAt(h, ss.version)
    <3>1. ss.version <= ss.version
      BY <1>5
    <3> QED
      BY <1>5, <1>7, <2>3, <3>1
  <2>5. PICK s : s = AppliedOf(h, to)
    OBVIOUS
  <2>6. Applied(h, batch, upd.eager) = s
    BY <1>5, <1>7, <1>9, <2>2, <2>4, <2>5, AppliedIs
  <2>7. PICK proposed : proposed = ProposedOldestVersion(s, to, upd.lastTLogVersion)
    OBVIOUS
  <2>8. ss' = [s EXCEPT !.recoveryVersionSkips = SkipsAfter(@, proposed),
                        !.tree = CreateNewVersion(@, s.version),
                        !.desiredOldestVersion = proposed]
    BY <1>10, <1>13, <2>6, <2>7
  <2>9. ends[d] <= ends[e]
    BY <1>1, <1>2, <1>7, <1>8, EpochsAgree
  <2>10. /\ s.oldestVersion = ss.oldestVersion /\ s.desiredOldestVersion = ss.desiredOldestVersion
         /\ s.recoveryVersionSkips \in Seq(Int \X Nat)
    <3> DEFINE M == Marks(h, to)
    <3>1. M \subseteq Nat /\ \A w \in M : w <= to
      BY <1>5, <1>7, <1>9, BatchFacts DEF Marks, Data
    <3> HIDE DEF M
    <3>2. NewSkips(M) \in Seq(Int \X Nat)
      BY <1>9, <3>1, NewSkipsType
    <3>3. /\ s.oldestVersion = ss.oldestVersion /\ s.desiredOldestVersion = ss.desiredOldestVersion
          /\ s.recoveryVersionSkips = ss.recoveryVersionSkips \o NewSkips(M)
      BY <1>5, <2>5 DEF AppliedOf, ServerType, M
    <3>4. ss.recoveryVersionSkips \in Seq(Int \X Nat)
      BY <1>5, ServerFacts
    <3> QED
      BY <3>2, <3>3, <3>4
  <2>11. to <= ends[e] + Life
    BY <1>7, <1>9 DEF EpochInv
  <2>12. /\ ss.oldestVersion <= ss.desiredOldestVersion /\ ss.desiredOldestVersion <= ends[e]
         /\ ss.desiredOldestVersion < to
    BY <1>5, <1>7, <1>9, <2>9 DEF Ordered, ModeInv
  <2>13. proposed \in Nat /\ ss.desiredOldestVersion <= proposed /\ proposed <= to /\ proposed <= ends[e]
    <3> DEFINE last == upd.lastTLogVersion
               end == ends[e]
    <3>1. last \in Nat /\ end \in Nat /\ to <= end + Life /\ last <= end + Life
      BY <1>7, <1>9, <2>11
    <3>2. /\ s.oldestVersion \in Nat /\ s.desiredOldestVersion \in Nat
          /\ s.oldestVersion <= s.desiredOldestVersion /\ s.desiredOldestVersion <= end
          /\ s.desiredOldestVersion < to
      BY <1>5, <2>10, <2>12
    <3>3. proposed = ProposedOldestVersion(s, to, last)
      BY <2>7
    <3> HIDE DEF last, end
    <3>4. proposed \in Nat /\ s.desiredOldestVersion <= proposed /\ proposed <= to /\ proposed <= end
      BY <1>9, <2>10, <3>1, <3>2, <3>3, ProposedBound
    <3> QED
      BY <2>10, <3>4 DEF end
  <2>14. /\ ServerType(ss') /\ Memory(ss', h)
         /\ ss'.mode = ss.mode /\ ss'.version = to /\ ss'.oldestVersion = ss.oldestVersion
         /\ ss'.desiredOldestVersion = proposed /\ ss'.restoredVersion = ss.restoredVersion
         /\ ss'.durableVersion = ss.durableVersion /\ ss'.peek = ss.peek
    <3>1. PICK z : z = ss'
      OBVIOUS
    <3>2. z = Published(AppliedOf(h, to), proposed)
      BY <2>5, <2>8, <3>1 DEF Published
    <3>3. /\ ServerType(z) /\ Memory(z, h)
          /\ z.mode = ss.mode /\ z.version = to /\ z.oldestVersion = ss.oldestVersion
          /\ z.desiredOldestVersion = proposed /\ z.restoredVersion = ss.restoredVersion
          /\ z.durableVersion = ss.durableVersion /\ z.peek = ss.peek
      <4>1. h \in Histories /\ ServerType(ss) /\ Memory(ss, h) /\ to \in DOMAIN h /\ to > ss.version
        BY <1>5, <1>7, <1>9, <2>2
      <4>2. proposed \in Nat /\ ss.desiredOldestVersion <= proposed /\ proposed <= to
        BY <2>13
      <4> QED
        BY <3>2, <4>1, <4>2, AppliedMemory
    <3> QED
      BY <3>1, <3>3
  <2>15. ModeInv(ends, e)'
    <3>1. to <= to /\ ss.restoredVersion < ends[e] /\ ss.peek <= log.epoch
      BY <1>5, <1>6, <1>9, <2>9 DEF ModeInv
    <3> QED
      BY <1>6, <1>7, <1>11, <2>11, <2>13, <2>14, <3>1 DEF ModeInv, Serving, Running
  <2>16. EngineInv(Hist(e))'
    <3>1. kv.disk.version <= ss.oldestVersion /\ ss.oldestVersion <= ss.version /\ kv.disk.version <= ss.version
      BY <1>5 DEF EngineInv, Ordered
    <3>2. /\ DatabaseAt(h, kv.disk.version) = DatabaseAt(g, kv.disk.version)
          /\ DatabaseAt(h, ss.oldestVersion) = DatabaseAt(g, ss.oldestVersion)
      BY <1>5, <2>3, <3>1
    <3> QED
      BY <1>5, <1>6, <1>11, <2>14, <3>2 DEF EngineInv
  <2>17. StoringInv'
    <3>1. CASE dur = Idle
      BY <1>6, <3>1 DEF StoringInv, Idle
    <3>2. CASE dur # Idle
      <4>1. /\ dur \in [phase : {"writing", "committing", "durable", "changing"}, new : Nat, desired : Nat]
            /\ dur.new = ss.oldestVersion /\ dur.new <= dur.desired /\ dur.desired <= ss.desiredOldestVersion
        BY <1>5, <3>2 DEF StoringInv
      <4>2. dur.desired <= proposed
        BY <1>5, <2>13, <4>1
      <4> QED
        BY <1>6, <2>14, <4>1, <4>2 DEF StoringInv, Serving
    <3> QED
      BY <3>1, <3>2
  <2>18. UpdateInv(ends, e)'
    BY <1>6 DEF UpdateInv, Idle
  <2>19. SourceInv(ends, e)'
    BY <1>11, <2>14, <2>15, <2>16, <2>17, <2>18 DEF SourceInv
  <2>20. /\ ss.oldestVersion <= ss'.oldestVersion /\ ss.durableVersion <= ss'.durableVersion
         /\ (Serving => Serving')
    BY <1>5, <2>14 DEF Serving
  <2> QED
    BY <1>1, <1>2, <1>5, <1>6, <1>8, <2>14, <2>19, <2>20, LogStutters, ServerStepInv
<1> QED
  BY <1>12, <1>13

-----------------------------------------------------------------------------
(***************************************************************************)
(* The invariant.                                                          *)
(***************************************************************************)

\* Nothing touched the key of a new server.
LEMMA DatabaseInitially ==
    ASSUME NEW h, DOMAIN h = 1..2, \A w \in DOMAIN h : h[w] = "none"
    PROVE  DatabaseAt(h, 1) = <<>>
<1> DEFINE vs == {w \in DOMAIN h : w <= 1}
<1>1. Mutations(h, vs) = {}
  BY DEF Mutations, Touching
<1>2. Blind(h, vs) = {} /\ Since(h, vs) = {}
  BY <1>1 DEF Blind, Since
<1>3. Ascending({}) = <<>>
  <2>1. Cardinality({}) = 0
    BY FS_EmptySet
  <2>2. Ascending({}) \in Seq({}) /\ Len(Ascending({})) = Cardinality({})
    BY AscendingType
  <2> QED
    BY <2>1, <2>2
<1>4. DatabaseAt(h, 1) = <<>> \o Ascending({})
  BY <1>2, ValueAfterIs DEF DatabaseAt
<1> QED
  BY <1>3, <1>4

\* A new server is one that restored the empty database at version 1 of the first epoch.
LEMMA InitInv ==
    ASSUME Init
    PROVE  IInv
<1> DEFINE h == [v \in 1..2 |-> "none"]
           ends == [i \in 1..1 |-> 2]
           s == SetInitialVersion(1)
<1>1. /\ log.epoch = 1 /\ log.hist = <<h>> /\ log.committed = 2 /\ log.popped = 0
      /\ log = [epoch |-> 1, hist |-> <<h>>, committed |-> 2, popped |-> 0]
  BY DEF Init
<1>2. DOMAIN h = 1..2 /\ \A w \in DOMAIN h : h[w] = "none"
  OBVIOUS
<1>3. h \in Histories /\ Dated(h)
  <2>1. 1..2 \subseteq Nat \ {0}
    OBVIOUS
  <2>2. h \in [1..2 -> Op \cup {"end"}]
    BY DEF Op
  <2> HIDE DEF h
  <2>3. h \in Histories
    BY <2>1, <2>2, IsHistory
  <2> QED
    BY <2>3, HistoryFacts
<1> HIDE DEF h
<1>4. Hist(1) = h
  BY <1>1 DEF Hist
<1>5. LogType
  <2>1. <<h>> \in Seq(Histories) /\ Len(<<h>>) = 1
    BY <1>3
  <2> QED
    BY <1>1, <2>1 DEF LogType
<1>6. ends \in [1..log.epoch -> Nat] /\ ends[1] = 2 /\ 1 \in 1..log.epoch
  BY <1>1
<1> HIDE DEF ends
<1>7. LogInv(ends)
  <2>1. EndsInv(ends)
    BY <1>1, <1>6 DEF EndsInv
  <2>2. EpochInv(h, 2)
    BY <1>2, Constants DEF EpochInv
  <2>3. /\ log.committed \in DOMAIN Hist(log.epoch)
        /\ \A w \in DOMAIN Hist(log.epoch) : \A v \in log.committed..w : v \in DOMAIN Hist(log.epoch)
    BY <1>1, <1>2, <1>4
  <2>4. \A e \in 1..log.epoch : EpochInv(Hist(e), ends[e])
    <3>1. \A e \in 1..log.epoch : e = 1
      BY <1>1
    <3> QED
      BY <1>4, <1>6, <2>2, <3>1
  <2> QED
    BY <2>1, <2>3, <2>4 DEF LogInv
<1>8. ServerType(s) /\ Memory(s, h)
  BY <1>3, InitialMemory
<1>9. ss = [s EXCEPT !.mode = "running", !.peek = 1]
  BY DEF Init
<1>10. /\ s.version = 1 /\ s.desiredOldestVersion = 1 /\ s.oldestVersion = 1 /\ s.durableVersion = 1
       /\ s.restoredVersion = 1
  BY DEF SetInitialVersion
<1> HIDE DEF s
<1>11. /\ ss.mode = "running" /\ ss.peek = 1 /\ ss.version = s.version
       /\ ss.desiredOldestVersion = s.desiredOldestVersion /\ ss.oldestVersion = s.oldestVersion
       /\ ss.durableVersion = s.durableVersion /\ ss.restoredVersion = s.restoredVersion
       /\ ss.storageMinRecoverVersion = s.storageMinRecoverVersion
       /\ ss.lastVersionWithData = s.lastVersionWithData /\ ss.tree = s.tree
       /\ ss.mutationLog = s.mutationLog /\ ServerType(ss)
  BY <1>8, <1>9 DEF ServerType
<1>12. Memory(ss, h)
  BY <1>8, <1>11 DEF Memory, Ordered, TreeInv, MutationsInv, LastDataInv
<1>13. ModeInv(ends, 1)
  <2>1. 2 \in DOMAIN Hist(1)
    BY <1>2, <1>4
  <2> QED
    BY <1>1, <1>6, <1>10, <1>11, <2>1, Constants DEF ModeInv, Serving
<1>14. EngineInv(h)
  <2>1. DatabaseAt(h, 1) = <<>>
    BY <1>2, DatabaseInitially
  <2>2. <<>> \in Value
    BY DEF Value
  <2>3. /\ kv = [written |-> [version |-> 1, value |-> <<>>], disk |-> [version |-> 1, value |-> <<>>]]
        /\ dur = Idle
    BY DEF Init
  <2> QED
    BY <1>1, <1>10, <1>11, <2>1, <2>2, <2>3 DEF EngineInv, Version, Idle
<1>15. StoringInv /\ UpdateInv(ends, 1) /\ ReaderInv
  BY DEF Init, StoringInv, UpdateInv, ReaderInv
<1>16. SourceInv(ends, 1)
  BY <1>4, <1>11, <1>12, <1>13, <1>14, <1>15 DEF SourceInv
<1> QED
  BY <1>5, <1>6, <1>7, <1>15, <1>16 DEF IInv

\* Every step of the logs, of the server and of its clients keeps the invariant.
LEMMA StepInv ==
    ASSUME IInv, [Next]_vars
    PROVE  IInv'
<1>1. CASE \E op \in Op : LogPush(op)
  BY <1>1, LogPushInv
<1>2. CASE \E v \in log.committed..Top(log.epoch) : LogRecover(v)
  BY <1>2, LogRecoverInv
<1>3. CASE Progress
  <2>1. CASE LogCommit
    BY <2>1, LogCommitInv
  <2>2. CASE \E eager \in EngineValues, to \in 1..Top(Max({1, ss.peek})) : UpdateBegin(to, eager)
    BY <2>2, UpdateBeginInv
  <2>3. CASE UpdateApply
    BY <2>3, UpdateApplyInv
  <2>4. CASE NewLogSystem
    BY <2>4, NewLogSystemInv
  <2>5. CASE StoreBegin
    BY <2>5, StoreBeginInv
  <2>6. CASE StoreWrite
    BY <2>6, StoreWriteInv
  <2>7. CASE dur # Idle /\ \E new \in {dur.new, dur.desired} : StoreCommit(new)
    BY <2>7, StoreCommitInv
  <2>8. CASE StoreDurable
    BY <2>8, StoreDurableInv
  <2>9. CASE StoreChange
    BY <2>9, StoreChangeInv
  <2>10. CASE Reboot
    BY <2>10, RebootInv
  <2>11. CASE Register
    BY <2>11, RegisterInv
  <2> QED
    BY <1>3, <2>1, <2>2, <2>3, <2>4, <2>5, <2>6, <2>7, <2>8, <2>9, <2>10, <2>11 DEF Progress
<1>4. CASE \E d \in {kv.disk, kv.written} : Crash(d)
  BY <1>4, CrashInv
<1>5. CASE \E v \in 1..log.committed : ReadBegin(v)
  BY <1>5, ReadBeginInv
<1>6. CASE ReadLookup
  BY <1>6, ReadLookupInv
<1>7. CASE ReadRefused
  BY <1>7, ReadRefusedInv
<1>8. CASE \E value \in EngineValues : ReadEngine(value)
  BY <1>8, ReadEngineInv
<1>9. CASE ReadReply
  BY <1>9, ReadReplyInv
<1>10. CASE UNCHANGED vars
  <2>1. UNCHANGED <<log, ss, upd, dur, kv, reader>>
    BY <1>10 DEF vars
  <2>2. ReaderInv'
    <3>1. ReaderInv
      BY DEF IInv
    <3> QED
      BY <2>1, <3>1 DEF ReaderInv, Hist, Serving
  <2> QED
    BY <2>1, <2>2, ReaderStepInv
<1> QED
  BY <1>1, <1>2, <1>3, <1>4, <1>5, <1>6, <1>7, <1>8, <1>9, <1>10 DEF Next

\* In every reachable state the server holds what it applied of the log of one epoch, the
\* engine holds a prefix of it that no recovery discards, and a read that is under way has
\* found nothing that a later step makes wrong.
THEOREM Invariance == Spec => []IInv
<1>1. Init => IInv
  BY InitInv
<1>2. IInv /\ [Next]_vars => IInv'
  BY StepInv
<1> QED
  BY <1>1, <1>2, PTL DEF Spec

-----------------------------------------------------------------------------
(***************************************************************************)
(* What the invariant says to clients, to a restart and to the logs.       *)
(***************************************************************************)

LEMMA InvServer ==
    ASSUME IInv
    PROVE  ServerInv
<1>1. LogType /\ ReaderInv
  BY DEF IInv
<1>2. PICK ends \in [1..log.epoch -> Nat], d \in 1..log.epoch : LogInv(ends) /\ SourceInv(ends, d)
  BY DEF IInv
<1>3. /\ ServerType(ss) /\ ModeInv(ends, d) /\ EngineInv(Hist(d)) /\ StoringInv /\ UpdateInv(ends, d)
      /\ Ordered(ss) /\ ss.peek \in Nat /\ log.epoch \in Nat
  BY <1>1, <1>2, SourceFacts
<1>4. ss.mode \in {"restored", "running", "rebooting"} /\ ss.mode # "assert"
  BY <1>3 DEF ServerType, ModeInv
<1>5. ss.peek \in 0..log.epoch
  <2>1. CASE ss.mode = "restored"
    BY <1>3, <2>1 DEF ModeInv
  <2>2. CASE ss.mode # "restored"
    BY <1>3, <1>4, <2>2 DEF ModeInv, Serving
  <2> QED
    BY <2>1, <2>2
<1>6. upd = Idle \/ upd.phase = "apply"
  BY <1>3 DEF UpdateInv
<1>7. dur.phase \in {"idle", "writing", "committing", "durable", "changing"}
  BY <1>3 DEF StoringInv, Idle
<1>8. reader.phase \in {"idle", "waiting", "engine", "read", "replied"}
  BY <1>1 DEF ReaderInv, Idle
<1>9. kv.disk \in [version : Version, value : Value] /\ kv.written \in [version : Version, value : Value]
  BY <1>3 DEF EngineInv
<1>10. log.epoch = Len(log.hist) /\ log.committed \in DOMAIN Hist(log.epoch)
  BY <1>1, <1>2 DEF LogType, LogInv
<1>11. TypeOK
  BY <1>3, <1>4, <1>5, <1>6, <1>7, <1>8, <1>9, <1>10 DEF TypeOK, Ordered
<1>12. AssertionsHold /\ NeededIsNotPopped
  BY <1>3, <1>4 DEF AssertionsHold, NeededIsNotPopped, EngineInv
<1> QED
  BY <1>11, <1>12 DEF ServerInv

LEMMA InvReads ==
    ASSUME IInv
    PROVE  ReadsPossible
<1> DEFINE h == Hist(log.epoch)
<1>1. SUFFICES ASSUME Serving, NEW v \in Readable, NEW stored \in EngineValues
               PROVE  DatabaseAt(h, v) = IF At(ss.tree, v) = NoEntry THEN stored ELSE At(ss.tree, v).value
  BY DEF ReadsPossible
<1>2. LogType
  BY DEF IInv
<1>3. PICK ends \in [1..log.epoch -> Nat], d \in 1..log.epoch : LogInv(ends) /\ SourceInv(ends, d)
  BY DEF IInv
<1> DEFINE entry == At(ss.tree, v)
           g == Hist(d)
<1>4. /\ ServerType(ss) /\ ModeInv(ends, d) /\ EngineInv(g) /\ Ordered(ss) /\ TreeInv(ss, g) /\ Dated(g)
      /\ ss.oldestVersion \in Nat /\ ss.durableVersion \in Nat
  BY <1>2, <1>3, SourceFacts
<1>5. v \in DOMAIN h /\ ss.oldestVersion <= v /\ v <= ss.version
  BY DEF Readable
<1>6. Dated(h)
  BY <1>2, LastEpoch, EpochHistory
<1>7. v \in Nat /\ SameData(g, h, v)
  BY <1>2, <1>3, <1>4, <1>5, Visible
<1> HIDE DEF h, g
<1>8. entry \in Entry /\ Good(entry, g, ss.durableVersion, v)
  BY <1>4, <1>5, <1>7, AtGood
<1> HIDE DEF entry
<1>9. CASE entry = NoEntry
  <2>1. Quiet(g, ss.durableVersion, v)
    <3>1. NoEntry.insertVersion \notin DOMAIN g
      BY <1>4, NoEntryType DEF Dated
    <3> QED
      BY <1>8, <1>9, <3>1 DEF Good
  <2>2. Quiet(h, ss.durableVersion, v)
    <3>1. ss.durableVersion <= ss.durableVersion
      BY <1>4
    <3> QED
      BY <1>4, <1>6, <1>7, <2>1, <3>1, QuietSame
  <2>3. SameData(g, h, ss.oldestVersion)
    BY <1>4, <1>5, <1>6, <1>7, SameDataLess
  <2>4. stored = DatabaseAt(h, v)
    BY <1>4, <1>5, <1>6, <1>7, <2>2, <2>3, EngineRead
  <2> QED
    BY <1>9, <2>4 DEF entry
<1>10. CASE entry # NoEntry
  <2>1. entry.value = DatabaseAt(g, v)
    BY <1>8, <1>10 DEF Good
  <2>2. DatabaseAt(g, v) = DatabaseAt(h, v)
    <3>1. v <= v
      BY <1>7
    <3> QED
      BY <1>4, <1>6, <1>7, <3>1, DatabaseSame
  <2> QED
    BY <1>10, <2>1, <2>2 DEF entry
<1> QED
  BY <1>9, <1>10

LEMMA InvDisk ==
    ASSUME IInv
    PROVE  DiskIsSnapshot
<1> DEFINE n == log.epoch
<1>1. LogType
  BY DEF IInv
<1>2. PICK ends \in [1..log.epoch -> Nat], d \in 1..log.epoch : LogInv(ends) /\ SourceInv(ends, d)
  BY DEF IInv
<1>3. /\ ModeInv(ends, d) /\ EngineInv(Hist(d)) /\ Ordered(ss) /\ Dated(Hist(d)) /\ ends[d] \in Nat
      /\ ss.desiredOldestVersion \in Nat /\ ss.oldestVersion \in Nat /\ kv.disk.version \in Nat
  BY <1>1, <1>2, SourceFacts
<1>4. n \in 1..n /\ d <= n /\ Dated(Hist(n))
  BY <1>1, LastEpoch, EpochHistory
<1>5. SameData(Hist(d), Hist(n), ends[d])
  BY <1>1, <1>2, <1>4, EpochsAgree
<1>6. kv.disk.version <= ends[d]
  BY <1>3 DEF EngineInv, Ordered, ModeInv
<1>7. DatabaseAt(Hist(d), kv.disk.version) = DatabaseAt(Hist(n), kv.disk.version)
  BY <1>3, <1>4, <1>5, <1>6, DatabaseSame
<1> QED
  BY <1>3, <1>7 DEF EngineInv, DiskIsSnapshot

\* The versions of a server stay in order; a rollback never finds its version handed to the
\* engine and changeDurableVersion never an entry that outlived its mutation (the ASSERTs
\* of applyPrivateData and of changeDurableVersion); and the logs never pop a version that
\* a restart would peek for.
THEOREM ServerSafety == Spec => []ServerInv
BY Invariance, InvServer, PTL

\* At every version that a client may read and the server still serves, the versioned map,
\* or the engine at whichever of its two states getValueQ meets it, gives the value of the
\* database: updateStorage, rollbacks and recoveries never leave a gap between them.
THEOREM ReadsStayPossible == Spec => []ReadsPossible
BY Invariance, InvReads, PTL

\* getValueQ answers with the value at the version it was asked for, although it reads the
\* engine without a lock and updateStorage may forget the version meanwhile.
THEOREM ReadsAreSnapshots == Spec => []ReadIsSnapshot
<1>1. IInv => ReadIsSnapshot
  BY DEF IInv, ReaderInv, ReadIsSnapshot, Idle
<1> QED
  BY <1>1, Invariance, PTL

\* What the engine has committed is the database at the version beside it, in the history
\* that survives every recovery: a restart, after a crash at any step or after a rollback,
\* finds neither half of a version nor one that was rolled back.
THEOREM DiskStaysSnapshot == Spec => []DiskIsSnapshot
BY Invariance, InvDisk, PTL
=============================================================================
