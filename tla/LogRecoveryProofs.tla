------------------------------ MODULE LogRecoveryProofs ------------------------------
(***************************************************************************)
(* Proofs, for any number of logs, recoveries and versions, that replacing *)
(* the transaction logs loses no commit that was answered, gives no read   *)
(* version that misses one, and uses no version twice.                     *)
(***************************************************************************)
EXTENDS LogRecovery, FiniteSetTheorems, SequenceTheorems, WellFoundedInduction, TLAPS

-----------------------------------------------------------------------------
(***************************************************************************)
(* The inductive invariant.                                                *)
(***************************************************************************)

Pending(r) == mgr[r].phase \in {"locking", "recruiting", "transaction"}

\* A log that has answered a lock request: it stays at its version for ever.
Frozen(g, l) == log[g][l].stopped /\ log[g][l].durable = log[g][l].version

\* Generation g has been locked for good: nothing beyond e can be answered any more,
\* and its epoch cannot be confirmed any more.
EndedBy(g, e, Q) ==
    /\ ~ TooManyFailures(Q)
    /\ \A l \in Q : Frozen(g, l)
    /\ Cardinality({l \in Q : log[g][l].version <= e}) > WriteAntiQuorum

Ended(g, e) == \E Q \in SUBSET Log : EndedBy(g, e, Q)

\* All that was or will be answered by g is in the storage servers.
Safe(g) == \E e \in Nat : Ended(g, e) /\ gen[g].at <= e /\ e <= stored

\* What a recovery has done so far.
InvPhase ==
    /\ Accepted(0) /\ gen[0].at = 0 /\ gen[0].count = 0
    /\ \A g \in Gen : Accepted(g) => gen[g].at # None /\ \A l \in Log : log[g][l].state # "none"
    /\ \A g \in Gen : gen[g].at = None =>
          gen[g].known = None /\ \A l \in Log : log[g][l] = NoLog
    /\ \A g \in Gen : gen[g].at # None => 0 <= gen[g].known /\ gen[g].known <= gen[g].at
    /\ \A r \in Recovery :
          /\ mgr[r].phase # "accepting" /\ mgr[r].phase # "dead" => ~ Accepted(r)
          /\ mgr[r].phase = "accepting" => Accepted(r)
          /\ mgr[r].phase = "idle" => gen[r].at = None
          /\ mgr[r].phase = "dead" /\ ~ Accepted(r) => gen[r].at = None
          /\ gen[r].at # None => gen[r].at > 0
          /\ mgr[r].phase = "transaction" => gen[r].at # None /\ gen[r].count = mgr[r].prev.count + 2
          /\ mgr[r].phase = "transaction" => \A l \in Log : log[r][l].state # "none"

\* What proxies sent: nothing beyond the window, and no more than is committed is said to be.
InvSent ==
    /\ \A r \in Recovery : ~ Accepted(r) =>
          sent[r] = IF mgr[r].phase = "transaction" THEN <<gen[r].at>> ELSE <<>>
    /\ \A g \in Gen : Accepted(g) =>
          /\ RecoveryTransactionVersion(g) <= committed[g]
          /\ committed[g] <= LastSent(g)
          /\ LastSent(g) <= committed[g] + Window
          /\ \A i \in DOMAIN sent[g] : gen[g].at <= sent[g][i] /\ sent[g][i] <= committed[g]

\* A version a log of g can be at.
Point(g, v) ==
    /\ v \in Nat
    /\ gen[g].known <= v
    /\ v <= gen[g].at \/ RecoveryTransactionVersion(g) <= v
    /\ v <= LastSent(g)

InvLog ==
    /\ \A g \in Gen, l \in Log : log[g][l].state # "none" =>
          /\ gen[g].at # None
          /\ Point(g, log[g][l].version) /\ Point(g, log[g][l].durable)
          /\ log[g][l].durable <= log[g][l].version
          /\ log[g][l].version < gen[g].at => log[g][l].stopped
    /\ \A g \in Gen, l \in Log : log[g][l].finished => gen[g].at <= stored

\* What was answered is on all logs but the anti-quorum.
InvLogged == \A g \in Gen : Accepted(g) => Logged(g, committed[g])

\* The answers to a recovery's lock requests are final.
InvEnds ==
    \A r \in Recovery, l \in Log :
        Ending(r) /\ mgr[r].ends[l] # None =>
            /\ Frozen(mgr[r].prev.gen, l)
            /\ mgr[r].ends[l] = log[mgr[r].prev.gen][l].version

\* The generations before g: each was replaced by the one after it where it had ended.
Later(g, old, i) == IF i = 1 THEN g ELSE old[i - 1].gen

ChainOK(g, old) ==
    \A i \in DOMAIN old :
        /\ Accepted(old[i].gen)
        /\ gen[Later(g, old, i)].at = old[i].at
        /\ gen[Later(g, old, i)].known + 1 = old[i].end
        /\ gen[old[i].gen].at < old[i].end
        /\ Ended(old[i].gen, old[i].at)
        /\ \A j \in DOMAIN old : i < j => old[j].at <= old[i].at

InvChain ==
    /\ Accepted(cstate.gen) /\ ChainOK(cstate.gen, cstate.old)
    /\ \A r \in Recovery : Pending(r) => Accepted(mgr[r].prev.gen) /\ ChainOK(mgr[r].prev.gen, mgr[r].prev.old)
    /\ \A g \in Gen : gen[g].at # None => ChainOK(g, gen[g].old)
    /\ \A r \in Recovery : Pending(r) /\ gen[r].at # None =>
          gen[r].old = <<[gen |-> mgr[r].prev.gen, end |-> gen[r].known + 1, at |-> gen[r].at]>> \o mgr[r].prev.old

\* A recovery that can still write knows the coordinated state.
InvPlace ==
    \A r \in Recovery :
        /\ mgr[r].place <= writes
        /\ mgr[r].place = writes =>
              /\ mgr[r].phase = "locking" => mgr[r].prev = cstate
              /\ mgr[r].phase \in {"recruiting", "transaction"} =>
                    /\ mgr[r].prev.gen = cstate.gen /\ mgr[r].prev.old = cstate.old
                    /\ cstate.count = mgr[r].prev.count + 1
              /\ mgr[r].phase = "accepting" => cstate.gen = r /\ cstate.count = gen[r].count

\* recoveryCount orders the generations that accepted commits, and the coordinated state
\* names the last one.
InvOrder ==
    /\ gen[cstate.gen].count <= cstate.count
    /\ \A g \in Gen : Accepted(g) => gen[g].count <= gen[cstate.gen].count
    /\ \A g, h \in Gen : Accepted(g) /\ Accepted(h) /\ gen[g].count = gen[h].count => g = h
    /\ \A g \in Gen : Accepted(g) /\ gen[g].old # <<>> =>
          /\ gen[gen[g].old[1].gen].count < gen[g].count
          /\ \A h \in Gen : Accepted(h) => \/ gen[h].count <= gen[gen[g].old[1].gen].count
                                           \/ gen[g].count <= gen[h].count
    /\ \A g \in Gen : Accepted(g) /\ g # cstate.gen =>
          \E e \in Nat : Ended(g, e) /\ gen[g].at <= e /\ e <= gen[cstate.gen].at

\* Whoever has seen up to recoveryCount c and keeps only the generations K can remove
\* the others.
KeepsAll(K, c) == \A h \in Gen : Accepted(h) => h \in K \/ Safe(h) \/ gen[h].count > c

InvKeep ==
    /\ KeepsAll(Chain(cstate), cstate.count)
    /\ \A g \in Gen : Accepted(g) => KeepsAll({g} \cup {gen[g].old[i].gen : i \in DOMAIN gen[g].old}, gen[g].count)
    /\ \A r \in Recovery : info[r].count # None => KeepsAll(info[r].keep, info[r].count)
    /\ \A r \in Recovery : info[r].count <= cstate.count
    /\ \A r \in Recovery : Accepted(r) => info[r].count <= gen[r].count

\* A read version is recent, or enough logs will not confirm it.
InvReader ==
    /\ reader.phase # "idle" => Accepted(reader.gen)
    /\ reader.phase # "idle" /\ reader.version < reader.floor =>
          \E Q \in SUBSET Log : /\ ~ TooManyFailures(Q)
                                /\ Q \cap reader.confirmed = {}
                                /\ \A l \in Q : log[reader.gen][l].stopped
    /\ ReadVersionIsCurrent

IInv == /\ TypeOK
        /\ InvPhase
        /\ InvSent
        /\ InvLog
        /\ InvLogged
        /\ InvEnds
        /\ InvChain
        /\ InvPlace
        /\ InvOrder
        /\ InvKeep
        /\ InvReader

Gone(g) == {l \in Log : log[g][l].state = "gone"}

\* The logs of a generation that are lost, with those that can still be lost, are too few
\* to hold a replica set, even when the anti-quorum counts as lost; or the storage servers
\* have all that was answered, and the logs were removed.
Enough(g) ==
    \/ Accepted(g) /\ Safe(g)
    \/ Cardinality(Gone(g)) + left["kill"] + WriteAntiQuorum < ReplicationFactor

LossInv == \A g \in Gen : Enough(g)

-----------------------------------------------------------------------------
(***************************************************************************)
(* Numbers and sets.                                                       *)
(***************************************************************************)

\* The least number of a set, without an induction hypothesis to instantiate.
LEMMA Least ==
    ASSUME NEW T, T \subseteq Nat, T # {}
    PROVE  \E n \in T : \A m \in T : n <= m
<1> DEFINE R == OpToRel(<, Nat)
<1>1. IsWellFoundedOn(R, Nat)
  BY NatLessThanWellFounded
<1>2. \A m, n \in Nat : m < n => <<m, n>> \in R
  BY DEF OpToRel
<1> HIDE DEF R
<1>3. PICK n \in T : \A m \in T : ~ (<<m, n>> \in R)
  BY <1>1, WFMin
<1>4. ASSUME NEW m \in T PROVE n <= m
  <2>1. m \in Nat /\ n \in Nat /\ ~ (<<m, n>> \in R)
    BY <1>3
  <2>2. ~ (m < n)
    BY <1>2, <2>1
  <2> QED
    BY <2>1, <2>2
<1> QED
  BY <1>4

LEMMA MinIsLeast ==
    ASSUME NEW S, S \subseteq Nat, S # {}
    PROVE  Min(S) \in S /\ \A y \in S : Min(S) <= y
<1>1. \E x \in S : \A y \in S : x =< y
  BY Least
<1> QED
  BY <1>1, Zenon DEF Min

LEMMA MinOfTwo ==
    ASSUME NEW a \in Nat, NEW b \in Nat
    PROVE  /\ Min({a, b}) \in Nat /\ Min({a, b}) <= a /\ Min({a, b}) <= b
           /\ Min({a, b}) = a \/ Min({a, b}) = b
<1>1. Min({a, b}) \in {a, b} /\ \A y \in {a, b} : Min({a, b}) <= y
  BY MinIsLeast
<1> QED
  BY <1>1

\* A bounded set that contains a number has a greatest one.
LEMMA MaxIsGreatest ==
    ASSUME NEW S, S \subseteq Int, NEW b \in Nat, \A y \in S : y <= b, 0 \in S
    PROVE  Max(S) \in S /\ Max(S) \in Nat /\ \A y \in S : y <= Max(S)
<1> DEFINE T == {n \in Nat : \A y \in S : y <= n}
<1>1. T \subseteq Nat /\ T # {}
  OBVIOUS
<1>2. PICK n \in T : \A m \in T : n <= m
  <2> HIDE DEF T
  <2> QED
    BY <1>1, Least
<1>3. n \in S
  <2>1. CASE n = 0
    BY <2>1
  <2>2. CASE n # 0
    <3>1. n - 1 \in Nat /\ n - 1 \notin T
      BY <1>2, <2>2
    <3>2. PICK y \in S : ~ (y <= n - 1)
      BY <3>1
    <3>3. y <= n /\ y \in Int
      BY <1>2
    <3> QED
      BY <1>2, <3>2, <3>3
  <2> QED
    BY <2>1, <2>2
<1>4. \E x \in S : \A y \in S : x >= y
  BY <1>2, <1>3
<1>5. Max(S) \in S /\ \A y \in S : Max(S) >= y
  BY <1>4, Zenon DEF Max
<1>6. Max(S) \in Int /\ Max(S) >= 0
  BY <1>5
<1>7. \A y \in S : y \in Int /\ Max(S) >= y
  BY <1>5
<1> HIDE DEF T
<1> QED
  BY <1>5, <1>6, <1>7

\* Subsets of the logs, and how they meet.
LEMMA LogSets ==
    /\ N \in Nat /\ WriteAntiQuorum \in Nat /\ ReplicationFactor \in Nat
    /\ WriteAntiQuorum < ReplicationFactor /\ ReplicationFactor <= N
    /\ \A S \in SUBSET Log : IsFiniteSet(S) /\ Cardinality(S) \in Nat /\ Cardinality(S) <= N
    /\ \A S, T \in SUBSET Log : S \subseteq T => Cardinality(S) <= Cardinality(T)
    /\ \A S \in SUBSET Log : Cardinality(Log \ S) = N - Cardinality(S)
<1>1. IsFiniteSet(Log) /\ N \in Nat
  BY SizesAssumption, FS_CardinalityType DEF N
<1>2. WriteAntiQuorum \in Nat /\ ReplicationFactor \in Nat /\ WriteAntiQuorum < ReplicationFactor /\ ReplicationFactor <= N
  BY <1>1, SizesAssumption DEF N
<1>3. ASSUME NEW S \in SUBSET Log
      PROVE  IsFiniteSet(S) /\ Cardinality(S) \in Nat /\ Cardinality(S) <= N
  BY <1>1, FS_Subset, FS_CardinalityType DEF N
<1>4. ASSUME NEW S \in SUBSET Log, NEW T \in SUBSET Log, S \subseteq T
      PROVE  Cardinality(S) <= Cardinality(T)
  BY <1>3, <1>4, FS_Subset
<1>5. ASSUME NEW S \in SUBSET Log
      PROVE  Cardinality(Log \ S) = N - Cardinality(S)
  <2>1. Log \cap S = S
    OBVIOUS
  <2> QED
    BY <1>1, <2>1, FS_Difference DEF N
<1> QED
  BY <1>1, <1>2, <1>3, <1>4, <1>5

LEMMA SetsMeet ==
    ASSUME NEW S \in SUBSET Log, NEW T \in SUBSET Log, Cardinality(S) + Cardinality(T) > N
    PROVE  \E l \in S : l \in T
<1>1. S \cap T # {}
  BY SizesAssumption, FS_MajoritiesIntersect DEF N
<1> QED
  BY <1>1

\* The union of two sets is no larger than both together.
LEMMA UnionBound ==
    ASSUME NEW S \in SUBSET Log, NEW T \in SUBSET Log
    PROVE  Cardinality(S \cup T) <= Cardinality(S) + Cardinality(T)
<1>1. IsFiniteSet(S) /\ IsFiniteSet(T) /\ Cardinality(S) \in Nat /\ Cardinality(T) \in Nat
  BY LogSets
<1>2. Cardinality(S \cap T) \in Nat
  BY LogSets
<1>3. Cardinality(S \cup T) = Cardinality(S) + Cardinality(T) - Cardinality(S \cap T)
  BY <1>1, FS_Union
<1> QED
  BY <1>1, <1>2, <1>3

\* What may have failed so that the epoch can still be ended.
LEMMA EnoughAnswers ==
    ASSUME NEW Q \in SUBSET Log, ~ TooManyFailures(Q)
    PROVE  Cardinality(Q) > WriteAntiQuorum /\ Cardinality(Q) + ReplicationFactor > N + WriteAntiQuorum
<1>1. Cardinality(Q) \in Nat /\ N \in Nat /\ WriteAntiQuorum \in Nat /\ ReplicationFactor \in Nat
  BY LogSets
<1> QED
  BY <1>1 DEF TooManyFailures

\* getDurableVersion's element of the sorted answers exists.
LEMMA KthIs ==
    ASSUME NEW ends, NEW results \in SUBSET Log, NEW k \in Nat, k < Cardinality(results),
           \A l \in results : ends[l] \in Nat, NEW b \in Nat, \A l \in results : ends[l] <= b
    PROVE  /\ \E l \in results : Kth(ends, results, k) = ends[l]
           /\ Kth(ends, results, k) \in Nat
           /\ Cardinality({l \in results : ends[l] < Kth(ends, results, k)}) <= k
           /\ Cardinality({l \in results : ends[l] <= Kth(ends, results, k)}) > k
<1> DEFINE Upto(n) == {l \in results : ends[l] <= n}
           Below(n) == {l \in results : ends[l] < n}
           T == {n \in Nat : Cardinality(Upto(n)) > k}
<1>0. \A n : Upto(n) \in SUBSET Log /\ Below(n) \in SUBSET Log
  OBVIOUS
<1>a. \A n : Cardinality(Upto(n)) \in Nat /\ Cardinality(Below(n)) \in Nat
  BY <1>0, LogSets
<1>1. T \subseteq Nat /\ T # {}
  <2>1. Upto(b) = results
    OBVIOUS
  <2>2. b \in T
    BY <2>1
  <2> QED
    BY <2>2
<1>2. PICK n \in T : \A m \in T : n <= m
  <2> HIDE DEF T
  <2> QED
    BY <1>1, Least
<1>3. n \in Nat /\ Cardinality(Upto(n)) > k
  BY <1>2
<1>4. Cardinality(Below(n)) <= k
  <2>1. CASE n = 0
    <3>1. Below(n) = {}
      BY <2>1
    <3> QED
      BY <3>1, FS_EmptySet
  <2>2. CASE n # 0
    <3>1. n - 1 \in Nat /\ n - 1 \notin T
      BY <1>2, <1>3, <2>2
    <3>2. Cardinality(Upto(n - 1)) <= k
      <4>1. Cardinality(Upto(n - 1)) \in Nat
        BY <1>a
      <4>2. ~ (Cardinality(Upto(n - 1)) > k)
        BY <3>1
      <4> HIDE DEF Upto
      <4> QED
        BY <4>1, <4>2
    <3>3. Below(n) = Upto(n - 1)
      BY <1>3, <2>2
    <3> QED
      BY <3>2, <3>3
  <2> QED
    BY <2>1, <2>2
<1>5. PICK l \in results : ends[l] = n
  <2>1. Upto(n) # Below(n)
    <3>1. Cardinality(Upto(n)) \in Nat /\ Cardinality(Below(n)) \in Nat
      BY <1>a
    <3> HIDE DEF Upto, Below
    <3> QED
      BY <1>3, <1>4, <3>1
  <2>2. PICK l \in results : ends[l] <= n /\ ~ (ends[l] < n)
    BY <2>1
  <2> QED
    BY <1>3, <2>2
<1>6. \E v \in {ends[x] : x \in results} :
         /\ Cardinality({x \in results : ends[x] < v}) <= k
         /\ Cardinality({x \in results : ends[x] <= v}) > k
  BY <1>3, <1>4, <1>5
<1>7. /\ Kth(ends, results, k) \in {ends[x] : x \in results}
      /\ Cardinality({x \in results : ends[x] < Kth(ends, results, k)}) <= k
      /\ Cardinality({x \in results : ends[x] <= Kth(ends, results, k)}) > k
  BY <1>6, Zenon DEF Kth
<1> QED
  BY <1>7

-----------------------------------------------------------------------------
(***************************************************************************)
(* Types, and the versions of a generation.                                *)
(***************************************************************************)

OldEntry == [gen : Gen, end : Nat, at : Nat]

LogRecord == [state : {"none", "up", "down", "gone"}, version : Nat \cup {None},
              durable : Nat \cup {None}, stopped : BOOLEAN, finished : BOOLEAN]

GenRecord == [at : Nat \cup {None}, known : Nat \cup {None}, count : Nat, old : Seq(OldEntry)]

MgrRecord == [phase : {"idle", "locking", "recruiting", "transaction", "accepting", "dead"},
              prev : CoreStates, place : Nat, ends : [Log -> Nat \cup {None}]]

LEMMA Constants ==
    /\ Attempts \in Nat /\ Window \in Nat /\ MAX_VERSIONS_IN_FLIGHT \in Nat /\ MAX_VERSIONS_IN_FLIGHT > Window
    /\ Recovery \subseteq Gen /\ 0 \in Gen /\ \A g \in Gen : g = 0 \/ g \in Recovery
    /\ 0 \notin Recovery /\ None \in Int /\ None < 0 /\ None \notin Nat
  BY BudgetsAssumption, FlightAssumption DEF Recovery, Gen, None

LEMMA Typed ==
    ASSUME TypeOK
    PROVE  /\ cstate \in CoreStates /\ writes \in Nat /\ stored \in Nat
           /\ cstate.gen \in Gen /\ cstate.count \in Nat /\ cstate.old \in Seq(OldEntry)
           /\ \A g \in Gen :
                 /\ gen[g] \in GenRecord /\ gen[g].at \in Nat \cup {None} /\ gen[g].known \in Nat \cup {None}
                 /\ gen[g].count \in Nat /\ gen[g].old \in Seq(OldEntry)
                 /\ sent[g] \in Seq(Nat) /\ committed[g] \in Nat \cup {None}
                 /\ \A l \in Log : /\ log[g][l] \in LogRecord
                                   /\ log[g][l].version \in Nat \cup {None} /\ log[g][l].durable \in Nat \cup {None}
                                   /\ log[g][l].stopped \in BOOLEAN /\ log[g][l].finished \in BOOLEAN
           /\ \A r \in Recovery :
                 /\ mgr[r] \in MgrRecord /\ mgr[r].place \in Nat /\ mgr[r].prev \in CoreStates
                 /\ mgr[r].prev.gen \in Gen /\ mgr[r].prev.count \in Nat /\ mgr[r].prev.old \in Seq(OldEntry)
                 /\ mgr[r].ends \in [Log -> Nat \cup {None}]
                 /\ info[r].count \in Nat \cup {None} /\ info[r].keep \in SUBSET Gen
<1>1. cstate \in CoreStates /\ writes \in Nat /\ stored \in Nat
      /\ cstate.gen \in Gen /\ cstate.count \in Nat /\ cstate.old \in Seq(OldEntry)
  BY DEF TypeOK, CoreStates, OldEntry
<1>2. ASSUME NEW g \in Gen
      PROVE  /\ gen[g] \in GenRecord /\ sent[g] \in Seq(Nat) /\ committed[g] \in Nat \cup {None}
  BY DEF TypeOK, GenRecord, OldEntry
<1>3. ASSUME NEW g \in Gen, NEW l \in Log
      PROVE  log[g][l] \in LogRecord
  BY DEF TypeOK, LogRecord
<1>4. ASSUME NEW r \in Recovery
      PROVE  /\ mgr[r] \in MgrRecord
             /\ info[r].count \in Nat \cup {None} /\ info[r].keep \in SUBSET Gen
  BY DEF TypeOK, MgrRecord
<1>5. ASSUME NEW q \in GenRecord
      PROVE  /\ q.at \in Nat \cup {None} /\ q.known \in Nat \cup {None}
             /\ q.count \in Nat /\ q.old \in Seq(OldEntry)
  BY DEF GenRecord
<1>6. ASSUME NEW q \in LogRecord
      PROVE  /\ q.version \in Nat \cup {None} /\ q.durable \in Nat \cup {None}
             /\ q.stopped \in BOOLEAN /\ q.finished \in BOOLEAN
  BY DEF LogRecord
<1>7. ASSUME NEW q \in MgrRecord
      PROVE  /\ q.place \in Nat /\ q.prev \in CoreStates /\ q.ends \in [Log -> Nat \cup {None}]
             /\ q.prev.gen \in Gen /\ q.prev.count \in Nat /\ q.prev.old \in Seq(OldEntry)
  BY DEF MgrRecord, CoreStates, OldEntry
<1> QED
  BY <1>1, <1>2, <1>3, <1>4, <1>5, <1>6, <1>7

LEMMA VersionsOf ==
    ASSUME TypeOK, NEW g \in Gen, gen[g].at # None
    PROVE  /\ gen[g].at \in Nat /\ RecoveryTransactionVersion(g) \in Nat
           /\ RecoveryTransactionVersion(g) > gen[g].at
           /\ Len(sent[g]) \in Nat /\ DOMAIN sent[g] = 1 .. Len(sent[g])
           /\ LastSent(g) = RecoveryTransactionVersion(g) + Len(sent[g]) - 1
           /\ LastSent(g) \in Nat /\ gen[g].at <= LastSent(g)
<1>1. gen[g].at \in Nat /\ sent[g] \in Seq(Nat)
  BY Typed
<1>2. RecoveryTransactionVersion(g) \in Nat /\ RecoveryTransactionVersion(g) > gen[g].at
  BY <1>1, Constants DEF RecoveryTransactionVersion
<1>3. Len(sent[g]) \in Nat /\ DOMAIN sent[g] = 1 .. Len(sent[g])
  BY <1>1
<1> QED
  BY <1>1, <1>2, <1>3 DEF LastSent

LEMMA CommittedTyped ==
    ASSUME TypeOK, InvPhase, NEW g \in Gen, Accepted(g)
    PROVE  /\ committed[g] \in Nat /\ gen[g].at # None /\ gen[g].at \in Nat /\ gen[g].known \in Nat
           /\ gen[g].known <= gen[g].at
<1>1. committed[g] \in Nat \cup {None} /\ gen[g].known \in Nat \cup {None} /\ gen[g].at \in Nat \cup {None}
  BY Typed
<1>2. committed[g] # None /\ gen[g].at # None
  BY DEF InvPhase, Accepted
<1>3. 0 <= gen[g].known /\ gen[g].known <= gen[g].at
  BY <1>2 DEF InvPhase
<1> QED
  BY <1>1, <1>2, <1>3, Constants

\* What a log tells about commits is true.
LEMMA KnownIs ==
    ASSUME TypeOK, InvPhase, InvSent, NEW g \in Gen, Accepted(g), NEW v, Point(g, v)
    PROVE  /\ KnownCommitted(g, v) \in Nat /\ KnownCommitted(g, v) <= committed[g]
           /\ v >= gen[g].at => KnownCommitted(g, v) >= gen[g].at
<1>1. /\ committed[g] \in Nat /\ gen[g].at # None /\ gen[g].at \in Nat /\ gen[g].known \in Nat
      /\ gen[g].known <= gen[g].at
  BY CommittedTyped
<1>2. /\ RecoveryTransactionVersion(g) \in Nat
      /\ RecoveryTransactionVersion(g) > gen[g].at
      /\ Len(sent[g]) \in Nat /\ DOMAIN sent[g] = 1 .. Len(sent[g])
      /\ LastSent(g) = RecoveryTransactionVersion(g) + Len(sent[g]) - 1
  BY <1>1, VersionsOf
<1>3. RecoveryTransactionVersion(g) <= committed[g]
  BY DEF InvSent
<1>4. v \in Nat /\ v <= LastSent(g) /\ (v <= gen[g].at \/ RecoveryTransactionVersion(g) <= v)
  BY DEF Point
<1>5. CASE v <= gen[g].at
  BY <1>1, <1>2, <1>3, <1>4, <1>5 DEF KnownCommitted
<1>6. CASE v > gen[g].at
  <2>1. PICK i : i = v - RecoveryTransactionVersion(g) + 1
    OBVIOUS
  <2>2. i \in DOMAIN sent[g]
    BY <1>1, <1>2, <1>4, <1>6, <2>1
  <2>3. sent[g][i] \in Nat /\ gen[g].at <= sent[g][i] /\ sent[g][i] <= committed[g]
    BY <1>2, <2>2, Typed DEF InvSent
  <2>4. KnownCommitted(g, v) = sent[g][i]
    BY <1>1, <1>4, <1>6, <2>1 DEF KnownCommitted
  <2> QED
    BY <2>3, <2>4
<1> QED
  BY <1>1, <1>4, <1>5, <1>6

\* Nothing is answered beyond the end of a generation.
LEMMA CommittedEnded ==
    ASSUME TypeOK, InvPhase, InvLogged, NEW g \in Gen, Accepted(g), NEW e \in Nat, Ended(g, e)
    PROVE  committed[g] <= e
<1>1. PICK Q \in SUBSET Log : EndedBy(g, e, Q)
  BY DEF Ended
<1> DEFINE S == {l \in Q : log[g][l].version <= e}
           T == {l \in Log : log[g][l].durable >= committed[g]}
<1>2. S \in SUBSET Log /\ T \in SUBSET Log
  OBVIOUS
<1>3. Cardinality(S) > WriteAntiQuorum
  BY <1>1 DEF EndedBy
<1>4. Cardinality(T) >= N - WriteAntiQuorum
  BY DEF InvLogged, Logged
<1>5. Cardinality(S) + Cardinality(T) > N
  <2>1. Cardinality(S) \in Nat /\ Cardinality(T) \in Nat /\ N \in Nat /\ WriteAntiQuorum \in Nat
    BY <1>2, LogSets
  <2> HIDE DEF S, T
  <2> QED
    BY <1>3, <1>4, <2>1
<1>6. PICK l \in S : l \in T
  <2> HIDE DEF S, T
  <2> QED
    BY <1>2, <1>5, SetsMeet
<1>7. log[g][l].version <= e /\ log[g][l].durable >= committed[g] /\ log[g][l].durable = log[g][l].version
  BY <1>1, <1>6 DEF EndedBy, Frozen
<1>8. log[g][l].durable \in Int /\ committed[g] \in Nat
  BY <1>6, CommittedTyped, Typed, Constants
<1> QED
  BY <1>7, <1>8

-----------------------------------------------------------------------------
(***************************************************************************)
(* What one step does to a log.                                            *)
(***************************************************************************)

SameButLog == UNCHANGED <<cstate, writes, mgr, gen, sent, committed, info, stored, reader>>

\* A log goes on, stops, dies or comes back with what it had.
MayBecome(g, l, q) ==
    /\ log[g][l].state # "none" /\ q.state # "none"
    /\ q.durable >= log[g][l].durable
    /\ log[g][l].stopped => q.stopped
    /\ Frozen(g, l) => q.stopped /\ q.durable = q.version /\ q.version = log[g][l].version
    /\ Point(g, q.version) /\ Point(g, q.durable) /\ q.durable <= q.version
    /\ q.version < gen[g].at => q.stopped
    /\ q.finished => log[g][l].finished \/ gen[g].at <= stored

LogChange(g, l) ==
    /\ \E q \in LogRecord : log' = [log EXCEPT ![g][l] = q] /\ MayBecome(g, l, q)
    /\ SameButLog
    /\ left' \in [Bounded -> Nat]

LEMMA Spending ==
    ASSUME TypeOK, NEW k \in Bounded, Spend(k)
    PROVE  left' \in [Bounded -> Nat]
<1>1. left \in [Bounded -> Nat] /\ left[k] > 0 /\ left' = [left EXCEPT ![k] = left[k] - 1]
  BY DEF TypeOK, Spend
<1>2. left[k] - 1 \in Nat
  BY <1>1
<1> QED
  BY <1>1, <1>2

LEMMA LogFacts ==
    ASSUME IInv, NEW g \in Gen, NEW l \in Log, log[g][l].state # "none"
    PROVE  /\ log[g][l] \in LogRecord /\ log[g][l].version \in Nat /\ log[g][l].durable \in Nat
           /\ gen[g].at # None /\ gen[g].at \in Nat /\ gen[g].known \in Nat
           /\ Point(g, log[g][l].version) /\ Point(g, log[g][l].durable)
           /\ log[g][l].durable <= log[g][l].version
           /\ log[g][l].version < gen[g].at => log[g][l].stopped
           /\ log[g][l].stopped \in BOOLEAN /\ log[g][l].finished \in BOOLEAN
<1>1. TypeOK /\ InvLog /\ InvPhase
  BY DEF IInv
<1>2. /\ gen[g].at # None
      /\ Point(g, log[g][l].version) /\ Point(g, log[g][l].durable)
      /\ log[g][l].durable <= log[g][l].version
      /\ log[g][l].version < gen[g].at => log[g][l].stopped
  BY <1>1 DEF InvLog
<1>3. log[g][l].version \in Nat /\ log[g][l].durable \in Nat
  BY <1>2 DEF Point
<1>4. gen[g].at \in Nat /\ gen[g].known \in Nat
  <2>1. 0 <= gen[g].known /\ gen[g].known \in Nat \cup {None} /\ gen[g].at \in Nat \cup {None}
    BY <1>1, <1>2, Typed DEF InvPhase
  <2> QED
    BY <1>2, <2>1, Constants
<1> QED
  BY <1>1, <1>2, <1>3, <1>4, Typed

LEMMA CommitChanges ==
    ASSUME IInv, NEW g \in Gen, NEW l \in Log, TLogCommit(g, l)
    PROVE  LogChange(g, l)
<1> DEFINE q == log[g][l]
           v == NextVersion(g, q.version)
           p == [q EXCEPT !.version = v]
<1>1. q.state # "none" /\ ~ q.stopped /\ v <= LastSent(g) /\ log' = [log EXCEPT ![g][l].version = v]
      /\ SameButLog /\ left' = left
  BY DEF TLogCommit, SameButLog
<1>2. /\ q \in LogRecord /\ q.version \in Nat /\ q.durable \in Nat
      /\ gen[g].at # None /\ gen[g].at \in Nat /\ gen[g].known \in Nat
      /\ Point(g, q.version) /\ Point(g, q.durable) /\ q.durable <= q.version
      /\ gen[g].at <= q.version
  BY <1>1, LogFacts
<1>3. RecoveryTransactionVersion(g) \in Nat /\ RecoveryTransactionVersion(g) > gen[g].at
  BY <1>2, VersionsOf DEF IInv
<1>4. v \in Nat /\ v > q.version /\ RecoveryTransactionVersion(g) <= v
  BY <1>2, <1>3 DEF NextVersion, Point
<1>5. Point(g, v)
  BY <1>1, <1>2, <1>4 DEF Point
<1>6. log' = [log EXCEPT ![g][l] = p]
  BY <1>1
<1>7. MayBecome(g, l, p) /\ p \in LogRecord
  <2>1. /\ p \in LogRecord /\ p.version = v /\ p.state = q.state /\ p.durable = q.durable
        /\ p.stopped = q.stopped /\ p.finished = q.finished
    <3> HIDE DEF q, v
    <3> QED
      BY <1>2, <1>4 DEF LogRecord
  <2> HIDE DEF p, v
  <2> QED
    BY <1>1, <1>2, <1>4, <1>5, <2>1 DEF MayBecome, Frozen
<1> HIDE DEF p
<1> QED
  BY <1>1, <1>6, <1>7 DEF LogChange, IInv, TypeOK

LEMMA QueueChanges ==
    ASSUME IInv, NEW g \in Gen, NEW l \in Log, QueueCommit(g, l)
    PROVE  LogChange(g, l)
<1> DEFINE q == log[g][l]
           p == [q EXCEPT !.durable = q.version]
<1>1. q.state # "none" /\ log' = [log EXCEPT ![g][l].durable = q.version] /\ SameButLog /\ left' = left
  BY DEF QueueCommit, SameButLog
<1>2. /\ q \in LogRecord /\ q.version \in Nat /\ q.durable \in Nat
      /\ Point(g, q.version) /\ Point(g, q.durable) /\ q.durable <= q.version
      /\ q.version < gen[g].at => q.stopped
  BY <1>1, LogFacts
<1>3. log' = [log EXCEPT ![g][l] = p]
  BY <1>1
<1>4. MayBecome(g, l, p) /\ p \in LogRecord
  <2>1. /\ p \in LogRecord /\ p.version = q.version /\ p.state = q.state /\ p.durable = q.version
        /\ p.stopped = q.stopped /\ p.finished = q.finished
    <3> HIDE DEF q
    <3> QED
      BY <1>2 DEF LogRecord
  <2> HIDE DEF p
  <2> QED
    BY <1>1, <1>2, <2>1 DEF MayBecome, Frozen
<1> HIDE DEF p
<1> QED
  BY <1>1, <1>3, <1>4 DEF LogChange, IInv, TypeOK

\* A log is stopped, removed or lost.
LEMMA StateChanges ==
    ASSUME IInv, NEW g \in Gen, NEW l \in Log, log[g][l].state # "none",
           \/ log' = [log EXCEPT ![g][l].stopped = TRUE]
           \/ \E s \in {"up", "down", "gone"} : log' = [log EXCEPT ![g][l].state = s],
           SameButLog, left' \in [Bounded -> Nat]
    PROVE  LogChange(g, l)
<1> DEFINE q == log[g][l]
<1>1. /\ q \in LogRecord /\ q.version \in Nat /\ q.durable \in Nat
      /\ Point(g, q.version) /\ Point(g, q.durable) /\ q.durable <= q.version
      /\ q.version < gen[g].at => q.stopped
  BY LogFacts
<1>2. CASE log' = [log EXCEPT ![g][l].stopped = TRUE]
  <2> DEFINE p == [q EXCEPT !.stopped = TRUE]
  <2>1. log' = [log EXCEPT ![g][l] = p]
    BY <1>2
  <2>2. /\ p \in LogRecord /\ p.version = q.version /\ p.state = q.state /\ p.durable = q.durable
        /\ p.stopped /\ p.finished = q.finished
    <3> HIDE DEF q
    <3> QED
      BY <1>1 DEF LogRecord
  <2> HIDE DEF p
  <2>3. MayBecome(g, l, p)
    BY <1>1, <2>2 DEF MayBecome, Frozen
  <2> QED
    BY <2>1, <2>2, <2>3 DEF LogChange
<1>3. ASSUME NEW s \in {"up", "down", "gone"}, log' = [log EXCEPT ![g][l].state = s]
      PROVE  LogChange(g, l)
  <2> DEFINE p == [q EXCEPT !.state = s]
  <2>1. log' = [log EXCEPT ![g][l] = p]
    BY <1>3
  <2>2. /\ p \in LogRecord /\ p.version = q.version /\ p.state = s /\ p.durable = q.durable
        /\ p.stopped = q.stopped /\ p.finished = q.finished
    <3> HIDE DEF q
    <3> QED
      BY <1>1 DEF LogRecord
  <2> HIDE DEF p
  <2>3. MayBecome(g, l, p)
    BY <1>1, <2>2 DEF MayBecome, Frozen
  <2> QED
    BY <2>1, <2>2, <2>3 DEF LogChange
<1> QED
  BY <1>2, <1>3

LEMMA FinishChanges ==
    ASSUME IInv, NEW g \in Gen, NEW l \in Log, RecoveryFinished(g, l)
    PROVE  LogChange(g, l)
<1> DEFINE q == log[g][l]
           p == [q EXCEPT !.finished = TRUE]
<1>1. q.state # "none" /\ log' = [log EXCEPT ![g][l].finished = TRUE] /\ SameButLog /\ left' = left
      /\ stored + 1 > gen[g].at
  BY DEF RecoveryFinished, SameButLog
<1>2. /\ q \in LogRecord /\ q.version \in Nat /\ q.durable \in Nat
      /\ Point(g, q.version) /\ Point(g, q.durable) /\ q.durable <= q.version
      /\ q.version < gen[g].at => q.stopped
      /\ gen[g].at \in Nat
  BY <1>1, LogFacts
<1>3. log' = [log EXCEPT ![g][l] = p]
  BY <1>1
<1>4. /\ p \in LogRecord /\ p.version = q.version /\ p.state = q.state /\ p.durable = q.durable
      /\ p.stopped = q.stopped /\ p.finished
  <2> HIDE DEF q
  <2> QED
    BY <1>2 DEF LogRecord
<1>5. gen[g].at <= stored
  BY <1>1, <1>2, Typed DEF IInv
<1> HIDE DEF p
<1>6. MayBecome(g, l, p)
  BY <1>1, <1>2, <1>4, <1>5 DEF MayBecome, Frozen
<1> QED
  BY <1>1, <1>3, <1>4, <1>6 DEF LogChange, IInv, TypeOK

LEMMA RestartChanges ==
    ASSUME IInv, NEW g \in Gen, NEW l \in Log, Restart(g, l)
    PROVE  LogChange(g, l)
<1> DEFINE q == log[g][l]
<1>1. q.state = "down" /\ SameButLog /\ left' = left
  BY DEF Restart, SameButLog
<1>2. PICK v \in {q.durable} \cup {u \in q.durable .. q.version : Covers(g, q.version, u)} :
         log' = [log EXCEPT ![g][l] = [q EXCEPT !.state = "up", !.version = v, !.durable = v, !.stopped = TRUE]]
  BY DEF Restart
<1>3. /\ q \in LogRecord /\ q.version \in Nat /\ q.durable \in Nat
      /\ Point(g, q.version) /\ Point(g, q.durable) /\ q.durable <= q.version
      /\ gen[g].at \in Nat /\ gen[g].known \in Nat /\ gen[g].at # None
  BY <1>1, LogFacts
<1>4. RecoveryTransactionVersion(g) \in Nat /\ LastSent(g) \in Nat
  BY <1>3, VersionsOf DEF IInv
<1>5. v \in Nat /\ q.durable <= v /\ v <= q.version /\ Point(g, v)
  <2>1. CASE v = q.durable
    BY <1>3, <2>1
  <2>2. CASE v # q.durable
    <3>1. v \in q.durable .. q.version /\ Covers(g, q.version, v)
      BY <2>2
    <3>2. v \in Nat /\ q.durable <= v /\ v <= q.version
      BY <1>3, <3>1
    <3> QED
      BY <1>3, <1>4, <3>1, <3>2 DEF Covers, Point
  <2> QED
    BY <2>1, <2>2
<1> DEFINE p == [q EXCEPT !.state = "up", !.version = v, !.durable = v, !.stopped = TRUE]
<1>6. /\ p \in LogRecord /\ p.state = "up" /\ p.version = v /\ p.durable = v
      /\ p.stopped /\ p.finished = q.finished
  <2> HIDE DEF q
  <2> QED
    BY <1>3, <1>5 DEF LogRecord
<1>7. log' = [log EXCEPT ![g][l] = p]
  BY <1>2
<1> HIDE DEF p
<1>8. MayBecome(g, l, p)
  BY <1>1, <1>3, <1>5, <1>6 DEF MayBecome, Frozen
<1> QED
  BY <1>1, <1>6, <1>7, <1>8 DEF LogChange, IInv, TypeOK

LEMMA LogSteps ==
    ASSUME IInv, NEW g \in Gen, NEW l \in Log,
           \/ TLogCommit(g, l) \/ QueueCommit(g, l) \/ RecoveryFinished(g, l)
           \/ Crash(g, l) \/ Restart(g, l) \/ Kill(g, l)
           \/ \E r \in Recovery : SeeInfo(r, g, l)
           \/ \E r \in Recovery : TLogStop(r, l) /\ g = mgr[r].prev.gen
    PROVE  LogChange(g, l)
<1>0. TypeOK
  BY DEF IInv
<1>1. CASE Crash(g, l)
  <2>1. /\ log[g][l].state # "none" /\ log' = [log EXCEPT ![g][l].state = "down"] /\ SameButLog
        /\ left' \in [Bounded -> Nat]
    BY <1>0, <1>1, Spending DEF Crash, SameButLog, Bounded
  <2> QED
    BY <2>1, StateChanges
<1>2. CASE Kill(g, l)
  <2>1. /\ log[g][l].state # "none" /\ log' = [log EXCEPT ![g][l].state = "gone"] /\ SameButLog
        /\ left' \in [Bounded -> Nat]
    BY <1>0, <1>2, Spending DEF Kill, SameButLog, Bounded
  <2> QED
    BY <2>1, StateChanges
<1>3. ASSUME NEW r \in Recovery, SeeInfo(r, g, l)
      PROVE  LogChange(g, l)
  <2>1. /\ log[g][l].state # "none" /\ SameButLog /\ left' \in [Bounded -> Nat]
        /\ \/ log' = [log EXCEPT ![g][l].state = "gone"]
           \/ log' = [log EXCEPT ![g][l].stopped = TRUE]
    BY <1>0, <1>3, Spending DEF SeeInfo, SameButLog, Bounded
  <2> QED
    BY <2>1, StateChanges
<1>4. ASSUME NEW r \in Recovery, TLogStop(r, l), g = mgr[r].prev.gen
      PROVE  LogChange(g, l)
  <2>1. /\ log[g][l].state # "none" /\ SameButLog /\ left' \in [Bounded -> Nat]
        /\ log' = [log EXCEPT ![g][l].stopped = TRUE]
    BY <1>0, <1>4 DEF TLogStop, SameButLog, TypeOK
  <2> QED
    BY <2>1, StateChanges
<1> QED
  BY <1>1, <1>2, <1>3, <1>4, CommitChanges, QueueChanges, FinishChanges, RestartChanges

-----------------------------------------------------------------------------
(***************************************************************************)
(* The kinds of steps.                                                     *)
(***************************************************************************)

GivesUp(r) ==
    /\ mgr[r].phase \notin {"idle", "dead"}
    /\ Dies(r)
    /\ UNCHANGED <<cstate, writes, committed, info, stored, reader>>
    /\ left' \in [Bounded -> Nat]

Locks(r) ==
    /\ mgr[r].phase = "locking" /\ mgr[r].place = writes
    /\ cstate' = [mgr[r].prev EXCEPT !.count = @ + 1]
    /\ writes' = writes + 1
    /\ mgr' = [mgr EXCEPT ![r].phase = "recruiting", ![r].place = writes + 1]
    /\ info' = [info EXCEPT ![r] = [count |-> mgr[r].prev.count + 1, keep |-> Chain(mgr[r].prev)]]
    /\ UNCHANGED <<gen, log, sent, committed, stored, reader, left>>

Accepts(r) ==
    /\ mgr[r].phase = "transaction" /\ mgr[r].place = writes
    /\ Logged(r, RecoveryTransactionVersion(r))
    /\ cstate' = CoreState(r)
    /\ writes' = writes + 1
    /\ mgr' = [mgr EXCEPT ![r] = [IdleMgr EXCEPT !.phase = "accepting", !.place = writes + 1]]
    /\ committed' = [committed EXCEPT ![r] = RecoveryTransactionVersion(r)]
    /\ info' = [info EXCEPT ![r] = [count |-> gen[r].count, keep |-> Chain(CoreState(r))]]
    /\ UNCHANGED <<gen, log, sent, stored, reader, left>>

Updates(r) ==
    /\ mgr[r].phase = "accepting" /\ mgr[r].place = writes
    /\ cstate' = CoreState(r)
    /\ writes' = writes + 1
    /\ mgr' = [mgr EXCEPT ![r].place = writes + 1]
    /\ info' = [info EXCEPT ![r].keep = Chain(CoreState(r))]
    /\ UNCHANGED <<gen, log, sent, committed, stored, reader, left>>

ReaderStep ==
    \/ \E g \in Gen : AskReadVersion(g)
    \/ \E l \in Log : ConfirmRunning(l)
    \/ SendReadVersion

LEMMA Steps ==
    ASSUME IInv, Next
    PROVE  \/ \E g \in Gen, l \in Log : LogChange(g, l)
           \/ \E g \in Gen : Push(g)
           \/ \E g \in Gen : Answer(g)
           \/ ReaderStep
           \/ \E g \in Gen : StorageDurable(g)
           \/ \E r \in Recovery : GivesUp(r)
           \/ \E r \in Recovery : ReadCState(r)
           \/ \E r \in Recovery, l \in Log : TLogLockReply(r, l)
           \/ \E r \in Recovery, results \in SUBSET Log : EpochEnd(r, results)
           \/ \E r \in Recovery : Locks(r)
           \/ \E r \in Recovery : NewEpoch(r)
           \/ \E r \in Recovery : RecoveryTransaction(r)
           \/ \E r \in Recovery : Accepts(r)
           \/ \E r \in Recovery : Updates(r)
           \/ \E r \in Recovery : Purge(r)
<1>0. TypeOK /\ left \in [Bounded -> Nat]
  BY DEF IInv, TypeOK
<1>1. ASSUME NEW g \in Gen, NEW l \in Log,
             \/ TLogCommit(g, l) \/ QueueCommit(g, l) \/ RecoveryFinished(g, l)
             \/ Crash(g, l) \/ Restart(g, l) \/ Kill(g, l)
      PROVE  LogChange(g, l)
  BY <1>1, LogSteps
<1>2. ASSUME NEW r \in Recovery, NEW g \in Gen, NEW l \in Log, SeeInfo(r, g, l)
      PROVE  LogChange(g, l)
  BY <1>2, LogSteps
<1>3. ASSUME NEW r \in Recovery, NEW l \in Log, TLogStop(r, l)
      PROVE  \E g \in Gen : LogChange(g, l)
  <2>1. mgr[r].prev.gen \in Gen
    BY <1>0, Typed
  <2> QED
    BY <1>3, <2>1, LogSteps
<1>4. ASSUME NEW r \in Recovery, Die(r) PROVE GivesUp(r)
  BY <1>0, <1>4, Spending DEF Die, GivesUp, Bounded
<1>5. ASSUME NEW r \in Recovery, LogFailed(r) PROVE GivesUp(r)
  BY <1>0, <1>5 DEF LogFailed, GivesUp
<1>6. ASSUME NEW r \in Recovery, LockCState(r) PROVE GivesUp(r) \/ Locks(r)
  BY <1>0, <1>6 DEF LockCState, WriteCState, GivesUp, Locks
<1>7. ASSUME NEW r \in Recovery, WriteNewCState(r) PROVE GivesUp(r) \/ Accepts(r)
  BY <1>0, <1>7 DEF WriteNewCState, WriteCState, GivesUp, Accepts
<1>8. ASSUME NEW r \in Recovery, UpdateCState(r) PROVE GivesUp(r) \/ Updates(r)
  BY <1>0, <1>8 DEF UpdateCState, WriteCState, GivesUp, Updates
<1> QED
  BY <1>1, <1>2, <1>3, <1>4, <1>5, <1>6, <1>7, <1>8 DEF Next, ReaderStep

\* The end a recovery gives the epoch before it.
OldOf(m, end, known) == <<[gen |-> m.prev.gen, end |-> known + 1, at |-> end]>> \o m.prev.old

EndsAt(r, end, known) ==
    LET g == mgr[r].prev.gen IN
    /\ Ending(r) /\ ~ Accepted(r) /\ Accepted(g)
    /\ gen' = [gen EXCEPT ![r] =
                  [at |-> end, known |-> known, count |-> 0, old |-> OldOf(mgr[r], end, known)]]
    /\ log' = [log EXCEPT ![r] = [l \in Log |-> NoLog]]
    /\ UNCHANGED <<cstate, writes, mgr, sent, committed, info, stored, reader, left>>
    /\ known <= end /\ gen[g].at <= known /\ committed[g] <= end /\ end > 0
    /\ Ended(g, end)

LEMMA EpochEnds ==
    ASSUME IInv, NEW r \in Recovery, NEW results \in SUBSET Log, EpochEnd(r, results)
    PROVE  \E end, known \in Nat : EndsAt(r, end, known)
<1> DEFINE m == mgr[r]
           g == m.prev.gen
           end == DurableEnd(m.ends, results)
           S == {KnownCommitted(g, m.ends[l]) : l \in results} \cup {gen[r].known, 0}
           known == Max(S)
           capped == Min({known, end})
<1>0. TypeOK /\ InvPhase /\ InvSent /\ InvLog /\ InvLogged /\ InvEnds /\ InvChain
  BY DEF IInv
<1>1. /\ Ending(r) /\ ~ TooManyFailures(results) /\ \A l \in results : m.ends[l] # None
      /\ gen' = [gen EXCEPT ![r] = [at |-> end, known |-> capped, count |-> 0,
                                    old |-> <<[gen |-> g, end |-> capped + 1, at |-> end]>> \o m.prev.old]]
      /\ log' = [log EXCEPT ![r] = [l \in Log |-> NoLog]]
      /\ UNCHANGED <<cstate, writes, mgr, sent, committed, info, stored, reader, left>>
  BY DEF EpochEnd
<1>2. Pending(r) /\ Accepted(g) /\ ~ Accepted(r) /\ g \in Gen
  BY <1>0, <1>1, Typed DEF Ending, Pending, InvChain, InvPhase
<1>3. /\ committed[g] \in Nat /\ gen[g].at # None /\ gen[g].at \in Nat
      /\ RecoveryTransactionVersion(g) \in Nat /\ RecoveryTransactionVersion(g) > gen[g].at
      /\ LastSent(g) \in Nat /\ RecoveryTransactionVersion(g) <= committed[g]
  BY <1>0, <1>2, CommittedTyped, VersionsOf DEF InvSent
<1>4. ASSUME NEW l \in results
      PROVE  /\ Frozen(g, l) /\ m.ends[l] = log[g][l].version
             /\ m.ends[l] \in Nat /\ m.ends[l] <= LastSent(g) /\ Point(g, m.ends[l])
  <2>1. l \in Log /\ m.ends[l] # None
    BY <1>1
  <2>2. Frozen(g, l) /\ m.ends[l] = log[g][l].version
    BY <1>0, <1>1, <2>1 DEF InvEnds
  <2>3. log[g][l].state # "none"
    BY <1>0, <1>2, <2>1 DEF InvPhase
  <2>4. Point(g, log[g][l].version)
    BY <1>0, <1>2, <2>1, <2>3 DEF InvLog
  <2> QED
    BY <2>2, <2>4 DEF Point
<1>5. Cardinality(results) \in Nat /\ WriteAntiQuorum \in Nat /\ Cardinality(results) > WriteAntiQuorum
  BY <1>1, LogSets, EnoughAnswers
<1>6. SafeBegin(results) = WriteAntiQuorum
  <2>1. Cardinality(results) - 1 \in Nat /\ WriteAntiQuorum <= Cardinality(results) - 1
    BY <1>5
  <2> QED
    BY <1>5, <2>1, MinOfTwo DEF SafeBegin
<1>7. /\ \E l \in results : end = m.ends[l]
      /\ end \in Nat
      /\ Cardinality({l \in results : m.ends[l] <= end}) > WriteAntiQuorum
  <2>1. PICK ends : ends = m.ends
    OBVIOUS
  <2>2. PICK b \in Nat : \A l \in results : ends[l] \in Nat /\ ends[l] <= b
    BY <1>3, <1>4, <2>1
  <2>3. PICK v : v = Kth(ends, results, WriteAntiQuorum)
    OBVIOUS
  <2>4. end = v
    BY <1>6, <2>1, <2>3 DEF DurableEnd
  <2>5. /\ \E l \in results : v = ends[l]
        /\ v \in Nat
        /\ Cardinality({l \in results : ends[l] <= v}) > WriteAntiQuorum
    <3>1. WriteAntiQuorum < Cardinality(results)
      BY <1>5
    <3>2. /\ \E l \in results : Kth(ends, results, WriteAntiQuorum) = ends[l]
          /\ Kth(ends, results, WriteAntiQuorum) \in Nat
          /\ Cardinality({l \in results : ends[l] <= Kth(ends, results, WriteAntiQuorum)}) > WriteAntiQuorum
      BY <1>5, <2>2, <3>1, KthIs, Zenon
    <3> QED
      BY <2>3, <3>2
  <2> QED
    BY <2>1, <2>4, <2>5
<1> HIDE DEF end
<1>8. Ended(g, end)
  <2>1. {l \in results : m.ends[l] <= end} = {l \in results : log[g][l].version <= end}
    BY <1>4
  <2>2. EndedBy(g, end, results)
    BY <1>1, <1>4, <1>7, <2>1 DEF EndedBy
  <2> QED
    BY <2>2 DEF Ended
<1>9. committed[g] <= end
  BY <1>0, <1>2, <1>7, <1>8, CommittedEnded
<1>10. known \in Nat /\ gen[g].at <= known
  <2>1. ASSUME NEW l \in results
        PROVE  KnownCommitted(g, m.ends[l]) \in Nat /\ KnownCommitted(g, m.ends[l]) <= committed[g]
    BY <1>0, <1>2, <1>4, KnownIs
  <2>2. PICK k \in Nat : gen[r].known <= k
    <3>1. gen[r].known \in Nat \cup {None} /\ r \in Gen
      BY <1>0, Typed, Constants
    <3>2. CASE gen[r].known \in Nat
      BY <3>2
    <3>3. CASE gen[r].known = None
      BY <3>3, Constants
    <3> QED
      BY <3>1, <3>2, <3>3
  <2>3. gen[r].known \in Int
    BY <1>0, Typed, Constants
  <2>4. committed[g] + k \in Nat /\ \A y \in S : y \in Int /\ y <= committed[g] + k
    BY <1>3, <2>1, <2>2, <2>3
  <2>5. 0 \in S
    OBVIOUS
  <2>6. PICK l \in results : end = m.ends[l]
    BY <1>7
  <2>7. KnownCommitted(g, end) >= gen[g].at /\ KnownCommitted(g, end) \in S
    <3>1. end >= gen[g].at
      BY <1>3, <1>7, <1>9
    <3> QED
      BY <1>0, <1>2, <1>4, <2>6, <3>1, KnownIs
  <2>8. known \in Nat /\ \A y \in S : y <= known
    <3> HIDE DEF S
    <3> QED
      BY <2>4, <2>5, MaxIsGreatest
  <2> HIDE DEF S, known
  <2> QED
    BY <1>3, <2>4, <2>7, <2>8
<1> HIDE DEF known
<1>11. capped \in Nat /\ capped <= end /\ gen[g].at <= capped
  BY <1>3, <1>7, <1>9, <1>10, MinOfTwo
<1>12. end > 0
  BY <1>3, <1>7, <1>9
<1>13. EndsAt(r, end, capped)
  <2> HIDE DEF capped
  <2> QED
    BY <1>1, <1>2, <1>8, <1>9, <1>11, <1>12 DEF EndsAt, OldOf
<1> QED
  BY <1>7, <1>11, <1>13

-----------------------------------------------------------------------------
(***************************************************************************)
(* What is never taken back.                                               *)
(***************************************************************************)

LEMMA ChangePointwise ==
    ASSUME TypeOK, NEW g \in Gen, NEW l \in Log, LogChange(g, l)
    PROVE  /\ log'[g][l] \in LogRecord /\ MayBecome(g, l, log'[g][l])
           /\ \A h \in Gen, x \in Log : h # g \/ x # l => log'[h][x] = log[h][x]
           /\ log' \in [Gen -> [Log -> LogRecord]]
<1>1. PICK q \in LogRecord : log' = [log EXCEPT ![g][l] = q] /\ MayBecome(g, l, q)
  BY DEF LogChange
<1>2. log \in [Gen -> [Log -> LogRecord]]
  BY DEF TypeOK, LogRecord
<1>3. log'[g][l] = q /\ \A h \in Gen, x \in Log : h # g \/ x # l => log'[h][x] = log[h][x]
  BY <1>1, <1>2
<1>4. log' \in [Gen -> [Log -> LogRecord]]
  BY <1>1, <1>2
<1> QED
  BY <1>1, <1>3, <1>4

\* A generation that has accepted commits, and its logs.
KeepsGoing(g) ==
    /\ Accepted(g)'
    /\ gen'[g].at = gen[g].at /\ gen'[g].known = gen[g].known /\ gen'[g].count = gen[g].count
    /\ committed'[g] >= committed[g]
    /\ \A l \in Log : /\ log'[g][l].durable >= log[g][l].durable
                      /\ log[g][l].stopped => log'[g][l].stopped
                      /\ Frozen(g, l) => Frozen(g, l)' /\ log'[g][l].version = log[g][l].version
                      /\ log[g][l].state # "none" => log'[g][l].state # "none"

Advance ==
    /\ \A g \in Gen : Accepted(g) => KeepsGoing(g)
    /\ stored' >= stored

LEMMA SameGoesOn ==
    ASSUME TypeOK, NEW g \in Gen, Accepted(g),
           gen'[g].at = gen[g].at, gen'[g].known = gen[g].known, gen'[g].count = gen[g].count,
           log'[g] = log[g], committed'[g] = committed[g]
    PROVE  KeepsGoing(g)
<1>1. /\ committed[g] \in Int
      /\ \A l \in Log : log[g][l].durable \in Int
  BY Typed, Constants
<1> QED
  BY <1>1 DEF KeepsGoing, Accepted, Frozen

LEMMA Advances ==
    ASSUME IInv, [Next]_vars
    PROVE  Advance
<1>0. TypeOK /\ InvPhase /\ InvSent /\ InvLog /\ InvLogged /\ InvEnds /\ InvChain
  BY DEF IInv
<1>a. stored \in Nat
  BY <1>0, Typed
<1>b. \A r \in Recovery : r \in Gen
  BY Constants
<1>1. CASE UNCHANGED vars
  BY <1>0, <1>1, <1>a, SameGoesOn DEF vars, Advance
<1>2. ASSUME NEW g \in Gen, NEW l \in Log, LogChange(g, l)
      PROVE  Advance
  <2>1. /\ MayBecome(g, l, log'[g][l])
        /\ \A h \in Gen, x \in Log : h # g \/ x # l => log'[h][x] = log[h][x]
        /\ gen' = gen /\ committed' = committed /\ stored' = stored
    BY <1>0, <1>2, ChangePointwise DEF LogChange, SameButLog
  <2>2. ASSUME NEW h \in Gen, Accepted(h)
        PROVE  KeepsGoing(h)
    <3>1. committed[h] \in Int /\ \A x \in Log : log[h][x].durable \in Int
      BY <1>0, Typed, Constants
    <3> QED
      BY <2>1, <2>2, <3>1 DEF KeepsGoing, MayBecome, Frozen, Accepted
  <2> QED
    BY <1>a, <2>1, <2>2 DEF Advance
<1>3. ASSUME NEW g \in Gen, Push(g) PROVE Advance
  BY <1>0, <1>3, <1>a, SameGoesOn DEF Push, Advance
<1>4. ASSUME NEW g \in Gen, Answer(g) PROVE Advance
  <2>1. /\ committed' = [committed EXCEPT ![g] = @ + 1] /\ gen' = gen /\ log' = log /\ stored' = stored
        /\ Accepted(g)
    BY <1>4 DEF Answer
  <2>2. committed[g] \in Nat /\ committed \in [Gen -> Nat \cup {None}]
    BY <1>0, <2>1, CommittedTyped DEF TypeOK
  <2>3. ASSUME NEW h \in Gen, Accepted(h) PROVE KeepsGoing(h)
    <3>1. CASE h = g
      <4>1. committed'[h] = committed[h] + 1 /\ committed'[h] # None
        BY <2>1, <2>2, <3>1, Constants
      <4>2. \A l \in Log : log[h][l].durable \in Int
        BY <1>0, Typed, Constants
      <4> QED
        BY <2>1, <2>2, <3>1, <4>1, <4>2 DEF KeepsGoing, Accepted, Frozen
    <3>2. CASE h # g
      <4>1. committed'[h] = committed[h]
        BY <2>1, <2>2, <3>2
      <4> QED
        BY <1>0, <2>1, <2>3, <4>1, SameGoesOn
    <3> QED
      BY <3>1, <3>2
  <2> QED
    BY <1>a, <2>1, <2>3 DEF Advance
<1>5. CASE ReaderStep
  BY <1>0, <1>5, <1>a, SameGoesOn DEF ReaderStep, AskReadVersion, ConfirmRunning, SendReadVersion, Advance
<1>6. ASSUME NEW g \in Gen, StorageDurable(g) PROVE Advance
  <2>1. PICK l \in Log : /\ log[g][l].state = "up"
                         /\ stored < KnownCommitted(g, log[g][l].version)
                         /\ stored' = KnownCommitted(g, log[g][l].version)
    BY <1>6 DEF StorageDurable
  <2>2. Accepted(g) /\ Point(g, log[g][l].version)
    BY <1>0, <1>6, <2>1 DEF StorageDurable, InvLog
  <2>3. KnownCommitted(g, log[g][l].version) \in Nat
    BY <1>0, <2>2, KnownIs
  <2>4. gen' = gen /\ log' = log /\ committed' = committed
    BY <1>6 DEF StorageDurable
  <2> QED
    BY <1>0, <1>a, <2>1, <2>3, <2>4, SameGoesOn DEF Advance
<1>7. ASSUME NEW r \in Recovery, GivesUp(r) PROVE Advance
  <2>1. ASSUME NEW h \in Gen, Accepted(h) PROVE KeepsGoing(h)
    <3>1. gen'[h] = gen[h] /\ log'[h] = log[h] /\ committed' = committed
      BY <1>0, <1>7, <2>1 DEF GivesUp, Dies, TypeOK
    <3> QED
      BY <1>0, <2>1, <3>1, SameGoesOn
  <2> QED
    BY <1>7, <1>a, <2>1 DEF Advance, GivesUp
<1>8. ASSUME NEW r \in Recovery, ReadCState(r) PROVE Advance
  BY <1>0, <1>8, <1>a, SameGoesOn DEF ReadCState, Advance
<1>9. ASSUME NEW r \in Recovery, NEW l \in Log, TLogLockReply(r, l) PROVE Advance
  BY <1>0, <1>9, <1>a, SameGoesOn DEF TLogLockReply, Advance
<1>10. ASSUME NEW r \in Recovery, NEW results \in SUBSET Log, EpochEnd(r, results) PROVE Advance
  <2>1. PICK end, known \in Nat : EndsAt(r, end, known)
    BY <1>10, EpochEnds
  <2>2. ASSUME NEW h \in Gen, Accepted(h) PROVE KeepsGoing(h)
    <3>1. gen'[h] = gen[h] /\ log'[h] = log[h] /\ committed' = committed
      BY <1>0, <2>1, <2>2 DEF EndsAt, TypeOK
    <3> QED
      BY <1>0, <2>2, <3>1, SameGoesOn
  <2> QED
    BY <1>a, <2>1, <2>2 DEF Advance, EndsAt
<1>11. ASSUME NEW r \in Recovery, Locks(r) PROVE Advance
  BY <1>0, <1>11, <1>a, SameGoesOn DEF Locks, Advance
<1>12. ASSUME NEW r \in Recovery, NewEpoch(r) PROVE Advance
  <2>1. ASSUME NEW h \in Gen, Accepted(h) PROVE KeepsGoing(h)
    <3>1. gen' = gen /\ log'[h] = log[h] /\ committed' = committed
      BY <1>0, <1>12, <2>1 DEF NewEpoch, TypeOK, InvPhase
    <3> QED
      BY <1>0, <2>1, <3>1, SameGoesOn
  <2> QED
    BY <1>12, <1>a, <2>1 DEF Advance, NewEpoch
<1>13. ASSUME NEW r \in Recovery, RecoveryTransaction(r) PROVE Advance
  <2>1. ASSUME NEW h \in Gen, Accepted(h) PROVE KeepsGoing(h)
    <3>1. gen'[h] = gen[h] /\ log' = log /\ committed' = committed
      BY <1>0, <1>13, <2>1 DEF RecoveryTransaction, TypeOK, InvPhase
    <3> QED
      BY <1>0, <2>1, <3>1, SameGoesOn
  <2> QED
    BY <1>13, <1>a, <2>1 DEF Advance, RecoveryTransaction
<1>14. ASSUME NEW r \in Recovery, Accepts(r) PROVE Advance
  <2>1. ASSUME NEW h \in Gen, Accepted(h) PROVE KeepsGoing(h)
    <3>1. gen' = gen /\ log' = log /\ committed'[h] = committed[h]
      BY <1>0, <1>14, <2>1 DEF Accepts, TypeOK, InvPhase
    <3> QED
      BY <1>0, <2>1, <3>1, SameGoesOn
  <2> QED
    BY <1>14, <1>a, <2>1 DEF Advance, Accepts
<1>15. ASSUME NEW r \in Recovery, Updates(r) PROVE Advance
  BY <1>0, <1>15, <1>a, SameGoesOn DEF Updates, Advance
<1>16. ASSUME NEW r \in Recovery, Purge(r) PROVE Advance
  <2>1. ASSUME NEW h \in Gen, Accepted(h) PROVE KeepsGoing(h)
    <3>1. /\ gen'[h].at = gen[h].at /\ gen'[h].known = gen[h].known /\ gen'[h].count = gen[h].count
          /\ log' = log /\ committed' = committed
      <4>1. PICK k : gen' = [gen EXCEPT ![r].old = k]
        BY <1>16 DEF Purge
      <4>2. gen \in [Gen -> GenRecord] /\ log' = log /\ committed' = committed
        BY <1>0, <1>16 DEF Purge, TypeOK, GenRecord, OldEntry
      <4> QED
        BY <4>1, <4>2 DEF GenRecord
    <3> QED
      BY <1>0, <2>1, <3>1, SameGoesOn
  <2> QED
    BY <1>16, <1>a, <2>1 DEF Advance, Purge
<1> QED
  BY <1>1, <1>2, <1>3, <1>4, <1>5, <1>6, <1>7, <1>8, <1>9, <1>10, <1>11, <1>12, <1>13, <1>14,
     <1>15, <1>16, Steps

LEMMA EndedStays ==
    ASSUME Advance, NEW g \in Gen, Accepted(g), NEW e, Ended(g, e)
    PROVE  Ended(g, e)'
<1>1. PICK Q \in SUBSET Log : EndedBy(g, e, Q)
  BY DEF Ended
<1>2. \A l \in Q : Frozen(g, l)' /\ log'[g][l].version = log[g][l].version
  BY <1>1 DEF EndedBy, Advance, KeepsGoing
<1>3. {l \in Q : log'[g][l].version <= e} = {l \in Q : log[g][l].version <= e}
  BY <1>2
<1>4. EndedBy(g, e, Q)'
  BY <1>1, <1>2, <1>3 DEF EndedBy, TooManyFailures, N
<1> QED
  BY <1>4 DEF Ended

LEMMA SafeStays ==
    ASSUME TypeOK, TypeOK', Advance, NEW g \in Gen, Accepted(g), Safe(g)
    PROVE  Safe(g)'
<1>1. PICK e \in Nat : Ended(g, e) /\ gen[g].at <= e /\ e <= stored
  BY DEF Safe
<1>2. Ended(g, e)'
  BY <1>1, EndedStays
<1>3. gen'[g].at = gen[g].at /\ stored' >= stored /\ stored \in Nat /\ stored' \in Nat
  BY Typed DEF Advance, KeepsGoing, TypeOK
<1> QED
  BY <1>1, <1>2, <1>3 DEF Safe

\* A chain of generations stays one while what follows its last one stays.
LEMMA ChainStays ==
    ASSUME TypeOK, Advance, NEW g \in Gen, NEW old \in Seq(OldEntry), ChainOK(g, old),
           gen'[g].at = gen[g].at, gen'[g].known = gen[g].known
    PROVE  ChainOK(g, old)'
<1> SUFFICES ASSUME NEW i \in DOMAIN old
             PROVE  /\ Accepted(old[i].gen)'
                    /\ gen'[Later(g, old, i)].at = old[i].at
                    /\ gen'[Later(g, old, i)].known + 1 = old[i].end
                    /\ gen'[old[i].gen].at < old[i].end
                    /\ Ended(old[i].gen, old[i].at)'
                    /\ \A j \in DOMAIN old : i < j => old[j].at <= old[i].at
  BY DEF ChainOK, Later
<1>1. DOMAIN old = 1 .. Len(old) /\ Len(old) \in Nat /\ \A j \in DOMAIN old : old[j] \in OldEntry
  OBVIOUS
<1>2. \A j \in DOMAIN old : old[j].gen \in Gen
  BY <1>1 DEF OldEntry
<1>3. \A j \in DOMAIN old : Accepted(old[j].gen) /\ KeepsGoing(old[j].gen)
  BY <1>2 DEF ChainOK, Advance
<1>4. /\ Accepted(old[i].gen)
      /\ gen[Later(g, old, i)].at = old[i].at
      /\ gen[Later(g, old, i)].known + 1 = old[i].end
      /\ gen[old[i].gen].at < old[i].end
      /\ Ended(old[i].gen, old[i].at)
      /\ \A j \in DOMAIN old : i < j => old[j].at <= old[i].at
  BY DEF ChainOK
<1>5. /\ gen'[Later(g, old, i)].at = gen[Later(g, old, i)].at
      /\ gen'[Later(g, old, i)].known = gen[Later(g, old, i)].known
  <2>1. CASE i = 1
    BY <2>1 DEF Later
  <2>2. CASE i # 1
    <3>1. i - 1 \in DOMAIN old /\ Later(g, old, i) = old[i - 1].gen
      BY <1>1, <2>2 DEF Later
    <3> QED
      BY <1>3, <3>1 DEF KeepsGoing
  <2> QED
    BY <2>1, <2>2
<1>6. Ended(old[i].gen, old[i].at)'
  <2>1. PICK h, e : h = old[i].gen /\ e = old[i].at
    OBVIOUS
  <2> QED
    BY <1>2, <1>4, <2>1, EndedStays
<1>7. gen'[old[i].gen].at = gen[old[i].gen].at /\ Accepted(old[i].gen)'
  <2>1. PICK h : h = old[i].gen
    OBVIOUS
  <2> QED
    BY <1>3, <2>1 DEF KeepsGoing
<1> QED
  BY <1>4, <1>5, <1>6, <1>7

-----------------------------------------------------------------------------
(***************************************************************************)
(* The types.                                                              *)
(***************************************************************************)

\* The latest answer of all is the current generation's.
LEMMA LatestAnswer ==
    ASSUME IInv
    PROVE  /\ cstate.gen \in Gen /\ committed[cstate.gen] \in Nat
           /\ \A g \in Gen : committed[g] <= committed[cstate.gen]
           /\ Answered = committed[cstate.gen]
<1>0. TypeOK /\ InvPhase /\ InvSent /\ InvLogged /\ InvChain /\ InvOrder
  BY DEF IInv
<1>1. cstate.gen \in Gen /\ Accepted(cstate.gen)
  BY <1>0, Typed DEF InvChain
<1>2. /\ committed[cstate.gen] \in Nat /\ gen[cstate.gen].at \in Nat /\ gen[cstate.gen].at # None
      /\ RecoveryTransactionVersion(cstate.gen) \in Nat
      /\ RecoveryTransactionVersion(cstate.gen) > gen[cstate.gen].at
      /\ RecoveryTransactionVersion(cstate.gen) <= committed[cstate.gen]
  BY <1>0, <1>1, CommittedTyped, VersionsOf DEF InvSent
<1>3. ASSUME NEW g \in Gen PROVE committed[g] <= committed[cstate.gen] /\ committed[g] \in Int
  <2>1. CASE ~ Accepted(g)
    BY <1>2, <2>1, Constants DEF Accepted
  <2>2. CASE g = cstate.gen
    BY <1>2, <2>2
  <2>3. CASE Accepted(g) /\ g # cstate.gen
    <3>1. PICK e \in Nat : Ended(g, e) /\ e <= gen[cstate.gen].at
      BY <1>0, <2>3 DEF InvOrder
    <3>2. committed[g] <= e /\ committed[g] \in Nat
      BY <1>0, <2>3, <3>1, CommittedEnded, CommittedTyped
    <3> QED
      BY <1>2, <3>1, <3>2
  <2> QED
    BY <2>1, <2>2, <2>3
<1> DEFINE S == {committed[g] : g \in Gen}
<1>4. committed[cstate.gen] \in S /\ \A y \in S : committed[cstate.gen] >= y /\ y \in Int
  BY <1>1, <1>2, <1>3
<1>5. Max(S) \in S /\ \A y \in S : Max(S) >= y
  BY <1>4, Zenon DEF Max
<1>6. Max(S) = committed[cstate.gen]
  <2>1. Max(S) >= committed[cstate.gen] /\ committed[cstate.gen] >= Max(S) /\ Max(S) \in Int
    BY <1>4, <1>5
  <2> HIDE DEF S
  <2> QED
    BY <1>2, <2>1
<1> QED
  BY <1>1, <1>2, <1>3, <1>6 DEF Answered

LEMMA CoreTyped ==
    ASSUME TypeOK, NEW r \in Recovery
    PROVE  /\ CoreState(r) \in CoreStates /\ CoreState(r).gen = r /\ CoreState(r).count = gen[r].count
           /\ CoreState(r).old = <<>> \/ CoreState(r).old = gen[r].old
           /\ CoreState(r).old = <<>> /\ gen[r].old # <<>> => \A l \in Log : log[r][l].finished
<1>1. r \in Gen /\ gen[r].count \in Nat /\ gen[r].old \in Seq(OldEntry)
  BY Typed, Constants
<1>2. <<>> \in Seq(OldEntry)
  OBVIOUS
<1> QED
  BY <1>1, <1>2 DEF CoreState, CoreStates, OldEntry

LEMMA ChainTyped ==
    ASSUME NEW c \in CoreStates
    PROVE  Chain(c) \in SUBSET Gen
<1>1. c.gen \in Gen /\ c.old \in Seq(OldEntry)
  BY DEF CoreStates, OldEntry
<1>2. \A i \in DOMAIN c.old : c.old[i] \in OldEntry
  BY <1>1
<1> QED
  BY <1>1, <1>2 DEF Chain, OldEntry

InfoRecord == [count : Nat \cup {None}, keep : SUBSET Gen]

ReaderRecord == [phase : {"idle", "confirming", "done"}, gen : Gen, version : Nat, floor : Nat,
                 confirmed : SUBSET Log]

LEMMA TypeParts ==
    /\ TypeOK <=> /\ cstate \in CoreStates /\ writes \in Nat /\ mgr \in [Recovery -> MgrRecord]
                  /\ gen \in [Gen -> GenRecord] /\ log \in [Gen -> [Log -> LogRecord]]
                  /\ sent \in [Gen -> Seq(Nat)] /\ committed \in [Gen -> Nat \cup {None}]
                  /\ info \in [Recovery -> InfoRecord] /\ stored \in Nat /\ reader \in ReaderRecord
                  /\ left \in [Bounded -> Nat]
    /\ TypeOK' <=> /\ cstate' \in CoreStates /\ writes' \in Nat /\ mgr' \in [Recovery -> MgrRecord]
                   /\ gen' \in [Gen -> GenRecord] /\ log' \in [Gen -> [Log -> LogRecord]]
                   /\ sent' \in [Gen -> Seq(Nat)] /\ committed' \in [Gen -> Nat \cup {None}]
                   /\ info' \in [Recovery -> InfoRecord] /\ stored' \in Nat /\ reader' \in ReaderRecord
                   /\ left' \in [Bounded -> Nat]
  BY DEF TypeOK, MgrRecord, GenRecord, OldEntry, LogRecord, InfoRecord, ReaderRecord

LEMMA IdleTyped ==
    /\ IdleMgr \in MgrRecord /\ DeadMgr \in MgrRecord /\ NoGen \in GenRecord /\ NoLog \in LogRecord
    /\ [l \in Log |-> NoLog] \in [Log -> LogRecord] /\ NoReader \in ReaderRecord
    /\ IdleMgr.phase = "idle" /\ DeadMgr.phase = "dead" /\ IdleMgr.place = 0 /\ DeadMgr.place = 0
    /\ NoGen.at = None /\ NoGen.known = None /\ NoLog.state = "none" /\ ~ NoLog.finished
<1>1. 0 \in Gen /\ <<>> \in Seq(OldEntry)
  BY Constants
<1>2. [count |-> 0, gen |-> 0, old |-> <<>>] \in CoreStates
  BY <1>1 DEF CoreStates, OldEntry
<1>3. IdleMgr \in MgrRecord /\ IdleMgr.phase = "idle" /\ IdleMgr.place = 0
  BY <1>2 DEF IdleMgr, MgrRecord
<1>4. DeadMgr \in MgrRecord /\ DeadMgr.phase = "dead" /\ DeadMgr.place = 0
  BY <1>3 DEF DeadMgr, MgrRecord
<1>5. NoGen \in GenRecord /\ NoGen.at = None /\ NoGen.known = None
  BY <1>1 DEF NoGen, GenRecord
<1>6. NoLog \in LogRecord /\ NoLog.state = "none" /\ ~ NoLog.finished
  BY DEF NoLog, LogRecord
<1>7. NoReader \in ReaderRecord
  BY <1>1 DEF NoReader, ReaderRecord
<1> QED
  BY <1>3, <1>4, <1>5, <1>6, <1>7


-----------------------------------------------------------------------------
(***************************************************************************)
(* Each kind of step, variable by variable.                                *)
(***************************************************************************)

Phases == {"idle", "locking", "recruiting", "transaction", "accepting", "dead"}

\* Updates of a record keep its type and the other fields.
LEMMA MgrUpdates ==
    ASSUME NEW m \in MgrRecord, NEW p \in Phases, NEW k \in Nat
    PROVE  /\ [m EXCEPT !.phase = p] \in MgrRecord /\ [m EXCEPT !.place = k] \in MgrRecord
           /\ [m EXCEPT !.phase = p, !.place = k] \in MgrRecord
           /\ \A c \in CoreStates : [m EXCEPT !.phase = p, !.prev = c, !.place = k] \in MgrRecord
           /\ \A l \in Log, v \in Nat \cup {None} : [m EXCEPT !.ends[l] = v] \in MgrRecord
  BY DEF MgrRecord, Phases

LEMMA GivesUpIs ==
    ASSUME TypeOK, NEW r \in Recovery, GivesUp(r)
    PROVE  /\ mgr' \in [Recovery -> MgrRecord] /\ gen' \in [Gen -> GenRecord]
           /\ log' \in [Gen -> [Log -> LogRecord]] /\ sent' \in [Gen -> Seq(Nat)]
           /\ mgr'[r] = DeadMgr /\ \A s \in Recovery : s # r => mgr'[s] = mgr[s]
           /\ \A g \in Gen : g # r => gen'[g] = gen[g] /\ log'[g] = log[g] /\ sent'[g] = sent[g]
           /\ Accepted(r) => gen' = gen /\ log' = log /\ sent' = sent
           /\ ~ Accepted(r) => gen'[r] = NoGen /\ log'[r] = [l \in Log |-> NoLog] /\ sent'[r] = <<>>
<1>1. /\ mgr \in [Recovery -> MgrRecord] /\ gen \in [Gen -> GenRecord]
      /\ log \in [Gen -> [Log -> LogRecord]] /\ sent \in [Gen -> Seq(Nat)] /\ r \in Gen
  BY TypeParts, Constants
<1>2. DeadMgr \in MgrRecord /\ NoGen \in GenRecord /\ [l \in Log |-> NoLog] \in [Log -> LogRecord] /\ <<>> \in Seq(Nat)
  BY IdleTyped
<1>3. mgr' \in [Recovery -> MgrRecord] /\ mgr'[r] = DeadMgr /\ \A s \in Recovery : s # r => mgr'[s] = mgr[s]
  BY <1>1, <1>2 DEF GivesUp, Dies
<1>4. CASE Accepted(r)
  BY <1>1, <1>3, <1>4 DEF GivesUp, Dies
<1>5. CASE ~ Accepted(r)
  <2>1. gen' = [gen EXCEPT ![r] = NoGen]
    BY <1>5 DEF GivesUp, Dies
  <2>2. log' = [log EXCEPT ![r] = [l \in Log |-> NoLog]]
    BY <1>5 DEF GivesUp, Dies
  <2>3. sent' = [sent EXCEPT ![r] = <<>>]
    BY <1>5 DEF GivesUp, Dies
  <2>4. gen' \in [Gen -> GenRecord] /\ gen'[r] = NoGen /\ \A g \in Gen : g # r => gen'[g] = gen[g]
    BY <1>1, <1>2, <2>1
  <2>5. /\ log' \in [Gen -> [Log -> LogRecord]] /\ log'[r] = [l \in Log |-> NoLog]
        /\ \A g \in Gen : g # r => log'[g] = log[g]
    BY <1>1, <1>2, <2>2
  <2>6. sent' \in [Gen -> Seq(Nat)] /\ sent'[r] = <<>> /\ \A g \in Gen : g # r => sent'[g] = sent[g]
    BY <1>1, <1>2, <2>3
  <2> QED
    BY <1>3, <1>5, <2>4, <2>5, <2>6
<1> QED
  BY <1>4, <1>5

LEMMA ReadCStateIs ==
    ASSUME TypeOK, NEW r \in Recovery, ReadCState(r)
    PROVE  /\ mgr' \in [Recovery -> MgrRecord]
           /\ mgr'[r].phase = "locking" /\ mgr'[r].prev = cstate /\ mgr'[r].place = writes
           /\ \A l \in Log : mgr'[r].ends[l] = None
           /\ \A s \in Recovery : s # r => mgr'[s] = mgr[s]
<1>1. mgr \in [Recovery -> MgrRecord] /\ cstate \in CoreStates /\ writes \in Nat
  BY TypeParts
<1>2. PICK m : m = [IdleMgr EXCEPT !.phase = "locking", !.prev = cstate, !.place = writes]
  OBVIOUS
<1>3. m \in MgrRecord
  BY <1>1, <1>2, IdleTyped, MgrUpdates DEF Phases
<1>4. mgr' = [mgr EXCEPT ![r] = m]
  BY <1>2 DEF ReadCState
<1>5. m.phase = "locking" /\ m.prev = cstate /\ m.place = writes /\ \A l \in Log : m.ends[l] = None
  BY <1>2 DEF IdleMgr
<1> QED
  BY <1>1, <1>3, <1>4, <1>5

LEMMA LockReplyIs ==
    ASSUME TypeOK, NEW r \in Recovery, NEW l \in Log, TLogLockReply(r, l)
    PROVE  /\ mgr' \in [Recovery -> MgrRecord]
           /\ mgr'[r].phase = mgr[r].phase /\ mgr'[r].prev = mgr[r].prev /\ mgr'[r].place = mgr[r].place
           /\ mgr'[r].ends[l] = log[mgr[r].prev.gen][l].version
           /\ \A x \in Log : x # l => mgr'[r].ends[x] = mgr[r].ends[x]
           /\ \A s \in Recovery : s # r => mgr'[s] = mgr[s]
<1>1. mgr \in [Recovery -> MgrRecord]
  BY TypeParts
<1>2. PICK v \in Nat \cup {None} : v = log[mgr[r].prev.gen][l].version
  BY Typed
<1>3. mgr' = [mgr EXCEPT ![r].ends[l] = v]
  BY <1>2 DEF TLogLockReply
<1>4. PICK m \in MgrRecord : m = mgr[r]
  BY <1>1
<1>5. PICK p : p = [m EXCEPT !.ends[l] = v]
  OBVIOUS
<1>6. p \in MgrRecord
  BY <1>4, <1>5, MgrUpdates DEF Phases
<1>7. mgr' = [mgr EXCEPT ![r] = p]
  BY <1>3, <1>4, <1>5
<1>8. p.phase = m.phase /\ p.prev = m.prev /\ p.place = m.place /\ p.ends[l] = v /\ \A x \in Log : x # l => p.ends[x] = m.ends[x]
  BY <1>4, <1>5 DEF MgrRecord
<1> QED
  BY <1>1, <1>2, <1>4, <1>6, <1>7, <1>8

\* The recovery is the only one that changes generation r, and its entry of the list says what it says.
LEMMA EndsAtIs ==
    ASSUME TypeOK, NEW r \in Recovery, NEW end \in Nat, NEW known \in Nat, EndsAt(r, end, known)
    PROVE  /\ OldOf(mgr[r], end, known) \in Seq(OldEntry)
           /\ gen' \in [Gen -> GenRecord] /\ log' \in [Gen -> [Log -> LogRecord]]
           /\ gen'[r].at = end /\ gen'[r].known = known /\ gen'[r].count = 0
           /\ gen'[r].old = OldOf(mgr[r], end, known)
           /\ log'[r] = [l \in Log |-> NoLog]
           /\ \A g \in Gen : g # r => gen'[g] = gen[g] /\ log'[g] = log[g]
<1>1. gen \in [Gen -> GenRecord] /\ log \in [Gen -> [Log -> LogRecord]] /\ r \in Gen
  BY TypeParts, Constants
<1>2. OldOf(mgr[r], end, known) \in Seq(OldEntry)
  <2>1. mgr[r].prev.gen \in Gen /\ mgr[r].prev.old \in Seq(OldEntry)
    BY Typed
  <2>2. <<[gen |-> mgr[r].prev.gen, end |-> known + 1, at |-> end]>> \in Seq(OldEntry)
    BY <2>1 DEF OldEntry
  <2> QED
    BY <2>1, <2>2 DEF OldOf
<1>3. PICK q : q = [at |-> end, known |-> known, count |-> 0, old |-> OldOf(mgr[r], end, known)]
  OBVIOUS
<1>4. q \in GenRecord /\ q.at = end /\ q.known = known /\ q.count = 0 /\ q.old = OldOf(mgr[r], end, known)
  BY <1>2, <1>3 DEF GenRecord
<1>5. gen' = [gen EXCEPT ![r] = q] /\ log' = [log EXCEPT ![r] = [l \in Log |-> NoLog]]
  BY <1>3 DEF EndsAt
<1> QED
  BY <1>1, <1>2, <1>4, <1>5, IdleTyped

LEMMA LocksIs ==
    ASSUME TypeOK, NEW r \in Recovery, Locks(r)
    PROVE  /\ mgr' \in [Recovery -> MgrRecord] /\ cstate' \in CoreStates /\ info' \in [Recovery -> InfoRecord]
           /\ mgr'[r].phase = "recruiting" /\ mgr'[r].place = writes + 1
           /\ mgr'[r].prev = mgr[r].prev /\ mgr'[r].ends = mgr[r].ends
           /\ cstate'.gen = mgr[r].prev.gen /\ cstate'.old = mgr[r].prev.old
           /\ cstate'.count = mgr[r].prev.count + 1
           /\ info'[r].count = mgr[r].prev.count + 1 /\ info'[r].keep = Chain(mgr[r].prev)
           /\ \A s \in Recovery : s # r => mgr'[s] = mgr[s] /\ info'[s] = info[s]
<1>1. mgr \in [Recovery -> MgrRecord] /\ info \in [Recovery -> InfoRecord] /\ writes \in Nat
  BY TypeParts
<1>2. PICK m \in MgrRecord : m = mgr[r]
  BY <1>1
<1>3. PICK p : p = [m EXCEPT !.phase = "recruiting", !.place = writes + 1]
  OBVIOUS
<1>4. p \in MgrRecord
  <2>1. PICK k \in Nat : k = writes + 1
    BY <1>1
  <2>2. "recruiting" \in Phases
    BY DEF Phases
  <2> QED
    BY <1>3, <2>1, <2>2, MgrUpdates
<1>5. mgr' = [mgr EXCEPT ![r] = p]
  BY <1>1, <1>2, <1>3 DEF Locks
<1>6. p.phase = "recruiting" /\ p.place = writes + 1 /\ p.prev = m.prev /\ p.ends = m.ends
  BY <1>3 DEF MgrRecord
<1>7. PICK c \in CoreStates : c = m.prev
  BY <1>2 DEF MgrRecord
<1>8. cstate' = [c EXCEPT !.count = @ + 1]
  BY <1>2, <1>7 DEF Locks
<1>9. cstate' \in CoreStates /\ cstate'.gen = c.gen /\ cstate'.old = c.old /\ cstate'.count = c.count + 1 /\ c.count + 1 \in Nat
  BY <1>8, SMTT(30) DEF CoreStates
<1>10. PICK i : i = [count |-> c.count + 1, keep |-> Chain(c)]
  OBVIOUS
<1>11. i \in InfoRecord /\ i.count = c.count + 1 /\ i.keep = Chain(c)
  BY <1>9, <1>10, ChainTyped DEF InfoRecord
<1>12. info' = [info EXCEPT ![r] = i]
  BY <1>2, <1>7, <1>10 DEF Locks
<1> QED
  BY <1>1, <1>2, <1>4, <1>5, <1>6, <1>7, <1>9, <1>11, <1>12

LEMMA NewEpochIs ==
    ASSUME TypeOK, NEW r \in Recovery, NewEpoch(r)
    PROVE  /\ log' \in [Gen -> [Log -> LogRecord]]
           /\ \A l \in Log : /\ log'[r][l].state = "up" /\ log'[r][l].version = gen[r].at
                             /\ log'[r][l].durable = gen[r].known /\ ~ log'[r][l].finished
           /\ \A g \in Gen : g # r => log'[g] = log[g]
<1>1. log \in [Gen -> [Log -> LogRecord]] /\ r \in Gen
  BY TypeParts, Constants
<1>2. PICK q : q = [NoLog EXCEPT !.state = "up", !.version = gen[r].at, !.durable = gen[r].known]
  OBVIOUS
<1>3. gen[r].at \in Nat \cup {None} /\ gen[r].known \in Nat \cup {None}
  BY <1>1, Typed
<1>4. q \in LogRecord /\ q.state = "up" /\ q.version = gen[r].at /\ q.durable = gen[r].known /\ ~ q.finished
  BY <1>2, <1>3 DEF LogRecord, NoLog
<1>5. log' = [log EXCEPT ![r] = [l \in Log |-> q]]
  BY <1>2 DEF NewEpoch
<1> QED
  BY <1>1, <1>4, <1>5

LEMMA TransactionIs ==
    ASSUME IInv, NEW r \in Recovery, RecoveryTransaction(r)
    PROVE  /\ mgr' \in [Recovery -> MgrRecord] /\ gen' \in [Gen -> GenRecord]
           /\ sent' \in [Gen -> Seq(Nat)] /\ info' \in [Recovery -> InfoRecord]
           /\ gen[r].at # None /\ gen[r].at \in Nat
           /\ mgr'[r].phase = "transaction" /\ mgr'[r].place = mgr[r].place
           /\ mgr'[r].prev = mgr[r].prev /\ mgr'[r].ends = mgr[r].ends
           /\ gen'[r].count = mgr[r].prev.count + 2 /\ gen'[r].at = gen[r].at
           /\ gen'[r].known = gen[r].known /\ gen'[r].old = gen[r].old
           /\ sent'[r] = <<gen[r].at>>
           /\ info'[r].count = info[r].count /\ info'[r].keep = info[r].keep \cup {r}
           /\ \A s \in Recovery : s # r => mgr'[s] = mgr[s] /\ info'[s] = info[s]
           /\ \A g \in Gen : g # r => gen'[g] = gen[g] /\ sent'[g] = sent[g]
<1>0. TypeOK
  BY DEF IInv
<1>1. /\ mgr \in [Recovery -> MgrRecord] /\ info \in [Recovery -> InfoRecord] /\ gen \in [Gen -> GenRecord]
      /\ sent \in [Gen -> Seq(Nat)] /\ r \in Gen
  BY <1>0, TypeParts, Constants
<1>2. gen[r].at # None /\ gen[r].at \in Nat
  <2>1. PICK l \in Log : TRUE
    BY LogSets, FS_EmptySet DEF N
  <2>2. log[r][l].state # "none"
    BY <2>1 DEF RecoveryTransaction
  <2> QED
    BY <1>1, <2>2, LogFacts
<1>3. PICK m \in MgrRecord : m = mgr[r]
  BY <1>1
<1>4. PICK p : p = [m EXCEPT !.phase = "transaction"]
  OBVIOUS
<1>5. p \in MgrRecord
  BY <1>4, MgrUpdates DEF Phases
<1>6. mgr' = [mgr EXCEPT ![r] = p]
  BY <1>3, <1>4 DEF RecoveryTransaction
<1>7. p.phase = "transaction" /\ p.place = m.place /\ p.prev = m.prev /\ p.ends = m.ends
  BY <1>4 DEF MgrRecord
<1>8. PICK q \in GenRecord : q = gen[r]
  BY <1>1
<1>9. PICK c \in Nat : c = m.prev.count + 2
  BY DEF MgrRecord, CoreStates
<1>10. PICK n : n = [q EXCEPT !.count = c]
  OBVIOUS
<1>11. n \in GenRecord /\ n.count = c /\ n.at = q.at /\ n.known = q.known /\ n.old = q.old
  BY <1>10 DEF GenRecord
<1>12. gen' = [gen EXCEPT ![r] = n]
  BY <1>3, <1>8, <1>9, <1>10 DEF RecoveryTransaction
<1>13. sent' = [sent EXCEPT ![r] = <<gen[r].at>>] /\ <<gen[r].at>> \in Seq(Nat)
  BY <1>2 DEF RecoveryTransaction
<1>14. PICK i \in InfoRecord : i = info[r]
  BY <1>1
<1>15. PICK j : j = [i EXCEPT !.keep = @ \cup {r}]
  OBVIOUS
<1>16. j \in InfoRecord /\ j.count = i.count /\ j.keep = i.keep \cup {r}
  BY <1>1, <1>15 DEF InfoRecord
<1>17. info' = [info EXCEPT ![r] = j]
  BY <1>14, <1>15 DEF RecoveryTransaction
<1>18. /\ mgr' \in [Recovery -> MgrRecord] /\ mgr'[r] = p /\ info' \in [Recovery -> InfoRecord] /\ info'[r] = j
       /\ \A s \in Recovery : s # r => mgr'[s] = mgr[s] /\ info'[s] = info[s]
  BY <1>1, <1>5, <1>6, <1>16, <1>17
<1>19. /\ gen' \in [Gen -> GenRecord] /\ gen'[r] = n /\ sent' \in [Gen -> Seq(Nat)] /\ sent'[r] = <<gen[r].at>>
       /\ \A g \in Gen : g # r => gen'[g] = gen[g] /\ sent'[g] = sent[g]
  BY <1>1, <1>11, <1>12, <1>13
<1> QED
  BY <1>2, <1>3, <1>7, <1>8, <1>9, <1>11, <1>14, <1>16, <1>18, <1>19

LEMMA AcceptsIs ==
    ASSUME IInv, NEW r \in Recovery, Accepts(r)
    PROVE  /\ mgr' \in [Recovery -> MgrRecord] /\ cstate' \in CoreStates /\ info' \in [Recovery -> InfoRecord]
           /\ committed' \in [Gen -> Nat \cup {None}]
           /\ gen[r].at # None /\ RecoveryTransactionVersion(r) \in Nat
           /\ mgr'[r].phase = "accepting" /\ mgr'[r].place = writes + 1
           /\ committed'[r] = RecoveryTransactionVersion(r)
           /\ info'[r].count = gen[r].count /\ info'[r].keep = Chain(CoreState(r))
           /\ \A s \in Recovery : s # r => mgr'[s] = mgr[s] /\ info'[s] = info[s]
           /\ \A g \in Gen : g # r => committed'[g] = committed[g]
<1>0. TypeOK /\ InvPhase
  BY DEF IInv
<1>1. /\ mgr \in [Recovery -> MgrRecord] /\ info \in [Recovery -> InfoRecord] /\ writes \in Nat
      /\ committed \in [Gen -> Nat \cup {None}] /\ r \in Gen
  BY <1>0, TypeParts, Constants
<1>2. CoreState(r) \in CoreStates /\ gen[r].count \in Nat
  BY <1>0, <1>1, CoreTyped, Typed
<1>3. gen[r].at # None /\ RecoveryTransactionVersion(r) \in Nat
  BY <1>0, <1>1, VersionsOf DEF Accepts, InvPhase
<1>4. PICK p : p = [IdleMgr EXCEPT !.phase = "accepting", !.place = writes + 1]
  OBVIOUS
<1>5. p \in MgrRecord
  <2>1. PICK k \in Nat : k = writes + 1
    BY <1>1
  <2>2. "accepting" \in Phases
    BY DEF Phases
  <2> QED
    BY <1>4, <2>1, <2>2, IdleTyped, MgrUpdates
<1>6. p.phase = "accepting" /\ p.place = writes + 1
  BY <1>4 DEF IdleMgr
<1>7. mgr' = [mgr EXCEPT ![r] = p]
  BY <1>4 DEF Accepts
<1>8. PICK i : i = [count |-> gen[r].count, keep |-> Chain(CoreState(r))]
  OBVIOUS
<1>9. i \in InfoRecord /\ i.count = gen[r].count /\ i.keep = Chain(CoreState(r))
  BY <1>2, <1>8, ChainTyped DEF InfoRecord
<1>10. info' = [info EXCEPT ![r] = i]
  BY <1>8 DEF Accepts
<1>11. committed' = [committed EXCEPT ![r] = RecoveryTransactionVersion(r)] /\ cstate' = CoreState(r)
  BY DEF Accepts
<1>12. /\ mgr' \in [Recovery -> MgrRecord] /\ mgr'[r] = p /\ info' \in [Recovery -> InfoRecord] /\ info'[r] = i
       /\ \A s \in Recovery : s # r => mgr'[s] = mgr[s] /\ info'[s] = info[s]
  BY <1>1, <1>5, <1>7, <1>9, <1>10
<1>13. /\ committed' \in [Gen -> Nat \cup {None}] /\ committed'[r] = RecoveryTransactionVersion(r)
       /\ \A g \in Gen : g # r => committed'[g] = committed[g]
  BY <1>1, <1>3, <1>11
<1> QED
  BY <1>2, <1>3, <1>6, <1>9, <1>11, <1>12, <1>13

LEMMA UpdatesIs ==
    ASSUME TypeOK, NEW r \in Recovery, Updates(r)
    PROVE  /\ mgr' \in [Recovery -> MgrRecord] /\ cstate' \in CoreStates /\ info' \in [Recovery -> InfoRecord]
           /\ mgr'[r].phase = "accepting" /\ mgr'[r].place = writes + 1
           /\ info'[r].count = info[r].count /\ info'[r].keep = Chain(CoreState(r))
           /\ \A s \in Recovery : s # r => mgr'[s] = mgr[s] /\ info'[s] = info[s]
<1>1. mgr \in [Recovery -> MgrRecord] /\ info \in [Recovery -> InfoRecord] /\ writes \in Nat
  BY TypeParts
<1>2. CoreState(r) \in CoreStates /\ cstate' = CoreState(r)
  BY CoreTyped DEF Updates
<1>3. PICK m \in MgrRecord : m = mgr[r]
  BY <1>1
<1>4. PICK p : p = [m EXCEPT !.place = writes + 1]
  OBVIOUS
<1>5. p \in MgrRecord
  <2>1. PICK k \in Nat : k = writes + 1
    BY <1>1
  <2>2. "accepting" \in Phases
    BY DEF Phases
  <2> QED
    BY <1>4, <2>1, <2>2, MgrUpdates
<1>6. p.phase = m.phase /\ p.place = writes + 1
  BY <1>4 DEF MgrRecord
<1>7. mgr' = [mgr EXCEPT ![r] = p] /\ m.phase = "accepting"
  BY <1>3, <1>4 DEF Updates
<1>8. PICK i \in InfoRecord : i = info[r]
  BY <1>1
<1>9. PICK j : j = [i EXCEPT !.keep = Chain(CoreState(r))]
  OBVIOUS
<1>10. j \in InfoRecord /\ j.count = i.count /\ j.keep = Chain(CoreState(r))
  BY <1>2, <1>9, ChainTyped DEF InfoRecord
<1>11. info' = [info EXCEPT ![r] = j]
  BY <1>8, <1>9 DEF Updates
<1>12. /\ mgr' \in [Recovery -> MgrRecord] /\ mgr'[r] = p /\ info' \in [Recovery -> InfoRecord] /\ info'[r] = j
       /\ \A s \in Recovery : s # r => mgr'[s] = mgr[s] /\ info'[s] = info[s]
  BY <1>1, <1>5, <1>7, <1>10, <1>11
<1> QED
  BY <1>2, <1>6, <1>7, <1>8, <1>10, <1>12

\* The list of generation r is cut before its element i.
PurgesAt(r, i) ==
    LET old == gen[r].old IN
    /\ old[i].at < Unpopped(old)
    /\ gen'[r].old \in Seq(OldEntry) /\ Len(gen'[r].old) = i - 1
    /\ \A j \in 1 .. (i - 1) : gen'[r].old[j] = old[j]
    /\ info'[r].keep = {r} \cup {gen'[r].old[j].gen : j \in DOMAIN gen'[r].old}

LEMMA PurgeIs ==
    ASSUME TypeOK, NEW r \in Recovery, Purge(r)
    PROVE  /\ gen' \in [Gen -> GenRecord] /\ info' \in [Recovery -> InfoRecord]
           /\ \E i \in DOMAIN gen[r].old : PurgesAt(r, i)
           /\ gen'[r].at = gen[r].at /\ gen'[r].known = gen[r].known /\ gen'[r].count = gen[r].count
           /\ info'[r].count = info[r].count
           /\ \A g \in Gen : g # r => gen'[g] = gen[g]
           /\ \A s \in Recovery : s # r => info'[s] = info[s]
<1>1. gen \in [Gen -> GenRecord] /\ info \in [Recovery -> InfoRecord] /\ r \in Gen /\ gen[r].old \in Seq(OldEntry)
  BY TypeParts, Typed, Constants
<1>2. PICK i \in DOMAIN gen[r].old :
         LET kept == SubSeq(gen[r].old, 1, i - 1) IN
         /\ gen[r].old[i].at < Unpopped(gen[r].old)
         /\ gen' = [gen EXCEPT ![r].old = kept]
         /\ info' = [info EXCEPT ![r].keep = {r} \cup {kept[j].gen : j \in DOMAIN kept}]
  BY DEF Purge
<1>3. PICK kept : kept = SubSeq(gen[r].old, 1, i - 1)
  OBVIOUS
<1>4. kept \in Seq(OldEntry) /\ Len(kept) = i - 1 /\ DOMAIN kept = 1 .. (i - 1) /\ \A j \in 1 .. (i - 1) : kept[j] = gen[r].old[j]
  <2>1. PICK old \in Seq(OldEntry) : old = gen[r].old
    BY <1>1
  <2>2. i \in 1 .. Len(old) /\ Len(old) \in Nat
    BY <1>2, <2>1
  <2>3. kept = SubSeq(old, 1, i - 1)
    BY <1>3, <2>1
  <2>4. Len(kept) = i - 1 /\ \A j \in 1 .. (i - 1) : kept[j] = old[j]
    BY <2>2, <2>3
  <2>5. kept \in Seq(OldEntry)
    BY <2>2, <2>3, SubSeqProperties
  <2> QED
    BY <2>1, <2>4, <2>5
<1>5. \A j \in DOMAIN kept : kept[j] \in OldEntry
  BY <1>4
<1>6. PICK K \in SUBSET Gen : K = {r} \cup {kept[j].gen : j \in DOMAIN kept}
  BY <1>1, <1>5 DEF OldEntry
<1>7. gen' = [gen EXCEPT ![r].old = kept] /\ info' = [info EXCEPT ![r].keep = K] /\ gen[r].old[i].at < Unpopped(gen[r].old)
  BY <1>2, <1>3, <1>6
<1>8. PICK q \in GenRecord : q = gen[r]
  BY <1>1
<1>9. PICK n : n = [q EXCEPT !.old = kept]
  OBVIOUS
<1>10. n \in GenRecord /\ n.old = kept /\ n.at = q.at /\ n.known = q.known /\ n.count = q.count
  BY <1>4, <1>9 DEF GenRecord
<1>11. PICK k \in InfoRecord : k = info[r]
  BY <1>1
<1>12. PICK j : j = [k EXCEPT !.keep = K]
  OBVIOUS
<1>13. j \in InfoRecord /\ j.count = k.count /\ j.keep = K
  BY <1>12 DEF InfoRecord
<1>14. gen' = [gen EXCEPT ![r] = n] /\ info' = [info EXCEPT ![r] = j]
  BY <1>7, <1>8, <1>9, <1>11, <1>12
<1>15. /\ gen' \in [Gen -> GenRecord] /\ gen'[r] = n /\ info' \in [Recovery -> InfoRecord] /\ info'[r] = j
       /\ \A g \in Gen : g # r => gen'[g] = gen[g]
       /\ \A s \in Recovery : s # r => info'[s] = info[s]
  BY <1>1, <1>10, <1>13, <1>14
<1>16. PurgesAt(r, i)
  <2>1. gen'[r].old = kept /\ info'[r].keep = K
    BY <1>10, <1>13, <1>15
  <2>2. info'[r].keep = {r} \cup {gen'[r].old[x].gen : x \in DOMAIN gen'[r].old}
    BY <1>6, <2>1
  <2> QED
    BY <1>4, <1>7, <2>1, <2>2 DEF PurgesAt
<1> QED
  BY <1>8, <1>10, <1>11, <1>13, <1>15, <1>16

LEMMA TypeStep ==
    ASSUME IInv, [Next]_vars
    PROVE  TypeOK'
<1>0. TypeOK /\ InvPhase /\ InvSent /\ InvLog /\ InvChain
  BY DEF IInv
<1>a. /\ cstate \in CoreStates /\ writes \in Nat /\ mgr \in [Recovery -> MgrRecord]
      /\ gen \in [Gen -> GenRecord] /\ log \in [Gen -> [Log -> LogRecord]]
      /\ sent \in [Gen -> Seq(Nat)] /\ committed \in [Gen -> Nat \cup {None}]
      /\ info \in [Recovery -> InfoRecord] /\ stored \in Nat /\ reader \in ReaderRecord
      /\ left \in [Bounded -> Nat]
  BY <1>0, TypeParts
<1>b. \A r \in Recovery : r \in Gen
  BY Constants
<1>1. CASE UNCHANGED vars
  BY <1>1, <1>a, TypeParts DEF vars
<1>2. ASSUME NEW g \in Gen, NEW l \in Log, LogChange(g, l)
      PROVE  TypeOK'
  <2>1. log' \in [Gen -> [Log -> LogRecord]]
    BY <1>0, <1>2, ChangePointwise
  <2> QED
    BY <1>2, <1>a, <2>1, TypeParts DEF LogChange, SameButLog
<1>3. ASSUME NEW g \in Gen, Push(g) PROVE TypeOK'
  <2>1. committed[g] \in Nat
    BY <1>0, <1>3, CommittedTyped DEF Push
  <2>2. Append(sent[g], committed[g]) \in Seq(Nat)
    BY <1>a, <2>1
  <2>3. sent' \in [Gen -> Seq(Nat)]
    BY <1>3, <1>a, <2>2 DEF Push
  <2> QED
    BY <1>3, <1>a, <2>3, TypeParts DEF Push
<1>4. ASSUME NEW g \in Gen, Answer(g) PROVE TypeOK'
  <2>1. committed[g] \in Nat
    BY <1>0, <1>4, CommittedTyped DEF Answer
  <2>2. committed' \in [Gen -> Nat \cup {None}]
    BY <1>4, <1>a, <2>1 DEF Answer
  <2> QED
    BY <1>4, <1>a, <2>2, TypeParts DEF Answer
<1>5. CASE ReaderStep
  <2>1. ASSUME NEW g \in Gen, AskReadVersion(g) PROVE TypeOK'
    <3>1. committed[g] \in Nat /\ Answered \in Nat
      BY <1>0, <2>1, CommittedTyped, LatestAnswer DEF AskReadVersion
    <3>2. reader' \in ReaderRecord
      BY <2>1, <3>1 DEF AskReadVersion, ReaderRecord
    <3>3. left' \in [Bounded -> Nat]
      BY <1>0, <2>1, Spending DEF AskReadVersion, Bounded
    <3> QED
      BY <1>a, <2>1, <3>2, <3>3, TypeParts DEF AskReadVersion
  <2>2. ASSUME NEW l \in Log, ConfirmRunning(l) PROVE TypeOK'
    <3>1. reader' \in ReaderRecord
      BY <1>a, <2>2 DEF ConfirmRunning, ReaderRecord
    <3> QED
      BY <1>a, <2>2, <3>1, TypeParts DEF ConfirmRunning
  <2>3. ASSUME SendReadVersion PROVE TypeOK'
    <3>1. reader' \in ReaderRecord
      BY <1>a, <2>3 DEF SendReadVersion, ReaderRecord
    <3> QED
      BY <1>a, <2>3, <3>1, TypeParts DEF SendReadVersion
  <2> QED
    BY <1>5, <2>1, <2>2, <2>3 DEF ReaderStep
<1>6. ASSUME NEW g \in Gen, StorageDurable(g) PROVE TypeOK'
  <2>1. PICK l \in Log : /\ log[g][l].state = "up"
                         /\ stored' = KnownCommitted(g, log[g][l].version)
    BY <1>6 DEF StorageDurable
  <2>2. Accepted(g) /\ Point(g, log[g][l].version)
    BY <1>0, <1>6, <2>1 DEF StorageDurable, InvLog
  <2>3. stored' \in Nat
    BY <1>0, <2>1, <2>2, KnownIs
  <2>4. left' \in [Bounded -> Nat]
    BY <1>0, <1>6, Spending DEF StorageDurable, Bounded
  <2> QED
    BY <1>6, <1>a, <2>3, <2>4, TypeParts DEF StorageDurable
<1>7. ASSUME NEW r \in Recovery, GivesUp(r) PROVE TypeOK'
  BY <1>0, <1>7, <1>a, GivesUpIs, TypeParts DEF GivesUp
<1>8. ASSUME NEW r \in Recovery, ReadCState(r) PROVE TypeOK'
  BY <1>0, <1>8, <1>a, ReadCStateIs, TypeParts DEF ReadCState
<1>9. ASSUME NEW r \in Recovery, NEW l \in Log, TLogLockReply(r, l) PROVE TypeOK'
  BY <1>0, <1>9, <1>a, LockReplyIs, TypeParts DEF TLogLockReply
<1>10. ASSUME NEW r \in Recovery, NEW results \in SUBSET Log, EpochEnd(r, results) PROVE TypeOK'
  <2>1. PICK end, known \in Nat : EndsAt(r, end, known)
    BY <1>10, EpochEnds
  <2> QED
    BY <1>0, <1>a, <2>1, EndsAtIs, TypeParts DEF EndsAt
<1>11. ASSUME NEW r \in Recovery, Locks(r) PROVE TypeOK'
  <2>1. writes' \in Nat
    BY <1>11, <1>a DEF Locks
  <2> QED
    BY <1>0, <1>11, <1>a, <2>1, LocksIs, TypeParts DEF Locks
<1>12. ASSUME NEW r \in Recovery, NewEpoch(r) PROVE TypeOK'
  BY <1>0, <1>12, <1>a, NewEpochIs, TypeParts DEF NewEpoch
<1>13. ASSUME NEW r \in Recovery, RecoveryTransaction(r) PROVE TypeOK'
  BY <1>13, <1>a, TransactionIs, TypeParts DEF RecoveryTransaction
<1>14. ASSUME NEW r \in Recovery, Accepts(r) PROVE TypeOK'
  <2>1. writes' \in Nat
    BY <1>14, <1>a DEF Accepts
  <2> QED
    BY <1>14, <1>a, <2>1, AcceptsIs, TypeParts DEF Accepts
<1>15. ASSUME NEW r \in Recovery, Updates(r) PROVE TypeOK'
  <2>1. writes' \in Nat
    BY <1>15, <1>a DEF Updates
  <2> QED
    BY <1>0, <1>15, <1>a, <2>1, UpdatesIs, TypeParts DEF Updates
<1>16. ASSUME NEW r \in Recovery, Purge(r) PROVE TypeOK'
  BY <1>0, <1>16, <1>a, PurgeIs, TypeParts DEF Purge
<1> QED
  BY <1>1, <1>2, <1>3, <1>4, <1>5, <1>6, <1>7, <1>8, <1>9, <1>10, <1>11, <1>12, <1>13, <1>14,
     <1>15, <1>16, Steps

-----------------------------------------------------------------------------
(***************************************************************************)
(* Recoveries, and what proxies send.                                      *)
(***************************************************************************)

LEMMA PhaseStep ==
    ASSUME IInv, TypeOK', [Next]_vars
    PROVE  InvPhase'
<1>0. TypeOK /\ InvPhase /\ InvLog /\ InvChain
  BY DEF IInv
<1>b. /\ \A r \in Recovery : r \in Gen /\ r # 0
      /\ \A g \in Gen : gen[g].at \in Nat \cup {None} /\ gen[g].known \in Nat \cup {None} /\ committed[g] \in Nat \cup {None}
      /\ None \in Int /\ None < 0 /\ None \notin Nat
      /\ \E l \in Log : TRUE
  <2>1. \E l \in Log : TRUE
    BY LogSets, FS_EmptySet DEF N
  <2> QED
    BY <1>0, <2>1, Constants, Typed
<1>1. CASE UNCHANGED <<committed, gen, log, mgr>>
  BY <1>0, <1>1 DEF InvPhase, Accepted
<1>2. ASSUME NEW g \in Gen, NEW l \in Log, LogChange(g, l)
      PROVE  InvPhase'
  <2>1. /\ \A h \in Gen, x \in Log : h # g \/ x # l => log'[h][x] = log[h][x]
        /\ log'[g][l].state # "none" /\ log[g][l].state # "none"
        /\ gen' = gen /\ committed' = committed /\ mgr' = mgr /\ gen[g].at # None
    BY <1>0, <1>2, ChangePointwise, LogFacts DEF LogChange, SameButLog, MayBecome
  <2>2. \A h \in Gen, x \in Log : log[h][x].state # "none" => log'[h][x].state # "none"
    BY <2>1
  <2>3. \A h \in Gen, x \in Log : gen[h].at = None => log'[h][x] = log[h][x]
    BY <2>1
  <2> QED
    BY <1>0, <1>b, <2>1, <2>2, <2>3 DEF InvPhase, Accepted
<1>3. ASSUME NEW g \in Gen, Answer(g) PROVE InvPhase'
  <2>1. /\ committed' = [committed EXCEPT ![g] = @ + 1] /\ gen' = gen /\ log' = log /\ mgr' = mgr
        /\ Accepted(g)
    BY <1>3 DEF Answer
  <2>2. committed[g] \in Nat /\ committed \in [Gen -> Nat \cup {None}]
    BY <1>0, <2>1, CommittedTyped DEF TypeOK
  <2>3. \A h \in Gen : Accepted(h)' <=> Accepted(h)
    BY <1>b, <2>1, <2>2 DEF Accepted
  <2>4. 0 \in Gen
    BY Constants
  <2> QED
    BY <1>0, <1>b, <2>1, <2>3, <2>4 DEF InvPhase
<1>4. ASSUME NEW r \in Recovery, GivesUp(r) PROVE InvPhase'
  <2>1. committed' = committed /\ mgr[r].phase # "idle"
    BY <1>4 DEF GivesUp
  <2>2. mgr'[r].phase = "dead" /\ \A s \in Recovery : s # r => mgr'[s] = mgr[s]
    BY <1>0, <1>4, GivesUpIs, IdleTyped
  <2>3. \A g \in Gen : g # r \/ Accepted(r) => gen'[g] = gen[g] /\ log'[g] = log[g]
    BY <1>0, <1>4, GivesUpIs
  <2>4. ~ Accepted(r) => gen'[r].at = None /\ gen'[r].known = None /\ \A l \in Log : log'[r][l] = NoLog
    BY <1>0, <1>4, GivesUpIs, IdleTyped
  <2>5. \A g \in Gen : Accepted(g)' <=> Accepted(g)
    BY <2>1 DEF Accepted
  <2>6. 0 \in Gen
    BY Constants
  <2>7. ASSUME NEW g \in Gen
        PROVE  /\ Accepted(g)' => gen'[g].at # None /\ \A l \in Log : log'[g][l].state # "none"
               /\ gen'[g].at = None => gen'[g].known = None /\ \A l \in Log : log'[g][l] = NoLog
               /\ gen'[g].at # None => 0 <= gen'[g].known /\ gen'[g].known <= gen'[g].at
    BY <1>0, <1>b, <2>3, <2>4, <2>5 DEF InvPhase
  <2>8. ASSUME NEW s \in Recovery
        PROVE  /\ mgr'[s].phase # "accepting" /\ mgr'[s].phase # "dead" => ~ Accepted(s)'
               /\ mgr'[s].phase = "accepting" => Accepted(s)'
               /\ mgr'[s].phase = "idle" => gen'[s].at = None
               /\ mgr'[s].phase = "dead" /\ ~ Accepted(s)' => gen'[s].at = None
               /\ gen'[s].at # None => gen'[s].at > 0
               /\ mgr'[s].phase = "transaction" => gen'[s].at # None /\ gen'[s].count = mgr'[s].prev.count + 2
               /\ mgr'[s].phase = "transaction" => \A l \in Log : log'[s][l].state # "none"
    BY <1>0, <1>b, <2>2, <2>3, <2>4, <2>5 DEF InvPhase
  <2> QED
    BY <1>0, <1>b, <2>3, <2>5, <2>6, <2>7, <2>8 DEF InvPhase
<1>5. ASSUME NEW r \in Recovery, ReadCState(r) PROVE InvPhase'
  <2>1. UNCHANGED <<gen, log, committed>> /\ mgr[r].phase = "idle"
    BY <1>5 DEF ReadCState
  <2>2. mgr'[r].phase = "locking" /\ \A s \in Recovery : s # r => mgr'[s] = mgr[s]
    BY <1>0, <1>5, ReadCStateIs
  <2> QED
    BY <1>0, <2>1, <2>2 DEF InvPhase, Accepted
<1>6. ASSUME NEW r \in Recovery, NEW l \in Log, TLogLockReply(r, l) PROVE InvPhase'
  <2>1. UNCHANGED <<gen, log, committed>>
    BY <1>6 DEF TLogLockReply
  <2>2. \A s \in Recovery : mgr'[s].phase = mgr[s].phase /\ mgr'[s].prev = mgr[s].prev
    BY <1>0, <1>6, LockReplyIs
  <2> QED
    BY <1>0, <2>1, <2>2 DEF InvPhase, Accepted
<1>7. ASSUME NEW r \in Recovery, NEW results \in SUBSET Log, EpochEnd(r, results) PROVE InvPhase'
  <2>1. PICK end, known \in Nat : EndsAt(r, end, known)
    BY <1>7, EpochEnds
  <2>2. UNCHANGED <<mgr, committed>> /\ ~ Accepted(r) /\ known <= end /\ end > 0 /\ mgr[r].phase \in {"locking", "recruiting"}
    BY <2>1 DEF EndsAt, Ending
  <2>3. /\ gen'[r].at = end /\ gen'[r].known = known
        /\ \A g \in Gen : g # r => gen'[g] = gen[g] /\ log'[g] = log[g]
    BY <1>0, <2>1, EndsAtIs
  <2>4. \A g \in Gen : Accepted(g)' <=> Accepted(g)
    BY <2>2 DEF Accepted
  <2>5. end # None
    BY <1>b
  <2>6. ASSUME NEW g \in Gen
        PROVE  /\ Accepted(g)' => gen'[g].at # None /\ \A l \in Log : log'[g][l].state # "none"
               /\ gen'[g].at = None => gen'[g].known = None /\ \A l \in Log : log'[g][l] = NoLog
               /\ gen'[g].at # None => 0 <= gen'[g].known /\ gen'[g].known <= gen'[g].at
    BY <1>0, <1>b, <2>2, <2>3, <2>4, <2>5 DEF InvPhase
  <2>7. ASSUME NEW s \in Recovery
        PROVE  /\ mgr'[s].phase # "accepting" /\ mgr'[s].phase # "dead" => ~ Accepted(s)'
               /\ mgr'[s].phase = "accepting" => Accepted(s)'
               /\ mgr'[s].phase = "idle" => gen'[s].at = None
               /\ mgr'[s].phase = "dead" /\ ~ Accepted(s)' => gen'[s].at = None
               /\ gen'[s].at # None => gen'[s].at > 0
               /\ mgr'[s].phase = "transaction" => gen'[s].at # None /\ gen'[s].count = mgr'[s].prev.count + 2
               /\ mgr'[s].phase = "transaction" => \A l \in Log : log'[s][l].state # "none"
    BY <1>0, <1>b, <2>2, <2>3, <2>4, <2>5 DEF InvPhase
  <2>8. 0 \in Gen
    BY Constants
  <2> QED
    BY <1>0, <1>b, <2>3, <2>4, <2>6, <2>7, <2>8 DEF InvPhase
<1>8. ASSUME NEW r \in Recovery, Locks(r) PROVE InvPhase'
  <2>1. UNCHANGED <<gen, log, committed>> /\ mgr[r].phase = "locking"
    BY <1>8 DEF Locks
  <2>2. mgr'[r].phase = "recruiting" /\ \A s \in Recovery : s # r => mgr'[s] = mgr[s]
    BY <1>0, <1>8, LocksIs
  <2> QED
    BY <1>0, <2>1, <2>2 DEF InvPhase, Accepted
<1>9. ASSUME NEW r \in Recovery, NewEpoch(r) PROVE InvPhase'
  <2>1. UNCHANGED <<gen, mgr, committed>> /\ gen[r].at # None /\ mgr[r].phase = "recruiting"
    BY <1>9 DEF NewEpoch
  <2>2. (\A l \in Log : log'[r][l].state = "up") /\ \A g \in Gen : g # r => log'[g] = log[g]
    BY <1>0, <1>9, NewEpochIs
  <2> QED
    BY <1>0, <1>b, <2>1, <2>2 DEF InvPhase, Accepted
<1>10. ASSUME NEW r \in Recovery, RecoveryTransaction(r) PROVE InvPhase'
  <2>1. UNCHANGED <<log, committed>> /\ mgr[r].phase = "recruiting" /\ \A l \in Log : log[r][l].state = "up"
    BY <1>10 DEF RecoveryTransaction
  <2>2. /\ gen[r].at # None /\ mgr'[r].phase = "transaction" /\ mgr'[r].prev = mgr[r].prev
        /\ gen'[r].count = mgr[r].prev.count + 2 /\ gen'[r].at = gen[r].at /\ gen'[r].known = gen[r].known
        /\ \A s \in Recovery : s # r => mgr'[s] = mgr[s]
        /\ \A g \in Gen : g # r => gen'[g] = gen[g]
    BY <1>10, TransactionIs
  <2>3. \A g \in Gen : gen'[g].at = gen[g].at /\ gen'[g].known = gen[g].known
    BY <2>2
  <2>4. 0 \in Gen
    BY Constants
  <2> QED
    BY <1>0, <1>b, <2>1, <2>2, <2>3, <2>4 DEF InvPhase, Accepted
<1>11. ASSUME NEW r \in Recovery, Accepts(r) PROVE InvPhase'
  <2>1. UNCHANGED <<gen, log>> /\ mgr[r].phase = "transaction"
    BY <1>11 DEF Accepts
  <2>2. /\ mgr'[r].phase = "accepting" /\ committed'[r] \in Nat
        /\ \A s \in Recovery : s # r => mgr'[s] = mgr[s]
        /\ \A g \in Gen : g # r => committed'[g] = committed[g]
    BY <1>11, AcceptsIs
  <2>3. Accepted(r)' /\ \A g \in Gen : g # r => (Accepted(g)' <=> Accepted(g))
    BY <1>b, <2>2 DEF Accepted
  <2>4. 0 \in Gen
    BY Constants
  <2> QED
    BY <1>0, <1>b, <2>1, <2>2, <2>3, <2>4 DEF InvPhase
<1>12. ASSUME NEW r \in Recovery, Updates(r) PROVE InvPhase'
  <2>1. UNCHANGED <<gen, log, committed>> /\ mgr[r].phase = "accepting"
    BY <1>12 DEF Updates
  <2>2. mgr'[r].phase = "accepting" /\ \A s \in Recovery : s # r => mgr'[s] = mgr[s]
    BY <1>0, <1>12, UpdatesIs
  <2> QED
    BY <1>0, <2>1, <2>2 DEF InvPhase, Accepted
<1>13. ASSUME NEW r \in Recovery, Purge(r) PROVE InvPhase'
  <2>1. UNCHANGED <<mgr, log, committed>>
    BY <1>13 DEF Purge
  <2>2. \A g \in Gen : gen'[g].at = gen[g].at /\ gen'[g].known = gen[g].known /\ gen'[g].count = gen[g].count
    BY <1>0, <1>13, PurgeIs
  <2>3. 0 \in Gen
    BY Constants
  <2> QED
    BY <1>0, <1>b, <2>1, <2>2, <2>3 DEF InvPhase, Accepted
<1>14. (UNCHANGED vars) \/ ReaderStep \/ (\E g \in Gen : Push(g) \/ StorageDurable(g)) => UNCHANGED <<committed, gen, log, mgr>>
  BY DEF vars, ReaderStep, AskReadVersion, ConfirmRunning, SendReadVersion, Push, StorageDurable
<1> QED
  BY <1>1, <1>2, <1>3, <1>4, <1>5, <1>6, <1>7, <1>8, <1>9, <1>10, <1>11, <1>12, <1>13, <1>14, Steps

\* The versions of a generation are the same while its beginning and its pushes are.
LEMMA SameVersions ==
    ASSUME NEW g, gen'[g].at = gen[g].at
    PROVE  /\ RecoveryTransactionVersion(g)' = RecoveryTransactionVersion(g)
           /\ sent'[g] = sent[g] => LastSent(g)' = LastSent(g)
           /\ sent'[g] = sent[g] /\ gen'[g].known = gen[g].known =>
                 \A v : /\ (Point(g, v)' <=> Point(g, v)) /\ KnownCommitted(g, v)' = KnownCommitted(g, v)
                        /\ \A e : Covers(g, e, v)' <=> Covers(g, e, v)
<1>1. RecoveryTransactionVersion(g)' = RecoveryTransactionVersion(g)
  BY DEF RecoveryTransactionVersion
<1>2. sent'[g] = sent[g] => LastSent(g)' = LastSent(g)
  BY <1>1 DEF LastSent
<1> QED
  BY <1>1, <1>2 DEF Point, KnownCommitted, Covers

\* What the proxies of g sent, in terms of what they answered.
SentOK(g) ==
    /\ RecoveryTransactionVersion(g) <= committed[g]
    /\ committed[g] <= LastSent(g)
    /\ LastSent(g) <= committed[g] + Window
    /\ \A i \in DOMAIN sent[g] : gen[g].at <= sent[g][i] /\ sent[g][i] <= committed[g]

LEMMA SentSame ==
    ASSUME NEW g, SentOK(g), gen'[g].at = gen[g].at, sent'[g] = sent[g], committed'[g] = committed[g]
    PROVE  SentOK(g)'
  BY SameVersions DEF SentOK

LEMMA SentStep ==
    ASSUME IInv, TypeOK', InvPhase', [Next]_vars
    PROVE  InvSent'
<1>0. TypeOK /\ InvPhase /\ InvSent /\ InvLog /\ InvChain
  BY DEF IInv
<1>a. Advance
  BY Advances
<1>b. /\ \A r \in Recovery : r \in Gen /\ r # 0
      /\ \A g \in Gen : Accepted(g) => SentOK(g) /\ gen'[g].at = gen[g].at /\ Accepted(g)'
  BY <1>0, <1>a, Constants DEF InvSent, SentOK, Advance, KeepsGoing
<1>c. ASSUME /\ \A g \in Gen : Accepted(g)' => SentOK(g)'
             /\ \A r \in Recovery : ~ Accepted(r)' =>
                   sent'[r] = IF mgr'[r].phase = "transaction" THEN <<gen'[r].at>> ELSE <<>>
      PROVE  InvSent'
  BY <1>c DEF InvSent, SentOK
<1>d. ASSUME \A r \in Recovery : /\ sent'[r] = sent[r]
                                 /\ ~ Accepted(r) => /\ mgr'[r].phase = "transaction" <=> mgr[r].phase = "transaction"
                                                     /\ mgr[r].phase = "transaction" => gen'[r].at = gen[r].at,
             sent'[0] = sent[0], committed' = committed
      PROVE  InvSent'
  <2>1. \A g \in Gen : Accepted(g)' <=> Accepted(g)
    BY <1>d DEF Accepted
  <2>2. \A g \in Gen : sent'[g] = sent[g]
    BY <1>d, Constants
  <2>3. \A g \in Gen : Accepted(g)' => SentOK(g)'
    BY <1>b, <1>d, <2>1, <2>2, SentSame
  <2>4. ASSUME NEW r \in Recovery, ~ Accepted(r)'
        PROVE  sent'[r] = IF mgr'[r].phase = "transaction" THEN <<gen'[r].at>> ELSE <<>>
    BY <1>0, <1>b, <1>d, <2>1, <2>4 DEF InvSent
  <2> QED
    BY <1>c, <2>3, <2>4
<1>1. CASE UNCHANGED <<committed, gen, sent, mgr>>
  BY <1>1, <1>d
<1>2. ASSUME NEW g \in Gen, NEW l \in Log, LogChange(g, l)
      PROVE  InvSent'
  BY <1>2, <1>1 DEF LogChange, SameButLog
<1>3. ASSUME NEW g \in Gen, Push(g) PROVE InvSent'
  <2>1. /\ Accepted(g) /\ LastSent(g) < committed[g] + Window /\ sent' = [sent EXCEPT ![g] = Append(@, committed[g])]
        /\ UNCHANGED <<mgr, gen, committed>>
    BY <1>3 DEF Push
  <2>2. sent \in [Gen -> Seq(Nat)] /\ committed[g] \in Nat /\ gen[g].at # None /\ gen[g].at \in Nat
    BY <1>0, <2>1, CommittedTyped, TypeParts
  <2>3. PICK s \in Seq(Nat), c \in Nat : s = sent[g] /\ c = committed[g]
    BY <2>2
  <2>4. sent'[g] = Append(s, c) /\ \A h \in Gen : h # g => sent'[h] = sent[h]
    BY <2>1, <2>2, <2>3
  <2>5. /\ Len(sent'[g]) = Len(s) + 1 /\ Len(s) \in Nat /\ DOMAIN sent'[g] = 1 .. (Len(s) + 1)
        /\ \A i \in 1 .. Len(s) : sent'[g][i] = s[i]
        /\ sent'[g][Len(s) + 1] = c
    BY <2>4
  <2>6. /\ RecoveryTransactionVersion(g) \in Nat /\ RecoveryTransactionVersion(g) > gen[g].at
        /\ LastSent(g) = RecoveryTransactionVersion(g) + Len(s) - 1 /\ DOMAIN s = 1 .. Len(s)
    BY <1>0, <2>2, <2>3, VersionsOf
  <2>7. RecoveryTransactionVersion(g)' = RecoveryTransactionVersion(g)
    BY <2>1, SameVersions
  <2>8. LastSent(g)' = LastSent(g) + 1
    BY <2>5, <2>6, <2>7 DEF LastSent
  <2>9. SentOK(g) /\ Window \in Nat
    BY <1>b, <2>1, Constants
  <2>10. SentOK(g)'
    <3>1. \A i \in 1 .. (Len(s) + 1) : gen[g].at <= sent'[g][i] /\ sent'[g][i] <= c
      <4>1. \A i \in 1 .. Len(s) : gen[g].at <= sent'[g][i] /\ sent'[g][i] <= c
        BY <2>3, <2>5, <2>6, <2>9 DEF SentOK
      <4>2. gen[g].at <= c
        BY <2>2, <2>3, <2>6, <2>9 DEF SentOK
      <4>3. \A i \in 1 .. (Len(s) + 1) : i \in 1 .. Len(s) \/ i = Len(s) + 1
        BY <2>5
      <4> QED
        BY <2>5, <4>1, <4>2, <4>3
    <3>2. committed'[g] = c /\ gen'[g].at = gen[g].at
      BY <2>1, <2>3
    <3>3. RecoveryTransactionVersion(g)' <= committed'[g]
      BY <2>3, <2>7, <2>9, <3>2 DEF SentOK
    <3>4. LastSent(g) \in Int /\ c <= LastSent(g) /\ LastSent(g) < c + Window
      BY <2>1, <2>3, <2>5, <2>6, <2>9 DEF SentOK
    <3>5. committed'[g] <= LastSent(g)' /\ LastSent(g)' <= committed'[g] + Window
      BY <2>8, <2>9, <3>2, <3>4
    <3>6. \A i \in DOMAIN sent'[g] : gen'[g].at <= sent'[g][i] /\ sent'[g][i] <= committed'[g]
      BY <2>5, <3>1, <3>2
    <3> QED
      BY <3>3, <3>5, <3>6 DEF SentOK
  <2>11. \A h \in Gen : Accepted(h)' => SentOK(h)'
    <3>1. \A h \in Gen : h # g /\ Accepted(h) => SentOK(h)'
      BY <1>b, <2>1, <2>4, SentSame
    <3> QED
      BY <2>1, <2>10, <3>1 DEF Accepted
  <2>12. \A r \in Recovery : ~ Accepted(r)' => sent'[r] = IF mgr'[r].phase = "transaction" THEN <<gen'[r].at>> ELSE <<>>
    BY <1>0, <1>b, <2>1, <2>4 DEF InvSent, Accepted
  <2> QED
    BY <1>c, <2>11, <2>12
<1>4. ASSUME NEW g \in Gen, Answer(g) PROVE InvSent'
  <2>1. /\ Accepted(g) /\ committed[g] < LastSent(g) /\ committed' = [committed EXCEPT ![g] = @ + 1]
        /\ UNCHANGED <<mgr, gen, sent>>
    BY <1>4 DEF Answer
  <2>2. committed[g] \in Nat /\ committed \in [Gen -> Nat \cup {None}] /\ sent[g] \in Seq(Nat)
    BY <1>0, <2>1, CommittedTyped, Typed DEF TypeOK
  <2>3. committed'[g] = committed[g] + 1 /\ \A h \in Gen : h # g => committed'[h] = committed[h]
    BY <2>1, <2>2
  <2>4. gen[g].at # None /\ gen[g].at \in Nat /\ RecoveryTransactionVersion(g) \in Nat /\ LastSent(g) \in Nat
    BY <1>0, <2>1, CommittedTyped, VersionsOf
  <2>5. RecoveryTransactionVersion(g)' = RecoveryTransactionVersion(g) /\ LastSent(g)' = LastSent(g)
    BY <2>1, SameVersions
  <2>6. SentOK(g) /\ Window \in Nat /\ \A i \in DOMAIN sent[g] : sent[g][i] \in Nat
    BY <1>b, <2>1, <2>2, Constants
  <2>7. SentOK(g)'
    BY <2>1, <2>2, <2>3, <2>4, <2>5, <2>6 DEF SentOK
  <2>8. \A h \in Gen : Accepted(h)' => SentOK(h)'
    <3>1. \A h \in Gen : h # g /\ Accepted(h) => SentOK(h)'
      BY <1>b, <2>1, <2>3, SentSame
    <3> QED
      BY <2>3, <2>7, <3>1 DEF Accepted
  <2>9. \A r \in Recovery : ~ Accepted(r)' => sent'[r] = IF mgr'[r].phase = "transaction" THEN <<gen'[r].at>> ELSE <<>>
    BY <1>0, <1>b, <2>1 DEF InvSent
  <2> QED
    BY <1>c, <2>8, <2>9
<1>5. ASSUME NEW r \in Recovery, GivesUp(r) PROVE InvSent'
  <2>1. committed' = committed /\ mgr'[r].phase = "dead" /\ \A s \in Recovery : s # r => mgr'[s] = mgr[s]
    BY <1>0, <1>5, GivesUpIs, IdleTyped DEF GivesUp
  <2>2. \A g \in Gen : g # r \/ Accepted(r) => gen'[g] = gen[g] /\ sent'[g] = sent[g]
    BY <1>0, <1>5, GivesUpIs
  <2>3. ~ Accepted(r) => sent'[r] = <<>>
    BY <1>0, <1>5, GivesUpIs
  <2>4. \A g \in Gen : Accepted(g)' <=> Accepted(g)
    BY <2>1 DEF Accepted
  <2>5. ASSUME NEW g \in Gen, Accepted(g)' PROVE SentOK(g)'
    BY <1>b, <2>1, <2>2, <2>4, <2>5, SentSame
  <2>6. ASSUME NEW s \in Recovery, ~ Accepted(s)'
        PROVE  sent'[s] = IF mgr'[s].phase = "transaction" THEN <<gen'[s].at>> ELSE <<>>
    <3>1. CASE s = r
      BY <2>1, <2>3, <2>4, <2>6, <1>b, <3>1
    <3>2. CASE s # r
      <4>1. sent'[s] = sent[s] /\ gen'[s] = gen[s] /\ mgr'[s] = mgr[s] /\ ~ Accepted(s)
        BY <1>b, <2>1, <2>2, <2>4, <2>6, <3>2
      <4> QED
        BY <1>0, <4>1 DEF InvSent
    <3> QED
      BY <3>1, <3>2
  <2> QED
    BY <1>c, <2>5, <2>6
<1>6. ASSUME NEW r \in Recovery, ReadCState(r) PROVE InvSent'
  <2>1. UNCHANGED <<sent, gen, committed>> /\ mgr[r].phase = "idle"
    BY <1>6 DEF ReadCState
  <2>2. mgr'[r].phase = "locking" /\ \A s \in Recovery : s # r => mgr'[s] = mgr[s]
    BY <1>0, <1>6, ReadCStateIs
  <2> QED
    BY <1>d, <2>1, <2>2
<1>7. ASSUME NEW r \in Recovery, NEW l \in Log, TLogLockReply(r, l) PROVE InvSent'
  <2>1. UNCHANGED <<gen, sent, committed>>
    BY <1>7 DEF TLogLockReply
  <2>2. \A s \in Recovery : mgr'[s].phase = mgr[s].phase
    BY <1>0, <1>7, LockReplyIs
  <2> QED
    BY <1>d, <2>1, <2>2
<1>8. ASSUME NEW r \in Recovery, NEW results \in SUBSET Log, EpochEnd(r, results) PROVE InvSent'
  <2>1. PICK end, known \in Nat : EndsAt(r, end, known)
    BY <1>8, EpochEnds
  <2>2. UNCHANGED <<mgr, committed, sent>> /\ mgr[r].phase # "transaction"
    BY <2>1 DEF EndsAt, Ending
  <2>3. \A s \in Recovery : s # r => gen'[s] = gen[s]
    BY <1>0, <1>b, <2>1, EndsAtIs
  <2> QED
    BY <1>d, <2>2, <2>3
<1>9. ASSUME NEW r \in Recovery, Locks(r) PROVE InvSent'
  <2>1. UNCHANGED <<gen, sent, committed>> /\ mgr[r].phase = "locking"
    BY <1>9 DEF Locks
  <2>2. mgr'[r].phase = "recruiting" /\ \A s \in Recovery : s # r => mgr'[s] = mgr[s]
    BY <1>0, <1>9, LocksIs
  <2> QED
    BY <1>d, <2>1, <2>2
<1>10. ASSUME NEW r \in Recovery, RecoveryTransaction(r) PROVE InvSent'
  <2>1. committed' = committed /\ mgr[r].phase = "recruiting"
    BY <1>10 DEF RecoveryTransaction
  <2>2. /\ mgr'[r].phase = "transaction" /\ sent'[r] = <<gen[r].at>> /\ gen'[r].at = gen[r].at
        /\ \A s \in Recovery : s # r => mgr'[s] = mgr[s]
        /\ \A g \in Gen : g # r => gen'[g] = gen[g] /\ sent'[g] = sent[g]
    BY <1>10, TransactionIs
  <2>3. ~ Accepted(r) /\ \A g \in Gen : Accepted(g)' <=> Accepted(g)
    BY <1>0, <2>1 DEF Accepted, InvPhase
  <2>4. ASSUME NEW g \in Gen, Accepted(g)' PROVE SentOK(g)'
    <3>1. Accepted(g) /\ g # r
      BY <2>3, <2>4
    <3> QED
      BY <1>b, <2>1, <2>2, <3>1, SentSame
  <2>5. ASSUME NEW s \in Recovery, ~ Accepted(s)'
        PROVE  sent'[s] = IF mgr'[s].phase = "transaction" THEN <<gen'[s].at>> ELSE <<>>
    BY <1>0, <1>b, <2>2, <2>3, <2>5 DEF InvSent
  <2> QED
    BY <1>c, <2>4, <2>5
<1>11. ASSUME NEW r \in Recovery, Accepts(r) PROVE InvSent'
  <2>1. UNCHANGED <<gen, sent>> /\ mgr[r].phase = "transaction"
    BY <1>11 DEF Accepts
  <2>2. /\ committed'[r] = RecoveryTransactionVersion(r) /\ RecoveryTransactionVersion(r) \in Nat /\ gen[r].at # None
        /\ \A s \in Recovery : s # r => mgr'[s] = mgr[s]
        /\ \A g \in Gen : g # r => committed'[g] = committed[g]
    BY <1>11, AcceptsIs
  <2>3. ~ Accepted(r) /\ sent[r] = <<gen[r].at>>
    BY <1>0, <1>b, <2>1 DEF InvPhase, InvSent
  <2>4. /\ RecoveryTransactionVersion(r) > gen[r].at /\ gen[r].at \in Nat
        /\ LastSent(r) = RecoveryTransactionVersion(r) + Len(sent[r]) - 1
    BY <1>0, <1>b, <2>2, VersionsOf
  <2>5. Len(sent[r]) = 1 /\ DOMAIN sent[r] = {1} /\ sent[r][1] = gen[r].at
    BY <2>3
  <2>6. RecoveryTransactionVersion(r)' = RecoveryTransactionVersion(r) /\ LastSent(r)' = LastSent(r)
    BY <2>1, SameVersions
  <2>7. SentOK(r)'
    <3>1. LastSent(r) = RecoveryTransactionVersion(r)
      BY <2>2, <2>4, <2>5
    <3>2. RecoveryTransactionVersion(r)' <= committed'[r] /\ committed'[r] <= LastSent(r)' /\ LastSent(r)' <= committed'[r] + Window
      BY <2>2, <2>6, <3>1, Constants
    <3>3. \A i \in DOMAIN sent'[r] : gen'[r].at <= sent'[r][i] /\ sent'[r][i] <= committed'[r]
      BY <2>1, <2>2, <2>4, <2>5
    <3> QED
      BY <3>2, <3>3 DEF SentOK
  <2>8. ASSUME NEW g \in Gen, Accepted(g)' PROVE SentOK(g)'
    <3>1. CASE g = r
      BY <2>7, <3>1
    <3>2. CASE g # r
      <4>1. Accepted(g) /\ committed'[g] = committed[g]
        BY <2>2, <2>8, <3>2 DEF Accepted
      <4> QED
        BY <1>b, <2>1, <4>1, SentSame
    <3> QED
      BY <3>1, <3>2
  <2>9. ASSUME NEW s \in Recovery, ~ Accepted(s)'
        PROVE  sent'[s] = IF mgr'[s].phase = "transaction" THEN <<gen'[s].at>> ELSE <<>>
    <3>1. s # r
      BY <2>2, <2>9, Constants DEF Accepted
    <3>2. ~ Accepted(s)
      BY <1>b, <2>2, <2>9, <3>1 DEF Accepted
    <3> QED
      BY <1>0, <2>1, <2>2, <3>1, <3>2 DEF InvSent
  <2> QED
    BY <1>c, <2>8, <2>9
<1>12. ASSUME NEW r \in Recovery, Updates(r) PROVE InvSent'
  <2>1. UNCHANGED <<gen, sent, committed>> /\ mgr[r].phase = "accepting"
    BY <1>12 DEF Updates
  <2>2. mgr'[r].phase = "accepting" /\ \A s \in Recovery : s # r => mgr'[s] = mgr[s]
    BY <1>0, <1>12, UpdatesIs
  <2> QED
    BY <1>d, <2>1, <2>2
<1>13. ASSUME NEW r \in Recovery, Purge(r) PROVE InvSent'
  <2>1. UNCHANGED <<mgr, sent, committed>>
    BY <1>13 DEF Purge
  <2>2. \A g \in Gen : gen'[g].at = gen[g].at
    BY <1>0, <1>13, PurgeIs
  <2> QED
    BY <1>b, <1>d, <2>1, <2>2
<1>14. \/ UNCHANGED vars
       \/ ReaderStep
       \/ \E g \in Gen : StorageDurable(g)
       \/ \E r \in Recovery : NewEpoch(r)
       => UNCHANGED <<committed, gen, sent, mgr>>
  BY DEF vars, ReaderStep, AskReadVersion, ConfirmRunning, SendReadVersion, StorageDurable, NewEpoch
<1> QED
  BY <1>1, <1>2, <1>3, <1>4, <1>5, <1>6, <1>7, <1>8, <1>9, <1>10, <1>11, <1>12, <1>13, <1>14, Steps

-----------------------------------------------------------------------------
(***************************************************************************)
(* The logs.                                                               *)
(***************************************************************************)

LogOK(g, l) ==
    /\ log[g][l].state # "none" =>
          /\ gen[g].at # None
          /\ Point(g, log[g][l].version) /\ Point(g, log[g][l].durable)
          /\ log[g][l].durable <= log[g][l].version
          /\ log[g][l].version < gen[g].at => log[g][l].stopped
    /\ log[g][l].finished => gen[g].at <= stored

\* A log is as good as it was while its generation stays and pushes are only added.
LEMMA LogSame ==
    ASSUME TypeOK, TypeOK', NEW g \in Gen, NEW l \in Log, LogOK(g, l), log'[g][l] = log[g][l],
           gen'[g].at = gen[g].at, gen'[g].known = gen[g].known,
           gen[g].at # None => LastSent(g)' >= LastSent(g), stored' >= stored
    PROVE  LogOK(g, l)'
<1>1. RecoveryTransactionVersion(g)' = RecoveryTransactionVersion(g)
  BY SameVersions
<1>2. stored \in Nat /\ stored' \in Nat /\ gen[g].at \in Int /\ gen[g].known \in Int
  BY Typed, Constants, TypeParts
<1>3. CASE log[g][l].state = "none"
  BY <1>2, <1>3 DEF LogOK
<1>4. CASE log[g][l].state # "none"
  <2>1. gen[g].at # None /\ Point(g, log[g][l].version) /\ Point(g, log[g][l].durable)
    BY <1>4 DEF LogOK
  <2>2. LastSent(g) \in Nat
    BY <2>1, VersionsOf
  <2>3. LastSent(g)' \in Int
    <3>1. gen'[g].at \in Nat /\ sent'[g] \in Seq(Nat)
      BY <1>2, <2>1, Typed, TypeParts
    <3> QED
      BY <3>1, Constants DEF LastSent, RecoveryTransactionVersion
  <2>4. \A v : Point(g, v) => Point(g, v)'
    BY <1>1, <2>1, <2>2, <2>3 DEF Point
  <2>5. Point(g, log[g][l].version)' /\ Point(g, log[g][l].durable)'
    <3>1. PICK v, d : v = log[g][l].version /\ d = log[g][l].durable
      OBVIOUS
    <3>2. Point(g, v)' /\ Point(g, d)'
      BY <2>1, <2>4, <3>1
    <3>3. v = log'[g][l].version /\ d = log'[g][l].durable
      BY <3>1
    <3> QED
      BY <3>2, <3>3 DEF Point
  <2> QED
    BY <1>2, <2>5 DEF LogOK
<1> QED
  BY <1>3, <1>4

LEMMA LogStep ==
    ASSUME IInv, TypeOK', InvPhase', [Next]_vars
    PROVE  InvLog'
<1>0. TypeOK /\ InvPhase /\ InvSent /\ InvLog
  BY DEF IInv
<1>a. stored' >= stored /\ stored \in Nat
  BY <1>0, Advances, Typed DEF Advance
<1>b. /\ \A g \in Gen, l \in Log : LogOK(g, l)
      /\ \A r \in Recovery : r \in Gen
      /\ \A g \in Gen : gen[g].at # None => LastSent(g) \in Nat
  BY <1>0, Constants, VersionsOf DEF InvLog, LogOK
<1>c. ASSUME \A g \in Gen, l \in Log : LogOK(g, l)'
      PROVE  InvLog'
  BY <1>c DEF InvLog, LogOK
<1>d. ASSUME NEW g \in Gen, log'[g] = log[g], gen'[g].at = gen[g].at, gen'[g].known = gen[g].known, sent'[g] = sent[g]
      PROVE  \A l \in Log : LogOK(g, l)'
  <2>1. LastSent(g)' = LastSent(g)
    BY <1>d, SameVersions
  <2> QED
    BY <1>0, <1>a, <1>b, <1>d, <2>1, LogSame
<1>e. ASSUME NEW g \in Gen, log'[g] = [l \in Log |-> NoLog]
      PROVE  \A l \in Log : LogOK(g, l)'
  BY <1>e, IdleTyped DEF LogOK
<1>1. CASE UNCHANGED <<gen, log, sent>>
  BY <1>1, <1>c, <1>d
<1>2. ASSUME NEW g \in Gen, NEW l \in Log, LogChange(g, l)
      PROVE  InvLog'
  <2>1. /\ \A h \in Gen, x \in Log : h # g \/ x # l => log'[h][x] = log[h][x]
        /\ MayBecome(g, l, log'[g][l])
        /\ gen' = gen /\ sent' = sent /\ stored' = stored
    BY <1>0, <1>2, ChangePointwise DEF LogChange, SameButLog
  <2>2. \A h \in Gen : LastSent(h)' = LastSent(h)
    BY <2>1, SameVersions
  <2>3. ASSUME NEW h \in Gen, NEW x \in Log, h # g \/ x # l PROVE LogOK(h, x)'
    BY <1>0, <1>a, <1>b, <2>1, <2>2, <2>3, LogSame
  <2>4. LogOK(g, l)'
    <3>1. gen[g].at # None
      BY <2>1, LogFacts DEF MayBecome
    <3>2. PICK q : q = log'[g][l]
      OBVIOUS
    <3>3. MayBecome(g, l, q)
      BY <2>1, <3>2
    <3>4. Point(g, q.version)' /\ Point(g, q.durable)'
      <4>1. PICK v, d : v = q.version /\ d = q.durable
        OBVIOUS
      <4>2. Point(g, v)' /\ Point(g, d)'
        BY <2>1, <3>3, <4>1, SameVersions DEF MayBecome
      <4> QED
        BY <4>1, <4>2
    <3>5. log[g][l].finished => gen[g].at <= stored
      BY <1>b DEF LogOK
    <3>6. /\ q.durable <= q.version
          /\ q.version < gen[g].at => q.stopped
          /\ q.finished => gen[g].at <= stored
      BY <3>3, <3>5 DEF MayBecome
    <3> QED
      BY <2>1, <3>1, <3>2, <3>4, <3>6 DEF LogOK
  <2> QED
    BY <1>c, <2>3, <2>4
<1>3. ASSUME NEW g \in Gen, Push(g) PROVE InvLog'
  <2>1. sent' = [sent EXCEPT ![g] = Append(@, committed[g])] /\ UNCHANGED <<log, gen>> /\ Accepted(g)
    BY <1>3 DEF Push
  <2>2. sent \in [Gen -> Seq(Nat)] /\ committed[g] \in Nat /\ gen[g].at # None
    BY <1>0, <2>1, CommittedTyped, TypeParts
  <2>3. PICK s \in Seq(Nat), c \in Nat : s = sent[g] /\ c = committed[g]
    BY <2>2
  <2>4. sent'[g] = Append(s, c) /\ \A h \in Gen : h # g => sent'[h] = sent[h]
    BY <2>1, <2>2, <2>3
  <2>5. Len(sent'[g]) = Len(s) + 1 /\ Len(s) \in Nat
    BY <2>4
  <2>6. RecoveryTransactionVersion(g)' = RecoveryTransactionVersion(g) /\ RecoveryTransactionVersion(g) \in Nat
    BY <1>0, <2>1, <2>2, SameVersions, VersionsOf
  <2>7. LastSent(g)' >= LastSent(g)
    BY <2>3, <2>5, <2>6 DEF LastSent
  <2>8. \A l \in Log : LogOK(g, l)'
    BY <1>0, <1>a, <1>b, <2>1, <2>7, LogSame
  <2> QED
    BY <1>c, <1>d, <2>1, <2>4, <2>8
<1>4. ASSUME NEW r \in Recovery, GivesUp(r) PROVE InvLog'
  <2>1. \A g \in Gen : g # r \/ Accepted(r) => gen'[g] = gen[g] /\ log'[g] = log[g] /\ sent'[g] = sent[g]
    BY <1>0, <1>4, GivesUpIs
  <2>2. ~ Accepted(r) => log'[r] = [l \in Log |-> NoLog]
    BY <1>0, <1>4, GivesUpIs
  <2> QED
    BY <1>c, <1>d, <1>e, <2>1, <2>2
<1>5. ASSUME NEW r \in Recovery, NEW results \in SUBSET Log, EpochEnd(r, results) PROVE InvLog'
  <2>1. PICK end, known \in Nat : EndsAt(r, end, known)
    BY <1>5, EpochEnds
  <2>2. log'[r] = [l \in Log |-> NoLog] /\ \A g \in Gen : g # r => gen'[g] = gen[g] /\ log'[g] = log[g]
    BY <1>0, <2>1, EndsAtIs
  <2>3. sent' = sent
    BY <2>1 DEF EndsAt
  <2> QED
    BY <1>c, <1>d, <1>e, <2>2, <2>3
<1>6. ASSUME NEW r \in Recovery, NewEpoch(r) PROVE InvLog'
  <2>1. /\ \A l \in Log : /\ log'[r][l].state = "up" /\ log'[r][l].version = gen[r].at
                          /\ log'[r][l].durable = gen[r].known /\ ~ log'[r][l].finished
        /\ \A g \in Gen : g # r => log'[g] = log[g]
    BY <1>0, <1>6, NewEpochIs
  <2>2. UNCHANGED <<gen, sent>> /\ gen[r].at # None
    BY <1>6 DEF NewEpoch
  <2>3. gen[r].at \in Nat /\ gen[r].known \in Nat /\ gen[r].known <= gen[r].at
    BY <1>0, <1>b, <2>2, Typed, Constants DEF InvPhase
  <2>4. gen[r].at <= LastSent(r) /\ LastSent(r) \in Nat
    BY <1>0, <1>b, <2>2, VersionsOf
  <2>5. PICK v, d : v = gen[r].at /\ d = gen[r].known
    OBVIOUS
  <2>6. Point(r, v) /\ Point(r, d)
    BY <2>3, <2>4, <2>5 DEF Point
  <2>7. Point(r, v)' /\ Point(r, d)'
    BY <2>2, <2>6, SameVersions
  <2>8. ASSUME NEW l \in Log PROVE LogOK(r, l)'
    <3>1. v = log'[r][l].version /\ d = log'[r][l].durable
      BY <2>1, <2>5
    <3>2. Point(r, log[r][l].version)' /\ Point(r, log[r][l].durable)'
      BY <2>7, <3>1 DEF Point
    <3> QED
      BY <2>1, <2>2, <2>3, <3>2 DEF LogOK
  <2> QED
    BY <1>c, <1>d, <2>1, <2>2, <2>8
<1>7. ASSUME NEW r \in Recovery, RecoveryTransaction(r) PROVE InvLog'
  <2>1. /\ gen[r].at # None /\ sent'[r] = <<gen[r].at>> /\ gen'[r].at = gen[r].at /\ gen'[r].known = gen[r].known
        /\ \A g \in Gen : g # r => gen'[g] = gen[g] /\ sent'[g] = sent[g]
    BY <1>7, TransactionIs
  <2>2. mgr[r].phase = "recruiting" /\ log' = log
    BY <1>7 DEF RecoveryTransaction
  <2>3. sent[r] = <<>>
    BY <1>0, <2>2 DEF InvPhase, InvSent
  <2>4. RecoveryTransactionVersion(r)' = RecoveryTransactionVersion(r) /\ RecoveryTransactionVersion(r) \in Nat
    BY <1>0, <1>b, <2>1, SameVersions, VersionsOf
  <2>5. LastSent(r)' >= LastSent(r)
    BY <2>1, <2>3, <2>4 DEF LastSent
  <2>6. \A l \in Log : LogOK(r, l)'
    BY <1>0, <1>a, <1>b, <2>1, <2>2, <2>5, LogSame
  <2> QED
    BY <1>c, <1>d, <2>1, <2>2, <2>6
<1>8. ASSUME NEW r \in Recovery, Purge(r) PROVE InvLog'
  <2>1. UNCHANGED <<log, sent>> /\ \A g \in Gen : gen'[g].at = gen[g].at /\ gen'[g].known = gen[g].known
    BY <1>0, <1>8, PurgeIs DEF Purge
  <2> QED
    BY <1>c, <1>d, <2>1
<1>9. \/ UNCHANGED vars
      \/ ReaderStep
      \/ \E g \in Gen : StorageDurable(g) \/ Answer(g)
      \/ \E r \in Recovery : ReadCState(r) \/ Locks(r) \/ Accepts(r) \/ Updates(r) \/ \E l \in Log : TLogLockReply(r, l)
      => UNCHANGED <<gen, log, sent>>
  BY DEF vars, ReaderStep, AskReadVersion, ConfirmRunning, SendReadVersion, StorageDurable, Answer, ReadCState,
         Locks, Accepts, Updates, TLogLockReply
<1> QED
  BY <1>1, <1>2, <1>3, <1>4, <1>5, <1>6, <1>7, <1>8, <1>9, Steps

LEMMA LoggedStep ==
    ASSUME IInv, TypeOK', [Next]_vars
    PROVE  InvLogged'
<1>0. TypeOK /\ InvPhase /\ InvLogged
  BY DEF IInv
<1>a. Advance
  BY Advances
<1>1. ASSUME NEW g \in Gen, Accepted(g), NEW v \in Nat, Logged(g, v)
      PROVE  Logged(g, v)'
  <2> DEFINE S == {l \in Log : log[g][l].durable >= v}
             T == {l \in Log : log'[g][l].durable >= v}
  <2>1. \A l \in Log : log'[g][l].durable >= log[g][l].durable
    BY <1>a, <1>1 DEF Advance, KeepsGoing
  <2>2. \A l \in Log : log[g][l].durable \in Int
    BY <1>0, Typed, Constants
  <2>3. \A l \in Log : log'[g][l].durable \in Int
    <3>1. log' \in [Gen -> [Log -> LogRecord]]
      BY TypeParts
    <3> QED
      BY <3>1, Constants DEF LogRecord
  <2>4. S \subseteq T /\ S \in SUBSET Log /\ T \in SUBSET Log
    BY <2>1, <2>2, <2>3
  <2>5. Cardinality(S) <= Cardinality(T) /\ Cardinality(S) \in Nat /\ Cardinality(T) \in Nat
    <3> HIDE DEF S, T
    <3> QED
      BY <2>4, LogSets
  <2>6. Cardinality(S) >= N - WriteAntiQuorum
    BY <1>1 DEF Logged
  <2>7. Cardinality(T) >= N - WriteAntiQuorum
    <3>1. N \in Nat /\ WriteAntiQuorum \in Nat
      BY LogSets
    <3> HIDE DEF S, T
    <3> QED
      BY <2>5, <2>6, <3>1
  <2> QED
    BY <2>7 DEF Logged, N
<1>2. ASSUME NEW g \in Gen, Accepted(g), committed'[g] = committed[g]
      PROVE  Logged(g, committed[g])'
  <2>1. PICK v \in Nat : v = committed[g]
    BY <1>0, <1>2, CommittedTyped
  <2>2. Logged(g, v)
    BY <1>0, <1>2, <2>1 DEF InvLogged
  <2>3. Logged(g, v)'
    BY <1>1, <1>2, <2>2
  <2> QED
    BY <1>2, <2>1, <2>3 DEF Logged
<1>3. CASE UNCHANGED committed
  BY <1>2, <1>3 DEF InvLogged, Accepted
<1>4. ASSUME NEW g \in Gen, Answer(g) PROVE InvLogged'
  <2>1. /\ Accepted(g) /\ Logged(g, committed[g] + 1) /\ committed' = [committed EXCEPT ![g] = @ + 1]
        /\ committed \in [Gen -> Nat \cup {None}]
    BY <1>0, <1>4 DEF Answer, TypeOK
  <2>2. PICK v \in Nat : v = committed[g] + 1
    BY <1>0, <2>1, CommittedTyped
  <2>3. Logged(g, v)'
    BY <1>1, <2>1, <2>2
  <2>4. committed'[g] = v /\ \A h \in Gen : h # g => committed'[h] = committed[h]
    BY <2>1, <2>2
  <2>5. Logged(g, committed[g])'
    BY <2>3, <2>4 DEF Logged
  <2>6. ASSUME NEW h \in Gen, h # g, Accepted(h)' PROVE Logged(h, committed[h])'
    BY <1>2, <2>4, <2>6 DEF Accepted
  <2> QED
    BY <2>5, <2>6 DEF InvLogged
<1>5. ASSUME NEW r \in Recovery, Accepts(r) PROVE InvLogged'
  <2>1. Logged(r, RecoveryTransactionVersion(r)) /\ log' = log
    BY <1>5 DEF Accepts
  <2>2. /\ committed'[r] = RecoveryTransactionVersion(r)
        /\ \A g \in Gen : g # r => committed'[g] = committed[g]
    BY <1>5, AcceptsIs
  <2>3. PICK v : v = RecoveryTransactionVersion(r)
    OBVIOUS
  <2>4. Logged(r, v)'
    BY <2>1, <2>3 DEF Logged, N
  <2>5. Logged(r, committed[r])'
    BY <2>2, <2>3, <2>4 DEF Logged
  <2>6. ASSUME NEW h \in Gen, h # r, Accepted(h)' PROVE Logged(h, committed[h])'
    BY <1>2, <2>2, <2>6 DEF Accepted
  <2> QED
    BY <2>5, <2>6 DEF InvLogged
<1>6. \/ UNCHANGED vars
      \/ ReaderStep
      \/ \E g \in Gen : StorageDurable(g) \/ Push(g) \/ \E l \in Log : LogChange(g, l)
      \/ \E r \in Recovery : \/ ReadCState(r) \/ Locks(r) \/ Updates(r) \/ NewEpoch(r) \/ GivesUp(r)
                             \/ RecoveryTransaction(r) \/ Purge(r)
                             \/ \E l \in Log : TLogLockReply(r, l)
                             \/ \E results \in SUBSET Log : EpochEnd(r, results)
      => UNCHANGED committed
  BY DEF vars, ReaderStep, AskReadVersion, ConfirmRunning, SendReadVersion, StorageDurable, Push, LogChange,
         SameButLog, ReadCState, Locks, Updates, NewEpoch, GivesUp, RecoveryTransaction, Purge, TLogLockReply, EpochEnd
<1> QED
  BY <1>3, <1>4, <1>5, <1>6, Steps

\* What a recovery was answered stays true.
EndsOK(r) ==
    Ending(r) => \A l \in Log : mgr[r].ends[l] # None =>
        Frozen(mgr[r].prev.gen, l) /\ mgr[r].ends[l] = log[mgr[r].prev.gen][l].version

LEMMA EndsStep ==
    ASSUME IInv, TypeOK', [Next]_vars
    PROVE  InvEnds'
<1>0. TypeOK /\ InvPhase /\ InvChain /\ InvEnds
  BY DEF IInv
<1>a. Advance
  BY Advances
<1>b. \A r \in Recovery : EndsOK(r)
  BY <1>0 DEF InvEnds, EndsOK
<1>c. ASSUME \A r \in Recovery : EndsOK(r)'
      PROVE  InvEnds'
  BY <1>c DEF InvEnds, EndsOK
<1>d. ASSUME NEW r \in Recovery, Ending(r)' => Ending(r), mgr'[r].prev = mgr[r].prev, mgr'[r].ends = mgr[r].ends
      PROVE  EndsOK(r)'
  <2>1. CASE ~ Ending(r)
    BY <1>d, <2>1 DEF EndsOK
  <2>2. CASE Ending(r)
    <3>1. PICK g \in Gen : g = mgr[r].prev.gen
      BY <1>0, Typed
    <3>2. Accepted(g)
      BY <1>0, <2>2, <3>1 DEF InvChain, Ending, Pending
    <3>3. ASSUME NEW l \in Log, mgr[r].ends[l] # None
          PROVE  Frozen(g, l)' /\ mgr[r].ends[l] = log'[g][l].version
      BY <1>a, <1>b, <2>2, <3>1, <3>2, <3>3 DEF EndsOK, Advance, KeepsGoing
    <3>4. g = mgr'[r].prev.gen
      BY <1>d, <3>1
    <3> QED
      BY <1>d, <3>3, <3>4 DEF EndsOK, Frozen
  <2> QED
    BY <2>1, <2>2
<1>e. ASSUME NEW r \in Recovery, mgr'[r] = mgr[r]
      PROVE  EndsOK(r)'
  BY <1>d, <1>e DEF Ending
<1>f. ASSUME NEW r \in Recovery, mgr'[r].phase \notin {"locking", "recruiting"}
      PROVE  EndsOK(r)'
  BY <1>f DEF EndsOK, Ending
<1>1. CASE UNCHANGED mgr
  BY <1>1, <1>c, <1>e
<1>2. ASSUME NEW r \in Recovery, GivesUp(r) PROVE InvEnds'
  <2>1. mgr'[r].phase = "dead" /\ \A s \in Recovery : s # r => mgr'[s] = mgr[s]
    BY <1>0, <1>2, GivesUpIs, IdleTyped
  <2> QED
    BY <1>c, <1>e, <1>f, <2>1
<1>3. ASSUME NEW r \in Recovery, ReadCState(r) PROVE InvEnds'
  <2>1. (\A l \in Log : mgr'[r].ends[l] = None) /\ \A s \in Recovery : s # r => mgr'[s] = mgr[s]
    BY <1>0, <1>3, ReadCStateIs
  <2>2. EndsOK(r)'
    BY <2>1 DEF EndsOK
  <2> QED
    BY <1>c, <1>e, <2>1, <2>2
<1>4. ASSUME NEW r \in Recovery, NEW l \in Log, TLogLockReply(r, l) PROVE InvEnds'
  <2>1. /\ mgr'[r].phase = mgr[r].phase /\ mgr'[r].prev = mgr[r].prev
        /\ mgr'[r].ends[l] = log[mgr[r].prev.gen][l].version
        /\ \A x \in Log : x # l => mgr'[r].ends[x] = mgr[r].ends[x]
        /\ \A s \in Recovery : s # r => mgr'[s] = mgr[s]
    BY <1>0, <1>4, LockReplyIs
  <2>2. Ending(r) /\ LockReady(log[mgr[r].prev.gen][l]) /\ log' = log
    BY <1>4 DEF TLogLockReply
  <2>3. EndsOK(r)'
    BY <1>b, <2>1, <2>2, SMTT(30) DEF EndsOK, Frozen, LockReady, Ending
  <2> QED
    BY <1>c, <1>e, <2>1, <2>3
<1>5. ASSUME NEW r \in Recovery, Locks(r) PROVE InvEnds'
  <2>1. /\ mgr'[r].prev = mgr[r].prev /\ mgr'[r].ends = mgr[r].ends
        /\ \A s \in Recovery : s # r => mgr'[s] = mgr[s]
    BY <1>0, <1>5, LocksIs
  <2>2. Ending(r)
    BY <1>5 DEF Locks, Ending
  <2> QED
    BY <1>c, <1>d, <1>e, <2>1, <2>2
<1>6. ASSUME NEW r \in Recovery, RecoveryTransaction(r) PROVE InvEnds'
  <2>1. mgr'[r].phase = "transaction" /\ \A s \in Recovery : s # r => mgr'[s] = mgr[s]
    BY <1>6, TransactionIs
  <2> QED
    BY <1>c, <1>e, <1>f, <2>1
<1>7. ASSUME NEW r \in Recovery, Accepts(r) PROVE InvEnds'
  <2>1. mgr'[r].phase = "accepting" /\ \A s \in Recovery : s # r => mgr'[s] = mgr[s]
    BY <1>7, AcceptsIs
  <2> QED
    BY <1>c, <1>e, <1>f, <2>1
<1>8. ASSUME NEW r \in Recovery, Updates(r) PROVE InvEnds'
  <2>1. mgr'[r].phase = "accepting" /\ \A s \in Recovery : s # r => mgr'[s] = mgr[s]
    BY <1>0, <1>8, UpdatesIs
  <2> QED
    BY <1>c, <1>e, <1>f, <2>1
<1>9. \/ UNCHANGED vars
      \/ ReaderStep
      \/ \E g \in Gen : StorageDurable(g) \/ Push(g) \/ Answer(g) \/ \E l \in Log : LogChange(g, l)
      \/ \E r \in Recovery : NewEpoch(r) \/ Purge(r) \/ \E results \in SUBSET Log : EpochEnd(r, results)
      => UNCHANGED mgr
  BY DEF vars, ReaderStep, AskReadVersion, ConfirmRunning, SendReadVersion, StorageDurable, Push, Answer, LogChange,
         SameButLog, NewEpoch, Purge, EpochEnd
<1> QED
  BY <1>1, <1>2, <1>3, <1>4, <1>5, <1>6, <1>7, <1>8, <1>9, Steps

-----------------------------------------------------------------------------
(***************************************************************************)
(* The chain of generations.                                               *)
(***************************************************************************)

CoreOK == Accepted(cstate.gen) /\ ChainOK(cstate.gen, cstate.old)

PrevOK(r) == Pending(r) => Accepted(mgr[r].prev.gen) /\ ChainOK(mgr[r].prev.gen, mgr[r].prev.old)

OwnOK(g) == gen[g].at # None => ChainOK(g, gen[g].old)

HeadOK(r) ==
    Pending(r) /\ gen[r].at # None =>
        gen[r].old = <<[gen |-> mgr[r].prev.gen, end |-> gen[r].known + 1, at |-> gen[r].at]>> \o mgr[r].prev.old

LEMMA ChainParts ==
    /\ InvChain <=> CoreOK /\ (\A r \in Recovery : PrevOK(r) /\ HeadOK(r)) /\ \A g \in Gen : OwnOK(g)
    /\ InvChain' <=> CoreOK' /\ (\A r \in Recovery : PrevOK(r)' /\ HeadOK(r)') /\ \A g \in Gen : OwnOK(g)'
  BY DEF InvChain, CoreOK, PrevOK, OwnOK, HeadOK

LEMMA ChainGoesOn ==
    ASSUME TypeOK, Advance, NEW g \in Gen, NEW old \in Seq(OldEntry), Accepted(g), ChainOK(g, old)
    PROVE  Accepted(g)' /\ ChainOK(g, old)'
<1>1. gen'[g].at = gen[g].at /\ gen'[g].known = gen[g].known /\ Accepted(g)'
  BY DEF Advance, KeepsGoing
<1> QED
  BY <1>1, ChainStays

\* A recovery puts the generation it ends before the list that generation had.
LEMMA ChainGrows ==
    ASSUME IInv, Advance, NEW r \in Recovery, NEW end \in Nat, NEW known \in Nat, EndsAt(r, end, known),
           NEW old, old = OldOf(mgr[r], end, known)
    PROVE  ChainOK(r, old)'
<1>0. TypeOK /\ InvPhase /\ InvChain
  BY DEF IInv
<1>1. PICK p \in Gen, prev \in Seq(OldEntry) : p = mgr[r].prev.gen /\ prev = mgr[r].prev.old
  BY <1>0, Typed
<1>2. PICK e : e = [gen |-> p, end |-> known + 1, at |-> end]
  OBVIOUS
<1>3. old = <<e>> \o prev
  BY <1>1, <1>2 DEF OldOf
<1>5. e \in OldEntry /\ e.gen = p /\ e.end = known + 1 /\ e.at = end
  BY <1>1, <1>2 DEF OldEntry
<1>6. /\ Len(prev) \in Nat /\ DOMAIN prev = 1 .. Len(prev) /\ DOMAIN old = 1 .. (Len(prev) + 1)
      /\ old[1] = e /\ \A i \in 2 .. (Len(prev) + 1) : i - 1 \in DOMAIN prev /\ old[i] = prev[i - 1]
  BY <1>3, <1>5
<1>7. /\ Accepted(p) /\ ~ Accepted(r) /\ known <= end /\ gen[p].at <= known /\ Ended(p, end)
      /\ Pending(r)
  BY <1>1 DEF EndsAt, Ending, Pending
<1>8. ChainOK(p, prev)
  BY <1>0, <1>1, <1>7 DEF InvChain
<1>9. Accepted(p)' /\ ChainOK(p, prev)'
  BY <1>0, <1>7, <1>8, ChainGoesOn
<1>10. gen'[r].at = end /\ gen'[r].known = known
  BY <1>0, EndsAtIs
<1>11. gen'[p].at = gen[p].at /\ gen[p].at \in Nat /\ Ended(p, end)'
  BY <1>0, <1>7, CommittedTyped, EndedStays DEF Advance, KeepsGoing
<1>12. ASSUME NEW j \in DOMAIN prev PROVE prev[j].at \in Nat /\ prev[j].at <= end
  <2>1. prev[j].at \in Nat /\ prev[1].at \in Nat /\ 1 \in DOMAIN prev
    <3>1. 1 \in DOMAIN prev
      BY <1>6
    <3>2. prev[j] \in OldEntry /\ prev[1] \in OldEntry
      BY <1>1, <3>1
    <3> QED
      BY <3>1, <3>2 DEF OldEntry
  <2>2. prev[1].at = gen[p].at
    BY <1>8, <2>1 DEF ChainOK, Later
  <2>3. prev[j].at <= prev[1].at
    BY <1>6, <1>8, <2>1 DEF ChainOK
  <2> QED
    BY <1>7, <1>11, <2>1, <2>2, <2>3
<1>13. ASSUME NEW i \in DOMAIN old
       PROVE  /\ Accepted(old[i].gen)'
              /\ gen'[Later(r, old, i)].at = old[i].at
              /\ gen'[Later(r, old, i)].known + 1 = old[i].end
              /\ gen'[old[i].gen].at < old[i].end
              /\ Ended(old[i].gen, old[i].at)'
              /\ \A j \in DOMAIN old : i < j => old[j].at <= old[i].at
  <2>1. CASE i = 1
    <3>1. old[i] = e /\ Later(r, old, i) = r
      BY <1>6, <2>1 DEF Later
    <3>2. ASSUME NEW j \in DOMAIN old, i < j PROVE old[j].at <= end
      <4>1. j \in 2 .. (Len(prev) + 1)
        BY <1>6, <2>1, <3>2
      <4>2. j - 1 \in DOMAIN prev /\ old[j] = prev[j - 1]
        BY <1>6, <4>1
      <4> QED
        BY <1>12, <4>2
    <3>3. Accepted(old[i].gen)' /\ Ended(old[i].gen, old[i].at)'
      BY <1>5, <1>9, <1>11, <3>1
    <3> QED
      BY <1>5, <1>7, <1>10, <1>11, <3>1, <3>2, <3>3
  <2>2. CASE i # 1
    <3>1. PICK k \in DOMAIN prev : k = i - 1 /\ old[i] = prev[k] /\ i \in 2 .. (Len(prev) + 1)
      BY <1>6, <2>2
    <3>2. Later(r, old, i) = Later(p, prev, k)
      <4>1. CASE k = 1
        BY <1>5, <1>6, <3>1, <4>1 DEF Later
      <4>2. CASE k # 1
        <5>1. i - 1 \in 2 .. (Len(prev) + 1) /\ old[i - 1] = prev[k - 1]
          BY <1>6, <3>1, <4>2
        <5> QED
          BY <2>2, <3>1, <4>2, <5>1 DEF Later
      <4> QED
        BY <4>1, <4>2
    <3>3. /\ Accepted(prev[k].gen)'
          /\ gen'[Later(p, prev, k)].at = prev[k].at
          /\ gen'[Later(p, prev, k)].known + 1 = prev[k].end
          /\ gen'[prev[k].gen].at < prev[k].end
          /\ Ended(prev[k].gen, prev[k].at)'
          /\ \A j \in DOMAIN prev : k < j => prev[j].at <= prev[k].at
      BY <1>9, <3>1 DEF ChainOK, Later
    <3>4. ASSUME NEW j \in DOMAIN old, i < j PROVE old[j].at <= old[i].at
      <4>1. j \in 2 .. (Len(prev) + 1) /\ j - 1 \in DOMAIN prev /\ old[j] = prev[j - 1] /\ k < j - 1
        BY <1>6, <3>1, <3>4
      <4> QED
        BY <3>1, <3>3, <4>1
    <3> QED
      BY <3>1, <3>2, <3>3, <3>4
  <2> QED
    BY <2>1, <2>2
<1> QED
  BY <1>13 DEF ChainOK, Later

LEMMA ChainStep ==
    ASSUME IInv, TypeOK', [Next]_vars
    PROVE  InvChain'
<1>0. TypeOK /\ InvPhase /\ InvChain
  BY DEF IInv
<1>a. Advance
  BY Advances
<1>b. /\ CoreOK /\ (\A r \in Recovery : PrevOK(r) /\ HeadOK(r)) /\ \A g \in Gen : OwnOK(g)
      /\ \A r \in Recovery : r \in Gen
  BY <1>0, ChainParts, Constants
<1>c. ASSUME cstate' = cstate PROVE CoreOK'
  <2>1. PICK g \in Gen, old \in Seq(OldEntry) : g = cstate.gen /\ old = cstate.old
    BY <1>0, Typed
  <2>2. Accepted(g)' /\ ChainOK(g, old)'
    BY <1>0, <1>a, <1>b, <2>1, ChainGoesOn DEF CoreOK
  <2> QED
    BY <1>c, <2>1, <2>2 DEF CoreOK, Accepted, ChainOK, Later
<1>d. ASSUME NEW r \in Recovery, Pending(r)' => Pending(r), mgr'[r].prev = mgr[r].prev PROVE PrevOK(r)'
  <2>1. CASE ~ Pending(r)
    BY <1>d, <2>1 DEF PrevOK
  <2>2. CASE Pending(r)
    <3>1. PICK g \in Gen, old \in Seq(OldEntry) : g = mgr[r].prev.gen /\ old = mgr[r].prev.old
      BY <1>0, Typed
    <3>2. Accepted(g)' /\ ChainOK(g, old)'
      BY <1>0, <1>a, <1>b, <2>2, <3>1, ChainGoesOn DEF PrevOK
    <3> QED
      BY <1>d, <3>1, <3>2, SMTT(30) DEF PrevOK, Accepted, ChainOK, Later
  <2> QED
    BY <2>1, <2>2
<1>e. ASSUME NEW g \in Gen, gen'[g].at = gen[g].at, gen'[g].known = gen[g].known, gen'[g].old = gen[g].old PROVE OwnOK(g)'
  <2>1. CASE gen[g].at = None
    BY <1>e, <2>1 DEF OwnOK
  <2>2. CASE gen[g].at # None
    <3>1. PICK old \in Seq(OldEntry) : old = gen[g].old
      BY <1>0, Typed
    <3>2. ChainOK(g, old)'
      BY <1>0, <1>a, <1>b, <1>e, <2>2, <3>1, ChainStays DEF OwnOK
    <3> QED
      BY <1>e, <3>1, <3>2 DEF OwnOK, ChainOK, Later
  <2> QED
    BY <2>1, <2>2
<1>f. ASSUME NEW r \in Recovery, Pending(r)' => Pending(r), mgr'[r].prev = mgr[r].prev,
             gen'[r].at = gen[r].at, gen'[r].known = gen[r].known, gen'[r].old = gen[r].old
      PROVE  HeadOK(r)'
  BY <1>b, <1>f DEF HeadOK
<1>g. ASSUME NEW r \in Recovery, mgr'[r].phase \notin {"locking", "recruiting", "transaction"}
      PROVE  PrevOK(r)' /\ HeadOK(r)'
  BY <1>g DEF PrevOK, HeadOK, Pending
<1>h. ASSUME NEW r \in Recovery, mgr'[r] = mgr[r] PROVE (Pending(r)' => Pending(r)) /\ mgr'[r].prev = mgr[r].prev
  BY <1>h DEF Pending
<1>i. ASSUME NEW r \in Recovery, cstate'.gen = r, cstate'.old = CoreState(r).old, gen[r].at # None, gen' = gen, Accepted(r)'
      PROVE  CoreOK'
  <2>1. PICK old \in Seq(OldEntry) : old = gen[r].old
    BY <1>0, <1>b, Typed
  <2>2. ChainOK(r, old)'
    BY <1>0, <1>a, <1>b, <1>i, <2>1, ChainStays DEF OwnOK
  <2>3. CoreState(r).old = <<>> \/ CoreState(r).old = old
    BY <1>0, <2>1, CoreTyped
  <2>4. CASE cstate'.old = <<>>
    BY <1>i, <2>4 DEF CoreOK, ChainOK, Accepted
  <2>5. CASE cstate'.old = old
    BY <1>i, <2>2, <2>5 DEF CoreOK, ChainOK, Later, Accepted
  <2> QED
    BY <1>i, <2>3, <2>4, <2>5
<1>1. CASE UNCHANGED <<cstate, mgr, gen>>
  BY <1>1, <1>c, <1>d, <1>e, <1>f, <1>h, ChainParts
<1>2. ASSUME NEW r \in Recovery, GivesUp(r) PROVE InvChain'
  <2>1. cstate' = cstate /\ mgr'[r].phase = "dead" /\ \A s \in Recovery : s # r => mgr'[s] = mgr[s]
    BY <1>0, <1>2, GivesUpIs, IdleTyped DEF GivesUp
  <2>2. \A g \in Gen : g # r \/ Accepted(r) => gen'[g] = gen[g]
    BY <1>0, <1>2, GivesUpIs
  <2>3. ~ Accepted(r) => gen'[r].at = None
    BY <1>0, <1>2, GivesUpIs, IdleTyped
  <2>4. \A g \in Gen : OwnOK(g)'
    BY <1>e, <2>2, <2>3 DEF OwnOK
  <2>5. \A s \in Recovery : PrevOK(s)' /\ HeadOK(s)'
    BY <1>b, <1>d, <1>f, <1>g, <1>h, <2>1, <2>2
  <2> QED
    BY <1>c, <2>1, <2>4, <2>5, ChainParts
<1>3. ASSUME NEW r \in Recovery, ReadCState(r) PROVE InvChain'
  <2>1. UNCHANGED <<cstate, gen>> /\ mgr[r].phase = "idle"
    BY <1>3 DEF ReadCState
  <2>2. mgr'[r].prev = cstate /\ \A s \in Recovery : s # r => mgr'[s] = mgr[s]
    BY <1>0, <1>3, ReadCStateIs
  <2>3. CoreOK'
    BY <1>c, <2>1
  <2>4. PrevOK(r)'
    BY <2>1, <2>2, <2>3 DEF PrevOK, CoreOK, ChainOK, Later, Accepted
  <2>5. HeadOK(r)'
    BY <1>0, <2>1 DEF HeadOK, InvPhase
  <2>6. \A s \in Recovery : PrevOK(s)' /\ HeadOK(s)'
    BY <1>b, <1>d, <1>f, <1>h, <2>1, <2>2, <2>4, <2>5
  <2>7. \A g \in Gen : OwnOK(g)'
    BY <1>e, <2>1
  <2> QED
    BY <2>3, <2>6, <2>7, ChainParts
<1>4. ASSUME NEW r \in Recovery, NEW l \in Log, TLogLockReply(r, l) PROVE InvChain'
  <2>1. UNCHANGED <<cstate, gen>>
    BY <1>4 DEF TLogLockReply
  <2>2. \A s \in Recovery : mgr'[s].phase = mgr[s].phase /\ mgr'[s].prev = mgr[s].prev
    BY <1>0, <1>4, LockReplyIs
  <2>3. \A s \in Recovery : Pending(s)' => Pending(s)
    BY <2>2 DEF Pending
  <2> QED
    BY <1>c, <1>d, <1>e, <1>f, <2>1, <2>2, <2>3, ChainParts
<1>5. ASSUME NEW r \in Recovery, NEW results \in SUBSET Log, EpochEnd(r, results) PROVE InvChain'
  <2>1. PICK end, known \in Nat : EndsAt(r, end, known)
    BY <1>5, EpochEnds
  <2>2. UNCHANGED <<mgr, cstate>>
    BY <2>1 DEF EndsAt
  <2>3. /\ gen'[r].at = end /\ gen'[r].known = known /\ gen'[r].old = OldOf(mgr[r], end, known)
        /\ \A g \in Gen : g # r => gen'[g] = gen[g]
    BY <1>0, <2>1, EndsAtIs
  <2>4. OwnOK(r)'
    <3>1. PICK old : old = OldOf(mgr[r], end, known)
      OBVIOUS
    <3>2. ChainOK(r, old)'
      BY <1>a, <2>1, <3>1, ChainGrows
    <3>3. gen'[r].old = old
      BY <2>3, <3>1
    <3> QED
      BY <3>2, <3>3 DEF OwnOK, ChainOK, Later
  <2>5. HeadOK(r)'
    BY <2>2, <2>3 DEF HeadOK, OldOf
  <2>6. \A s \in Recovery : PrevOK(s)' /\ HeadOK(s)'
    BY <1>b, <1>d, <1>f, <1>h, <2>2, <2>3, <2>5
  <2>7. \A g \in Gen : OwnOK(g)'
    BY <1>e, <2>3, <2>4
  <2> QED
    BY <1>c, <2>2, <2>6, <2>7, ChainParts
<1>6. ASSUME NEW r \in Recovery, Locks(r) PROVE InvChain'
  <2>1. gen' = gen /\ Pending(r)
    BY <1>6 DEF Locks, Pending
  <2>2. /\ mgr'[r].prev = mgr[r].prev /\ cstate'.gen = mgr[r].prev.gen /\ cstate'.old = mgr[r].prev.old
        /\ \A s \in Recovery : s # r => mgr'[s] = mgr[s]
        /\ mgr'[r].phase = "recruiting"
    BY <1>0, <1>6, LocksIs
  <2>3. \A s \in Recovery : PrevOK(s)' /\ HeadOK(s)'
    BY <1>d, <1>f, <1>h, <2>1, <2>2
  <2>4. CoreOK'
    <3>1. Pending(r)'
      BY <2>2 DEF Pending
    <3>2. PrevOK(r)'
      BY <2>3
    <3>3. PICK g, old : g = mgr'[r].prev.gen /\ old = mgr'[r].prev.old
      OBVIOUS
    <3>4. Accepted(g)' /\ ChainOK(g, old)'
      BY <3>1, <3>2, <3>3, SMTT(30) DEF PrevOK, Accepted, ChainOK, Later
    <3>5. g = cstate'.gen /\ old = cstate'.old
      BY <2>2, <3>3
    <3> QED
      BY <3>4, <3>5, SMTT(30) DEF CoreOK, Accepted, ChainOK, Later
  <2> QED
    BY <1>e, <2>1, <2>3, <2>4, ChainParts
<1>7. ASSUME NEW r \in Recovery, RecoveryTransaction(r) PROVE InvChain'
  <2>1. cstate' = cstate /\ Pending(r)
    BY <1>7 DEF RecoveryTransaction, Pending
  <2>2. /\ mgr'[r].prev = mgr[r].prev
        /\ gen'[r].at = gen[r].at /\ gen'[r].known = gen[r].known /\ gen'[r].old = gen[r].old
        /\ \A s \in Recovery : s # r => mgr'[s] = mgr[s]
        /\ \A g \in Gen : g # r => gen'[g] = gen[g]
    BY <1>7, TransactionIs
  <2>3. \A s \in Recovery : PrevOK(s)' /\ HeadOK(s)'
    BY <1>b, <1>d, <1>f, <1>h, <2>1, <2>2
  <2>4. \A g \in Gen : OwnOK(g)'
    BY <1>e, <2>2
  <2> QED
    BY <1>c, <2>1, <2>3, <2>4, ChainParts
<1>8. ASSUME NEW r \in Recovery, Accepts(r) PROVE InvChain'
  <2>1. gen' = gen /\ cstate' = CoreState(r)
    BY <1>8 DEF Accepts
  <2>2. /\ mgr'[r].phase = "accepting" /\ gen[r].at # None /\ committed'[r] \in Nat
        /\ \A s \in Recovery : s # r => mgr'[s] = mgr[s]
    BY <1>8, AcceptsIs
  <2>3. \A s \in Recovery : PrevOK(s)' /\ HeadOK(s)'
    BY <1>d, <1>f, <1>g, <1>h, <2>1, <2>2
  <2>4. Accepted(r)'
    BY <2>2, Constants DEF Accepted
  <2>5. CoreOK'
    BY <1>0, <1>i, <2>1, <2>2, <2>4, CoreTyped
  <2> QED
    BY <1>e, <2>1, <2>3, <2>5, ChainParts
<1>9. ASSUME NEW r \in Recovery, Updates(r) PROVE InvChain'
  <2>1. gen' = gen /\ cstate' = CoreState(r) /\ Accepted(r)
    BY <1>0, <1>9 DEF Updates, InvPhase
  <2>2. /\ mgr'[r].phase = "accepting"
        /\ \A s \in Recovery : s # r => mgr'[s] = mgr[s]
    BY <1>0, <1>9, UpdatesIs
  <2>3. \A s \in Recovery : PrevOK(s)' /\ HeadOK(s)'
    BY <1>d, <1>f, <1>g, <1>h, <2>1, <2>2
  <2>4. Accepted(r)' /\ gen[r].at # None
    BY <1>0, <1>a, <1>b, <2>1 DEF Advance, KeepsGoing, InvPhase
  <2>5. CoreOK'
    BY <1>0, <1>i, <2>1, <2>4, CoreTyped
  <2> QED
    BY <1>e, <2>1, <2>3, <2>5, ChainParts
<1>10. ASSUME NEW r \in Recovery, Purge(r) PROVE InvChain'
  <2>1. UNCHANGED <<cstate, mgr>> /\ mgr[r].phase = "accepting"
    BY <1>10 DEF Purge
  <2>2. /\ gen'[r].at = gen[r].at /\ gen'[r].known = gen[r].known
        /\ \A g \in Gen : g # r => gen'[g] = gen[g]
        /\ \E i \in DOMAIN gen[r].old : PurgesAt(r, i)
    BY <1>0, <1>10, PurgeIs
  <2>3. \A s \in Recovery : PrevOK(s)' /\ HeadOK(s)'
    BY <1>b, <1>d, <1>f, <1>g, <1>h, <2>1, <2>2
  <2>4. OwnOK(r)'
    <3>1. PICK i \in DOMAIN gen[r].old : PurgesAt(r, i)
      BY <2>2
    <3>2. PICK old \in Seq(OldEntry), kept \in Seq(OldEntry) : old = gen[r].old /\ kept = gen'[r].old
      BY <1>0, <1>b, <3>1, Typed DEF PurgesAt
    <3>3. /\ i \in 1 .. Len(old) /\ Len(old) \in Nat /\ DOMAIN kept = 1 .. (i - 1) /\ DOMAIN old = 1 .. Len(old)
          /\ \A j \in 1 .. (i - 1) : kept[j] = old[j]
      BY <3>1, <3>2 DEF PurgesAt
    <3>4. gen[r].at # None
      BY <1>0, <1>b, <2>1 DEF InvPhase
    <3>5. ChainOK(r, old)'
      BY <1>0, <1>a, <1>b, <2>2, <3>2, <3>4, ChainStays DEF OwnOK
    <3>6. \A j \in DOMAIN kept : j \in DOMAIN old /\ kept[j] = old[j] /\ Later(r, kept, j) = Later(r, old, j)
      BY <3>3 DEF Later
    <3>7. ChainOK(r, kept)'
      BY <3>5, <3>6 DEF ChainOK, Later
    <3> QED
      BY <3>2, <3>7 DEF OwnOK, ChainOK, Later
  <2>5. \A g \in Gen : OwnOK(g)'
    BY <1>e, <2>2, <2>4
  <2> QED
    BY <1>c, <2>1, <2>3, <2>5, ChainParts
<1>11. \/ UNCHANGED vars
       \/ ReaderStep
       \/ \E g \in Gen : StorageDurable(g) \/ Push(g) \/ Answer(g) \/ \E l \in Log : LogChange(g, l)
       \/ \E r \in Recovery : NewEpoch(r)
       => UNCHANGED <<cstate, mgr, gen>>
  BY DEF vars, ReaderStep, AskReadVersion, ConfirmRunning, SendReadVersion, StorageDurable, Push, Answer, LogChange,
         SameButLog, NewEpoch
<1> QED
  BY <1>1, <1>2, <1>3, <1>4, <1>5, <1>6, <1>7, <1>8, <1>9, <1>10, <1>11, Steps

-----------------------------------------------------------------------------
(***************************************************************************)
(* Recoveries and the coordinated state.                                   *)
(***************************************************************************)

PlaceOK(r) ==
    /\ mgr[r].place <= writes
    /\ mgr[r].place = writes =>
          /\ mgr[r].phase = "locking" => mgr[r].prev = cstate
          /\ mgr[r].phase \in {"recruiting", "transaction"} =>
                /\ mgr[r].prev.gen = cstate.gen /\ mgr[r].prev.old = cstate.old
                /\ cstate.count = mgr[r].prev.count + 1
          /\ mgr[r].phase = "accepting" => cstate.gen = r /\ cstate.count = gen[r].count

LEMMA PlaceStep ==
    ASSUME IInv, TypeOK', [Next]_vars
    PROVE  InvPlace'
<1>0. TypeOK /\ InvPhase /\ InvPlace
  BY DEF IInv
<1>a. Advance
  BY Advances
<1>b. /\ \A r \in Recovery : PlaceOK(r) /\ mgr[r].place \in Nat /\ r \in Gen
      /\ writes \in Nat
  BY <1>0, Typed, Constants DEF InvPlace, PlaceOK
<1>c. ASSUME \A r \in Recovery : PlaceOK(r)' PROVE InvPlace'
  BY <1>c DEF InvPlace, PlaceOK
<1>d. ASSUME NEW r \in Recovery, UNCHANGED <<cstate, writes>>, mgr'[r].phase = mgr[r].phase,
             mgr'[r].prev = mgr[r].prev, mgr'[r].place = mgr[r].place
      PROVE  PlaceOK(r)'
  <2>1. mgr[r].phase = "accepting" => gen'[r].count = gen[r].count
    BY <1>0, <1>a, <1>b DEF InvPhase, Advance, KeepsGoing
  <2> QED
    BY <1>b, <1>d, <2>1 DEF PlaceOK
<1>e. ASSUME NEW r \in Recovery, writes' = writes + 1, mgr'[r] = mgr[r] PROVE PlaceOK(r)'
  BY <1>b, <1>e DEF PlaceOK
<1>1. CASE UNCHANGED <<cstate, writes, mgr>>
  BY <1>1, <1>c, <1>d
<1>2. ASSUME NEW r \in Recovery, GivesUp(r) PROVE InvPlace'
  <2>1. UNCHANGED <<cstate, writes>> /\ \A s \in Recovery : s # r => mgr'[s] = mgr[s]
    BY <1>0, <1>2, GivesUpIs DEF GivesUp
  <2>2. mgr'[r].phase = "dead" /\ mgr'[r].place = 0
    BY <1>0, <1>2, GivesUpIs, IdleTyped
  <2>3. PlaceOK(r)'
    BY <1>b, <2>1, <2>2 DEF PlaceOK
  <2> QED
    BY <1>c, <1>d, <2>1, <2>3
<1>3. ASSUME NEW r \in Recovery, ReadCState(r) PROVE InvPlace'
  <2>1. UNCHANGED <<cstate, writes>>
    BY <1>3 DEF ReadCState
  <2>2. /\ mgr'[r].phase = "locking" /\ mgr'[r].prev = cstate /\ mgr'[r].place = writes
        /\ \A s \in Recovery : s # r => mgr'[s] = mgr[s]
    BY <1>0, <1>3, ReadCStateIs
  <2>3. PlaceOK(r)'
    BY <1>b, <2>1, <2>2 DEF PlaceOK
  <2> QED
    BY <1>c, <1>d, <2>1, <2>2, <2>3
<1>4. ASSUME NEW r \in Recovery, NEW l \in Log, TLogLockReply(r, l) PROVE InvPlace'
  <2>1. UNCHANGED <<cstate, writes>>
    BY <1>4 DEF TLogLockReply
  <2>2. \A s \in Recovery : mgr'[s].phase = mgr[s].phase /\ mgr'[s].prev = mgr[s].prev /\ mgr'[s].place = mgr[s].place
    BY <1>0, <1>4, LockReplyIs
  <2> QED
    BY <1>c, <1>d, <2>1, <2>2
<1>5. ASSUME NEW r \in Recovery, Locks(r) PROVE InvPlace'
  <2>1. writes' = writes + 1
    BY <1>5 DEF Locks
  <2>2. /\ mgr'[r].phase = "recruiting" /\ mgr'[r].place = writes + 1 /\ mgr'[r].prev = mgr[r].prev
        /\ cstate'.gen = mgr[r].prev.gen /\ cstate'.old = mgr[r].prev.old
        /\ cstate'.count = mgr[r].prev.count + 1
        /\ \A s \in Recovery : s # r => mgr'[s] = mgr[s]
    BY <1>0, <1>5, LocksIs
  <2>3. PlaceOK(r)'
    BY <1>b, <2>1, <2>2 DEF PlaceOK
  <2> QED
    BY <1>c, <1>e, <2>1, <2>2, <2>3
<1>6. ASSUME NEW r \in Recovery, RecoveryTransaction(r) PROVE InvPlace'
  <2>1. UNCHANGED <<cstate, writes>> /\ mgr[r].phase = "recruiting"
    BY <1>6 DEF RecoveryTransaction
  <2>2. /\ mgr'[r].phase = "transaction" /\ mgr'[r].place = mgr[r].place /\ mgr'[r].prev = mgr[r].prev
        /\ \A s \in Recovery : s # r => mgr'[s] = mgr[s]
    BY <1>6, TransactionIs
  <2>3. PlaceOK(r)'
    BY <1>b, <2>1, <2>2 DEF PlaceOK
  <2> QED
    BY <1>c, <1>d, <2>1, <2>2, <2>3
<1>7. ASSUME NEW r \in Recovery, Accepts(r) \/ Updates(r) PROVE InvPlace'
  <2>1. writes' = writes + 1 /\ cstate' = CoreState(r) /\ gen' = gen
    BY <1>7 DEF Accepts, Updates
  <2>2. /\ mgr'[r].phase = "accepting" /\ mgr'[r].place = writes + 1
        /\ \A s \in Recovery : s # r => mgr'[s] = mgr[s]
    BY <1>0, <1>7, AcceptsIs, UpdatesIs
  <2>3. cstate'.gen = r /\ cstate'.count = gen[r].count
    BY <1>0, <2>1, CoreTyped
  <2>4. PlaceOK(r)'
    BY <1>b, <2>1, <2>2, <2>3 DEF PlaceOK
  <2> QED
    BY <1>c, <1>e, <2>1, <2>2, <2>4
<1>8. \/ UNCHANGED vars
      \/ ReaderStep
      \/ \E g \in Gen : StorageDurable(g) \/ Push(g) \/ Answer(g) \/ \E l \in Log : LogChange(g, l)
      \/ \E r \in Recovery : NewEpoch(r) \/ Purge(r) \/ \E results \in SUBSET Log : EpochEnd(r, results)
      => UNCHANGED <<cstate, writes, mgr>>
  BY DEF vars, ReaderStep, AskReadVersion, ConfirmRunning, SendReadVersion, StorageDurable, Push, Answer, LogChange,
         SameButLog, NewEpoch, Purge, EpochEnd
<1> QED
  BY <1>1, <1>2, <1>3, <1>4, <1>5, <1>6, <1>7, <1>8, Steps

\* A generation that accepted commits before the current one has ended by the time the
\* current one began.
EndedBefore(g, c) == \E e \in Nat : Ended(g, e) /\ gen[g].at <= e /\ e <= gen[c].at

LEMMA EndedBeforeStays ==
    ASSUME TypeOK, Advance, NEW g \in Gen, NEW c \in Gen, Accepted(g), gen'[c].at = gen[c].at, EndedBefore(g, c)
    PROVE  EndedBefore(g, c)'
<1>1. PICK e \in Nat : Ended(g, e) /\ gen[g].at <= e /\ e <= gen[c].at
  BY DEF EndedBefore
<1>2. Ended(g, e)' /\ gen'[g].at = gen[g].at
  BY <1>1, EndedStays DEF Advance, KeepsGoing
<1> QED
  BY <1>1, <1>2 DEF EndedBefore

\* A recovery that can write its new generation follows the current one immediately.
LEMMA Successor ==
    ASSUME IInv, NEW r \in Recovery, mgr[r].phase = "transaction", mgr[r].place = writes
    PROVE  /\ r \in Gen /\ cstate.gen \in Gen /\ Accepted(cstate.gen) /\ ~ Accepted(r) /\ gen[r].at # None
           /\ gen[r].count = cstate.count + 1 /\ cstate.count \in Nat /\ gen[cstate.gen].count <= cstate.count
           /\ gen[r].old = <<[gen |-> cstate.gen, end |-> gen[r].known + 1, at |-> gen[r].at]>> \o cstate.old
           /\ gen[r].old # <<>> /\ gen[r].old[1].gen = cstate.gen
           /\ ChainOK(r, gen[r].old) /\ ChainOK(cstate.gen, cstate.old)
           /\ EndedBefore(cstate.gen, r)
           /\ gen[cstate.gen].at \in Nat /\ gen[r].at \in Nat /\ gen[cstate.gen].at <= gen[r].at
<1>0. TypeOK /\ InvPhase /\ InvChain /\ InvPlace /\ InvOrder
  BY DEF IInv
<1>1. r \in Gen /\ cstate.gen \in Gen /\ cstate.count \in Nat /\ Accepted(cstate.gen) /\ Pending(r) /\ mgr[r].prev.count \in Nat
  BY <1>0, Typed, Constants DEF InvChain, Pending
<1>2. ~ Accepted(r) /\ gen[r].at # None /\ gen[r].count = mgr[r].prev.count + 2
  BY <1>0 DEF InvPhase
<1>3. mgr[r].prev.gen = cstate.gen /\ mgr[r].prev.old = cstate.old /\ cstate.count = mgr[r].prev.count + 1
  BY <1>0 DEF InvPlace
<1>4. gen[r].count = cstate.count + 1 /\ gen[cstate.gen].count <= cstate.count
  BY <1>0, <1>1, <1>2, <1>3 DEF InvOrder
<1>5. gen[r].old = <<[gen |-> cstate.gen, end |-> gen[r].known + 1, at |-> gen[r].at]>> \o cstate.old
  BY <1>0, <1>1, <1>2, <1>3 DEF InvChain
<1>6. cstate.old \in Seq(OldEntry) /\ gen[r].known \in Nat /\ gen[r].at \in Nat /\ gen[r].known <= gen[r].at
  BY <1>0, <1>1, <1>2, Typed, Constants DEF InvPhase
<1>7. PICK e : e = [gen |-> cstate.gen, end |-> gen[r].known + 1, at |-> gen[r].at]
  OBVIOUS
<1>8. e \in OldEntry /\ e.gen = cstate.gen /\ e.at = gen[r].at /\ e.end = gen[r].known + 1
  BY <1>1, <1>6, <1>7 DEF OldEntry
<1>9. 1 \in DOMAIN gen[r].old /\ gen[r].old[1] = e /\ gen[r].old # <<>>
  BY <1>5, <1>6, <1>7, <1>8
<1>10. ChainOK(r, gen[r].old) /\ ChainOK(cstate.gen, cstate.old)
  BY <1>0, <1>1, <1>2 DEF InvChain
<1>11. Ended(cstate.gen, gen[r].at) /\ gen[cstate.gen].at < gen[r].known + 1
  BY <1>8, <1>9, <1>10 DEF ChainOK
<1>12. gen[cstate.gen].at \in Nat
  BY <1>0, <1>1, CommittedTyped
<1>13. EndedBefore(cstate.gen, r) /\ gen[cstate.gen].at <= gen[r].at
  BY <1>6, <1>11, <1>12 DEF EndedBefore
<1> QED
  BY <1>1, <1>2, <1>4, <1>5, <1>6, <1>8, <1>9, <1>10, <1>12, <1>13

LEMMA OrderStep ==
    ASSUME IInv, TypeOK', [Next]_vars
    PROVE  InvOrder'
<1>0. TypeOK /\ InvPhase /\ InvChain /\ InvPlace /\ InvOrder
  BY DEF IInv
<1>a. Advance
  BY Advances
<1>b. /\ cstate.gen \in Gen /\ Accepted(cstate.gen) /\ cstate.count \in Nat /\ cstate'.count \in Nat
      /\ \A r \in Recovery : r \in Gen
      /\ \A g \in Gen : gen[g].count \in Nat
  <2>1. cstate'.count \in Nat
    BY TypeParts DEF CoreStates
  <2> QED
    BY <1>0, <2>1, Typed, Constants DEF InvChain
<1>c. \A g \in Gen : Accepted(g) => /\ gen'[g].count = gen[g].count /\ gen'[g].at = gen[g].at
                                    /\ Accepted(g)'
  BY <1>a DEF Advance, KeepsGoing
<1>d. \A g \in Gen : Accepted(g) /\ gen[g].old # <<>> => gen[g].old[1].gen \in Gen /\ Accepted(gen[g].old[1].gen)
  <2>1. ASSUME NEW g \in Gen, Accepted(g), gen[g].old # <<>>
        PROVE  gen[g].old[1].gen \in Gen /\ Accepted(gen[g].old[1].gen)
    <3>1. gen[g].old \in Seq(OldEntry) /\ gen[g].at # None
      BY <1>0, <2>1, Typed DEF InvPhase
    <3>2. 1 \in DOMAIN gen[g].old
      BY <2>1, <3>1
    <3>3. gen[g].old[1] \in OldEntry
      BY <3>1, <3>2
    <3> QED
      BY <1>0, <3>1, <3>2, <3>3 DEF InvChain, ChainOK, OldEntry
  <2> QED
    BY <2>1
<1>e. ASSUME \A g \in Gen : Accepted(g)' <=> Accepted(g),
             cstate'.gen = cstate.gen, cstate'.count >= cstate.count,
             \A g \in Gen : Accepted(g) /\ gen'[g].old # <<>> => gen[g].old # <<>> /\ gen'[g].old[1] = gen[g].old[1]
      PROVE  InvOrder'
  <2>1. gen'[cstate'.gen].count <= cstate'.count
    BY <1>0, <1>b, <1>c, <1>e DEF InvOrder
  <2>2. ASSUME NEW g \in Gen, Accepted(g)' PROVE gen'[g].count <= gen'[cstate'.gen].count
    BY <1>0, <1>b, <1>c, <1>e, <2>2 DEF InvOrder
  <2>3. ASSUME NEW g \in Gen, NEW h \in Gen, Accepted(g)', Accepted(h)', gen'[g].count = gen'[h].count PROVE g = h
    BY <1>0, <1>c, <1>e, <2>3 DEF InvOrder
  <2>4. ASSUME NEW g \in Gen, Accepted(g)', gen'[g].old # <<>>
        PROVE  /\ gen'[gen'[g].old[1].gen].count < gen'[g].count
               /\ \A h \in Gen : Accepted(h)' => \/ gen'[h].count <= gen'[gen'[g].old[1].gen].count
                                                \/ gen'[g].count <= gen'[h].count
    <3>1. PICK p \in Gen : p = gen[g].old[1].gen /\ Accepted(p) /\ gen'[g].old[1].gen = p /\ gen[g].old # <<>>
      BY <1>d, <1>e, <2>4
    <3> QED
      BY <1>0, <1>c, <1>e, <2>4, <3>1 DEF InvOrder
  <2>5. ASSUME NEW g \in Gen, Accepted(g)', g # cstate'.gen
        PROVE  \E e \in Nat : Ended(g, e)' /\ gen'[g].at <= e /\ e <= gen'[cstate'.gen].at
    <3>1. PICK c \in Gen : c = cstate.gen
      BY <1>b
    <3>2. EndedBefore(g, c)
      BY <1>0, <1>e, <2>5, <3>1 DEF InvOrder, EndedBefore
    <3>3. EndedBefore(g, c)'
      BY <1>0, <1>a, <1>b, <1>c, <1>e, <2>5, <3>1, <3>2, EndedBeforeStays
    <3> QED
      BY <1>e, <3>1, <3>3 DEF EndedBefore
  <2> QED
    BY <2>1, <2>2, <2>3, <2>4, <2>5 DEF InvOrder
<1>f. ASSUME committed' = committed PROVE \A g \in Gen : Accepted(g)' <=> Accepted(g)
  BY <1>f DEF Accepted
<1>1. CASE UNCHANGED <<cstate, gen, committed>>
  BY <1>1, <1>b, <1>e, <1>f
<1>2. ASSUME NEW g \in Gen, Answer(g) PROVE InvOrder'
  <2>1. UNCHANGED <<cstate, gen>> /\ committed' = [committed EXCEPT ![g] = @ + 1] /\ Accepted(g)
    BY <1>2 DEF Answer
  <2>2. committed \in [Gen -> Nat \cup {None}]
    BY <1>0 DEF TypeOK
  <2>3. \A h \in Gen : h # g => committed'[h] = committed[h]
    BY <2>1, <2>2
  <2>4. \A h \in Gen : Accepted(h)' <=> Accepted(h)
    BY <1>c, <2>1, <2>3 DEF Accepted
  <2> QED
    BY <1>b, <1>e, <2>1, <2>4
<1>3. ASSUME NEW r \in Recovery, GivesUp(r) PROVE InvOrder'
  <2>1. UNCHANGED <<cstate, committed>>
    BY <1>3 DEF GivesUp
  <2>2. \A g \in Gen : Accepted(g) => gen'[g] = gen[g]
    BY <1>0, <1>3, GivesUpIs
  <2> QED
    BY <1>b, <1>e, <1>f, <2>1, <2>2
<1>4. ASSUME NEW r \in Recovery, NEW results \in SUBSET Log, EpochEnd(r, results) PROVE InvOrder'
  <2>1. PICK end, known \in Nat : EndsAt(r, end, known)
    BY <1>4, EpochEnds
  <2>2. UNCHANGED <<cstate, committed>> /\ ~ Accepted(r)
    BY <2>1 DEF EndsAt
  <2>3. \A g \in Gen : Accepted(g) => gen'[g] = gen[g]
    BY <1>0, <2>1, <2>2, EndsAtIs
  <2> QED
    BY <1>b, <1>e, <1>f, <2>2, <2>3
<1>5. ASSUME NEW r \in Recovery, Locks(r) PROVE InvOrder'
  <2>1. UNCHANGED <<gen, committed>> /\ mgr[r].prev = cstate
    BY <1>0, <1>5 DEF Locks, InvPlace
  <2>2. cstate'.gen = mgr[r].prev.gen /\ cstate'.count = mgr[r].prev.count + 1
    BY <1>0, <1>5, LocksIs
  <2> QED
    BY <1>b, <1>e, <1>f, <2>1, <2>2
<1>6. ASSUME NEW r \in Recovery, RecoveryTransaction(r) PROVE InvOrder'
  <2>1. UNCHANGED <<cstate, committed>>
    BY <1>6 DEF RecoveryTransaction
  <2>2. \A g \in Gen : gen'[g].old = gen[g].old
    BY <1>6, TransactionIs
  <2> QED
    BY <1>b, <1>e, <1>f, <2>1, <2>2
<1>7. ASSUME NEW r \in Recovery, Accepts(r) PROVE InvOrder'
  <2>1. gen' = gen /\ cstate' = CoreState(r) /\ mgr[r].phase = "transaction" /\ mgr[r].place = writes
    BY <1>7 DEF Accepts
  <2>2. PICK c \in Gen : c = cstate.gen
    BY <1>b
  <2>3. /\ Accepted(c) /\ ~ Accepted(r)
        /\ gen[r].count = cstate.count + 1 /\ gen[c].count <= cstate.count
        /\ gen[r].old # <<>> /\ gen[r].old[1].gen = c
        /\ EndedBefore(c, r)
        /\ gen[c].at \in Nat /\ gen[r].at \in Nat /\ gen[c].at <= gen[r].at
    BY <2>1, <2>2, Successor
  <2>4. cstate'.gen = r /\ cstate'.count = gen[r].count
    BY <1>0, <2>1, CoreTyped
  <2>5. \A g \in Gen : Accepted(g)' <=> Accepted(g) \/ g = r
    <3>1. committed'[r] \in Nat /\ \A g \in Gen : g # r => committed'[g] = committed[g]
      BY <1>7, AcceptsIs
    <3> QED
      BY <3>1, Constants DEF Accepted
  <2>6. \A g \in Gen : Accepted(g) => gen[g].count <= gen[c].count /\ gen[g].count < gen[r].count
    BY <1>0, <1>b, <2>2, <2>3 DEF InvOrder
  <2>7. gen'[cstate'.gen].count <= cstate'.count
    BY <1>b, <2>1, <2>4
  <2>8. ASSUME NEW g \in Gen, Accepted(g)' PROVE gen'[g].count <= gen'[cstate'.gen].count
    BY <1>b, <2>1, <2>4, <2>5, <2>6, <2>8
  <2>9. ASSUME NEW g \in Gen, NEW h \in Gen, Accepted(g)', Accepted(h)', gen'[g].count = gen'[h].count PROVE g = h
    BY <1>0, <1>b, <2>1, <2>5, <2>6, <2>9 DEF InvOrder
  <2>10. ASSUME NEW g \in Gen, Accepted(g)', gen'[g].old # <<>>
         PROVE  /\ gen'[gen'[g].old[1].gen].count < gen'[g].count
                /\ \A h \in Gen : Accepted(h)' => \/ gen'[h].count <= gen'[gen'[g].old[1].gen].count
                                                 \/ gen'[g].count <= gen'[h].count
    <3>1. CASE g = r
      BY <1>b, <2>1, <2>3, <2>5, <2>6, <3>1
    <3>2. CASE g # r
      <4>1. Accepted(g)
        BY <2>5, <2>10, <3>2
      <4>2. ASSUME NEW h \in Gen, Accepted(h)' PROVE gen[h].count <= gen[gen[g].old[1].gen].count \/ gen[g].count <= gen[h].count
        <5>1. CASE h = r
          BY <1>b, <2>6, <4>1, <5>1
        <5>2. CASE h # r
          BY <1>0, <2>1, <2>5, <2>10, <4>1, <4>2, <5>2 DEF InvOrder
        <5> QED
          BY <5>1, <5>2
      <4>3. gen[gen[g].old[1].gen].count < gen[g].count
        BY <1>0, <2>1, <2>10, <4>1 DEF InvOrder
      <4> QED
        BY <2>1, <4>2, <4>3
    <3> QED
      BY <3>1, <3>2
  <2>11. ASSUME NEW g \in Gen, Accepted(g)', g # cstate'.gen
         PROVE  \E e \in Nat : Ended(g, e)' /\ gen'[g].at <= e /\ e <= gen'[cstate'.gen].at
    <3>1. Accepted(g) /\ g # r
      BY <2>4, <2>5, <2>11
    <3>2. EndedBefore(g, r)
      <4>1. CASE g = c
        BY <2>3, <4>1
      <4>2. CASE g # c
        <5>1. PICK e \in Nat : Ended(g, e) /\ gen[g].at <= e /\ e <= gen[c].at
          BY <1>0, <2>2, <3>1, <4>2 DEF InvOrder
        <5>2. e <= gen[r].at
          BY <2>3, <5>1
        <5> QED
          BY <5>1, <5>2 DEF EndedBefore
      <4> QED
        BY <4>1, <4>2
    <3>3. EndedBefore(g, r)'
      BY <1>0, <1>a, <1>b, <2>1, <3>1, <3>2, EndedBeforeStays
    <3> QED
      BY <2>4, <3>3 DEF EndedBefore
  <2> QED
    BY <2>7, <2>8, <2>9, <2>10, <2>11 DEF InvOrder
<1>8. ASSUME NEW r \in Recovery, Updates(r) PROVE InvOrder'
  <2>1. UNCHANGED <<gen, committed>> /\ cstate' = CoreState(r) /\ cstate.gen = r /\ cstate.count = gen[r].count
    BY <1>0, <1>8 DEF Updates, InvPlace
  <2>2. cstate'.gen = r /\ cstate'.count = gen[r].count
    BY <1>0, <2>1, CoreTyped
  <2> QED
    BY <1>b, <1>e, <1>f, <2>1, <2>2
<1>9. ASSUME NEW r \in Recovery, Purge(r) PROVE InvOrder'
  <2>1. UNCHANGED <<cstate, committed>>
    BY <1>9 DEF Purge
  <2>2. (\A g \in Gen : g # r => gen'[g] = gen[g]) /\ \E i \in DOMAIN gen[r].old : PurgesAt(r, i)
    BY <1>0, <1>9, PurgeIs
  <2>3. PICK i \in DOMAIN gen[r].old : PurgesAt(r, i)
    BY <2>2
  <2>4. ASSUME gen'[r].old # <<>> PROVE gen[r].old # <<>> /\ gen'[r].old[1] = gen[r].old[1]
    <3>1. PICK old \in Seq(OldEntry), kept \in Seq(OldEntry) : old = gen[r].old /\ kept = gen'[r].old
      BY <1>0, <1>b, <2>3, Typed DEF PurgesAt
    <3>2. i \in 1 .. Len(old) /\ Len(old) \in Nat /\ Len(kept) = i - 1 /\ \A j \in 1 .. (i - 1) : kept[j] = old[j]
      BY <2>3, <3>1 DEF PurgesAt
    <3>3. kept # <<>>
      BY <2>4, <3>1
    <3>4. Len(kept) # 0 /\ Len(kept) \in Nat
      BY <3>1, <3>3
    <3>5. 1 \in 1 .. (i - 1)
      BY <3>2, <3>4
    <3> QED
      BY <3>1, <3>2, <3>5
  <2> QED
    BY <1>b, <1>e, <1>f, <2>1, <2>2, <2>4
<1>10. \/ UNCHANGED vars
       \/ ReaderStep
       \/ \E g \in Gen : StorageDurable(g) \/ Push(g) \/ \E l \in Log : LogChange(g, l)
       \/ \E r \in Recovery : ReadCState(r) \/ NewEpoch(r) \/ \E l \in Log : TLogLockReply(r, l)
       => UNCHANGED <<cstate, gen, committed>>
  BY DEF vars, ReaderStep, AskReadVersion, ConfirmRunning, SendReadVersion, StorageDurable, Push, LogChange,
         SameButLog, NewEpoch, ReadCState, TLogLockReply
<1> QED
  BY <1>1, <1>2, <1>3, <1>4, <1>5, <1>6, <1>7, <1>8, <1>9, <1>10, Steps

-----------------------------------------------------------------------------
(***************************************************************************)
(* Which logs are kept.                                                    *)
(***************************************************************************)

OldGens(g) == {gen[g].old[i].gen : i \in DOMAIN gen[g].old}

\* purgeOldRecoveredGenerations drops only what the storage servers have.
LEMMA PurgedAreSafe ==
    ASSUME IInv, NEW r \in Recovery, Accepted(r),
           NEW i \in DOMAIN gen[r].old, gen[r].old[i].at < Unpopped(gen[r].old),
           NEW j \in DOMAIN gen[r].old, i <= j
    PROVE  Safe(gen[r].old[j].gen)
<1>0. TypeOK /\ InvPhase /\ InvChain /\ r \in Gen /\ stored \in Nat
  BY Typed, Constants DEF IInv
<1>1. PICK old \in Seq(OldEntry) : old = gen[r].old
  BY <1>0, Typed
<1>2. ChainOK(r, old) /\ \A k \in DOMAIN old : old[k] \in OldEntry
  BY <1>0, <1>1 DEF InvPhase, InvChain
<1>3. \A k \in DOMAIN old : old[k].at \in Nat /\ old[k].end \in Nat /\ old[k].gen \in Gen
  BY <1>2 DEF OldEntry
<1> DEFINE K == {k \in DOMAIN old : k = 1 \/ old[k - 1].at >= stored + 1}
           S == {old[k].at : k \in K}
<1>4. Len(old) \in Nat /\ DOMAIN old = 1 .. Len(old) /\ i \in DOMAIN old /\ j \in DOMAIN old
  BY <1>1
<1>5. S \subseteq Nat /\ 1 \in K /\ S # {}
  <2>1. 1 \in DOMAIN old
    BY <1>4
  <2>2. 1 \in K
    BY <2>1
  <2>3. old[1].at \in S
    BY <2>2
  <2>4. S \subseteq Nat
    BY <1>3
  <2> QED
    BY <2>2, <2>3, <2>4
<1>6. Unpopped(old) = Min(S)
  BY Zenon DEF Unpopped
<1>7. Min(S) \in Nat /\ \A y \in S : Min(S) <= y
  <2> HIDE DEF S, K
  <2> QED
    BY <1>5, MinIsLeast
<1>8. \A k \in K : Min(S) <= old[k].at
  <2>1. \A k \in K : old[k].at \in S
    OBVIOUS
  <2> HIDE DEF S, K
  <2> QED
    BY <1>7, <2>1
<1>9. i \notin K
  <2>1. old[i].at < Min(S) /\ old[i].at \in Nat
    BY <1>1, <1>3, <1>4, <1>6
  <2> HIDE DEF S, K
  <2> QED
    BY <1>7, <1>8, <2>1
<1>10. i # 1 /\ i - 1 \in DOMAIN old /\ old[i - 1].at <= stored
  <2>1. i # 1 /\ ~ (old[i - 1].at >= stored + 1)
    BY <1>4, <1>9
  <2>2. i - 1 \in DOMAIN old
    BY <1>4, <2>1
  <2>3. old[i - 1].at \in Nat
    BY <1>3, <2>2
  <2> HIDE DEF S, K
  <2> QED
    BY <1>0, <2>1, <2>2, <2>3
<1> HIDE DEF S, K
<1>11. i - 1 < j
  BY <1>4
<1>12. old[j].at <= old[i - 1].at
  BY <1>2, <1>4, <1>10, <1>11 DEF ChainOK
<1>13. old[j].at \in Nat /\ old[j].at <= stored
  BY <1>0, <1>3, <1>4, <1>10, <1>12
<1>14. PICK n : n = Later(r, old, j)
  OBVIOUS
<1>15. n \in Gen
  <2>1. CASE j = 1
    BY <1>0, <1>14, <2>1 DEF Later
  <2>2. CASE j # 1
    BY <1>3, <1>4, <1>14, <2>2 DEF Later
  <2> QED
    BY <2>1, <2>2
<1>16. /\ gen[n].at = old[j].at /\ gen[n].known + 1 = old[j].end
       /\ gen[old[j].gen].at < old[j].end
       /\ Ended(old[j].gen, old[j].at) /\ Accepted(old[j].gen)
  BY <1>2, <1>4, <1>14 DEF ChainOK
<1>17. gen[n].known <= gen[n].at /\ gen[n].known \in Int
  BY <1>0, <1>13, <1>15, <1>16, Typed, Constants DEF InvPhase
<1>18. gen[old[j].gen].at \in Nat
  BY <1>0, <1>3, <1>4, <1>16, CommittedTyped
<1>19. gen[old[j].gen].at <= old[j].at
  BY <1>13, <1>16, <1>17, <1>18
<1>20. Safe(old[j].gen)
  BY <1>13, <1>16, <1>19 DEF Safe
<1> QED
  BY <1>1, <1>20

\* Who starts to accept commits, and that recoveryCount only grows.
LEMMA NewlyAccepted ==
    ASSUME IInv, TypeOK', [Next]_vars
    PROVE  /\ \A h \in Gen : Accepted(h)' /\ ~ Accepted(h) => \E r \in Recovery : Accepts(r) /\ h = r
           /\ cstate'.count >= cstate.count
           /\ \A h \in Gen : Accepted(h)' /\ ~ Accepted(h) => gen'[h].count > cstate.count
<1>0. TypeOK /\ InvPhase /\ InvPlace /\ cstate.count \in Nat
  BY Typed DEF IInv
<1>1. ASSUME NEW g \in Gen, Answer(g)
      PROVE  cstate' = cstate /\ \A h \in Gen : Accepted(h)' => Accepted(h)
  <2>1. committed' = [committed EXCEPT ![g] = @ + 1] /\ Accepted(g) /\ committed \in [Gen -> Nat \cup {None}] /\ cstate' = cstate
    BY <1>0, <1>1 DEF Answer, TypeOK
  <2> QED
    BY <2>1 DEF Accepted
<1>2. ASSUME NEW r \in Recovery, Locks(r) PROVE committed' = committed /\ cstate'.count >= cstate.count
  <2>1. mgr[r].prev = cstate /\ committed' = committed
    BY <1>0, <1>2 DEF Locks, InvPlace
  <2>2. cstate'.count = mgr[r].prev.count + 1
    BY <1>0, <1>2, LocksIs
  <2> QED
    BY <1>0, <2>1, <2>2
<1>3. ASSUME NEW r \in Recovery, Updates(r) PROVE committed' = committed /\ cstate'.count >= cstate.count
  <2>1. cstate' = CoreState(r) /\ cstate.count = gen[r].count /\ committed' = committed
    BY <1>0, <1>3 DEF Updates, InvPlace
  <2> QED
    BY <1>0, <2>1, CoreTyped
<1>4. ASSUME NEW r \in Recovery, Accepts(r)
      PROVE  /\ cstate'.count >= cstate.count /\ gen'[r].count > cstate.count
             /\ \A h \in Gen : Accepted(h)' /\ ~ Accepted(h) => h = r
  <2>1. cstate' = CoreState(r) /\ gen' = gen /\ mgr[r].phase = "transaction" /\ mgr[r].place = writes
    BY <1>4 DEF Accepts
  <2>2. gen[r].count = cstate.count + 1
    BY <2>1, Successor
  <2>3. \A h \in Gen : h # r => committed'[h] = committed[h]
    BY <1>4, AcceptsIs
  <2> QED
    BY <1>0, <2>1, <2>2, <2>3, CoreTyped DEF Accepted
<1>5. \/ UNCHANGED vars
      \/ ReaderStep
      \/ \E g \in Gen : StorageDurable(g) \/ Push(g) \/ \E l \in Log : LogChange(g, l)
      \/ \E r \in Recovery : \/ ReadCState(r) \/ NewEpoch(r) \/ GivesUp(r)
                             \/ RecoveryTransaction(r) \/ Purge(r)
                             \/ \E l \in Log : TLogLockReply(r, l)
                             \/ \E results \in SUBSET Log : EpochEnd(r, results)
      => UNCHANGED <<cstate, committed>>
  BY DEF vars, ReaderStep, AskReadVersion, ConfirmRunning, SendReadVersion, StorageDurable, Push, LogChange,
         SameButLog, ReadCState, NewEpoch, GivesUp, RecoveryTransaction, Purge, TLogLockReply, EpochEnd
<1>6. CASE UNCHANGED <<cstate, committed>>
  BY <1>0, <1>6 DEF Accepted
<1>7. CASE \E g \in Gen : Answer(g)
  BY <1>0, <1>1, <1>7
<1>8. CASE \E r \in Recovery : Locks(r) \/ Updates(r)
  BY <1>2, <1>3, <1>8 DEF Accepted
<1>9. CASE \E r \in Recovery : Accepts(r)
  BY <1>4, <1>9
<1> QED
  BY <1>5, <1>6, <1>7, <1>8, <1>9, Steps

\* What is kept for those who have seen recoveryCount c is enough later as well.
LEMMA KeepsStays ==
    ASSUME IInv, TypeOK', [Next]_vars, NEW K, NEW c \in Int, c <= cstate.count, KeepsAll(K, c)
    PROVE  KeepsAll(K, c)'
<1>0. TypeOK /\ cstate.count \in Nat
  BY Typed DEF IInv
<1>a. Advance
  BY Advances
<1> SUFFICES ASSUME NEW h \in Gen, Accepted(h)'
             PROVE  h \in K \/ Safe(h)' \/ gen'[h].count > c
  BY DEF KeepsAll
<1>1. CASE Accepted(h)
  <2>1. gen'[h].count = gen[h].count
    BY <1>1, <1>a DEF Advance, KeepsGoing
  <2>2. Safe(h) => Safe(h)'
    BY <1>0, <1>1, <1>a, SafeStays
  <2> QED
    BY <1>1, <2>1, <2>2 DEF KeepsAll
<1>2. CASE ~ Accepted(h)
  <2>1. gen'[h].count > cstate.count /\ gen'[h].count \in Nat
    BY <1>2, NewlyAccepted, TypeParts DEF GenRecord
  <2> QED
    BY <1>0, <2>1
<1> QED
  BY <1>1, <1>2

\* A recovery that writes its core state keeps enough, with all its old generations or,
\* once they are consumed, with none.
LEMMA CoreKeeps ==
    ASSUME IInv, TypeOK', InvPhase', InvLog', InvOrder', NEW r \in Recovery, UNCHANGED <<gen, log>>, cstate' = CoreState(r),
           NEW c, KeepsAll({r} \cup OldGens(r), c)', NEW K, K = Chain(CoreState(r))
    PROVE  KeepsAll(K, c)'
<1>0. TypeOK /\ r \in Gen
  BY Constants DEF IInv
<1>1. /\ cstate'.gen = r
      /\ CoreState(r).old = <<>> \/ CoreState(r).old = gen[r].old
      /\ CoreState(r).old = <<>> /\ gen[r].old # <<>> => \A l \in Log : log[r][l].finished
      /\ CoreState(r).gen = r
  BY <1>0, CoreTyped
<1>2. PICK G : G = {r} \cup OldGens(r)
  OBVIOUS
<1>3. KeepsAll(G, c)'
  BY <1>2 DEF KeepsAll, OldGens
<1>4. CASE CoreState(r).old = gen[r].old
  <2>1. K = G
    BY <1>1, <1>2, <1>4 DEF Chain, OldGens
  <2> QED
    BY <1>3, <2>1
<1>5. CASE CoreState(r).old = <<>> /\ gen[r].old # <<>>
  <2>1. PICK l \in Log : TRUE
    BY LogSets, FS_EmptySet DEF N
  <2>2. log'[r][l].finished
    BY <1>1, <1>5
  <2>3. gen'[r].at <= stored'
    BY <1>0, <2>2 DEF InvLog
  <2>4. r \in K
    BY <1>1 DEF Chain
  <2>5. ASSUME NEW h \in Gen, Accepted(h)', h # r PROVE Safe(h)'
    <3>1. PICK e \in Nat : Ended(h, e)' /\ gen'[h].at <= e /\ e <= gen'[r].at
      BY <1>1, <2>5 DEF InvOrder
    <3>2. stored' \in Nat /\ gen'[r].at \in Int
      <4>1. gen'[r] \in GenRecord /\ stored' \in Nat
        BY <1>0, TypeParts
      <4> QED
        BY <4>1, Constants DEF GenRecord
    <3>3. e <= stored'
      BY <2>3, <3>1, <3>2
    <3> QED
      BY <3>1, <3>3 DEF Safe
  <2> QED
    BY <2>4, <2>5 DEF KeepsAll
<1> QED
  BY <1>1, <1>4, <1>5

\* The parts of InvKeep, each for one holder of a list of generations.
CoreKept == KeepsAll(Chain(cstate), cstate.count)

OwnKept(g) == Accepted(g) => KeepsAll({g} \cup OldGens(g), gen[g].count)

InfoKept(r) ==
    /\ info[r].count # None => KeepsAll(info[r].keep, info[r].count)
    /\ info[r].count <= cstate.count
    /\ Accepted(r) => info[r].count <= gen[r].count

LEMMA KeepParts ==
    /\ InvKeep <=> CoreKept /\ (\A g \in Gen : OwnKept(g)) /\ \A r \in Recovery : InfoKept(r)
    /\ InvKeep' <=> CoreKept' /\ (\A g \in Gen : OwnKept(g)') /\ \A r \in Recovery : InfoKept(r)'
  BY DEF InvKeep, CoreKept, OwnKept, InfoKept, OldGens

LEMMA KeepStep ==
    ASSUME IInv, TypeOK', InvPhase', InvLog', InvOrder', [Next]_vars
    PROVE  InvKeep'
<1>0. TypeOK /\ InvPhase /\ InvChain /\ InvPlace /\ InvOrder /\ InvKeep
  BY DEF IInv
<1>a. Advance
  BY Advances
<1>b. /\ CoreKept /\ (\A g \in Gen : OwnKept(g)) /\ \A r \in Recovery : InfoKept(r)
      /\ cstate \in CoreStates /\ cstate.gen \in Gen /\ Accepted(cstate.gen) /\ cstate.count \in Nat /\ cstate'.count \in Nat
      /\ cstate'.count >= cstate.count
      /\ \A r \in Recovery : r \in Gen /\ info[r].count \in Int
      /\ \A g \in Gen : gen[g].count \in Nat
      /\ \A g \in Gen : Accepted(g) => gen[g].count <= cstate.count /\ gen'[g].count = gen[g].count
  <2>1. cstate'.count \in Nat
    BY TypeParts DEF CoreStates
  <2>2. cstate.gen \in Gen /\ Accepted(cstate.gen) /\ cstate.count \in Nat /\ \A g \in Gen : gen[g].count \in Nat
    BY <1>0, Typed DEF InvChain
  <2>3. \A g \in Gen : Accepted(g) => gen[g].count <= cstate.count /\ gen'[g].count = gen[g].count
    BY <1>0, <1>a, <2>2 DEF InvOrder, Advance, KeepsGoing
  <2>4. \A r \in Recovery : r \in Gen /\ info[r].count \in Int
    BY <1>0, Typed, Constants
  <2> QED
    BY <1>0, <2>1, <2>2, <2>3, <2>4, KeepParts, NewlyAccepted, Typed
<1>c. ASSUME cstate'.gen = cstate.gen, cstate'.old = cstate.old PROVE CoreKept'
  <2>1. PICK K, c : K = Chain(cstate) /\ c = cstate.count
    OBVIOUS
  <2>2. K = Chain(cstate')
    BY <1>c, <2>1 DEF Chain
  <2>3. KeepsAll(K, c)'
    BY <1>b, <2>1, KeepsStays DEF CoreKept
  <2>4. CASE cstate'.count = c
    BY <2>2, <2>3, <2>4 DEF CoreKept, KeepsAll, Chain
  <2>5. CASE committed' = committed
    <3>1. ASSUME NEW h \in Gen, Accepted(h)' PROVE h \in K \/ Safe(h)'
      <4>1. Accepted(h)
        BY <2>5, <3>1 DEF Accepted
      <4>2. gen'[h].count <= c /\ gen'[h].count \in Nat
        BY <1>b, <2>1, <4>1
      <4> QED
        BY <1>b, <2>1, <2>3, <3>1, <4>2 DEF KeepsAll
    <3> QED
      BY <2>2, <3>1 DEF CoreKept, KeepsAll, Chain
  <2>6. committed' = committed \/ cstate'.count = c
    <3>1. CASE \E r \in Recovery : Accepts(r)
      <4>1. PICK r \in Recovery : Accepts(r)
        BY <3>1
      <4>2. cstate'.gen = r /\ cstate.gen # r
        <5>1. ~ Accepted(r) /\ cstate' = CoreState(r)
          BY <4>1, Successor DEF Accepts
        <5> QED
          BY <1>0, <1>b, <5>1, CoreTyped
      <4> QED
        BY <1>c, <4>2
    <3>2. CASE \E g \in Gen : Answer(g)
      BY <2>1, <3>2 DEF Answer
    <3>3. CASE ~ (\E r \in Recovery : Accepts(r)) /\ ~ (\E g \in Gen : Answer(g))
      BY <3>3, Steps DEF vars, ReaderStep, AskReadVersion, ConfirmRunning, SendReadVersion, StorageDurable, Push, LogChange,
             SameButLog, ReadCState, NewEpoch, GivesUp, RecoveryTransaction, Purge, TLogLockReply, EpochEnd, Locks, Updates
    <3> QED
      BY <3>1, <3>2, <3>3
  <2> QED
    BY <2>4, <2>5, <2>6
<1>d. ASSUME NEW g \in Gen, Accepted(g), gen'[g].old = gen[g].old PROVE OwnKept(g)'
  <2>1. PICK K, c : K = {g} \cup OldGens(g) /\ c = gen[g].count
    OBVIOUS
  <2>2. K = {g} \cup {gen'[g].old[i].gen : i \in DOMAIN gen'[g].old} /\ c = gen'[g].count
    BY <1>b, <1>d, <2>1 DEF OldGens
  <2>3. c \in Int /\ c <= cstate.count /\ KeepsAll(K, c)
    BY <1>b, <1>d, <2>1, SMTT(30) DEF OwnKept
  <2>4. KeepsAll(K, c)'
    BY <2>3, KeepsStays
  <2> QED
    BY <2>2, <2>4 DEF OwnKept, OldGens, KeepsAll
<1>e. ASSUME NEW r \in Recovery, info'[r].count = info[r].count, info[r].keep \subseteq info'[r].keep,
             Accepted(r)' => Accepted(r)
      PROVE  InfoKept(r)'
  <2>1. PICK K, c : K = info[r].keep /\ c = info[r].count
    OBVIOUS
  <2>2. c \in Int /\ c <= cstate.count
    BY <1>b, <2>1 DEF InfoKept
  <2>3. c # None => KeepsAll(K, c)'
    BY <1>b, <2>1, <2>2, KeepsStays DEF InfoKept
  <2>4. c # None => \A h \in Gen : Accepted(h)' => h \in info'[r].keep \/ Safe(h)' \/ gen'[h].count > c
    BY <1>e, <2>1, <2>3 DEF KeepsAll
  <2>5. c # None => KeepsAll(info[r].keep, info[r].count)'
    BY <1>e, <2>1, <2>4 DEF KeepsAll
  <2>6. info'[r].count <= cstate'.count
    BY <1>b, <1>e, <2>1, <2>2
  <2>7. Accepted(r)' => info'[r].count <= gen'[r].count
    BY <1>b, <1>e DEF InfoKept
  <2> QED
    BY <1>e, <2>1, <2>5, <2>6, <2>7 DEF InfoKept
<1>f. ASSUME \A h \in Gen : Accepted(h)' => Accepted(h), UNCHANGED <<cstate, info>>, \A g \in Gen : Accepted(g) => gen'[g].old = gen[g].old
      PROVE  InvKeep'
  <2>1. \A g \in Gen : OwnKept(g)'
    BY <1>d, <1>f DEF OwnKept
  <2>2. \A r \in Recovery : InfoKept(r)'
    BY <1>b, <1>e, <1>f
  <2> QED
    BY <1>c, <1>f, <2>1, <2>2, KeepParts
<1>g. ASSUME committed' = committed PROVE \A h \in Gen : Accepted(h)' => Accepted(h)
  BY <1>g DEF Accepted
<1>1. CASE UNCHANGED <<cstate, info, gen, committed>>
  BY <1>1, <1>f, <1>g
<1>2. ASSUME NEW g \in Gen, Answer(g) PROVE InvKeep'
  <2>1. UNCHANGED <<cstate, info, gen>> /\ Accepted(g) /\ committed' = [committed EXCEPT ![g] = @ + 1]
        /\ committed \in [Gen -> Nat \cup {None}]
    BY <1>0, <1>2 DEF Answer, TypeOK
  <2>2. \A h \in Gen : Accepted(h)' => Accepted(h)
    BY <2>1 DEF Accepted
  <2> QED
    BY <1>f, <2>1, <2>2
<1>3. ASSUME NEW r \in Recovery, GivesUp(r) PROVE InvKeep'
  <2>1. UNCHANGED <<cstate, info, committed>>
    BY <1>3 DEF GivesUp
  <2>2. \A g \in Gen : Accepted(g) => gen'[g] = gen[g]
    BY <1>0, <1>3, GivesUpIs
  <2> QED
    BY <1>f, <1>g, <2>1, <2>2
<1>4. ASSUME NEW r \in Recovery, NEW results \in SUBSET Log, EpochEnd(r, results) PROVE InvKeep'
  <2>1. PICK end, known \in Nat : EndsAt(r, end, known)
    BY <1>4, EpochEnds
  <2>2. UNCHANGED <<cstate, info, committed>> /\ ~ Accepted(r)
    BY <2>1 DEF EndsAt
  <2>3. \A g \in Gen : Accepted(g) => gen'[g] = gen[g]
    BY <1>0, <2>1, <2>2, EndsAtIs
  <2> QED
    BY <1>f, <1>g, <2>2, <2>3
<1>5. ASSUME NEW r \in Recovery, Locks(r) PROVE InvKeep'
  <2>1. UNCHANGED <<gen, committed>> /\ mgr[r].prev = cstate /\ mgr[r].phase = "locking"
    BY <1>0, <1>5 DEF Locks, InvPlace
  <2>2. /\ cstate'.gen = mgr[r].prev.gen /\ cstate'.old = mgr[r].prev.old /\ cstate'.count = mgr[r].prev.count + 1
        /\ info'[r].count = mgr[r].prev.count + 1 /\ info'[r].keep = Chain(mgr[r].prev)
        /\ \A s \in Recovery : s # r => info'[s] = info[s]
    BY <1>0, <1>5, LocksIs
  <2>3. CoreKept'
    BY <1>c, <2>1, <2>2
  <2>4. InfoKept(r)'
    <3>1. info'[r].keep = Chain(cstate') /\ info'[r].count = cstate'.count
      BY <2>1, <2>2 DEF Chain
    <3>2. ~ Accepted(r)'
      BY <1>0, <2>1 DEF InvPhase, Accepted
    <3> QED
      BY <1>b, <2>3, <3>1, <3>2 DEF CoreKept, InfoKept, KeepsAll, Chain
  <2>5. \A s \in Recovery : InfoKept(s)'
    BY <1>b, <1>e, <1>g, <2>1, <2>2, <2>4
  <2>6. \A g \in Gen : OwnKept(g)'
    BY <1>d, <1>g, <2>1 DEF OwnKept
  <2> QED
    BY <2>3, <2>5, <2>6, KeepParts
<1>6. ASSUME NEW r \in Recovery, RecoveryTransaction(r) PROVE InvKeep'
  <2>1. UNCHANGED <<cstate, committed>>
    BY <1>6 DEF RecoveryTransaction
  <2>2. /\ \A g \in Gen : gen'[g].old = gen[g].old
        /\ info'[r].count = info[r].count /\ info'[r].keep = info[r].keep \cup {r}
        /\ \A s \in Recovery : s # r => info'[s] = info[s]
    BY <1>6, TransactionIs
  <2>3. \A s \in Recovery : InfoKept(s)'
    BY <1>b, <1>e, <1>g, <2>1, <2>2
  <2>4. \A g \in Gen : OwnKept(g)'
    BY <1>d, <1>g, <2>1, <2>2 DEF OwnKept
  <2> QED
    BY <1>c, <2>1, <2>3, <2>4, KeepParts
<1>7. ASSUME NEW r \in Recovery, Accepts(r) PROVE InvKeep'
  <2>1. UNCHANGED <<gen, log>> /\ cstate' = CoreState(r) /\ mgr[r].phase = "transaction" /\ mgr[r].place = writes
    BY <1>7 DEF Accepts
  <2>2. /\ gen[r].count = cstate.count + 1 /\ ~ Accepted(r)
        /\ gen[r].old = <<[gen |-> cstate.gen, end |-> gen[r].known + 1, at |-> gen[r].at]>> \o cstate.old
    BY <2>1, Successor
  <2>3. /\ info'[r].count = gen[r].count /\ info'[r].keep = Chain(CoreState(r))
        /\ \A s \in Recovery : s # r => info'[s] = info[s]
        /\ \A h \in Gen : h # r => committed'[h] = committed[h]
    BY <1>7, AcceptsIs
  <2>4. \A h \in Gen : Accepted(h)' => Accepted(h) \/ h = r
    BY <2>3 DEF Accepted
  <2>5. Chain(cstate) \subseteq OldGens(r)
    <3>1. PICK e, old : e = [gen |-> cstate.gen, end |-> gen[r].known + 1, at |-> gen[r].at] /\ old = cstate.old
      OBVIOUS
    <3>2. old \in Seq(OldEntry) /\ Len(old) \in Nat /\ DOMAIN old = 1 .. Len(old) /\ e.gen = cstate.gen
      BY <1>0, <3>1, Typed
    <3>3. PICK all : all = <<e>> \o old
      OBVIOUS
    <3>4. DOMAIN all = 1 .. (Len(old) + 1) /\ all[1] = e /\ \A i \in 1 .. Len(old) : all[i + 1] = old[i]
      BY <3>2, <3>3
    <3>5. 1 \in DOMAIN all /\ \A i \in DOMAIN old : i + 1 \in DOMAIN all /\ all[i + 1] = old[i]
      BY <3>2, <3>4
    <3>6. gen[r].old = all
      BY <2>2, <3>1, <3>3
    <3>7. cstate.gen \in OldGens(r) /\ \A i \in DOMAIN cstate.old : cstate.old[i].gen \in OldGens(r)
      <4>1. \A i \in DOMAIN all : all[i].gen \in OldGens(r)
        BY <3>6 DEF OldGens
      <4> QED
        BY <3>1, <3>2, <3>4, <3>5, <4>1
    <3> QED
      BY <3>7 DEF Chain
  <2>6. PICK c : c = gen[r].count
    OBVIOUS
  <2>7. KeepsAll({r} \cup OldGens(r), c)'
    <3>1. ASSUME NEW h \in Gen, Accepted(h)' PROVE h \in {r} \cup OldGens(r) \/ Safe(h)'
      <4>1. CASE h = r
        BY <4>1
      <4>2. CASE h # r
        <5>1. Accepted(h) /\ gen[h].count <= cstate.count /\ gen[h].count \in Nat
          BY <1>b, <2>4, <3>1, <4>2
        <5>2. h \in Chain(cstate) \/ Safe(h)
          BY <1>b, <5>1 DEF CoreKept, KeepsAll
        <5>3. Safe(h) => Safe(h)'
          BY <1>0, <1>a, <5>1, SafeStays
        <5> QED
          BY <2>5, <5>2, <5>3
      <4> QED
        BY <4>1, <4>2
    <3> QED
      BY <2>1, <3>1 DEF KeepsAll, OldGens
  <2>8. PICK K : K = Chain(CoreState(r))
    OBVIOUS
  <2>9. KeepsAll(K, c)'
    BY <2>1, <2>7, <2>8, CoreKeeps
  <2>10. cstate'.count = c /\ Chain(cstate') = K
    BY <1>0, <2>1, <2>6, <2>8, CoreTyped
  <2>11. CoreKept'
    BY <2>9, <2>10 DEF CoreKept, KeepsAll, Chain
  <2>12. \A g \in Gen : OwnKept(g)'
    <3>1. OwnKept(r)'
      BY <2>1, <2>6, <2>7 DEF OwnKept, KeepsAll, OldGens
    <3>2. ASSUME NEW g \in Gen, g # r PROVE OwnKept(g)'
      BY <1>d, <2>1, <2>4, <3>2 DEF OwnKept
    <3> QED
      BY <3>1, <3>2
  <2>13. \A s \in Recovery : InfoKept(s)'
    <3>1. InfoKept(r)'
      BY <1>b, <2>1, <2>3, <2>6, <2>8, <2>9, <2>10 DEF InfoKept, KeepsAll
    <3>2. ASSUME NEW s \in Recovery, s # r PROVE InfoKept(s)'
      BY <1>b, <1>e, <2>3, <2>4, <3>2
    <3> QED
      BY <3>1, <3>2
  <2> QED
    BY <2>11, <2>12, <2>13, KeepParts
<1>8. ASSUME NEW r \in Recovery, Updates(r) PROVE InvKeep'
  <2>1. /\ UNCHANGED <<gen, log, committed>> /\ cstate' = CoreState(r) /\ cstate.gen = r /\ cstate.count = gen[r].count
        /\ Accepted(r)
    BY <1>0, <1>8 DEF Updates, InvPlace, InvPhase
  <2>2. /\ info'[r].count = info[r].count /\ info'[r].keep = Chain(CoreState(r))
        /\ \A s \in Recovery : s # r => info'[s] = info[s]
    BY <1>0, <1>8, UpdatesIs
  <2>3. \A g \in Gen : OwnKept(g)'
    BY <1>d, <1>g, <2>1 DEF OwnKept
  <2>4. PICK c, K : c = gen[r].count /\ K = Chain(CoreState(r))
    OBVIOUS
  <2>5. KeepsAll({r} \cup OldGens(r), c)'
    <3>1. Accepted(r)' /\ OwnKept(r)'
      BY <1>b, <2>1, <2>3 DEF Accepted
    <3> QED
      BY <2>1, <2>4, <3>1 DEF OwnKept, KeepsAll, OldGens
  <2>6. KeepsAll(K, c)'
    BY <2>1, <2>4, <2>5, CoreKeeps
  <2>7. cstate'.count = c /\ Chain(cstate') = K
    BY <1>0, <2>1, <2>4, CoreTyped
  <2>8. CoreKept'
    BY <2>6, <2>7 DEF CoreKept, KeepsAll, Chain
  <2>9. InfoKept(r)'
    <3>1. info[r].count <= c /\ info[r].count \in Int /\ c \in Nat
      BY <1>b, <2>1, <2>4 DEF InfoKept
    <3>2. \A h \in Gen : gen'[h].count \in Nat
      BY <1>b, <2>1
    <3>3. \A h \in Gen : gen'[h].count > c => gen'[h].count > info[r].count
      BY <3>1, <3>2
    <3>4. KeepsAll(info[r].keep, info[r].count)'
      BY <2>2, <2>4, <2>6, <3>3 DEF KeepsAll
    <3> QED
      BY <2>1, <2>2, <2>4, <2>7, <3>1, <3>4 DEF InfoKept
  <2>10. \A s \in Recovery : InfoKept(s)'
    BY <1>b, <1>e, <1>g, <2>1, <2>2, <2>9
  <2> QED
    BY <2>3, <2>8, <2>10, KeepParts
<1>9. ASSUME NEW r \in Recovery, Purge(r) PROVE InvKeep'
  <2>1. UNCHANGED <<cstate, committed>> /\ Accepted(r)
    BY <1>0, <1>9 DEF Purge, InvPhase
  <2>2. /\ \A g \in Gen : g # r => gen'[g] = gen[g]
        /\ \A s \in Recovery : s # r => info'[s] = info[s]
        /\ info'[r].count = info[r].count /\ gen'[r].count = gen[r].count
        /\ \E i \in DOMAIN gen[r].old : PurgesAt(r, i)
    BY <1>0, <1>9, PurgeIs
  <2>3. PICK i \in DOMAIN gen[r].old : PurgesAt(r, i)
    BY <2>2
  <2>4. PICK old \in Seq(OldEntry), kept \in Seq(OldEntry) : old = gen[r].old /\ kept = gen'[r].old
    BY <1>0, <1>b, <2>3, Typed DEF PurgesAt
  <2>5. /\ i \in 1 .. Len(old) /\ Len(old) \in Nat /\ DOMAIN old = 1 .. Len(old) /\ DOMAIN kept = 1 .. (i - 1)
        /\ \A j \in 1 .. (i - 1) : kept[j] = old[j]
        /\ info'[r].keep = {r} \cup {kept[j].gen : j \in DOMAIN kept}
        /\ gen[r].old[i].at < Unpopped(gen[r].old)
    BY <2>3, <2>4 DEF PurgesAt
  <2>6. PICK K : K = {r} \cup {kept[j].gen : j \in DOMAIN kept}
    OBVIOUS
  <2>7. ASSUME NEW j \in DOMAIN old PROVE old[j].gen \in K \/ Safe(old[j].gen)
    <3>1. CASE j < i
      <4>1. j \in DOMAIN kept /\ kept[j] = old[j]
        BY <2>5, <3>1
      <4> QED
        BY <2>6, <4>1
    <3>2. CASE ~ (j < i)
      <4>1. i <= j
        BY <2>5, <3>2
      <4>2. Safe(gen[r].old[j].gen)
        BY <2>1, <2>4, <2>5, <4>1, PurgedAreSafe
      <4> QED
        BY <2>4, <4>2
    <3> QED
      BY <3>1, <3>2
  <2>8. PICK c : c = gen[r].count
    OBVIOUS
  <2>9. KeepsAll(K, c)
    <3>1. KeepsAll({r} \cup OldGens(r), c)
      BY <1>b, <2>1, <2>8 DEF OwnKept
    <3>2. \A h \in {r} \cup OldGens(r) : h \in K \/ Safe(h)
      BY <2>4, <2>6, <2>7 DEF OldGens
    <3> QED
      BY <3>1, <3>2 DEF KeepsAll
  <2>10. KeepsAll(K, c)'
    BY <1>b, <2>1, <2>8, <2>9, KeepsStays
  <2>11. OwnKept(r)'
    <3>1. K = {r} \cup {gen'[r].old[j].gen : j \in DOMAIN gen'[r].old} /\ c = gen'[r].count
      BY <2>2, <2>4, <2>6, <2>8
    <3> QED
      BY <2>10, <3>1 DEF OwnKept, OldGens, KeepsAll
  <2>12. \A g \in Gen : OwnKept(g)'
    BY <1>d, <1>g, <2>1, <2>2, <2>11 DEF OwnKept
  <2>13. InfoKept(r)'
    <3>1. info[r].count <= c /\ info[r].count \in Int /\ c \in Nat
      BY <1>b, <2>1, <2>8 DEF InfoKept
    <3>2. \A h \in Gen : gen'[h].count \in Nat
      BY <1>b, <2>2
    <3>3. \A h \in Gen : gen'[h].count > c => gen'[h].count > info[r].count
      BY <3>1, <3>2
    <3>4. KeepsAll(info[r].keep, info[r].count)'
      BY <2>2, <2>5, <2>6, <2>10, <3>3 DEF KeepsAll
    <3>5. info[r].count <= cstate.count
      BY <1>b DEF InfoKept
    <3> QED
      BY <2>1, <2>2, <2>8, <3>1, <3>4, <3>5 DEF InfoKept
  <2>14. \A s \in Recovery : InfoKept(s)'
    BY <1>b, <1>e, <1>g, <2>1, <2>2, <2>13
  <2> QED
    BY <1>c, <2>1, <2>12, <2>14, KeepParts
<1>10. \/ UNCHANGED vars
       \/ ReaderStep
       \/ \E g \in Gen : StorageDurable(g) \/ Push(g) \/ \E l \in Log : LogChange(g, l)
       \/ \E r \in Recovery : ReadCState(r) \/ NewEpoch(r) \/ \E l \in Log : TLogLockReply(r, l)
       => UNCHANGED <<cstate, info, gen, committed>>
  BY DEF vars, ReaderStep, AskReadVersion, ConfirmRunning, SendReadVersion, StorageDurable, Push, LogChange,
         SameButLog, NewEpoch, ReadCState, TLogLockReply
<1> QED
  BY <1>1, <1>2, <1>3, <1>4, <1>5, <1>6, <1>7, <1>8, <1>9, <1>10, Steps

-----------------------------------------------------------------------------
(***************************************************************************)
(* Read versions.                                                          *)
(***************************************************************************)

\* Enough logs of g do not confirm its epoch any more.
LockedOut(g, confirmed) ==
    \E Q \in SUBSET Log : ~ TooManyFailures(Q) /\ Q \cap confirmed = {} /\ \A l \in Q : log[g][l].stopped

LEMMA ReaderStepKeeps ==
    ASSUME IInv, TypeOK', [Next]_vars
    PROVE  InvReader'
<1>0. TypeOK /\ InvPhase /\ InvChain /\ InvOrder /\ InvReader /\ reader \in ReaderRecord /\ reader.gen \in Gen
      /\ reader.version \in Nat /\ reader.floor \in Nat /\ reader.confirmed \in SUBSET Log
  <2>1. TypeOK /\ InvPhase /\ InvChain /\ InvOrder /\ InvReader
    BY DEF IInv
  <2>2. reader \in ReaderRecord
    BY <2>1, TypeParts
  <2> QED
    BY <2>1, <2>2 DEF ReaderRecord
<1>a. Advance
  BY Advances
<1>b. ASSUME NEW g \in Gen, Accepted(g), NEW S, LockedOut(g, S) PROVE LockedOut(g, S)'
  <2>1. PICK Q \in SUBSET Log : ~ TooManyFailures(Q) /\ Q \cap S = {} /\ \A l \in Q : log[g][l].stopped
    BY <1>b DEF LockedOut
  <2>2. \A l \in Q : log'[g][l].stopped
    BY <1>a, <1>b, <2>1 DEF Advance, KeepsGoing
  <2> QED
    BY <2>1, <2>2 DEF LockedOut, TooManyFailures, N
<1>c. reader.phase # "idle" => /\ Accepted(reader.gen)
                               /\ reader.version < reader.floor => LockedOut(reader.gen, reader.confirmed)
  BY <1>0 DEF InvReader, LockedOut
<1>d. ASSUME NEW g \in Gen, g = reader'.gen, reader'.phase # "idle" => Accepted(g)',
             NEW S, S = reader'.confirmed, reader'.phase # "idle" /\ reader'.version < reader'.floor => LockedOut(g, S)',
             reader'.phase = "done" => reader'.version >= reader'.floor
      PROVE  InvReader'
  BY <1>d DEF InvReader, LockedOut, ReadVersionIsCurrent, Accepted
<1>1. CASE UNCHANGED reader
  <2>0. PICK g \in Gen : g = reader.gen
    BY <1>0
  <2>1. PICK S : g = reader.gen /\ S = reader.confirmed
    BY <2>0
  <2>2. reader.phase # "idle" => Accepted(g)' /\ (reader.version < reader.floor => LockedOut(g, S)')
    BY <1>a, <1>b, <1>c, <2>1 DEF Advance, KeepsGoing
  <2>3. reader.phase = "done" => reader.version >= reader.floor
    BY <1>0 DEF InvReader, ReadVersionIsCurrent
  <2> QED
    BY <1>1, <1>d, <2>1, <2>2, <2>3
<1>2. ASSUME NEW g \in Gen, AskReadVersion(g) PROVE InvReader'
  <2>1. /\ Accepted(g) /\ reader' = [phase |-> "confirming", gen |-> g, version |-> committed[g],
                                     floor |-> Answered, confirmed |-> {}]
    BY <1>2 DEF AskReadVersion
  <2>2. /\ reader'.phase = "confirming" /\ reader'.gen = g /\ reader'.version = committed[g]
        /\ reader'.floor = Answered /\ reader'.confirmed = {}
    BY <2>1
  <2>3. ASSUME committed[g] < Answered PROVE LockedOut(g, {})
    <3>1. Answered = committed[cstate.gen] /\ committed[cstate.gen] \in Nat
      BY LatestAnswer
    <3>2. g # cstate.gen
      BY <2>3, <3>1
    <3>3. PICK e \in Nat : Ended(g, e)
      BY <1>0, <2>1, <3>2 DEF InvOrder
    <3>4. PICK Q \in SUBSET Log : EndedBy(g, e, Q)
      BY <3>3 DEF Ended
    <3> QED
      BY <3>4 DEF EndedBy, Frozen, LockedOut
  <2>4. committed[g] < Answered => LockedOut(g, {})'
    BY <1>b, <2>1, <2>3
  <2>5. Accepted(g)'
    BY <1>a, <2>1 DEF Advance, KeepsGoing
  <2> QED
    BY <1>d, <2>2, <2>4, <2>5
<1>3. ASSUME NEW l \in Log, ConfirmRunning(l) PROVE InvReader'
  <2>1. /\ reader.phase = "confirming" /\ ~ log[reader.gen][l].stopped /\ log' = log /\ committed' = committed
        /\ reader' = [reader EXCEPT !.confirmed = @ \cup {l}]
    BY <1>3 DEF ConfirmRunning
  <2>0. PICK g \in Gen : g = reader.gen
    BY <1>0
  <2>2. PICK S : g = reader.gen /\ S = reader.confirmed \cup {l}
    BY <2>0
  <2>3. /\ reader'.phase = "confirming" /\ reader'.gen = g /\ reader'.confirmed = S
        /\ reader'.version = reader.version /\ reader'.floor = reader.floor
    BY <1>0, <2>1, <2>2 DEF ReaderRecord
  <2>4. Accepted(g)'
    BY <1>c, <2>1, <2>2 DEF Accepted
  <2>5. ASSUME reader.version < reader.floor PROVE LockedOut(g, S)'
    <3>1. PICK Q \in SUBSET Log : ~ TooManyFailures(Q) /\ Q \cap reader.confirmed = {} /\ \A x \in Q : log[g][x].stopped
      BY <1>c, <2>1, <2>2, <2>5 DEF LockedOut
    <3>2. l \notin Q
      BY <2>1, <2>2, <3>1
    <3>3. Q \cap S = {}
      BY <2>2, <3>1, <3>2
    <3> QED
      BY <2>1, <3>1, <3>3 DEF LockedOut, TooManyFailures, N
  <2> QED
    BY <1>d, <2>3, <2>4, <2>5
<1>4. ASSUME SendReadVersion PROVE InvReader'
  <2>1. /\ reader.phase = "confirming" /\ EpochLive(reader.confirmed) /\ log' = log /\ committed' = committed
        /\ reader' = [reader EXCEPT !.phase = "done"]
    BY <1>4 DEF SendReadVersion
  <2>2. PICK g \in Gen, S \in SUBSET Log : g = reader.gen /\ S = reader.confirmed
    BY <1>0
  <2>3. /\ reader'.phase = "done" /\ reader'.gen = g /\ reader'.confirmed = S
        /\ reader'.version = reader.version /\ reader'.floor = reader.floor
    BY <1>0, <2>1, <2>2 DEF ReaderRecord
  <2>4. Accepted(g)'
    BY <1>c, <2>1, <2>2 DEF Accepted
  <2>5. ~ (reader.version < reader.floor)
    <3> SUFFICES ASSUME reader.version < reader.floor PROVE FALSE
      OBVIOUS
    <3>1. PICK Q \in SUBSET Log : ~ TooManyFailures(Q) /\ Q \cap S = {}
      BY <1>c, <2>1, <2>2 DEF LockedOut
    <3>2. Cardinality(Q) + ReplicationFactor > N + WriteAntiQuorum /\ Cardinality(S) >= ReplicationFactor
      BY <2>1, <2>2, <3>1, EnoughAnswers DEF EpochLive
    <3>3. /\ Cardinality(Q) \in Nat /\ Cardinality(S) \in Nat /\ N \in Nat /\ WriteAntiQuorum \in Nat
          /\ ReplicationFactor \in Nat
      BY LogSets
    <3>4. Cardinality(Q) + Cardinality(S) > N
      BY <3>2, <3>3
    <3>5. \E l \in Q : l \in S
      BY <3>4, SetsMeet
    <3> QED
      BY <3>1, <3>5
  <2>6. reader.version >= reader.floor
    BY <1>0, <2>5
  <2> QED
    BY <1>d, <2>3, <2>4, <2>5, <2>6
<1>5. ~ ReaderStep => UNCHANGED reader
  BY Steps DEF vars, StorageDurable, Push, Answer, LogChange, SameButLog, ReadCState, NewEpoch, GivesUp,
         RecoveryTransaction, Purge, TLogLockReply, EpochEnd, Locks, Updates, Accepts
<1> QED
  BY <1>1, <1>2, <1>3, <1>4, <1>5 DEF ReaderStep

-----------------------------------------------------------------------------
(***************************************************************************)
(* The theorems.                                                           *)
(***************************************************************************)

LEMMA InitInv == Init => IInv
<1> SUFFICES ASSUME Init PROVE IInv
  OBVIOUS
<1>a. 0 \in Gen /\ Attempts \in Nat /\ (\A r \in Recovery : r \in Gen /\ r # 0) /\ Window \in Nat
  BY Constants
<1>b. PICK z : z = [NoLog EXCEPT !.state = "up", !.version = 1, !.durable = 1]
  OBVIOUS
<1>c. /\ z \in LogRecord /\ z.state = "up" /\ z.version = 1 /\ z.durable = 1 /\ ~ z.stopped /\ ~ z.finished
  BY <1>b DEF NoLog, LogRecord
<1>d. PICK y : y = [NoGen EXCEPT !.at = 0, !.known = 0]
  OBVIOUS
<1>e. y \in GenRecord /\ y.at = 0 /\ y.known = 0 /\ y.count = 0 /\ y.old = <<>>
  <2>1. y = [at |-> 0, known |-> 0, old |-> <<>>, count |-> 0]
    BY <1>d DEF NoGen
  <2>2. <<>> \in Seq(OldEntry)
    OBVIOUS
  <2> QED
    BY <2>1, <2>2 DEF GenRecord
<1>f. /\ cstate = [count |-> 0, gen |-> 0, old |-> <<>>] /\ writes = 0 /\ stored = 0 /\ reader = NoReader
      /\ cstate.gen = 0 /\ cstate.old = <<>> /\ cstate.count = 0
  BY DEF Init
<1>g. /\ \A g \in Gen : gen[g] = IF g = 0 THEN y ELSE NoGen
      /\ \A g \in Gen, l \in Log : log[g][l] = IF g = 0 THEN z ELSE NoLog
      /\ \A g \in Gen : sent[g] = IF g = 0 THEN <<0>> ELSE <<>>
      /\ \A g \in Gen : committed[g] = IF g = 0 THEN 1 ELSE None
      /\ \A r \in Recovery : mgr[r] = IdleMgr /\ info[r].count = None
  BY <1>b, <1>d DEF Init
<1>h. \A g \in Gen : Accepted(g) <=> g = 0
  BY <1>g, Constants DEF Accepted
<1>i. /\ gen[0].at = 0 /\ gen[0].known = 0 /\ gen[0].count = 0 /\ gen[0].old = <<>> /\ committed[0] = 1
      /\ sent[0] = <<0>> /\ \A l \in Log : log[0][l] = z
      /\ \A r \in Recovery : gen[r] = NoGen /\ gen[r].at = None /\ ~ Accepted(r) /\ sent[r] = <<>> /\ mgr[r].phase = "idle"
                             /\ mgr[r].place = 0
  BY <1>a, <1>e, <1>g, <1>h, IdleTyped
<1>1. TypeOK
  <2>1. cstate \in CoreStates
    BY <1>a, <1>f DEF CoreStates
  <2>2. mgr \in [Recovery -> MgrRecord]
    BY IdleTyped DEF Init
  <2>3. gen \in [Gen -> GenRecord]
    <3>1. gen = [g \in Gen |-> IF g = 0 THEN y ELSE NoGen]
      BY <1>d DEF Init
    <3> QED
      BY <1>e, <3>1, IdleTyped
  <2>4. log \in [Gen -> [Log -> LogRecord]]
    <3>1. log = [g \in Gen |-> [l \in Log |-> IF g = 0 THEN z ELSE NoLog]]
      BY <1>b DEF Init
    <3> QED
      BY <1>c, <3>1, IdleTyped
  <2>5. sent \in [Gen -> Seq(Nat)]
    BY DEF Init
  <2>6. committed \in [Gen -> Nat \cup {None}]
    BY DEF Init
  <2>7. info \in [Recovery -> InfoRecord]
    BY DEF Init, InfoRecord
  <2>8. left \in [Bounded -> Nat]
    BY BudgetsAssumption DEF Init
  <2> QED
    BY <1>f, <2>1, <2>2, <2>3, <2>4, <2>5, <2>6, <2>7, <2>8, TypeParts, IdleTyped
<1>2. InvPhase
  <2>1. \A g \in Gen : g # 0 => gen[g] = NoGen /\ \A l \in Log : log[g][l] = NoLog
    BY <1>g
  <2> QED
    BY <1>a, <1>c, <1>h, <1>i, <2>1, IdleTyped, Constants DEF InvPhase
<1>3. RecoveryTransactionVersion(0) = 1 /\ LastSent(0) = 1
  BY <1>i DEF RecoveryTransactionVersion, LastSent
<1>4. InvSent
  BY <1>a, <1>h, <1>i, <1>3 DEF InvSent
<1>5. InvLog
  <2>1. \A g \in Gen, l \in Log : g # 0 => log[g][l].state = "none" /\ ~ log[g][l].finished
    BY <1>g, IdleTyped
  <2>2. Point(0, 1)
    BY <1>i, <1>3 DEF Point
  <2> QED
    BY <1>c, <1>i, <2>1, <2>2, Constants DEF InvLog
<1>6. InvLogged
  <2>1. {l \in Log : log[0][l].durable >= committed[0]} = Log
    BY <1>c, <1>i
  <2>2. N >= N - WriteAntiQuorum
    BY LogSets
  <2>3. Logged(0, committed[0])
    BY <2>1, <2>2 DEF Logged, N
  <2> QED
    BY <1>h, <2>3 DEF InvLogged
<1>7. InvEnds
  BY <1>i DEF InvEnds, Ending
<1>8. InvChain
  <2>1. \A g \in Gen : gen[g].at # None => g = 0
    BY <1>g, IdleTyped
  <2>2. ChainOK(0, <<>>)
    BY DEF ChainOK
  <2> QED
    BY <1>f, <1>a, <1>h, <1>i, <2>1, <2>2 DEF InvChain, Pending
<1>9. InvPlace
  BY <1>f, <1>i DEF InvPlace
<1>10. InvOrder
  BY <1>f, <1>h, <1>i DEF InvOrder
<1>11. InvKeep
  <2>1. \A K, c : 0 \in K => KeepsAll(K, c)
    BY <1>h DEF KeepsAll
  <2>2. 0 \in Chain(cstate)
    BY <1>f DEF Chain
  <2>3. \A r \in Recovery : info[r].count <= cstate.count
    BY <1>f, <1>g, Constants
  <2> QED
    BY <1>g, <1>h, <1>i, <2>1, <2>2, <2>3 DEF InvKeep
<1>12. InvReader
  BY <1>f DEF InvReader, NoReader, ReadVersionIsCurrent
<1> QED
  BY <1>1, <1>2, <1>4, <1>5, <1>6, <1>7, <1>8, <1>9, <1>10, <1>11, <1>12 DEF IInv

\* The inductive invariant of clusterRecoveryCore, the log system and the logs holds of
\* every state, for every number of logs, recoveries and versions, and every bound.
THEOREM Invariance == Spec => []IInv
<1>1. IInv /\ [Next]_vars => IInv'
  <2> SUFFICES ASSUME IInv, [Next]_vars PROVE IInv'
    OBVIOUS
  <2>1. TypeOK'
    BY TypeStep
  <2>2. InvPhase'
    BY <2>1, PhaseStep
  <2>3. InvSent' /\ InvLog'
    BY <2>1, <2>2, SentStep, LogStep
  <2>4. InvLogged' /\ InvEnds' /\ InvChain' /\ InvPlace' /\ InvOrder' /\ InvReader'
    BY <2>1, LoggedStep, EndsStep, ChainStep, PlaceStep, OrderStep, ReaderStepKeeps
  <2>5. InvKeep'
    BY <2>1, <2>2, <2>3, <2>4, KeepStep
  <2> QED
    BY <2>1, <2>2, <2>3, <2>4, <2>5 DEF IInv
<1> QED
  BY <1>1, InitInv, PTL DEF Spec

-----------------------------------------------------------------------------
(***************************************************************************)
(* What is lost.                                                           *)
(***************************************************************************)

\* A step that takes no log away.
NothingLost ==
    /\ left'["kill"] <= left["kill"]
    /\ \A g \in Gen, l \in Log : log'[g][l].state = "gone" => log[g][l].state = "gone"

\* A registration makes a log remove itself.
Removes(r, g, l) ==
    /\ Accepted(g) /\ info[r].count # None /\ Displaced(r, g)
    /\ log' = [log EXCEPT ![g][l].state = "gone"]
    /\ left'["kill"] <= left["kill"]

LEMMA OtherBudget ==
    ASSUME TypeOK, NEW k \in Bounded, k # "kill", Spend(k)
    PROVE  left'["kill"] <= left["kill"]
<1>1. left \in [Bounded -> Nat] /\ "kill" \in Bounded /\ left' = [left EXCEPT ![k] = left[k] - 1]
  BY DEF TypeOK, Spend, Bounded
<1>2. left'["kill"] = left["kill"] /\ left["kill"] \in Nat
  BY <1>1
<1> QED
  BY <1>2

LEMMA OneLogChanges ==
    ASSUME TypeOK, NEW g \in Gen, NEW l \in Log, NEW q, log' = [log EXCEPT ![g][l] = q],
           q.state = "gone" => log[g][l].state = "gone", left'["kill"] <= left["kill"]
    PROVE  NothingLost
<1>1. log \in [Gen -> [Log -> LogRecord]]
  BY DEF TypeOK, LogRecord
<1>2. log'[g][l] = q /\ \A h \in Gen, x \in Log : h # g \/ x # l => log'[h][x] = log[h][x]
  BY <1>1
<1> QED
  BY <1>2 DEF NothingLost

LEMMA Losses ==
    ASSUME IInv, [Next]_vars
    PROVE  \/ NothingLost
           \/ \E g \in Gen, l \in Log : Kill(g, l)
           \/ \E r \in Recovery, g \in Gen, l \in Log : Removes(r, g, l)
<1>0. /\ TypeOK /\ log \in [Gen -> [Log -> LogRecord]] /\ left \in [Bounded -> Nat]
      /\ left["kill"] <= left["kill"]
  <2>1. TypeOK /\ log \in [Gen -> [Log -> LogRecord]] /\ left \in [Bounded -> Nat]
    BY DEF IInv, TypeOK, LogRecord
  <2>2. left["kill"] \in Nat
    BY <2>1 DEF Bounded
  <2> QED
    BY <2>1, <2>2
<1>a. \A r \in Recovery : r \in Gen /\ mgr[r].prev.gen \in Gen
  BY <1>0, Typed, Constants
<1>b. \A k \in {"restart", "death", "read", "info", "store"} : k \in Bounded /\ k # "kill"
  BY DEF Bounded
<1>1. log' = log /\ left' = left => NothingLost
  BY <1>0 DEF NothingLost
<1>2. log' = log /\ left'["kill"] <= left["kill"] => NothingLost
  BY DEF NothingLost
<1>3. ASSUME NEW g \in Gen, NEW l \in Log, TLogCommit(g, l) PROVE NothingLost
  <2> DEFINE q == [log[g][l] EXCEPT !.version = NextVersion(g, log[g][l].version)]
  <2>1. log' = [log EXCEPT ![g][l] = q] /\ left' = left
    BY <1>3 DEF TLogCommit
  <2>2. q.state = log[g][l].state
    BY <1>0 DEF LogRecord
  <2> HIDE DEF q
  <2> QED
    BY <1>0, <2>1, <2>2, OneLogChanges
<1>4. ASSUME NEW g \in Gen, NEW l \in Log, QueueCommit(g, l) PROVE NothingLost
  <2> DEFINE q == [log[g][l] EXCEPT !.durable = log[g][l].version]
  <2>1. log' = [log EXCEPT ![g][l] = q] /\ left' = left
    BY <1>4 DEF QueueCommit
  <2>2. q.state = log[g][l].state
    BY <1>0 DEF LogRecord
  <2> HIDE DEF q
  <2> QED
    BY <1>0, <2>1, <2>2, OneLogChanges
<1>5. ASSUME NEW g \in Gen, NEW l \in Log, RecoveryFinished(g, l) PROVE NothingLost
  <2> DEFINE q == [log[g][l] EXCEPT !.finished = TRUE]
  <2>1. log' = [log EXCEPT ![g][l] = q] /\ left' = left
    BY <1>5 DEF RecoveryFinished
  <2>2. q.state = log[g][l].state
    BY <1>0 DEF LogRecord
  <2> HIDE DEF q
  <2> QED
    BY <1>0, <2>1, <2>2, OneLogChanges
<1>6. ASSUME NEW g \in Gen, NEW l \in Log, log' = [log EXCEPT ![g][l].stopped = TRUE], left'["kill"] <= left["kill"]
      PROVE  NothingLost
  <2> DEFINE q == [log[g][l] EXCEPT !.stopped = TRUE]
  <2>1. log' = [log EXCEPT ![g][l] = q]
    BY <1>6
  <2>2. q.state = log[g][l].state
    BY <1>0 DEF LogRecord
  <2>3. left'["kill"] <= left["kill"]
    BY <1>6
  <2> HIDE DEF q
  <2> QED
    BY <1>0, <2>1, <2>2, <2>3, OneLogChanges
<1>7. ASSUME NEW g \in Gen, NEW l \in Log, Crash(g, l) PROVE NothingLost
  <2> DEFINE q == [log[g][l] EXCEPT !.state = "down"]
  <2>1. log' = [log EXCEPT ![g][l] = q] /\ Spend("restart")
    BY <1>7 DEF Crash
  <2>2. q.state = "down"
    BY <1>0 DEF LogRecord
  <2>3. left'["kill"] <= left["kill"]
    BY <1>0, <1>b, <2>1, OtherBudget
  <2> HIDE DEF q
  <2> QED
    BY <1>0, <2>1, <2>2, <2>3, OneLogChanges
<1>8. ASSUME NEW g \in Gen, NEW l \in Log, Restart(g, l) PROVE NothingLost
  <2>1. PICK v : log' = [log EXCEPT ![g][l] = [log[g][l] EXCEPT !.state = "up", !.version = v, !.durable = v, !.stopped = TRUE]]
    BY <1>8 DEF Restart
  <2> DEFINE q == [log[g][l] EXCEPT !.state = "up", !.version = v, !.durable = v, !.stopped = TRUE]
  <2>2. log' = [log EXCEPT ![g][l] = q] /\ left' = left
    BY <1>8, <2>1 DEF Restart
  <2>3. q.state = "up"
    BY <1>0 DEF LogRecord
  <2> HIDE DEF q
  <2> QED
    BY <1>0, <2>2, <2>3, OneLogChanges
<1>9. ASSUME NEW r \in Recovery, Dies(r), left'["kill"] <= left["kill"] PROVE NothingLost
  <2>1. CASE Accepted(r)
    BY <1>9, <2>1 DEF NothingLost, Dies
  <2>2. CASE ~ Accepted(r)
    <3>1. log' = [log EXCEPT ![r] = [x \in Log |-> NoLog]]
      BY <1>9, <2>2 DEF Dies
    <3>2. \A h \in Gen, x \in Log : log'[h][x] = IF h = r THEN NoLog ELSE log[h][x]
      BY <1>0, <1>a, <3>1
    <3> QED
      BY <1>9, <3>2, IdleTyped DEF NothingLost
  <2> QED
    BY <2>1, <2>2
<1>10. ASSUME NEW r \in Recovery, NEW results \in SUBSET Log, EpochEnd(r, results) PROVE NothingLost
  <2>1. log' = [log EXCEPT ![r] = [x \in Log |-> NoLog]] /\ left' = left
    BY <1>10 DEF EpochEnd
  <2>2. \A h \in Gen, x \in Log : log'[h][x] = IF h = r THEN NoLog ELSE log[h][x]
    BY <1>0, <1>a, <2>1
  <2> QED
    BY <1>0, <2>1, <2>2, IdleTyped DEF NothingLost
<1>11. ASSUME NEW r \in Recovery, NewEpoch(r) PROVE NothingLost
  <2>1. PICK z : z = [NoLog EXCEPT !.state = "up", !.version = gen[r].at, !.durable = gen[r].known]
    OBVIOUS
  <2>2. z.state = "up"
    BY <2>1 DEF NoLog
  <2>3. log' = [log EXCEPT ![r] = [x \in Log |-> z]] /\ left' = left
    BY <1>11, <2>1 DEF NewEpoch
  <2>4. \A h \in Gen, x \in Log : log'[h][x] = IF h = r THEN z ELSE log[h][x]
    BY <1>0, <1>a, <2>3
  <2> QED
    BY <1>0, <2>2, <2>3, <2>4 DEF NothingLost
<1>12. ASSUME NEW r \in Recovery, NEW g \in Gen, NEW l \in Log, SeeInfo(r, g, l)
       PROVE  NothingLost \/ Removes(r, g, l)
  <2>1. left'["kill"] <= left["kill"]
    BY <1>0, <1>12, <1>b, OtherBudget DEF SeeInfo
  <2> QED
    BY <1>6, <1>12, <2>1 DEF SeeInfo, Removes
<1>13. ASSUME NEW r \in Recovery, NEW l \in Log, TLogStop(r, l) PROVE NothingLost
  <2>1. PICK g \in Gen : g = mgr[r].prev.gen
    BY <1>a
  <2>2. log' = [log EXCEPT ![g][l].stopped = TRUE] /\ left' = left
    BY <1>13, <2>1 DEF TLogStop
  <2> QED
    BY <1>0, <1>6, <2>2
<1>14. ASSUME NEW r \in Recovery, Die(r) \/ LogFailed(r) \/ LockCState(r) \/ WriteNewCState(r) \/ UpdateCState(r)
       PROVE  NothingLost
  <2>1. CASE Die(r)
    <3>1. Dies(r) /\ Spend("death")
      BY <2>1 DEF Die
    <3>2. left'["kill"] <= left["kill"]
      BY <1>0, <1>b, <3>1, OtherBudget
    <3> QED
      BY <1>9, <3>1, <3>2
  <2>2. CASE ~ Die(r)
    <3>1. left' = left /\ (Dies(r) \/ log' = log)
      BY <1>14, <2>2 DEF LogFailed, LockCState, WriteNewCState, UpdateCState
    <3> QED
      BY <1>0, <1>1, <1>9, <3>1
  <2> QED
    BY <2>1, <2>2
<1>15. ASSUME NEW g \in Gen, AskReadVersion(g) \/ StorageDurable(g) PROVE NothingLost
  <2>1. log' = log /\ (Spend("read") \/ Spend("store"))
    BY <1>15 DEF AskReadVersion, StorageDurable
  <2>2. left'["kill"] <= left["kill"]
    BY <1>0, <1>b, <2>1, OtherBudget
  <2> QED
    BY <1>2, <2>1, <2>2
<1>16. ASSUME \/ UNCHANGED vars \/ SendReadVersion \/ \E l \in Log : ConfirmRunning(l)
              \/ \E g \in Gen : Push(g) \/ Answer(g)
              \/ \E r \in Recovery : \/ ReadCState(r) \/ RecoveryTransaction(r) \/ Purge(r)
                                     \/ \E l \in Log : TLogLockReply(r, l)
       PROVE  NothingLost
  <2>1. log' = log /\ left' = left
    BY <1>16 DEF vars, SendReadVersion, ConfirmRunning, Push, Answer, ReadCState, RecoveryTransaction, Purge, TLogLockReply
  <2> QED
    BY <1>1, <2>1
<1> QED
  BY <1>3, <1>4, <1>5, <1>7, <1>8, <1>10, <1>11, <1>12, <1>13, <1>14, <1>15, <1>16 DEF Next

LEMMA LossStep ==
    ASSUME IInv, LossInv, TypeOK', [Next]_vars
    PROVE  LossInv'
<1>0. /\ TypeOK /\ log \in [Gen -> [Log -> LogRecord]] /\ log' \in [Gen -> [Log -> LogRecord]]
      /\ left["kill"] \in Nat /\ left'["kill"] \in Nat
  BY DEF IInv, TypeOK, LogRecord, Bounded
<1>a. /\ WriteAntiQuorum \in Nat /\ ReplicationFactor \in Nat
      /\ \A S \in SUBSET Log : Cardinality(S) \in Nat
      /\ \A S, T \in SUBSET Log : S \subseteq T => Cardinality(S) <= Cardinality(T)
  BY LogSets
<1>b. Advance
  BY Advances
<1> SUFFICES ASSUME NEW g \in Gen PROVE Enough(g)'
  BY DEF LossInv
<1>1. CASE Accepted(g) /\ Safe(g)
  <2>1. Safe(g)' /\ Accepted(g)'
    BY <1>0, <1>1, <1>b, SafeStays DEF Advance, KeepsGoing
  <2> QED
    BY <2>1 DEF Enough
<1>2. CASE ~ (Accepted(g) /\ Safe(g))
  <2>1. PICK S : S = Gone(g)
    OBVIOUS
  <2>2. PICK T : T = {l \in Log : log'[g][l].state = "gone"}
    OBVIOUS
  <2>3. S \in SUBSET Log /\ T \in SUBSET Log
    BY <2>1, <2>2 DEF Gone
  <2>4. Cardinality(S) + left["kill"] + WriteAntiQuorum < ReplicationFactor
    BY <1>2, <2>1 DEF LossInv, Enough
  <2>5. Cardinality(S) \in Nat /\ Cardinality(T) \in Nat
    BY <1>a, <2>3
  <2>6. SUFFICES Cardinality(T) + left'["kill"] + WriteAntiQuorum < ReplicationFactor
    BY <2>2 DEF Enough, Gone
  <2>7. CASE NothingLost
    <3>1. T \subseteq S /\ left'["kill"] <= left["kill"]
      BY <2>1, <2>2, <2>7 DEF NothingLost, Gone
    <3>2. Cardinality(T) <= Cardinality(S)
      BY <1>a, <2>3, <3>1
    <3> QED
      BY <1>0, <1>a, <2>4, <2>5, <3>1, <3>2
  <2>8. ASSUME NEW h \in Gen, NEW l \in Log, Kill(h, l)
        PROVE  Cardinality(T) + left'["kill"] + WriteAntiQuorum < ReplicationFactor
    <3>1. log' = [log EXCEPT ![h][l].state = "gone"] /\ left["kill"] > 0 /\ left' = [left EXCEPT !["kill"] = left["kill"] - 1]
      BY <2>8 DEF Kill, Spend
    <3>2. left'["kill"] = left["kill"] - 1
      BY <1>0, <3>1 DEF IInv, TypeOK, Bounded
    <3>3. \A x \in Log : x # l => log'[g][x] = log[g][x]
      BY <1>0, <3>1
    <3>4. T \subseteq S \cup {l}
      BY <2>1, <2>2, <3>3 DEF Gone
    <3>5. {l} \in SUBSET Log /\ S \cup {l} \in SUBSET Log /\ Cardinality({l}) = 1
      BY <2>3, FS_Singleton
    <3>6. Cardinality(S \cup {l}) <= Cardinality(S) + 1
      BY <2>3, <3>5, UnionBound
    <3>7. Cardinality(T) <= Cardinality(S \cup {l}) /\ Cardinality(S \cup {l}) \in Nat
      BY <1>a, <2>3, <3>4, <3>5
    <3> QED
      BY <1>0, <1>a, <2>4, <2>5, <3>2, <3>6, <3>7
  <2>9. ASSUME NEW r \in Recovery, NEW h \in Gen, NEW l \in Log, Removes(r, h, l)
        PROVE  Cardinality(T) + left'["kill"] + WriteAntiQuorum < ReplicationFactor
    <3>1. Accepted(h) /\ info[r].count # None /\ h \notin info[r].keep /\ info[r].count >= gen[h].count
      BY <2>9 DEF Removes, Displaced
    <3>2. KeepsAll(info[r].keep, info[r].count)
      BY <3>1 DEF IInv, InvKeep
    <3>3. info[r].count \in Int /\ gen[h].count \in Nat
      BY <1>0, Typed, Constants
    <3>4. Safe(h)
      BY <3>1, <3>2, <3>3 DEF KeepsAll
    <3>5. h # g
      BY <1>2, <3>1, <3>4
    <3>6. log'[g] = log[g] /\ left'["kill"] <= left["kill"]
      BY <1>0, <2>9, <3>5 DEF Removes
    <3>7. T = S
      BY <2>1, <2>2, <3>6 DEF Gone
    <3> QED
      BY <1>0, <1>a, <2>4, <2>5, <3>6, <3>7
  <2> QED
    BY <2>7, <2>8, <2>9, Losses
<1> QED
  BY <1>1, <1>2

-----------------------------------------------------------------------------
(***************************************************************************)
(* What follows from the invariants.                                       *)
(***************************************************************************)

\* What all logs but the anti-quorum have made durable is not lost with the others.
LEMMA DurableIsKept ==
    ASSUME IInv, LossInv, NEW g \in Gen, Accepted(g), ~ Safe(g), NEW v,
           NEW w, Logged(g, w), \A d \in Nat : d >= w => Covers(g, d, v)
    PROVE  Kept(g, v)
<1> DEFINE T == {l \in Log : log[g][l].durable >= w}
           K == {l \in Log : log[g][l].state \in {"up", "down"} /\ Covers(g, log[g][l].durable, v)}
           G == Gone(g)
<1>1. T \in SUBSET Log /\ K \in SUBSET Log /\ G \in SUBSET Log
  BY DEF Gone
<1>2. ASSUME NEW l \in T PROVE l \in K \cup G
  <2>1. l \in Log /\ log[g][l].durable >= w
    OBVIOUS
  <2>2. log[g][l].state # "none"
    BY <2>1 DEF IInv, InvPhase
  <2>3. log[g][l] \in LogRecord /\ log[g][l].durable \in Nat
    BY <2>1, <2>2, LogFacts
  <2>4. log[g][l].state \in {"none", "up", "down", "gone"}
    BY <2>3 DEF LogRecord
  <2> QED
    BY <2>1, <2>2, <2>3, <2>4 DEF Gone
<1>3. Cardinality(T) >= N - WriteAntiQuorum
  BY DEF Logged
<1>4. Cardinality(G) + left["kill"] + WriteAntiQuorum < ReplicationFactor
  BY DEF LossInv, Enough
<1>5. left["kill"] \in Nat
  <2>1. left \in [Bounded -> Nat]
    BY DEF IInv, TypeOK
  <2> QED
    BY <2>1 DEF Bounded
<1>6. N - Cardinality(K) < ReplicationFactor
  <2> HIDE DEF T, K, G
  <2>1. T \subseteq K \cup G /\ K \cup G \in SUBSET Log
    BY <1>1, <1>2
  <2>2. Cardinality(T) <= Cardinality(K \cup G) /\ Cardinality(K \cup G) <= Cardinality(K) + Cardinality(G)
    BY <1>1, <2>1, LogSets, UnionBound
  <2>3. /\ Cardinality(T) \in Nat /\ Cardinality(K) \in Nat /\ Cardinality(G) \in Nat /\ Cardinality(K \cup G) \in Nat
        /\ N \in Nat /\ WriteAntiQuorum \in Nat /\ ReplicationFactor \in Nat
    BY <1>1, <2>1, LogSets
  <2> QED
    BY <1>3, <1>4, <1>5, <2>2, <2>3
<1> QED
  BY <1>6 DEF Kept, ReadQuorum

\* A version of a generation is found in the generation or, when the end its successor
\* gave it is not beyond the version, in the successor.
LEMMA AnswerSurvives ==
    ASSUME IInv, LossInv, NEW g \in Gen, Accepted(g), NEW v \in Nat,
           RecoveryTransactionVersion(g) <= v, v <= committed[g]
    PROVE  Survives(v)
<1>0. /\ TypeOK /\ InvPhase /\ InvSent /\ InvLogged /\ InvChain /\ InvOrder /\ InvKeep /\ stored \in Nat
      /\ cstate.gen \in Gen /\ cstate.count \in Nat /\ cstate.old \in Seq(OldEntry)
      /\ Accepted(cstate.gen) /\ ChainOK(cstate.gen, cstate.old)
  BY Typed DEF IInv, InvChain
<1>1. \A h \in Gen : Accepted(h) => /\ committed[h] \in Nat /\ gen[h].at \in Nat /\ gen[h].at # None /\ gen[h].known \in Nat
                                    /\ RecoveryTransactionVersion(h) \in Nat
                                    /\ gen[h].at < RecoveryTransactionVersion(h)
                                    /\ RecoveryTransactionVersion(h) <= committed[h]
                                    /\ Logged(h, committed[h])
  BY <1>0, CommittedTyped, VersionsOf DEF InvSent, InvLogged
<1>2. ASSUME NEW h \in Gen, Accepted(h), Safe(h), v <= gen[h].at \/ v <= committed[h]
      PROVE  v <= stored
  <2>1. PICK e \in Nat : Ended(h, e) /\ gen[h].at <= e /\ e <= stored
    BY <1>2 DEF Safe
  <2>2. committed[h] <= e
    BY <1>0, <1>2, <2>1, CommittedEnded
  <2> QED
    BY <1>0, <1>1, <1>2, <2>1, <2>2
<1>3. CASE Safe(g)
  BY <1>2, <1>3 DEF Survives
<1>4. ~ Safe(g) => Kept(g, v)
  <2>1. \A d \in Nat : d >= committed[g] => Covers(g, d, v)
    BY <1>1 DEF Covers
  <2> QED
    BY <1>1, <2>1, DurableIsKept
<1>5. g \in Chain(cstate) \/ Safe(g)
  <2>1. gen[g].count <= gen[cstate.gen].count /\ gen[cstate.gen].count <= cstate.count
    BY <1>0 DEF InvOrder
  <2>2. gen[g].count \in Nat /\ gen[cstate.gen].count \in Nat
    BY <1>0, Typed
  <2>3. KeepsAll(Chain(cstate), cstate.count)
    BY <1>0 DEF InvKeep
  <2> QED
    BY <1>0, <2>1, <2>2, <2>3 DEF KeepsAll
<1>6. CASE ~ Safe(g) /\ g = cstate.gen
  BY <1>4, <1>6 DEF Survives
<1>7. ASSUME ~ Safe(g), NEW i \in DOMAIN cstate.old, g = cstate.old[i].gen
      PROVE  Survives(v)
  <2>1. PICK old \in Seq(OldEntry) : old = cstate.old
    BY <1>0
  <2>2. DOMAIN old = 1 .. Len(old) /\ Len(old) \in Nat /\ \A j \in DOMAIN old : old[j] \in OldEntry
    OBVIOUS
  <2>3. i \in DOMAIN old /\ i \in Nat /\ g = old[i].gen
    BY <1>7, <2>1, <2>2
  <2>4. PICK c \in Gen : c = cstate.gen
    BY <1>0
  <2>5. \A j \in DOMAIN old : /\ Accepted(old[j].gen) /\ old[j].gen \in Gen /\ old[j].end \in Nat /\ old[j].at \in Nat
                              /\ gen[Later(c, old, j)].at = old[j].at
                              /\ gen[Later(c, old, j)].known + 1 = old[j].end
                              /\ gen[old[j].gen].at < old[j].end
                              /\ Ended(old[j].gen, old[j].at)
    BY <1>0, <2>1, <2>2, <2>4 DEF ChainOK, OldEntry
  <2>6. PICK nx : nx = Later(c, old, i)
    OBVIOUS
  <2>7. nx \in Gen /\ Accepted(nx) /\ (i # 1 => i - 1 \in DOMAIN old /\ nx = old[i - 1].gen) /\ (i = 1 => nx = c)
    <3>1. CASE i = 1
      BY <1>0, <2>4, <2>6, <3>1 DEF Later
    <3>2. CASE i # 1
      <4>1. PICK k \in Nat : k = i - 1 /\ k \in DOMAIN old
        BY <2>2, <2>3, <3>2
      <4> QED
        BY <2>5, <2>6, <3>2, <4>1 DEF Later
    <3> QED
      BY <3>1, <3>2
  <2>8. CASE v < old[i].end
    BY <1>4, <1>7, <2>1, <2>3, <2>8 DEF Survives
  <2>9. CASE v >= old[i].end
    <3>1. gen[nx].at = old[i].at /\ gen[nx].known + 1 = old[i].end /\ Ended(g, old[i].at) /\ old[i].at \in Nat
      BY <2>3, <2>5, <2>6
    <3>2. committed[g] <= gen[nx].at
      BY <1>0, <3>1, CommittedEnded
    <3>3. gen[nx].known < v /\ v <= gen[nx].at
      BY <1>1, <2>7, <2>9, <3>1, <3>2
    <3>4. CASE Safe(nx)
      BY <1>2, <2>7, <3>3, <3>4 DEF Survives
    <3>5. CASE ~ Safe(nx)
      <4>1. \A d \in Nat : d >= committed[nx] => Covers(nx, d, v)
        BY <1>1, <2>7, <3>3 DEF Covers
      <4>2. Kept(nx, v)
        BY <1>1, <2>7, <3>5, <4>1, DurableIsKept
      <4>3. CASE i = 1
        BY <2>4, <2>7, <4>2, <4>3 DEF Survives
      <4>4. CASE i # 1
        <5>1. PICK k \in DOMAIN old : k = i - 1 /\ nx = old[k].gen
          BY <2>7, <4>4
        <5>2. v < old[k].end
          BY <1>1, <2>5, <2>7, <3>3, <5>1
        <5> QED
          BY <2>1, <4>2, <5>1, <5>2 DEF Survives
      <4> QED
        BY <4>3, <4>4
    <3> QED
      BY <3>4, <3>5
  <2>10. old[i].end \in Nat
    BY <2>3, <2>5
  <2> QED
    BY <2>8, <2>9, <2>10
<1> QED
  BY <1>3, <1>5, <1>6, <1>7 DEF Chain

\* The generations the coordinated state names, and where they ended.
LEMMA CStateOld ==
    ASSUME IInv, NEW i \in DOMAIN cstate.old
    PROVE  LET g == cstate.old[i].gen
               nx == IF i = 1 THEN cstate.gen ELSE cstate.old[i - 1].gen
           IN  /\ g \in Gen /\ Accepted(g) /\ nx \in Gen /\ gen[nx].at = cstate.old[i].at
               /\ gen[nx].at \in Nat /\ committed[g] \in Nat /\ committed[g] <= gen[nx].at
<1>0. /\ TypeOK /\ InvPhase /\ InvLogged /\ InvChain /\ cstate.gen \in Gen /\ cstate.old \in Seq(OldEntry)
      /\ ChainOK(cstate.gen, cstate.old)
  BY Typed DEF IInv, InvChain
<1>1. PICK old \in Seq(OldEntry) : old = cstate.old
  BY <1>0
<1>2. DOMAIN old = 1 .. Len(old) /\ Len(old) \in Nat /\ \A j \in DOMAIN old : old[j] \in OldEntry
  OBVIOUS
<1>3. PICK g \in Gen, e \in Nat : g = old[i].gen /\ e = old[i].at
  BY <1>1, <1>2 DEF OldEntry
<1>4. PICK nx : nx = Later(cstate.gen, old, i)
  OBVIOUS
<1>5. nx \in Gen
  <2>1. CASE i = 1
    BY <1>0, <1>4, <2>1 DEF Later
  <2>2. CASE i # 1
    <3>1. i - 1 \in DOMAIN old
      BY <1>1, <1>2, <2>2
    <3> QED
      BY <1>2, <1>4, <2>2, <3>1 DEF Later, OldEntry
  <2> QED
    BY <2>1, <2>2
<1>6. Accepted(g) /\ gen[nx].at = e /\ Ended(g, e)
  BY <1>0, <1>1, <1>3, <1>4 DEF ChainOK
<1>7. committed[g] \in Nat /\ committed[g] <= e
  BY <1>0, <1>6, CommittedEnded, CommittedTyped
<1> QED
  BY <1>1, <1>3, <1>4, <1>5, <1>6, <1>7 DEF Later

LEMMA KnownStays ==
    ASSUME IInv
    PROVE  KnownIsKept
<1>0. TypeOK /\ InvPhase /\ InvSent
  BY DEF IInv
<1> SUFFICES ASSUME NEW i \in DOMAIN cstate.old, NEW l \in Log, log[cstate.old[i].gen][l].state # "none"
             PROVE  KnownCommitted(cstate.old[i].gen, log[cstate.old[i].gen][l].version) <= cstate.old[i].at
  BY DEF KnownIsKept
<1>1. PICK g \in Gen : g = cstate.old[i].gen
  BY CStateOld
<1>2. Accepted(g) /\ committed[g] \in Nat /\ cstate.old[i].at \in Nat /\ committed[g] <= cstate.old[i].at
  BY <1>1, CStateOld
<1>3. Point(g, log[g][l].version)
  BY <1>1, LogFacts
<1>4. KnownCommitted(g, log[g][l].version) \in Nat /\ KnownCommitted(g, log[g][l].version) <= committed[g]
  BY <1>0, <1>2, <1>3, KnownIs
<1> QED
  BY <1>1, <1>2, <1>4

LEMMA NoVersionTwice ==
    ASSUME IInv
    PROVE  VersionsNotReused
<1>0. TypeOK /\ InvPhase /\ InvSent
  BY DEF IInv
<1> SUFFICES ASSUME NEW i \in DOMAIN cstate.old, NEW l \in Log
             PROVE  log[cstate.old[i].gen][l].version <
                       RecoveryTransactionVersion(IF i = 1 THEN cstate.gen ELSE cstate.old[i - 1].gen)
  BY DEF VersionsNotReused
<1>1. PICK g \in Gen : g = cstate.old[i].gen
  BY CStateOld
<1>2. PICK nx \in Gen : nx = IF i = 1 THEN cstate.gen ELSE cstate.old[i - 1].gen
  BY CStateOld
<1>3. Accepted(g) /\ committed[g] \in Nat /\ gen[nx].at \in Nat /\ committed[g] <= gen[nx].at
  BY <1>1, <1>2, CStateOld
<1>4. gen[g].at \in Nat /\ gen[g].at # None /\ log[g][l].state # "none"
  BY <1>0, <1>3, CommittedTyped DEF InvPhase
<1>5. /\ RecoveryTransactionVersion(g) \in Nat /\ RecoveryTransactionVersion(g) > gen[g].at
      /\ RecoveryTransactionVersion(g) <= committed[g] /\ LastSent(g) \in Nat
      /\ LastSent(g) <= committed[g] + Window
  BY <1>0, <1>3, <1>4, VersionsOf DEF InvSent
<1>6. log[g][l].version \in Nat /\ log[g][l].version <= LastSent(g)
  BY <1>4, LogFacts DEF Point
<1>7. gen[nx].at > 0
  BY <1>3, <1>4, <1>5
<1>8. RecoveryTransactionVersion(nx) = gen[nx].at + MAX_VERSIONS_IN_FLIGHT
  BY <1>3, <1>7 DEF RecoveryTransactionVersion
<1>9. log[g][l].version < RecoveryTransactionVersion(nx)
  BY <1>3, <1>5, <1>6, <1>8, Constants
<1> QED
  BY <1>1, <1>2, <1>9

LEMMA OneLine ==
    ASSUME IInv
    PROVE  ImmediateSuccessors
<1>0. TypeOK /\ InvOrder /\ InvChain /\ InvPhase
  BY DEF IInv
<1> SUFFICES ASSUME NEW g \in Gen, NEW h \in Gen, Accepted(g), Accepted(h), g # h,
                    gen[g].old # <<>>, gen[h].old # <<>>, gen[g].old[1].gen = gen[h].old[1].gen
             PROVE  FALSE
  BY DEF ImmediateSuccessors
<1>1. PICK p : p = gen[g].old[1].gen
  OBVIOUS
<1>2. /\ gen[p].count < gen[g].count /\ (gen[h].count <= gen[p].count \/ gen[g].count <= gen[h].count)
      /\ gen[p].count < gen[h].count /\ (gen[g].count <= gen[p].count \/ gen[h].count <= gen[g].count)
  BY <1>0, <1>1 DEF InvOrder
<1>3. p \in Gen
  <2>1. gen[g].old \in Seq(OldEntry) /\ gen[g].old # <<>>
    BY <1>0, Typed
  <2>2. gen[g].old[1] \in OldEntry
    BY <2>1
  <2> QED
    BY <1>1, <2>2 DEF OldEntry
<1>4. gen[g].count \in Nat /\ gen[h].count \in Nat /\ gen[p].count \in Nat
  BY <1>0, <1>3, Typed
<1>5. gen[g].count = gen[h].count
  BY <1>2, <1>4
<1> QED
  BY <1>0, <1>5 DEF InvOrder

LEMMA InitLoss == Init => LossInv
<1> SUFFICES ASSUME Init, NEW g \in Gen PROVE Enough(g)
  BY DEF LossInv
<1>1. \A l \in Log : log[g][l].state # "gone"
  BY DEF Init, NoLog
<1>2. Gone(g) = {}
  BY <1>1 DEF Gone
<1>3. Cardinality(Gone(g)) = 0
  BY <1>2, FS_EmptySet
<1>4. left \in Budgets /\ left["kill"] + WriteAntiQuorum < ReplicationFactor
  BY LossAssumption DEF Init
<1>5. left["kill"] \in Nat
  BY <1>4, BudgetsAssumption DEF Bounded
<1> QED
  BY <1>3, <1>4, <1>5, LogSets DEF Enough

\* Of a generation that still matters, no more logs are lost than replication makes up for:
\* rejoinClusterController makes a log remove its data only when the storage servers have
\* it all.
THEOREM LossesAreCovered == Spec => []LossInv
<1>1. IInv /\ IInv' /\ LossInv /\ [Next]_vars => LossInv'
  BY LossStep DEF IInv
<1> QED
  BY <1>1, InitLoss, Invariance, PTL DEF Spec

\* Of two recoveries whose new core state was written one is an ancestor of the other:
\* cstate.write lets no two of them replace the same logs.
THEOREM GenerationsFormALine == Spec => []RecoveryInv
<1>1. IInv => RecoveryInv
  BY OneLine DEF RecoveryInv, IInv
<1> QED
  BY <1>1, Invariance, PTL

\* A read version that confirmEpochLive let a GRV proxy send misses no answered commit, not
\* even one of a later epoch.
THEOREM ReadVersions == Spec => []ReadVersionIsCurrent
<1>1. IInv => ReadVersionIsCurrent
  BY DEF IInv, InvReader
<1> QED
  BY <1>1, Invariance, PTL

\* The recovery transaction's version is beyond every version that the logs it replaces
\* ever held, by MAX_VERSIONS_IN_FLIGHT.
THEOREM VersionsGoOn == Spec => []VersionsNotReused
<1>1. IInv => VersionsNotReused
  BY NoVersionTwice
<1> QED
  BY <1>1, Invariance, PTL

\* A commit that a client was told of is in the storage servers or is found by whoever
\* recovers from the coordinated state: epochEnd, newEpoch, purgeOldRecoveredGenerations
\* and the logs' removal together lose none.
THEOREM AnswersSurvive == Spec => []AnsweredSurvives
<1>1. IInv /\ LossInv => AnsweredSurvives
  <2> SUFFICES ASSUME IInv, LossInv, NEW g \in Gen, NEW v \in AnsweredVersions(g)
               PROVE  Survives(v)
    BY DEF AnsweredSurvives
  <2>0. TypeOK /\ InvPhase
    BY DEF IInv
  <2>1. Accepted(g) /\ v \in RecoveryTransactionVersion(g) .. committed[g]
    BY DEF AnsweredVersions
  <2>2. committed[g] \in Nat /\ RecoveryTransactionVersion(g) \in Nat
    BY <2>0, <2>1, CommittedTyped, VersionsOf
  <2>3. v \in Nat /\ RecoveryTransactionVersion(g) <= v /\ v <= committed[g]
    BY <2>1, <2>2
  <2> QED
    BY <2>1, <2>3, AnswerSurvives
<1> QED
  BY <1>1, Invariance, LossesAreCovered, PTL

\* The end getDurableVersion gives the epoch undoes nothing that clients or storage servers
\* were told is committed.
THEOREM NothingIsTakenBack == Spec => []KeptInv
<1>1. IInv => KnownIsKept
  BY KnownStays
<1>2. KnownIsKept /\ AnsweredSurvives => KeptInv
  BY DEF KeptInv
<1> QED
  BY <1>1, <1>2, Invariance, AnswersSurvive, PTL
=====================================================================================
