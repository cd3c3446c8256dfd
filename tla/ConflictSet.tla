--------------------------------- MODULE ConflictSet ---------------------------------
(***************************************************************************)
(* How a resolver decides which transactions of a batch conflict           *)
(* (SkipList.cpp).  The version of the last write to every key, at least   *)
(* of the writes that are not too old to matter, is kept in a skip list: a *)
(* node at key k stands for the keys from k to the next node, and its      *)
(* maxVersion at level l is the latest version of the nodes it skips       *)
(* there.                                                                  *)
(*                                                                         *)
(* The list is a sequence of nodes in key order; the first one is the      *)
(* header.  The next node of level l is the next one that has that level.  *)
(* Keys are 0..MaxKey, 0 is the empty key.                                 *)
(***************************************************************************)
EXTENDS Naturals, FiniteSets, Sequences, SequencesExt, FiniteSetsExt

CONSTANTS MaxKey,          \* the last key
          MaxLevels,       \* MaxLevels
          MaxVersion,      \* commit versions
          MaxBatch,        \* transactions in a batch
          Life,            \* MAX_WRITE_TRANSACTION_LIFE_VERSIONS
          RemovePerRange,  \* nodes removeBefore looks at per range written,
          RemoveExtra,     \* and besides
          ReadRanges       \* what transactions read: ranges, <<>> for nothing

ASSUME SizeAssumption ==
    /\ {MaxKey, MaxLevels, MaxVersion, MaxBatch, Life, RemovePerRange, RemoveExtra} \subseteq Nat
    /\ MaxKey > 0 /\ MaxLevels > 0

Key == 0..MaxKey
Version == 0..MaxVersion
Level == 0..(MaxLevels - 1)

\* [begin, end), never empty.
KeyRange == {r \in Key \X Key : r[1] < r[2]}

ASSUME ReadAssumption == ReadRanges \subseteq KeyRange \cup {<<>>}

Node == UNION {[key : Key, max : [1..n -> Version]] : n \in 1..MaxLevels}

\* CommitTransactionRef: one range to read and one to write, or none.
\* If it reads nothing its snapshot does not matter.
Transaction ==
    {tr \in [snapshot : Version, reads : ReadRanges, writes : KeyRange \cup {<<>>}] :
       tr.reads = <<>> => tr.snapshot = 0}

VARIABLES versionHistory,   \* the skip list
          removalKey, oldestVersion,
          version,          \* of the last batch
          lastWrite,        \* history: per key, the last version that wrote it
          verdicts,         \* what the last batch was told
          expected          \* history: what it should be told

vars == <<versionHistory, removalKey, oldestVersion, version, lastWrite, verdicts, expected>>

Verdict == {"Committed", "Conflict", "TooOld"}
-----------------------------------------------------------------------------
(***************************************************************************)
(* SkipList::Node and SkipList::Finger                                     *)
(***************************************************************************)

HasLevel(node, l) == Len(node.max) > l

MaxOf(L, i, l) == L[i].max[l + 1]

\* The position of the next node of level l, Len(L) + 1 if there is none.
NextAt(L, i, l) == Min({j \in (i + 1)..Len(L) : HasLevel(L[j], l)} \cup {Len(L) + 1})

\* The positions on level l from i on, before j.
Span(L, i, j, l) == {n \in i..(j - 1) : HasLevel(L[n], l)}

\* The last node of every level before key v.
FingerAt(L, v) ==
    [l \in Level |-> Max({i \in 1..Len(L) : HasLevel(L[i], l) /\ (i = 1 \/ L[i].key < v)})]

Found(L, f, v) == f[0] < Len(L) /\ L[f[0] + 1].key = v

CalcVersionForLevel(L, i, l) ==
    [L EXCEPT ![i].max[l + 1] =
        Max({MaxOf(L, n, l - 1) : n \in Span(L, i, NextAt(L, i, l), l - 1)})]

\* Mutant: the levels above the new node are left alone.
RaiseNothing(L, f, above, v) == L

\* The levels a new node has are computed again; on those above, its version is noted
\* until one knows a later one.
RaiseAbove(L, f, above, v) ==
    LET stop == {l \in Level : l >= above /\ MaxOf(L, f[l], l) >= v}
        upTo == Min(stop \cup {MaxLevels})
    IN [i \in DOMAIN L |->
          [L[i] EXCEPT !.max = [n \in DOMAIN @ |->
             IF n - 1 \in above..(upTo - 1) /\ f[n - 1] = i THEN v ELSE @[n]]]]

InsertNode(L, f, key, v, level) ==
    LET x == f[0] + 1
        raw == InsertAt(L, x, [key |-> key, max |-> [n \in 1..(level + 1) |-> v]])
        calc[l \in 0..level] ==
            IF l = 0 THEN raw
            ELSE CalcVersionForLevel(CalcVersionForLevel(calc[l - 1], f[l], l), x, l)
    IN RaiseAbove(calc[level], f, level + 1, v)

\* The nodes after start up to the finger end are removed.
RemoveNodes(L, start, end) == SubSeq(L, 1, start[0]) \o SubSeq(L, end[0] + 1, Len(L))

(***************************************************************************)
(* addConflictRanges: the ranges are disjoint and in key order.  All       *)
(* fingers are found first; the ranges are written from the last to the    *)
(* first, each with the levels drawn for its two nodes.                    *)
(***************************************************************************)
WriteRange(L, begin, end, startF, endF, v, levels) ==
    LET withEnd == IF Found(L, endF, end) THEN L
                   ELSE InsertNode(L, endF, end, MaxOf(L, endF[0], 0), levels[2])
    IN InsertNode(RemoveNodes(withEnd, startF, endF), startF, begin, v, levels[1])

AddConflictRanges(L, ranges, v, levels) ==
    LET write[r \in 1..(Len(ranges) + 1)] ==
          IF r > Len(ranges) THEN L
          ELSE LET rg == ranges[r] IN
               WriteRange(write[r + 1], rg[1], rg[2], FingerAt(L, rg[1]), FingerAt(L, rg[2]), v, levels[r])
    IN write[1]

(***************************************************************************)
(* removeBefore: of the next count nodes, those that are older than v and  *)
(* come after one that is are removed.                                     *)
(***************************************************************************)
Erase(L, x) ==
    LET prev(l) == Max({i \in 1..(x - 1) : HasLevel(L[i], l)})
        merged == [i \in DOMAIN L |->
          [L[i] EXCEPT !.max = [n \in DOMAIN @ |->
             IF n > 1 /\ n <= Len(L[x].max) /\ prev(n - 1) = i THEN Max({@[n], L[x].max[n]}) ELSE @[n]]]]
    IN RemoveAt(merged, x)

RemoveBefore(L, v, start, count) ==
    LET step[n \in 0..count] ==
          IF n = 0 THEN [list |-> L, at |-> start, wasAbove |-> TRUE]
          ELSE LET s == step[n - 1]
                   x == s.at + 1
               IN IF x > Len(s.list) THEN s
                  ELSE LET isAbove == MaxOf(s.list, x, 0) >= v IN
                       IF isAbove \/ s.wasAbove
                         THEN [s EXCEPT !.at = x, !.wasAbove = isAbove]
                         ELSE [s EXCEPT !.list = Erase(@, x), !.wasAbove = isAbove]
    IN step[count]

\* Where the next removal starts: the next node, or the beginning.
KeyAfter(L, i) == IF i < Len(L) THEN L[i + 1].key ELSE 0
-----------------------------------------------------------------------------
(***************************************************************************)
(* SkipList::CheckMax: does the list have a version after v in the range?  *)
(* The fingers of both ends go down together until they part on level l.   *)
(***************************************************************************)
EndSide(L, endF, l, v) ==
    LET check[k \in 0..l] ==
          /\ MaxOf(L, endF[k], k) > v
          /\ \/ k = 0
             \/ \E n \in Span(L, endF[k], endF[k - 1], k - 1) : MaxOf(L, n, k - 1) > v
             \/ k > 0 /\ check[k - 1]
    IN check[l]

StartSide(L, startF, endF, begin, l, v) ==
    LET until(k) == IF k = l THEN endF[l] ELSE NextAt(L, startF[k + 1], k + 1)
        check[k \in 0..l] ==
          \/ \E n \in Span(L, NextAt(L, startF[k], k), until(k), k) : MaxOf(L, n, k) > v
          \/ /\ MaxOf(L, startF[k], k) > v
             /\ IF k = 0 THEN L[startF[0] + 1].key # begin ELSE check[k - 1]
    IN check[l]

DetectConflict(L, range, v) ==
    LET startF == FingerAt(L, range[1])
        endF == FingerAt(L, range[2])
        \* The first level, from above, that decides or on which the fingers differ.
        decides(l) == startF[l] # endF[l] \/ MaxOf(L, startF[l], l) <= v \/ l = 0
        top == Max({l \in Level : decides(l)})
    IN IF startF[top] = endF[top] THEN MaxOf(L, startF[top], top) > v
       ELSE EndSide(L, endF, top, v) \/ StartSide(L, startF, endF, range[1], top, v)
-----------------------------------------------------------------------------
(***************************************************************************)
(* ConflictBatch.  A point is an end of a range of a transaction; at the   *)
(* same key ends come before begins, so that ranges that only touch do not *)
(* overlap, and the points of reads lie inside those of writes.            *)
(***************************************************************************)
TooOld(tr, newOldest) == tr.snapshot < newOldest /\ tr.reads # <<>>

Points(batch, newOldest) ==
    LET ends(t, r, write) == {[key |-> r[1], begin |-> TRUE, write |-> write, t |-> t],
                              [key |-> r[2], begin |-> FALSE, write |-> write, t |-> t]}
        ofTransaction(t) ==
          IF TooOld(batch[t], newOldest) THEN {}
          ELSE (IF batch[t].reads = <<>> THEN {} ELSE ends(t, batch[t].reads, FALSE))
                 \cup (IF batch[t].writes = <<>> THEN {} ELSE ends(t, batch[t].writes, TRUE))
    IN UNION {ofTransaction(t) : t \in DOMAIN batch}

\* Mutant: begins come before ends.
ExtraOrderingClosed(p) == IF p.begin THEN 0 ELSE 1

\* begin * 2 + (write ^ begin)
ExtraOrdering(p) == (IF p.begin THEN 2 ELSE 0) + (IF p.write # p.begin THEN 1 ELSE 0)

\* Points that compare equal may come in any order; here by their transaction.
PointLess(p, q) ==
    \/ p.key < q.key
    \/ p.key = q.key /\ ExtraOrdering(p) < ExtraOrdering(q)
    \/ p.key = q.key /\ ExtraOrdering(p) = ExtraOrdering(q) /\ p.t < q.t

Index(points, p) == Cardinality({q \in points : PointLess(q, p)})

Indices(points, t, write) ==
    LET end(begin) == CHOOSE p \in points : p.t = t /\ p.write = write /\ p.begin = begin
    IN Index(points, end(TRUE))..(Index(points, end(FALSE)) - 1)

\* Transactions in order: one that reads what an earlier one writes conflicts, and what
\* a conflicting one writes does not count.
CheckIntraBatchConflicts(batch, points, tooOld, conflicts) ==
    LET step[t \in 0..Len(batch)] ==
          IF t = 0 THEN [conflicts |-> conflicts, mcs |-> {}]
          ELSE LET s == step[t - 1]
                   hit == \/ t \in tooOld
                          \/ batch[t].reads # <<>> /\ Indices(points, t, FALSE) \cap s.mcs # {}
               IN IF t \in conflicts THEN s
                  ELSE IF hit THEN [s EXCEPT !.conflicts = @ \cup {t}]
                  ELSE IF batch[t].writes = <<>> THEN s
                  ELSE [s EXCEPT !.mcs = @ \cup Indices(points, t, TRUE)]
    IN step[Len(batch)].conflicts

\* What the transactions without conflict write, as ranges that do not overlap.
CombineWriteConflictRanges(points, conflicts) ==
    LET sorted == SetToSortSeq({p \in points : p.write /\ p.t \notin conflicts}, PointLess)
        step(s, p) ==
          LET n == IF p.begin THEN s.active + 1 ELSE s.active - 1 IN
          [active |-> n,
           ranges |-> IF p.begin /\ n = 1 THEN Append(s.ranges, <<p.key, p.key>>)
                      ELSE IF ~p.begin /\ n = 0 THEN [s.ranges EXCEPT ![Len(s.ranges)][2] = p.key]
                      ELSE s.ranges]
    IN FoldLeft(step, [active |-> 0, ranges |-> <<>>], sorted).ranges

ReadConflicts(batch, tooOld) ==
    {t \in DOMAIN batch \ tooOld :
       batch[t].reads # <<>> /\ DetectConflict(versionHistory, batch[t].reads, batch[t].snapshot)}

Prune(L, newOldest, ranges) ==
    IF newOldest > oldestVersion
      THEN LET removed == RemoveBefore(L, newOldest, FingerAt(L, removalKey)[0],
                                       Len(ranges) * RemovePerRange + RemoveExtra)
           IN /\ oldestVersion' = newOldest
              /\ versionHistory' = removed.list
              /\ removalKey' = KeyAfter(removed.list, removed.at)
      ELSE versionHistory' = L /\ UNCHANGED <<removalKey, oldestVersion>>
-----------------------------------------------------------------------------
(***************************************************************************)
(* The reference: a transaction commits iff nothing it read was written    *)
(* between its snapshot and its turn.                                      *)
(***************************************************************************)
KeysOf(range) == IF range = <<>> THEN {} ELSE range[1]..(range[2] - 1)

Reference(batch, newOldest, now) ==
    LET step[t \in 0..Len(batch)] ==
          IF t = 0 THEN [last |-> lastWrite, verdicts |-> <<>>]
          ELSE LET s == step[t - 1]
                   tr == batch[t]
               IN IF TooOld(tr, newOldest) THEN [s EXCEPT !.verdicts = Append(@, "TooOld")]
                  ELSE IF \E k \in KeysOf(tr.reads) : s.last[k] > tr.snapshot
                  THEN [s EXCEPT !.verdicts = Append(@, "Conflict")]
                  ELSE [last |-> [k \in Key |-> IF k \in KeysOf(tr.writes) THEN now ELSE s.last[k]],
                        verdicts |-> Append(s.verdicts, "Committed")]
    IN step[Len(batch)]
-----------------------------------------------------------------------------
\* resolveBatch(): addTransaction for each, then detectConflicts.
DetectConflicts(batch, now) ==
    LET newOldest == IF now > Life THEN now - Life ELSE 0
        points == Points(batch, newOldest)
        tooOld == {t \in DOMAIN batch : TooOld(batch[t], newOldest)}
        conflicts == CheckIntraBatchConflicts(batch, points, tooOld, ReadConflicts(batch, tooOld))
        ranges == CombineWriteConflictRanges(points, conflicts)
        reference == Reference(batch, newOldest, now)
    IN
    /\ version' = now
    /\ \E levels \in [1..Len(ranges) -> Level \X Level] :
         Prune(AddConflictRanges(versionHistory, ranges, now, levels), newOldest, ranges)
    /\ verdicts' = [t \in DOMAIN batch |->
         IF t \in tooOld THEN "TooOld" ELSE IF t \in conflicts THEN "Conflict" ELSE "Committed"]
    /\ expected' = reference.verdicts
    /\ lastWrite' = reference.last

Header == [key |-> 0, max |-> [n \in 1..MaxLevels |-> 0]]

Init ==
    /\ versionHistory = <<Header>>
    /\ removalKey = 0
    /\ oldestVersion = 0
    /\ version = 0
    /\ lastWrite = [k \in Key |-> 0]
    /\ verdicts = <<>>
    /\ expected = <<>>

\* A transaction has read at a version that was committed before its batch.
Batches == UNION {[1..n -> {tr \in Transaction : tr.snapshot <= version}] : n \in 1..MaxBatch}

Resolve ==
    /\ version < MaxVersion
    /\ \E batch \in Batches : DetectConflicts(batch, version + 1)

Next == Resolve

Spec == Init /\ [][Next]_vars
-----------------------------------------------------------------------------
TypeOK ==
    /\ \A i \in DOMAIN versionHistory : versionHistory[i] \in Node
    /\ removalKey \in Key
    /\ oldestVersion \in Version
    /\ version \in Version
    /\ lastWrite \in [Key -> Version]
    /\ verdicts \in BoundedSeq(Verdict, MaxBatch)
    /\ expected \in BoundedSeq(Verdict, MaxBatch)

\* The batch is told what the reference says: no conflict is missed (the committed
\* transactions are serializable in version order) and none is imagined.
VerdictsExact == verdicts = expected

\* Any later read that is not too old is answered exactly, whatever levels were drawn
\* and however far the removal of old nodes has come.
HistoryExact ==
    \A range \in KeyRange : \A v \in oldestVersion..version :
        DetectConflict(versionHistory, range, v) <=> \E k \in KeysOf(range) : lastWrite[k] > v

\* A level tells of every version that matters below it and of none that is not there.
LevelsExact ==
    \A i \in DOMAIN versionHistory : \A l \in 1..(Len(versionHistory[i].max) - 1) :
        LET below == Span(versionHistory, i, NextAt(versionHistory, i, l), 0)
            latest == Max({MaxOf(versionHistory, n, 0) : n \in below})
            known == MaxOf(versionHistory, i, l)
        IN known = latest \/ (known < oldestVersion /\ latest < oldestVersion)

\* Nodes are in key order and there is one per key, although ranges are written from the
\* last to the first with fingers found before any of them was.
OneNodePerKey ==
    \A i, j \in 2..Len(versionHistory) : i < j => versionHistory[i].key < versionHistory[j].key

\* The skip list is one, on every level, and stands for the last write of every key.
ListInv == TypeOK /\ HistoryExact /\ LevelsExact /\ OneNodePerKey
=============================================================================
