---------------------------- MODULE CommitPipelineProofs ----------------------------
(***************************************************************************)
(* Proofs, for any number of proxies, logs and batches, that what the      *)
(* proxies, the master and the logs take for committed is durable and that *)
(* read versions are current.                                              *)
(***************************************************************************)
EXTENDS CommitPipeline, FiniteSetTheorems, TLAPS

-----------------------------------------------------------------------------
(***************************************************************************)
(* The inductive invariant.                                                *)
(***************************************************************************)

\* Everything after the first version of the epoch must be on enough logs before
\* anybody may take it for committed.
LoggedIfLater(v) == v > RecoveryTransactionVersion => Logged(v)

\* What the master, the clients and the proxies take for committed.
InvCommitted ==
    /\ liveCommitted # invalidVersion =>
          liveCommitted >= RecoveryTransactionVersion /\ Logged(liveCommitted)
    /\ acked # invalidVersion =>
          acked >= RecoveryTransactionVersion /\ acked <= liveCommitted
    /\ version # invalidVersion => version >= RecoveryTransactionVersion
    /\ version > RecoveryTransactionVersion => acked # invalidVersion
    /\ \A p \in CommitProxy :
          /\ committed[p] >= RecoveryTransactionVersion
          /\ LoggedIfLater(committed[p])
          /\ committed[p] > RecoveryTransactionVersion => committed[p] <= liveCommitted

\* A batch on its way to the client: it has a version of this epoch, it is on the
\* logs before it reports, and the master knows of it before the client does.
BatchOK(p, b) ==
    b.stage \notin {"rejecting", "rejected"} =>
        /\ b.prevVersion \in Nat
        /\ RecoveryTransactionVersion <= b.version
        /\ b.version <= version
        /\ b.stage \in {"reporting", "answering"} => Logged(b.version)
        /\ b.stage = "answering" => b.version <= liveCommitted \/ b.version < committed[p]

InvBatch == \A p \in CommitProxy : \A n \in 1 .. Len(batch[p]) : BatchOK(p, batch[p][n])

\* A push is within the window of what it says is committed, and that is on the logs.
InvPushed ==
    \A m \in pushed : m.version - ReadLife <= m.known /\ LoggedIfLater(m.known)

\* A log is where some push brought it.
InvLog ==
    \A l \in TLog :
        /\ logVersion[l] = LastEpochEnd \/ \E m \in pushed : m.version = logVersion[l]
        /\ LoggedIfLater(known[l])

\* The master knows of everything that was answered before a request for a read
\* version came, and its answer is on the logs.
InvGrv ==
    \A g \in GrvProxy :
        /\ grv[g].stage = "asked" => acked # invalidVersion /\ grv[g].floor <= liveCommitted
        /\ grv[g].stage = "served" => Logged(grv[g].version) /\ grv[g].floor <= grv[g].version

IInv == TypeOK /\ InvCommitted /\ InvBatch /\ InvPushed /\ InvLog /\ InvGrv

-----------------------------------------------------------------------------
(***************************************************************************)
(* Lemmas about the operators.                                             *)
(***************************************************************************)

\* LargerOf is the maximum.
LEMMA LargerOfIsMax ==
    ASSUME NEW a \in Int, NEW b \in Int
    PROVE  LargerOf(a, b) \in {a, b} /\ LargerOf(a, b) >= a /\ LargerOf(a, b) >= b
BY DEF LargerOf

\* What is on enough logs is on them together with everything before it.
LEMMA LoggedDown ==
    ASSUME TypeOK, NEW v \in Int, NEW w \in Int, v <= w, Logged(w)
    PROVE  Logged(v)
<1> DEFINE A == {l \in TLog : durable[l] >= v}
           B == {l \in TLog : durable[l] >= w}
<1>1. B \subseteq A
  BY DEF TypeOK
<1>2. IsFiniteSet(A) /\ IsFiniteSet(B) /\ IsFiniteSet(TLog)
  BY TLogAssumption, FS_Subset
<1>3. /\ Cardinality(B) <= Cardinality(A) /\ Cardinality(A) \in Nat /\ Cardinality(B) \in Nat
      /\ Cardinality(TLog) \in Nat
  BY <1>1, <1>2, FS_Subset, FS_CardinalityType
<1>4. Cardinality(B) >= Cardinality(TLog) - AntiQuorum
  BY DEF Logged
<1>5. Cardinality(A) >= Cardinality(TLog) - AntiQuorum
  BY <1>3, <1>4, TLogAssumption
<1> QED
  BY <1>5 DEF Logged

\* A step that lets no log forget keeps what is logged.
LEMMA LoggedStays ==
    ASSUME TypeOK, TypeOK', \A l \in TLog : durable[l] <= durable'[l],
           NEW v \in Int, Logged(v)
    PROVE  Logged(v)'
<1> DEFINE A == {l \in TLog : durable[l] >= v}
           B == {l \in TLog : durable'[l] >= v}
<1>1. A \subseteq B
  BY DEF TypeOK
<1>2. IsFiniteSet(A) /\ IsFiniteSet(B) /\ IsFiniteSet(TLog)
  BY TLogAssumption, FS_Subset
<1>3. /\ Cardinality(A) <= Cardinality(B) /\ Cardinality(A) \in Nat /\ Cardinality(B) \in Nat
      /\ Cardinality(TLog) \in Nat
  BY <1>1, <1>2, FS_Subset, FS_CardinalityType
<1>4. Cardinality(A) >= Cardinality(TLog) - AntiQuorum
  BY DEF Logged
<1>5. Cardinality(B) >= Cardinality(TLog) - AntiQuorum
  BY <1>3, <1>4, TLogAssumption
<1> QED
  BY <1>5 DEF Logged

\* The types of what the arithmetic is about.
LEMMA Values ==
    ASSUME TypeOK
    PROVE  /\ version \in Int /\ liveCommitted \in Int /\ acked \in Int /\ LiveCommitted \in Int
           /\ LiveCommitted >= liveCommitted
           /\ \A p \in CommitProxy : committed[p] \in Nat
           /\ \A l \in TLog : durable[l] \in Nat /\ known[l] \in Nat /\ logVersion[l] \in Nat
           /\ \A p \in CommitProxy : \A n \in 1 .. Len(batch[p]) :
                 batch[p][n] \in Batch /\ batch[p][n].version \in Int
           /\ \A m \in pushed : m.version \in Nat /\ m.known \in Nat
<1>1. /\ version \in Int /\ liveCommitted \in Int /\ acked \in Int /\ LiveCommitted \in Int
      /\ LiveCommitted >= liveCommitted
  BY EpochAssumption DEF TypeOK, LiveCommitted, invalidVersion
<1>2. /\ \A p \in CommitProxy : committed[p] \in Nat
      /\ \A l \in TLog : durable[l] \in Nat /\ known[l] \in Nat /\ logVersion[l] \in Nat
      /\ \A m \in pushed : m.version \in Nat /\ m.known \in Nat
  BY DEF TypeOK, Push
<1>3. ASSUME NEW p \in CommitProxy, NEW n \in 1 .. Len(batch[p])
      PROVE  batch[p][n] \in Batch /\ batch[p][n].version \in Int
  <2>1. batch[p] \in Seq(Batch)
    BY DEF TypeOK
  <2>2. batch[p][n] \in Batch
    BY <2>1
  <2> QED
    BY <2>2 DEF Batch
<1> QED
  BY <1>1, <1>2, <1>3

\* SetStage changes the stage of one batch and nothing else.
LEMMA StageSet ==
    ASSUME TypeOK, NEW p \in CommitProxy, NEW n \in 1 .. Len(batch[p]), NEW stage \in Stage,
           SetStage(p, n, stage)
    PROVE  /\ batch' \in [CommitProxy -> Seq(Batch)]
           /\ \A q \in CommitProxy : Len(batch'[q]) = Len(batch[q])
           /\ \A q \in CommitProxy : \A k \in 1 .. Len(batch[q]) :
                 batch'[q][k] = IF q = p /\ k = n THEN [batch[q][k] EXCEPT !.stage = stage]
                                                  ELSE batch[q][k]
<1>1. batch[p] \in Seq(Batch) /\ Len(batch[p]) \in Nat /\ n \in 1 .. Len(batch[p])
  BY DEF TypeOK
<1>2. batch[p][n] \in Batch
  BY <1>1
<1>3. [batch[p][n] EXCEPT !.stage = stage] \in Batch
  BY <1>2 DEF Batch
<1> DEFINE new == [batch[p] EXCEPT ![n] = [batch[p][n] EXCEPT !.stage = stage]]
<1>4. new \in Seq(Batch) /\ Len(new) = Len(batch[p])
  BY <1>1, <1>3
<1>5. batch' = [batch EXCEPT ![p] = new]
  BY DEF SetStage
<1>6. \A k \in 1 .. Len(batch[p]) :
          new[k] = IF k = n THEN [batch[p][k] EXCEPT !.stage = stage] ELSE batch[p][k]
  BY <1>1
<1> HIDE DEF new
<1>7. \A q \in CommitProxy : batch'[q] = IF q = p THEN new ELSE batch[q]
  BY <1>5 DEF TypeOK
<1>8. batch' \in [CommitProxy -> Seq(Batch)]
  BY <1>4, <1>5 DEF TypeOK
<1> QED
  BY <1>4, <1>6, <1>7, <1>8

-----------------------------------------------------------------------------
(***************************************************************************)
(* Type correctness.                                                       *)
(***************************************************************************)

\* The initial state has its types.
LEMMA TypeInit == Init => TypeOK
BY EpochAssumption DEF Init, TypeOK, invalidVersion, NoGrv, Grv

\* A batch that has a version has a predecessor: what is pushed has its types.
LEMMA TypeStep ==
    ASSUME TypeOK, InvBatch, [Next]_vars
    PROVE  TypeOK'
<1> USE EpochAssumption, WindowAssumption DEF invalidVersion
<1>1. ASSUME NEW p \in CommitProxy, GetVersion(p)
      PROVE  TypeOK'
  <2> DEFINE first == version = invalidVersion
             prev == IF first THEN LastEpochEnd ELSE version
  <2>1. PICK next \in Nat :
           /\ version' = next
           /\ batch' = [batch EXCEPT ![p] = Append(@, [stage |-> "resolving",
                                               prevVersion |-> prev, version |-> next])]
    <3>1. PICK gap \in Gap :
             LET next == IF first THEN RecoveryTransactionVersion ELSE version + gap
             IN  /\ version' = next
                 /\ batch' = [batch EXCEPT ![p] = Append(@, [stage |-> "resolving",
                                                     prevVersion |-> prev, version |-> next])]
      BY <1>1 DEF GetVersion
    <3>2. (IF first THEN RecoveryTransactionVersion ELSE version + gap) \in Nat
      BY DEF TypeOK
    <3> QED
      BY <3>1, <3>2
  <2>0. prev \in Nat
    BY DEF TypeOK
  <2> HIDE DEF prev
  <2>2. [stage |-> "resolving", prevVersion |-> prev, version |-> next] \in Batch
    BY <2>0 DEF Batch, Stage
  <2>3. batch' \in [CommitProxy -> Seq(Batch)]
    BY <2>1, <2>2 DEF TypeOK
  <2> QED
    BY <1>1, <2>1, <2>3 DEF GetVersion, TypeOK
<1>2. ASSUME NEW p \in CommitProxy, Reject(p)
      PROVE  TypeOK'
  <2>1. [stage |-> "rejecting", prevVersion |-> -1, version |-> -1] \in Batch
    BY DEF Batch, Stage
  <2>2. batch' \in [CommitProxy -> Seq(Batch)]
    BY <1>2, <2>1 DEF Reject, TypeOK
  <2> QED
    BY <1>2, <2>2 DEF Reject, TypeOK
<1>3. ASSUME NEW p \in CommitProxy, NEW n \in 1 .. Len(batch[p]), FinishReject(p, n)
      PROVE  TypeOK'
  <2>1. batch' \in [CommitProxy -> Seq(Batch)]
    BY <1>3, StageSet DEF FinishReject, Stage
  <2>2. n \in Nat
    BY DEF TypeOK
  <2> QED
    BY <1>3, <2>1, <2>2 DEF FinishReject, TypeOK
<1>4. ASSUME NEW p \in CommitProxy, NEW n \in 1 .. Len(batch[p]), PostResolution(p, n)
      PROVE  TypeOK'
  <2>1. batch' \in [CommitProxy -> Seq(Batch)]
    BY <1>4, StageSet DEF PostResolution, Stage
  <2>2. n \in Nat /\ batch[p][n] \in Batch /\ committed[p] \in Nat
    BY DEF TypeOK
  <2>3. batch[p][n].prevVersion \in Nat /\ batch[p][n].version \in Nat
    BY <1>4, <2>2 DEF PostResolution, InvBatch, BatchOK, Batch
  <2>4. [prevVersion |-> batch[p][n].prevVersion, version |-> batch[p][n].version,
         known |-> committed[p]] \in Push
    BY <2>2, <2>3 DEF Push
  <2> QED
    BY <1>4, <2>1, <2>2, <2>4 DEF PostResolution, TypeOK
<1>5. ASSUME NEW p \in CommitProxy, NEW n \in 1 .. Len(batch[p]), PollCommitted(p, n)
      PROVE  TypeOK'
  <2>1. LiveCommitted \in Nat /\ committed[p] \in Nat
    BY DEF LiveCommitted, TypeOK
  <2>2. LargerOf(committed[p], LiveCommitted) \in Nat
    BY <2>1, LargerOfIsMax
  <2> QED
    BY <1>5, <2>1, <2>2 DEF PollCommitted, TypeOK
<1>6. ASSUME NEW p \in CommitProxy, NEW n \in 1 .. Len(batch[p]), TransactionLogging(p, n)
      PROVE  TypeOK'
  <2>1. batch' \in [CommitProxy -> Seq(Batch)]
    BY <1>6, StageSet DEF TransactionLogging, Stage
  <2> QED
    BY <1>6, <2>1 DEF TransactionLogging, TypeOK
<1>7. ASSUME NEW p \in CommitProxy, NEW n \in 1 .. Len(batch[p]), ServeReport(p, n)
      PROVE  TypeOK'
  <2>1. batch' \in [CommitProxy -> Seq(Batch)]
    BY <1>7, StageSet DEF ServeReport, Stage
  <2>2. batch[p][n] \in Batch
    BY DEF TypeOK
  <2>3. batch[p][n].version \in Nat
    BY <1>7, <2>2 DEF ServeReport, InvBatch, BatchOK, Batch
  <2>4. liveCommitted' \in Nat \cup {invalidVersion}
    BY <1>7, <2>3 DEF ServeReport, TypeOK, LargerOf
  <2> QED
    BY <1>7, <2>1, <2>4 DEF ServeReport, TypeOK
<1>8. ASSUME NEW p \in CommitProxy, NEW n \in 1 .. Len(batch[p]), Reply(p, n)
      PROVE  TypeOK'
  <2>1. batch' \in [CommitProxy -> Seq(Batch)]
    BY <1>8, StageSet DEF Reply, Stage
  <2>2. batch[p][n] \in Batch /\ committed[p] \in Nat
    BY DEF TypeOK
  <2>3. batch[p][n].version \in Nat
    BY <1>8, <2>2 DEF Reply, InvBatch, BatchOK, Batch
  <2>4. /\ LargerOf(acked, batch[p][n].version) \in Nat \cup {invalidVersion}
        /\ LargerOf(committed[p], batch[p][n].version) \in Nat
    BY <2>2, <2>3 DEF TypeOK, LargerOf
  <2> QED
    BY <1>8, <2>1, <2>4 DEF Reply, TypeOK
<1>9. ASSUME NEW l \in TLog, NEW m \in pushed, TLogCommit(l, m)
      PROVE  TypeOK'
  <2>1. m \in Push /\ known[l] \in Nat
    BY DEF TypeOK
  <2>2. m.version \in Nat /\ LargerOf(known[l], m.known) \in Nat
    BY <2>1, LargerOfIsMax DEF Push
  <2> QED
    BY <1>9, <2>2 DEF TLogCommit, TypeOK
<1>10. ASSUME NEW l \in TLog, NEW m \in pushed, QueueCommit(l, m.version)
       PROVE  TypeOK'
  <2>1. m.version \in Nat
    BY DEF TypeOK, Push
  <2> QED
    BY <1>10, <2>1 DEF QueueCommit, TypeOK
<1>11. ASSUME NEW g \in GrvProxy, AskReadVersion(g) \/ ServeReadVersion(g) \/ SendReadVersion(g)
       PROVE  TypeOK'
  <2>1. LiveCommitted \in Nat
    BY DEF LiveCommitted, TypeOK
  <2>2. grv' \in [GrvProxy -> Grv]
    <3>1. grv[g] \in Grv /\ acked \in Int /\ LiveCommitted \in Int
      BY <2>1 DEF TypeOK
    <3>2. /\ [stage |-> "asked", floor |-> acked, version |-> invalidVersion] \in Grv
          /\ NoGrv \in Grv
      BY <3>1 DEF Grv, NoGrv
    <3>4. [[grv[g] EXCEPT !.stage = "served"] EXCEPT !.version = LiveCommitted] \in Grv
      BY <3>1 DEF Grv
    <3>3. \E x \in Grv : grv' = [grv EXCEPT ![g] = x]
      BY <1>11, <3>2, <3>4 DEF AskReadVersion, ServeReadVersion, SendReadVersion, TypeOK
    <3> QED
      BY <3>3 DEF TypeOK
  <2> QED
    BY <1>11, <2>1, <2>2 DEF AskReadVersion, ServeReadVersion, SendReadVersion, TypeOK
<1>12. CASE UNCHANGED vars
  BY <1>12 DEF vars, TypeOK
<1> QED
  BY <1>1, <1>2, <1>3, <1>4, <1>5, <1>6, <1>7, <1>8, <1>9, <1>10, <1>11, <1>12 DEF Next

-----------------------------------------------------------------------------
(***************************************************************************)
(* Preservation of the invariant.                                          *)
(***************************************************************************)

\* Versions only grow and pushes are not taken back.
Grows ==
    /\ version <= version'
    /\ liveCommitted <= liveCommitted'
    /\ acked <= acked'
    /\ \A p \in CommitProxy : committed[p] <= committed'[p]
    /\ \A l \in TLog : durable[l] <= durable'[l]
    /\ pushed \subseteq pushed'

\* Every step lets versions only grow.
LEMMA GrowsStep ==
    ASSUME TypeOK, TypeOK', InvBatch, [Next]_vars
    PROVE  Grows
<1> USE EpochAssumption, WindowAssumption DEF invalidVersion
<1>0. /\ version \in Int /\ liveCommitted \in Int /\ acked \in Int /\ LiveCommitted \in Int
      /\ LiveCommitted >= liveCommitted
      /\ \A p \in CommitProxy : committed[p] \in Int
      /\ \A l \in TLog : durable[l] \in Int
      /\ \A p \in CommitProxy : \A n \in 1 .. Len(batch[p]) : batch[p][n].version \in Int
  BY Values
<1>1. ASSUME NEW p \in CommitProxy, GetVersion(p)
      PROVE  Grows
  <2>1. version <= version'
    BY <1>0, <1>1 DEF GetVersion, TypeOK
  <2> QED
    BY <1>0, <1>1, <2>1 DEF GetVersion, Grows
<1>2. ASSUME NEW p \in CommitProxy, Reject(p)
      PROVE  Grows
  BY <1>0, <1>2 DEF Reject, Grows
<1>3. ASSUME NEW p \in CommitProxy, NEW n \in 1 .. Len(batch[p]),
             FinishReject(p, n) \/ PostResolution(p, n) \/ TransactionLogging(p, n)
      PROVE  Grows
  BY <1>0, <1>3 DEF FinishReject, PostResolution, TransactionLogging, Grows
<1>4. ASSUME NEW p \in CommitProxy, NEW n \in 1 .. Len(batch[p]), PollCommitted(p, n)
      PROVE  Grows
  <2>1. \A q \in CommitProxy : committed[q] <= committed'[q]
    BY <1>0, <1>4, LargerOfIsMax, SMTT(30) DEF PollCommitted, TypeOK
  <2> QED
    BY <1>0, <1>4, <2>1 DEF PollCommitted, Grows
<1>5. ASSUME NEW p \in CommitProxy, NEW n \in 1 .. Len(batch[p]), ServeReport(p, n)
      PROVE  Grows
  <2>1. liveCommitted <= liveCommitted'
    BY <1>0, <1>5, LargerOfIsMax DEF ServeReport
  <2> QED
    BY <1>0, <1>5, <2>1 DEF ServeReport, Grows
<1>6. ASSUME NEW p \in CommitProxy, NEW n \in 1 .. Len(batch[p]), Reply(p, n)
      PROVE  Grows
  <2>1. \A q \in CommitProxy : committed[q] <= committed'[q]
    BY <1>0, <1>6, LargerOfIsMax DEF Reply, TypeOK
  <2>2. acked <= acked'
    BY <1>0, <1>6, LargerOfIsMax DEF Reply
  <2> QED
    BY <1>0, <1>6, <2>1, <2>2 DEF Reply, Grows
<1>7. ASSUME NEW l \in TLog, NEW m \in pushed, TLogCommit(l, m)
      PROVE  Grows
  BY <1>0, <1>7 DEF TLogCommit, Grows
<1>8. ASSUME NEW l \in TLog, NEW m \in pushed, QueueCommit(l, m.version)
      PROVE  Grows
  <2>1. \A k \in TLog : durable[k] <= durable'[k]
    <3>1. m.version \in Int
      BY DEF TypeOK, Push
    <3> QED
      BY <1>0, <1>8, <3>1 DEF QueueCommit, TypeOK
  <2> QED
    BY <1>0, <1>8, <2>1 DEF QueueCommit, Grows
<1>9. ASSUME NEW g \in GrvProxy, AskReadVersion(g) \/ ServeReadVersion(g) \/ SendReadVersion(g)
      PROVE  Grows
  BY <1>0, <1>9 DEF AskReadVersion, ServeReadVersion, SendReadVersion, Grows
<1>10. CASE UNCHANGED vars
  BY <1>0, <1>10 DEF vars, Grows
<1> QED
  BY <1>1, <1>2, <1>3, <1>4, <1>5, <1>6, <1>7, <1>8, <1>9, <1>10 DEF Next

\* What is on enough logs stays there in every step.
LEMMA LoggedForGood ==
    ASSUME TypeOK, TypeOK', Grows
    PROVE  /\ \A v \in Int : Logged(v) => Logged(v)'
           /\ \A v \in Int : LoggedIfLater(v) => LoggedIfLater(v)'
<1>1. \A v \in Int : Logged(v) => Logged(v)'
  BY LoggedStays DEF Grows
<1> QED
  BY <1>1 DEF LoggedIfLater

\* Once a client was answered, the master has been told of a version.
LEMMA MasterWasTold ==
    ASSUME TypeOK, InvCommitted, acked # invalidVersion
    PROVE  LiveCommitted = liveCommitted /\ liveCommitted >= RecoveryTransactionVersion
BY Values, EpochAssumption DEF InvCommitted, LiveCommitted, invalidVersion

\* A batch beyond the window is not the first of the epoch, so a proxy that asks the
\* master what is committed does so after the first answer to a client.
LEMMA PollChangesNothing ==
    ASSUME TypeOK, InvCommitted, InvBatch,
           NEW p \in CommitProxy, NEW n \in 1 .. Len(batch[p]), PollCommitted(p, n)
    PROVE  LiveCommitted = liveCommitted /\ liveCommitted >= RecoveryTransactionVersion
<1>1. /\ batch[p][n].version \in Int /\ committed[p] \in Int /\ version \in Int
      /\ ReadLife \in Nat
  BY Values, WindowAssumption
<1>2. batch[p][n].version <= version /\ committed[p] >= RecoveryTransactionVersion
  BY DEF PollCommitted, InvBatch, BatchOK, InvCommitted
<1>3. ~ (committed[p] >= batch[p][n].version - ReadLife)
  BY DEF PollCommitted, InWindow
<1>4. version > RecoveryTransactionVersion
  BY <1>1, <1>2, <1>3, EpochAssumption
<1> QED
  BY <1>4, MasterWasTold DEF InvCommitted

\* The master knows of a version before its client does.
LEMMA ReplyWasReported ==
    ASSUME TypeOK, InvCommitted, InvBatch,
           NEW p \in CommitProxy, NEW n \in 1 .. Len(batch[p]), Reply(p, n)
    PROVE  /\ RecoveryTransactionVersion <= batch[p][n].version
           /\ batch[p][n].version <= liveCommitted
           /\ Logged(batch[p][n].version)
<1>1. /\ batch[p][n].version \in Int /\ committed[p] \in Int /\ liveCommitted \in Int
  BY Values
<1>2. /\ RecoveryTransactionVersion <= batch[p][n].version
      /\ Logged(batch[p][n].version)
      /\ batch[p][n].version <= liveCommitted \/ batch[p][n].version < committed[p]
  BY DEF Reply, InvBatch, BatchOK
<1>3. committed[p] > RecoveryTransactionVersion => committed[p] <= liveCommitted
  BY DEF InvCommitted
<1> QED
  BY <1>1, <1>2, <1>3, EpochAssumption

\* What is taken for committed by the master, a client or a proxy.
LEMMA CommittedStep ==
    ASSUME TypeOK, TypeOK', InvCommitted, InvBatch, InvGrv, Grows, [Next]_vars
    PROVE  InvCommitted'
<1> USE EpochAssumption, WindowAssumption DEF invalidVersion
<1>0. /\ version \in Int /\ liveCommitted \in Int /\ acked \in Int
      /\ \A p \in CommitProxy : committed[p] \in Int
      /\ \A p \in CommitProxy : \A n \in 1 .. Len(batch[p]) : batch[p][n].version \in Int
  BY Values
<1>a. /\ \A v \in Int : Logged(v) => Logged(v)'
      /\ \A v \in Int : LoggedIfLater(v) => LoggedIfLater(v)'
  BY LoggedForGood
<1>1. ASSUME UNCHANGED <<liveCommitted, acked, version, committed>>
      PROVE  InvCommitted'
  BY <1>0, <1>1, <1>a DEF InvCommitted
<1>2. ASSUME NEW p \in CommitProxy, GetVersion(p)
      PROVE  InvCommitted'
  <2>1. UNCHANGED <<liveCommitted, acked, committed>>
    BY <1>2 DEF GetVersion
  <2>2. version' > RecoveryTransactionVersion => acked # invalidVersion
    BY <1>2 DEF GetVersion, Accepting
  <2>3. version' # invalidVersion => version' >= RecoveryTransactionVersion
    BY <1>0, <1>2 DEF GetVersion, InvCommitted
  <2> QED
    BY <1>0, <1>a, <2>1, <2>2, <2>3 DEF InvCommitted
<1>3. ASSUME NEW p \in CommitProxy, NEW n \in 1 .. Len(batch[p]), PollCommitted(p, n)
      PROVE  InvCommitted'
  <2>1. LiveCommitted = liveCommitted /\ liveCommitted >= RecoveryTransactionVersion
    BY <1>3, PollChangesNothing
  <2>2. UNCHANGED <<liveCommitted, acked, version>>
    BY <1>3, <2>1 DEF PollCommitted
  <2>3. \A q \in CommitProxy : committed'[q] = committed[q] \/ committed'[q] = liveCommitted
    BY <1>0, <1>3, <2>1, LargerOfIsMax DEF PollCommitted, TypeOK
  <2>4. Logged(liveCommitted)'
    BY <1>0, <1>a, <2>1, <2>2 DEF InvCommitted
  <2>5. ASSUME NEW q \in CommitProxy
        PROVE  /\ committed'[q] >= RecoveryTransactionVersion
               /\ LoggedIfLater(committed[q])'
               /\ committed'[q] > RecoveryTransactionVersion => committed'[q] <= liveCommitted
    <3>1. CASE committed'[q] = committed[q]
      <4>1. LoggedIfLater(committed[q])'
        BY <1>0, <1>a, <3>1 DEF InvCommitted, LoggedIfLater
      <4> QED
        BY <3>1, <4>1 DEF InvCommitted
    <3>2. CASE committed'[q] = liveCommitted
      BY <1>0, <2>1, <2>2, <2>4, <3>2 DEF LoggedIfLater
    <3> QED
      BY <2>3, <3>1, <3>2
  <2> QED
    BY <1>0, <1>a, <2>2, <2>4, <2>5 DEF InvCommitted
<1>4. ASSUME NEW p \in CommitProxy, NEW n \in 1 .. Len(batch[p]), ServeReport(p, n)
      PROVE  InvCommitted'
  <2>1. UNCHANGED <<acked, version, committed>> /\ liveCommitted <= liveCommitted'
    BY <1>4 DEF ServeReport, Grows
  <2>2. RecoveryTransactionVersion <= batch[p][n].version /\ Logged(batch[p][n].version)
    BY <1>4 DEF ServeReport, InvBatch, BatchOK
  <2>3. liveCommitted' = liveCommitted \/ liveCommitted' = batch[p][n].version
    BY <1>0, <1>4, LargerOfIsMax DEF ServeReport
  <2>4. liveCommitted' # invalidVersion =>
           liveCommitted' >= RecoveryTransactionVersion /\ Logged(liveCommitted)'
    <3>1. CASE liveCommitted' = liveCommitted
      BY <1>0, <1>a, <3>1 DEF InvCommitted, Logged
    <3>2. CASE liveCommitted' = batch[p][n].version
      BY <1>0, <1>a, <2>2, <3>2 DEF Logged
    <3> QED
      BY <2>3, <3>1, <3>2
  <2>5. liveCommitted' \in Int
    BY <1>0, <2>3
  <2> QED
    BY <1>0, <1>a, <2>1, <2>4, <2>5 DEF InvCommitted
<1>5. ASSUME NEW p \in CommitProxy, NEW n \in 1 .. Len(batch[p]), Reply(p, n)
      PROVE  InvCommitted'
  <2> DEFINE v == batch[p][n].version
  <2>1. UNCHANGED <<liveCommitted, version>>
    BY <1>5 DEF Reply
  <2>2. RecoveryTransactionVersion <= v /\ v <= liveCommitted /\ Logged(v)
    BY <1>5, ReplyWasReported
  <2>3. acked' # invalidVersion /\ (acked' = acked \/ acked' = v)
    BY <1>0, <1>5, <2>2, LargerOfIsMax DEF Reply
  <2>4. \A q \in CommitProxy : committed'[q] = committed[q] \/ committed'[q] = v
    BY <1>0, <1>5, LargerOfIsMax DEF Reply, TypeOK
  <2>5. ASSUME NEW q \in CommitProxy
        PROVE  /\ committed'[q] >= RecoveryTransactionVersion
               /\ LoggedIfLater(committed[q])'
               /\ committed'[q] > RecoveryTransactionVersion => committed'[q] <= liveCommitted
    <3>1. CASE committed'[q] = committed[q]
      <4>1. LoggedIfLater(committed[q])'
        BY <1>0, <1>a, <3>1 DEF InvCommitted, LoggedIfLater
      <4> QED
        BY <3>1, <4>1 DEF InvCommitted
    <3>2. CASE committed'[q] = v
      BY <1>0, <1>a, <2>2, <3>2 DEF LoggedIfLater, Logged
    <3> QED
      BY <2>4, <3>1, <3>2
  <2>6. liveCommitted # invalidVersion
    BY <1>0, <2>2
  <2>7. acked' >= RecoveryTransactionVersion /\ acked' <= liveCommitted
    BY <1>0, <2>2, <2>3 DEF InvCommitted
  <2> HIDE DEF v
  <2> QED
    BY <1>0, <1>a, <2>1, <2>3, <2>5, <2>6, <2>7 DEF InvCommitted
<1>6. ASSUME NEW g \in GrvProxy, ServeReadVersion(g)
      PROVE  InvCommitted'
  <2>1. UNCHANGED <<liveCommitted, acked, version, committed>>
    BY <1>6, MasterWasTold DEF ServeReadVersion, InvGrv
  <2> QED
    BY <1>1, <2>1
<1>7. ASSUME NEW p \in CommitProxy, NEW n \in 1 .. Len(batch[p]),
             FinishReject(p, n) \/ PostResolution(p, n) \/ TransactionLogging(p, n)
      PROVE  InvCommitted'
  BY <1>1, <1>7 DEF FinishReject, PostResolution, TransactionLogging
<1>8. ASSUME NEW p \in CommitProxy, Reject(p)
      PROVE  InvCommitted'
  BY <1>1, <1>8 DEF Reject
<1>9. ASSUME NEW l \in TLog, NEW m \in pushed, TLogCommit(l, m) \/ QueueCommit(l, m.version)
      PROVE  InvCommitted'
  BY <1>1, <1>9 DEF TLogCommit, QueueCommit
<1>10. ASSUME NEW g \in GrvProxy, AskReadVersion(g) \/ SendReadVersion(g)
       PROVE  InvCommitted'
  BY <1>1, <1>10 DEF AskReadVersion, SendReadVersion
<1>11. CASE UNCHANGED vars
  BY <1>1, <1>11 DEF vars
<1> QED
  BY <1>2, <1>3, <1>4, <1>5, <1>6, <1>7, <1>8, <1>9, <1>10, <1>11 DEF Next

\* Nothing that happens elsewhere sets a batch back.
LEMMA BatchStays ==
    ASSUME TypeOK, TypeOK', Grows, NEW p \in CommitProxy, NEW b \in Batch, BatchOK(p, b)
    PROVE  BatchOK(p, b)'
<1>1. /\ b.version \in Int /\ b.prevVersion \in Int
      /\ version \in Int /\ liveCommitted \in Int /\ committed[p] \in Int
      /\ version' \in Int /\ liveCommitted' \in Int /\ committed'[p] \in Int
  BY EpochAssumption DEF Batch, TypeOK, invalidVersion
<1>2. Logged(b.version) => Logged(b.version)'
  BY <1>1, LoggedForGood
<1>3. /\ version <= version' /\ liveCommitted <= liveCommitted' /\ committed[p] <= committed'[p]
  BY DEF Grows
<1> QED
  BY <1>1, <1>2, <1>3 DEF BatchOK

\* A batch that enters its next stage has what that stage asks for.
LEMMA StageStep ==
    ASSUME TypeOK, TypeOK', InvBatch, Grows,
           NEW p \in CommitProxy, NEW n \in 1 .. Len(batch[p]), NEW stage \in Stage,
           SetStage(p, n, stage),
           batch[p][n].stage \notin {"rejecting", "rejected"} \/ stage = "rejected",
           NEW v \in Int, v = batch[p][n].version,
           stage \in {"reporting", "answering"} => Logged(v)',
           stage = "answering" => v <= liveCommitted' \/ v < committed'[p]
    PROVE  InvBatch'
<1>1. /\ \A q \in CommitProxy : Len(batch'[q]) = Len(batch[q])
      /\ \A q \in CommitProxy : \A k \in 1 .. Len(batch[q]) :
            batch'[q][k] = IF q = p /\ k = n THEN [batch[q][k] EXCEPT !.stage = stage]
                                             ELSE batch[q][k]
  BY StageSet, SMTT(60)
<1>2. \A q \in CommitProxy : \A k \in 1 .. Len(batch[q]) : batch[q][k] \in Batch
  BY Values
<1>3. \A q \in CommitProxy : \A k \in 1 .. Len(batch[q]) : BatchOK(q, batch[q][k])
  BY DEF InvBatch
<1> DEFINE b == batch[p][n]
           c == [b EXCEPT !.stage = stage]
<1>4. b \in Batch /\ c \in Batch /\ c.stage = stage /\ c.version = b.version /\ c.prevVersion = b.prevVersion
  BY <1>2 DEF Batch
<1>5. BatchOK(p, b)
  BY <1>3
<1> HIDE DEF b, c
<1>6. ASSUME NEW q \in CommitProxy, NEW k \in 1 .. Len(batch'[q])
      PROVE  BatchOK(q, batch[q][k])'
  <2>1. k \in 1 .. Len(batch[q])
    BY <1>1
  <2>2. CASE q = p /\ k = n
    <3>1. batch'[q][k] = c
      BY <1>1, <2>1, <2>2 DEF c, b
    <3>2. PICK x \in Batch : x = b
      BY <1>4
    <3>3. /\ x.stage \notin {"rejecting", "rejected"} =>
              /\ x.prevVersion \in Nat
              /\ RecoveryTransactionVersion <= x.version
              /\ x.version <= version'
      <4>1. x.stage \notin {"rejecting", "rejected"} =>
              /\ x.prevVersion \in Nat
              /\ RecoveryTransactionVersion <= x.version
              /\ x.version <= version
        BY <1>5, <3>2 DEF BatchOK
      <4>2. version <= version' /\ version \in Int /\ version' \in Int /\ x.version \in Int
        BY EpochAssumption DEF Grows, TypeOK, Batch, invalidVersion
      <4> QED
        BY <4>1, <4>2
    <3> QED
      BY <1>4, <2>2, <3>1, <3>2, <3>3 DEF BatchOK, Logged, b
  <2>3. CASE ~ (q = p /\ k = n)
    <3>1. batch'[q][k] = batch[q][k]
      BY <1>1, <2>1, <2>3
    <3>2. PICK x \in Batch : x = batch[q][k] /\ BatchOK(q, x)
      BY <1>2, <1>3, <2>1
    <3>3. BatchOK(q, x)'
      BY <3>2, BatchStays
    <3> QED
      BY <3>1, <3>2, <3>3 DEF BatchOK, Logged
  <2> QED
    BY <2>2, <2>3
<1> QED
  BY <1>6 DEF InvBatch

\* Every batch on its way.
LEMMA BatchStep ==
    ASSUME TypeOK, TypeOK', InvCommitted, InvBatch, Grows, [Next]_vars
    PROVE  InvBatch'
<1> USE EpochAssumption, WindowAssumption DEF invalidVersion
<1>0. /\ version \in Int /\ liveCommitted \in Int /\ acked \in Int
      /\ \A p \in CommitProxy : committed[p] \in Int
      /\ \A p \in CommitProxy : \A n \in 1 .. Len(batch[p]) :
            batch[p][n] \in Batch /\ batch[p][n].version \in Int
  BY Values
<1>a. \A q \in CommitProxy, x \in Batch : BatchOK(q, x) => BatchOK(q, x)'
  BY BatchStays
<1>b. ASSUME UNCHANGED batch
      PROVE  InvBatch'
  <2>1. ASSUME NEW q \in CommitProxy, NEW k \in 1 .. Len(batch[q])
        PROVE  BatchOK(q, batch[q][k])'
    <3>1. PICK x \in Batch : x = batch[q][k] /\ BatchOK(q, x)
      BY <1>0 DEF InvBatch
    <3>2. BatchOK(q, x)'
      BY <1>a, <3>1
    <3> QED
      BY <1>b, <3>1, <3>2 DEF BatchOK, Logged
  <2> QED
    BY <1>b, <2>1 DEF InvBatch
\* A new batch at the end of the local order.
<1>c. ASSUME NEW p \in CommitProxy, NEW c \in Batch, BatchOK(p, c)',
             batch' = [batch EXCEPT ![p] = Append(@, c)]
      PROVE  InvBatch'
  <2>1. ASSUME NEW q \in CommitProxy, NEW k \in 1 .. Len(batch'[q])
        PROVE  BatchOK(q, batch[q][k])'
    <3>0. batch[q] \in Seq(Batch) /\ batch'[q] = IF q = p THEN Append(batch[q], c) ELSE batch[q]
      BY <1>c DEF TypeOK
    <3>1. CASE k \in 1 .. Len(batch[q])
      <4>1. batch'[q][k] = batch[q][k]
        BY <3>0, <3>1
      <4>2. PICK x \in Batch : x = batch[q][k] /\ BatchOK(q, x)
        BY <1>0, <3>1 DEF InvBatch
      <4>3. BatchOK(q, x)'
        BY <1>a, <4>2
      <4> QED
        BY <4>1, <4>2, <4>3 DEF BatchOK, Logged
    <3>2. CASE k \notin 1 .. Len(batch[q])
      <4>1. q = p /\ batch'[q][k] = c
        BY <3>0, <3>2
      <4> QED
        BY <1>c, <4>1 DEF BatchOK, Logged
    <3> QED
      BY <3>1, <3>2
  <2> QED
    BY <2>1 DEF InvBatch
<1>1. ASSUME NEW p \in CommitProxy, GetVersion(p)
      PROVE  InvBatch'
  <2> DEFINE first == version = invalidVersion
             prev == IF first THEN LastEpochEnd ELSE version
  <2>1. prev \in Nat
    BY DEF TypeOK
  <2>2. PICK gap \in Gap :
           LET next == IF first THEN RecoveryTransactionVersion ELSE version + gap
           IN  /\ version' = next
               /\ batch' = [batch EXCEPT ![p] = Append(@, [stage |-> "resolving",
                                                   prevVersion |-> prev, version |-> next])]
    BY <1>1 DEF GetVersion
  <2>3. version' \in Nat /\ version' >= RecoveryTransactionVersion
    <3>1. ~ first => version >= RecoveryTransactionVersion
      BY <1>1, <1>0 DEF GetVersion, Accepting, InvCommitted, TypeOK
    <3> QED
      BY <2>2, <3>1 DEF TypeOK
  <2> HIDE DEF prev
  <2>4. PICK c \in Batch : c = [stage |-> "resolving", prevVersion |-> prev, version |-> version']
    <3>1. [stage |-> "resolving", prevVersion |-> prev, version |-> version'] \in Batch
      BY <2>1, <2>3 DEF Batch, Stage
    <3> QED
      BY <3>1
  <2>5. batch' = [batch EXCEPT ![p] = Append(@, c)]
    BY <2>2, <2>4
  <2>6. BatchOK(p, c)'
    BY <2>1, <2>3, <2>4 DEF BatchOK
  <2> QED
    BY <1>c, <2>5, <2>6
<1>2. ASSUME NEW p \in CommitProxy, Reject(p)
      PROVE  InvBatch'
  <2>1. PICK c \in Batch : c = [stage |-> "rejecting", prevVersion |-> -1, version |-> -1]
    <3>1. [stage |-> "rejecting", prevVersion |-> -1, version |-> -1] \in Batch
      BY DEF Batch, Stage
    <3> QED
      BY <3>1
  <2>2. BatchOK(p, c)'
    BY <2>1 DEF BatchOK
  <2> QED
    BY <1>2, <1>c, <2>1, <2>2 DEF Reject
<1>3. ASSUME NEW p \in CommitProxy, NEW n \in 1 .. Len(batch[p]), FinishReject(p, n)
      PROVE  InvBatch'
  BY <1>0, <1>3, StageStep DEF FinishReject, Stage
<1>4. ASSUME NEW p \in CommitProxy, NEW n \in 1 .. Len(batch[p]), PostResolution(p, n)
      PROVE  InvBatch'
  BY <1>0, <1>4, StageStep DEF PostResolution, Stage
<1>5. ASSUME NEW p \in CommitProxy, NEW n \in 1 .. Len(batch[p]), TransactionLogging(p, n)
      PROVE  InvBatch'
  <2> DEFINE b == batch[p][n]
             next == IF MustReport(p, b.version) THEN "reporting" ELSE "answering"
  <2>1. SetStage(p, n, next) /\ UNCHANGED <<durable, committed>> /\ next \in Stage
    BY <1>5 DEF TransactionLogging, Stage
  <2>2. Logged(b.version)
    <3>1. CASE committed[p] >= b.version + 1
      <4>1. RecoveryTransactionVersion <= b.version
        BY <1>5 DEF TransactionLogging, InvBatch, BatchOK
      <4>2. Logged(committed[p])
        BY <1>0, <3>1, <4>1 DEF InvCommitted, LoggedIfLater
      <4> QED
        BY <1>0, <3>1, <4>2, LoggedDown
    <3> QED
      BY <1>5, <3>1 DEF TransactionLogging, MayAnswer
  <2>3. PICK v \in Int : v = b.version /\ Logged(v)'
    BY <1>0, <2>1, <2>2 DEF Logged
  <2>4. next = "answering" => b.version < committed'[p]
    BY <1>0, <2>1 DEF MustReport
  <2>5. b.stage \notin {"rejecting", "rejected"}
    BY <1>5 DEF TransactionLogging
  <2> QED
    BY <2>1, <2>2, <2>3, <2>4, <2>5, StageStep
<1>6. ASSUME NEW p \in CommitProxy, NEW n \in 1 .. Len(batch[p]), ServeReport(p, n)
      PROVE  InvBatch'
  <2>1. Logged(batch[p][n].version)
    BY <1>6 DEF ServeReport, InvBatch, BatchOK
  <2>2. PICK v \in Int : v = batch[p][n].version /\ Logged(v)'
    BY <1>0, <1>6, <2>1 DEF ServeReport, Logged
  <2>3. v <= liveCommitted'
    BY <1>0, <1>6, <2>2, LargerOfIsMax DEF ServeReport
  <2> QED
    BY <1>6, <2>2, <2>3, StageStep DEF ServeReport, Stage
<1>7. ASSUME NEW p \in CommitProxy, NEW n \in 1 .. Len(batch[p]), Reply(p, n)
      PROVE  InvBatch'
  BY <1>0, <1>7, StageStep DEF Reply, Stage
<1>8. ASSUME NEW p \in CommitProxy, NEW n \in 1 .. Len(batch[p]), PollCommitted(p, n)
      PROVE  InvBatch'
  BY <1>8, <1>b DEF PollCommitted
<1>9. ASSUME NEW l \in TLog, NEW m \in pushed, TLogCommit(l, m) \/ QueueCommit(l, m.version)
      PROVE  InvBatch'
  BY <1>9, <1>b DEF TLogCommit, QueueCommit
<1>10. ASSUME NEW g \in GrvProxy, AskReadVersion(g) \/ ServeReadVersion(g) \/ SendReadVersion(g)
       PROVE  InvBatch'
  BY <1>10, <1>b DEF AskReadVersion, ServeReadVersion, SendReadVersion
<1>11. CASE UNCHANGED vars
  BY <1>11, <1>b DEF vars
<1> QED
  BY <1>1, <1>2, <1>3, <1>4, <1>5, <1>6, <1>7, <1>8, <1>9, <1>10, <1>11 DEF Next

\* The pushes: a proxy pushes within its window and says what it takes for committed.
LEMMA PushedStep ==
    ASSUME TypeOK, TypeOK', InvCommitted, InvPushed, Grows, [Next]_vars
    PROVE  InvPushed'
<1>0. /\ \A m \in pushed : m.version \in Nat /\ m.known \in Nat
      /\ \A p \in CommitProxy : committed[p] \in Nat
  BY Values
<1>1. \A v \in Int : LoggedIfLater(v) => LoggedIfLater(v)'
  BY LoggedForGood
<1>2. ASSUME UNCHANGED pushed
      PROVE  InvPushed'
  BY <1>0, <1>1, <1>2 DEF InvPushed
<1>3. ASSUME NEW p \in CommitProxy, NEW n \in 1 .. Len(batch[p]), PostResolution(p, n)
      PROVE  InvPushed'
  <2> DEFINE new == [prevVersion |-> batch[p][n].prevVersion, version |-> batch[p][n].version,
                     known |-> committed[p]]
  <2>1. pushed' = pushed \cup {new}
    BY <1>3 DEF PostResolution
  <2>2. new.version - ReadLife <= new.known
    <3>1. batch[p][n].version \in Int
      BY Values
    <3> QED
      BY <1>0, <1>3, <3>1, WindowAssumption DEF PostResolution, InWindow
  <2>3. LoggedIfLater(new.known) /\ new.known \in Int
    BY <1>0 DEF InvCommitted
  <2> HIDE DEF new
  <2> QED
    BY <1>0, <1>1, <2>1, <2>2, <2>3 DEF InvPushed
<1>4. ASSUME NEW p \in CommitProxy, GetVersion(p) \/ Reject(p)
      PROVE  InvPushed'
  BY <1>2, <1>4 DEF GetVersion, Reject
<1>5. ASSUME NEW p \in CommitProxy, NEW n \in 1 .. Len(batch[p]),
             \/ FinishReject(p, n) \/ PollCommitted(p, n) \/ TransactionLogging(p, n)
             \/ ServeReport(p, n) \/ Reply(p, n)
      PROVE  InvPushed'
  BY <1>2, <1>5 DEF FinishReject, PollCommitted, TransactionLogging, ServeReport, Reply
<1>6. ASSUME NEW l \in TLog, NEW m \in pushed, TLogCommit(l, m) \/ QueueCommit(l, m.version)
      PROVE  InvPushed'
  BY <1>2, <1>6 DEF TLogCommit, QueueCommit
<1>7. ASSUME NEW g \in GrvProxy, AskReadVersion(g) \/ ServeReadVersion(g) \/ SendReadVersion(g)
      PROVE  InvPushed'
  BY <1>2, <1>7 DEF AskReadVersion, ServeReadVersion, SendReadVersion
<1>8. CASE UNCHANGED vars
  BY <1>2, <1>8 DEF vars
<1> QED
  BY <1>3, <1>4, <1>5, <1>6, <1>7, <1>8 DEF Next

\* The logs: a log takes a push and what it says is committed.
LEMMA LogStep ==
    ASSUME TypeOK, TypeOK', InvPushed, InvLog, Grows, [Next]_vars
    PROVE  InvLog'
<1>0. /\ \A m \in pushed : m.version \in Nat /\ m.known \in Nat
      /\ \A l \in TLog : known[l] \in Nat
  BY Values
<1>1. \A v \in Int : LoggedIfLater(v) => LoggedIfLater(v)'
  BY LoggedForGood
<1>2. ASSUME UNCHANGED <<logVersion, known>>
      PROVE  InvLog'
  <2>1. ASSUME NEW l \in TLog
        PROVE  logVersion[l] = LastEpochEnd \/ \E m \in pushed' : m.version = logVersion[l]
    BY DEF InvLog, Grows
  <2>2. ASSUME NEW l \in TLog
        PROVE  LoggedIfLater(known[l])'
    BY <1>0, <1>1, <1>2 DEF InvLog
  <2> QED
    BY <1>2, <2>1, <2>2 DEF InvLog
<1>3. ASSUME NEW l \in TLog, NEW m \in pushed, TLogCommit(l, m)
      PROVE  InvLog'
  <2>1. /\ logVersion' = [logVersion EXCEPT ![l] = m.version]
        /\ known' = [known EXCEPT ![l] = LargerOf(@, m.known)]
        /\ UNCHANGED <<durable, pushed>>
    BY <1>3 DEF TLogCommit
  <2>2. ASSUME NEW k \in TLog
        PROVE  logVersion'[k] = LastEpochEnd \/ \E n \in pushed : n.version = logVersion'[k]
    BY <2>1 DEF InvLog, TypeOK
  <2>3. ASSUME NEW k \in TLog
        PROVE  LoggedIfLater(known[k])'
    <3>1. known'[k] = known[k] \/ known'[k] = m.known
      BY <1>0, <2>1, LargerOfIsMax DEF TypeOK
    <3>2. LoggedIfLater(known[k]) /\ LoggedIfLater(m.known)
      BY DEF InvLog, InvPushed
    <3> QED
      BY <2>1, <3>1, <3>2 DEF LoggedIfLater, Logged
  <2> QED
    BY <2>1, <2>2, <2>3 DEF InvLog
<1>4. ASSUME NEW p \in CommitProxy, GetVersion(p) \/ Reject(p)
      PROVE  InvLog'
  BY <1>2, <1>4 DEF GetVersion, Reject
<1>5. ASSUME NEW p \in CommitProxy, NEW n \in 1 .. Len(batch[p]),
             \/ FinishReject(p, n) \/ PostResolution(p, n) \/ PollCommitted(p, n)
             \/ TransactionLogging(p, n) \/ ServeReport(p, n) \/ Reply(p, n)
      PROVE  InvLog'
  BY <1>2, <1>5 DEF FinishReject, PostResolution, PollCommitted, TransactionLogging, ServeReport, Reply
<1>6. ASSUME NEW l \in TLog, NEW m \in pushed, QueueCommit(l, m.version)
      PROVE  InvLog'
  BY <1>2, <1>6 DEF QueueCommit
<1>7. ASSUME NEW g \in GrvProxy, AskReadVersion(g) \/ ServeReadVersion(g) \/ SendReadVersion(g)
      PROVE  InvLog'
  BY <1>2, <1>7 DEF AskReadVersion, ServeReadVersion, SendReadVersion
<1>8. CASE UNCHANGED vars
  BY <1>2, <1>8 DEF vars
<1> QED
  BY <1>3, <1>4, <1>5, <1>6, <1>7, <1>8 DEF Next

\* The requests for a read version.
LEMMA GrvStep ==
    ASSUME TypeOK, TypeOK', InvCommitted, InvGrv, Grows, [Next]_vars
    PROVE  InvGrv'
<1> USE EpochAssumption DEF invalidVersion
<1>0. /\ liveCommitted \in Int /\ acked \in Int /\ liveCommitted' \in Int /\ acked' \in Int
      /\ \A g \in GrvProxy : /\ grv[g] \in Grv /\ grv[g].floor \in Int /\ grv[g].version \in Int
  BY DEF TypeOK, Grv
<1>1. /\ \A v \in Int : Logged(v) => Logged(v)'
      /\ liveCommitted <= liveCommitted' /\ acked <= acked'
      /\ acked # invalidVersion => acked' # invalidVersion
  BY <1>0, LoggedForGood DEF Grows, TypeOK
<1> DEFINE LoggedNext(v) ==
               Cardinality({l \in TLog : durable'[l] >= v}) >= Cardinality(TLog) - AntiQuorum
           OK(x) == /\ x.stage = "asked" => acked' # invalidVersion /\ x.floor <= liveCommitted'
                    /\ x.stage = "served" => LoggedNext(x.version) /\ x.floor <= x.version
<1>2. ASSUME NEW g \in GrvProxy
      PROVE  OK(grv[g])
  <2>1. PICK v \in Int : v = grv[g].version
    BY <1>0
  <2>2. grv[g].stage = "served" => Logged(v)'
    BY <1>1, <2>1 DEF InvGrv
  <2>3. grv[g].stage = "asked" => acked # invalidVersion /\ grv[g].floor <= liveCommitted
    BY DEF InvGrv
  <2>4. grv[g].stage = "served" => grv[g].floor <= grv[g].version
    BY DEF InvGrv
  <2> QED
    BY <1>0, <1>1, <2>1, <2>2, <2>3, <2>4 DEF Logged
<1>3. ASSUME UNCHANGED grv
      PROVE  InvGrv'
  BY <1>2, <1>3 DEF InvGrv, Logged
<1>4. ASSUME NEW g \in GrvProxy, AskReadVersion(g)
      PROVE  InvGrv'
  <2>1. /\ acked # invalidVersion /\ UNCHANGED <<acked, liveCommitted, durable>>
        /\ grv' = [grv EXCEPT ![g] = [stage |-> "asked", floor |-> acked, version |-> invalidVersion]]
    BY <1>4 DEF AskReadVersion
  <2>2. acked <= liveCommitted
    BY <2>1 DEF InvCommitted
  <2>3. \A h \in GrvProxy : grv'[h] = IF h = g THEN [stage |-> "asked", floor |-> acked, version |-> invalidVersion]
                                      ELSE grv[h]
    BY <2>1 DEF TypeOK
  <2> QED
    BY <1>2, <2>1, <2>2, <2>3 DEF InvGrv, Logged
<1>5. ASSUME NEW g \in GrvProxy, ServeReadVersion(g)
      PROVE  InvGrv'
  <2>1. /\ grv[g].stage = "asked" /\ liveCommitted' = LiveCommitted /\ UNCHANGED <<durable, acked>>
        /\ grv' = [grv EXCEPT ![g].stage = "served", ![g].version = LiveCommitted]
    BY <1>5 DEF ServeReadVersion
  <2>2. acked # invalidVersion /\ grv[g].floor <= liveCommitted
    BY <2>1 DEF InvGrv
  <2>3. LiveCommitted = liveCommitted /\ liveCommitted >= RecoveryTransactionVersion
    BY <2>2, MasterWasTold
  <2>4. Logged(liveCommitted)
    BY <1>0, <2>3 DEF InvCommitted
  <2>5. /\ grv'[g].stage = "served" /\ grv'[g].version = liveCommitted /\ grv'[g].floor = grv[g].floor
        /\ \A h \in GrvProxy : h # g => grv'[h] = grv[h]
    BY <1>0, <2>1, <2>3 DEF TypeOK, Grv
  <2>6. OK(grv'[g])
    BY <2>1, <2>2, <2>4, <2>5 DEF Logged
  <2>7. \A h \in GrvProxy : OK(grv'[h])
    BY <1>2, <2>5, <2>6
  <2> QED
    BY <2>7 DEF InvGrv, Logged
<1>6. ASSUME NEW g \in GrvProxy, SendReadVersion(g)
      PROVE  InvGrv'
  <2>1. \A h \in GrvProxy : grv'[h] = IF h = g THEN NoGrv ELSE grv[h]
    BY <1>6 DEF SendReadVersion, TypeOK
  <2>2. OK(NoGrv)
    BY DEF NoGrv
  <2>3. \A h \in GrvProxy : OK(grv'[h])
    BY <1>2, <2>1, <2>2
  <2> QED
    BY <2>3 DEF InvGrv, Logged
<1>7. ASSUME NEW p \in CommitProxy, GetVersion(p) \/ Reject(p)
      PROVE  InvGrv'
  BY <1>3, <1>7 DEF GetVersion, Reject
<1>8. ASSUME NEW p \in CommitProxy, NEW n \in 1 .. Len(batch[p]),
             \/ FinishReject(p, n) \/ PostResolution(p, n) \/ PollCommitted(p, n)
             \/ TransactionLogging(p, n) \/ ServeReport(p, n) \/ Reply(p, n)
      PROVE  InvGrv'
  BY <1>3, <1>8 DEF FinishReject, PostResolution, PollCommitted, TransactionLogging, ServeReport, Reply
<1>9. ASSUME NEW l \in TLog, NEW m \in pushed, TLogCommit(l, m) \/ QueueCommit(l, m.version)
      PROVE  InvGrv'
  BY <1>3, <1>9 DEF TLogCommit, QueueCommit
<1>10. CASE UNCHANGED vars
  BY <1>3, <1>10 DEF vars
<1> QED
  BY <1>4, <1>5, <1>6, <1>7, <1>8, <1>9, <1>10 DEF Next

-----------------------------------------------------------------------------
(***************************************************************************)
(* The theorems.                                                           *)
(***************************************************************************)

\* The invariant holds at the beginning of an epoch.
LEMMA InvInit == Init => IInv
<1> SUFFICES ASSUME Init
             PROVE  IInv
  OBVIOUS
<1>1. TypeOK
  BY TypeInit
<1>2. InvCommitted
  BY EpochAssumption DEF Init, InvCommitted, LoggedIfLater, invalidVersion
<1>3. InvBatch
  BY DEF Init, InvBatch
<1>4. InvPushed
  BY DEF Init, InvPushed
<1>5. InvLog
  BY EpochAssumption DEF Init, InvLog, LoggedIfLater
<1>6. InvGrv
  BY DEF Init, InvGrv, NoGrv
<1> QED
  BY <1>1, <1>2, <1>3, <1>4, <1>5, <1>6 DEF IInv

\* The invariant is inductive.
LEMMA InvNext == IInv /\ [Next]_vars => IInv'
<1> SUFFICES ASSUME IInv, [Next]_vars
             PROVE  IInv'
  OBVIOUS
<1>0. TypeOK /\ InvCommitted /\ InvBatch /\ InvPushed /\ InvLog /\ InvGrv
  BY DEF IInv
<1>1. TypeOK'
  BY <1>0, TypeStep
<1>2. Grows
  BY <1>0, <1>1, GrowsStep
<1>3. InvCommitted' /\ InvBatch'
  BY <1>0, <1>1, <1>2, CommittedStep, BatchStep
<1>4. InvPushed' /\ InvLog' /\ InvGrv'
  BY <1>0, <1>1, <1>2, PushedStep, LogStep, GrvStep
<1> QED
  BY <1>1, <1>3, <1>4 DEF IInv

\* The invariant holds throughout every epoch, for any number of proxies, logs and
\* batches and any distance between versions.
THEOREM Invariance == Spec => []IInv
BY InvInit, InvNext, PTL DEF Spec

\* reportLiveCommittedVersion comes before the answer to the client and before the
\* proxy's own committedVersion, and knownCommittedVersion of a log is committed.
THEOREM KnownCommitted == Spec => []KnownInv
<1>1. IInv => KnownInv
  BY DEF IInv, KnownInv, MasterKnowsFirst, KnownIsCommitted, InvCommitted, InvLog, LoggedIfLater
<1> QED
  BY <1>1, Invariance, PTL

\* commitBatch answers a client only when enough logs have the version, although a
\* batch may stop waiting for its own push when a later one is known committed.
THEOREM AnswersAreDurable == Spec => []AckedIsDurable
<1>1. IInv => AckedIsDurable
  <2> SUFFICES ASSUME IInv, acked # invalidVersion
               PROVE  Logged(acked)
    BY DEF AckedIsDurable
  <2>1. TypeOK /\ InvCommitted
    BY DEF IInv
  <2>2. acked \in Int /\ liveCommitted \in Int
    BY <2>1, Values
  <2>3. acked <= liveCommitted /\ liveCommitted # invalidVersion
    BY <2>1, <2>2, MasterWasTold, EpochAssumption DEF InvCommitted, invalidVersion
  <2>4. Logged(liveCommitted)
    BY <2>1, <2>3 DEF InvCommitted
  <2> QED
    BY <2>1, <2>2, <2>3, <2>4, LoggedDown
<1> QED
  BY <1>1, Invariance, PTL

\* A log that accepted a version proves that what is more than
\* MAX_READ_TRANSACTION_LIFE_VERSIONS before it is on enough logs.
THEOREM SemiCommitted == Spec => []SemiCommittedBounded
<1>1. IInv => SemiCommittedBounded
  <2> SUFFICES ASSUME IInv, NEW l \in TLog, NEW m \in pushed,
                      m.version <= logVersion[l] - ReadLife,
                      m.version > RecoveryTransactionVersion
               PROVE  Logged(m.version)
    BY DEF SemiCommittedBounded
  <2>1. TypeOK /\ InvPushed /\ InvLog
    BY DEF IInv
  <2>2. /\ \A n \in pushed : n.version \in Nat /\ n.known \in Nat
        /\ logVersion[l] \in Nat
    BY <2>1, Values
  <2>3. logVersion[l] # LastEpochEnd
    BY <2>2, EpochAssumption, WindowAssumption
  <2>4. PICK n \in pushed : n.version = logVersion[l]
    BY <2>1, <2>3 DEF InvLog
  <2>5. n.version - ReadLife <= n.known /\ LoggedIfLater(n.known)
    BY <2>1 DEF InvPushed
  <2>6. m.version <= n.known /\ n.known > RecoveryTransactionVersion
    BY <2>2, <2>4, <2>5, EpochAssumption, WindowAssumption
  <2>7. Logged(n.known)
    BY <2>5, <2>6 DEF LoggedIfLater
  <2> QED
    BY <2>1, <2>2, <2>6, <2>7, LoggedDown
<1> QED
  BY <1>1, Invariance, PTL

\* getLiveCommittedVersion answers with a committed version that is not below any
\* version a client had been told of when the request was sent.
THEOREM ReadVersions == Spec => []ReadVersionIsCurrent
<1>1. IInv => ReadVersionIsCurrent
  <2> SUFFICES ASSUME IInv, NEW g \in GrvProxy, grv[g].stage = "served"
               PROVE  Logged(grv[g].version) /\ grv[g].version >= grv[g].floor
    BY DEF ReadVersionIsCurrent
  <2>1. TypeOK /\ InvGrv
    BY DEF IInv
  <2>2. grv[g].floor \in Int /\ grv[g].version \in Int
    BY <2>1 DEF TypeOK, Grv
  <2> QED
    BY <2>1, <2>2 DEF InvGrv
<1> QED
  BY <1>1, Invariance, PTL
=========================
