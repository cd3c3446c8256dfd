--------------------------- MODULE CoordinatedStateProofs ---------------------------
(***************************************************************************)
(* Proofs, for any number of coordinators and clients, that the replicated *)
(* state of the coordinators is changed exclusively.                       *)
(***************************************************************************)
EXTENDS CoordinatedState, FiniteSetTheorems, TLAPS

-----------------------------------------------------------------------------
(***************************************************************************)
(* The inductive invariant.                                                *)
(***************************************************************************)

HasGen(c) == stage[c] >= 2

ReadQuorum(S) == Cardinality(S) >= (Cardinality(Coordinator) + 1) \div 2

MajorityOf(S) == Cardinality(S) >= Cardinality(Coordinator) \div 2 + 1

\* co told c that it accepted c's write.
Acknowledged(co, c) == [from |-> co, gen |-> gen[c]] \in writeReply[c]

\* co has met a generation later than c's and will never tell c that it
\* accepted c's write.
BlockedAt(co, c) ==
    /\ ~ Acknowledged(co, c)
    /\ Before(gen[c], reg[co].readGen) \/ Before(gen[c], reg[co].writeGen)

\* So many coordinators block c that its write cannot succeed any more.
Stuck(c) ==
    \E S \in SUBSET Coordinator : ReadQuorum(S) /\ \A co \in S : BlockedAt(co, c)

\* A value and the generation of its write belong together.
Consistent(val, g) ==
    /\ val = NoValue => g = Zero
    /\ val # NoValue => stage[val] >= 5 /\ g = gen[val]

\* Generations are unique, and positive once they are chosen.
InvGen ==
    /\ \A c \in Client : IF HasGen(c) THEN gen[c].generation > 0 /\ gen[c].uid > 0
                                      ELSE gen[c] = Zero
    /\ \A c, d \in Client : HasGen(c) /\ HasGen(d) /\ c # d => gen[c].uid # gen[d].uid

InvReg == \A co \in Coordinator : Consistent(reg[co].val, reg[co].writeGen)

\* An answer to a read of c: it is a value that was written; an answer to the
\* read with c's generation came from a register that now refuses every earlier
\* write it had not acknowledged; and no answer to the first read misses a
\* write that had succeeded before.
InvReadReply ==
    \A c \in Client : \A r \in readReply[c] :
        /\ stage[c] \in {1, 2, 4}
        /\ Consistent(r.val, r.gen)
        /\ stage[c] = 1 =>
              \A d \in before[c] : Acknowledged(r.from, d) => AtMost(gen[d], r.gen)
        /\ stage[c] = 2 =>
              /\ AtMost(gen[c], reg[r.from].readGen)
              /\ \A d \in Client : HasGen(d) /\ Before(gen[d], gen[c]) =>
                    AtMost(gen[d], r.gen) \/ BlockedAt(r.from, d)

InvWriteReply ==
    \A c \in Client : \A w \in writeReply[c] :
        /\ stage[c] >= 5
        /\ AtMost(gen[c], w.gen)
        /\ w.gen = gen[c] => AtMost(gen[c], reg[w.from].writeGen)

\* What read() returned: a read quorum has promised to refuse earlier writes,
\* and each earlier write was either seen or cannot succeed.
InvSeen ==
    \A c \in Client : stage[c] >= 4 =>
        /\ Consistent(seen[c].val, seen[c].gen)
        /\ seen[c].val # c
        /\ doomed[c] = Before(gen[c], seen[c].gen)
        /\ \E S \in SUBSET Coordinator :
              ReadQuorum(S) /\ \A co \in S : AtMost(gen[c], reg[co].readGen)
        /\ \A d \in Client : HasGen(d) /\ Before(gen[d], gen[c]) =>
              AtMost(gen[d], seen[c].gen) \/ Stuck(d)

InvConflict ==
    \A c \in Client : doomed[c] \/ conflict[c] = "returned" => stage[c] >= 4 /\ Stuck(c)

InvOutcome ==
    \A c \in Client :
        /\ stage[c] = 6 <=> outcome[c] # "none"
        /\ outcome[c] = "success" => MajorityOf({co \in Coordinator : Acknowledged(co, c)})

InvBefore ==
    \A c \in Client : \A d \in before[c] :
        outcome[d] = "success" /\ (HasGen(c) => Before(gen[d], gen[c]))

IInv ==
    /\ TypeOK
    /\ InvGen
    /\ InvReg
    /\ InvReadReply
    /\ InvWriteReply
    /\ InvSeen
    /\ InvConflict
    /\ InvOutcome
    /\ InvBefore
-----------------------------------------------------------------------------
(***************************************************************************)
(* UniqueGeneration is totally ordered by Before.                          *)
(***************************************************************************)

\* operator< of UniqueGeneration is a strict total order, so the comparisons
\* derived from it mean what their names say.
LEMMA GenerationOrder ==
    ASSUME NEW a \in UniqueGeneration, NEW b \in UniqueGeneration, NEW c \in UniqueGeneration
    PROVE  /\ ~ Before(a, a)
           /\ Before(a, b) \/ a = b \/ Before(b, a)
           /\ Before(a, b) => ~ Before(b, a)
           /\ Before(a, b) /\ Before(b, c) => Before(a, c)
           /\ AtMost(a, b) /\ Before(b, c) => Before(a, c)
           /\ Before(a, b) /\ AtMost(b, c) => Before(a, c)
           /\ AtMost(a, b) /\ AtMost(b, c) => AtMost(a, c)
           /\ AtMost(a, b) <=> Before(a, b) \/ a = b
    BY DEF UniqueGeneration, Before, AtMost

\* std::max of two generations is one of them and not before either.
LEMMA LaterIsMax ==
    ASSUME NEW a \in UniqueGeneration, NEW b \in UniqueGeneration
    PROVE  /\ Later(a, b) \in UniqueGeneration
           /\ AtMost(a, Later(a, b))
           /\ AtMost(b, Later(a, b))
           /\ Later(a, b) = a \/ Later(a, b) = b
    BY GenerationOrder DEF Later, AtMost

\* The default generation comes before every generation a client chooses.
LEMMA ZeroIsFirst ==
    /\ Zero \in UniqueGeneration
    /\ \A g \in UniqueGeneration : AtMost(Zero, g)
    /\ \A g \in UniqueGeneration : g.generation > 0 => Before(Zero, g)
    BY DEF UniqueGeneration, Zero, AtMost, Before

\* A read quorum, of empty or of non-empty registers, meets every majority.
LEMMA QuorumsMeet ==
    ASSUME NEW S \in SUBSET Coordinator, NEW T \in SUBSET Coordinator,
           ReadQuorum(S), MajorityOf(T)
    PROVE  S \cap T # {}
<1>1. IsFiniteSet(S) /\ IsFiniteSet(T) /\ IsFiniteSet(S \cup T) /\ IsFiniteSet(Coordinator)
  BY CoordinatorAssumption, FS_Subset, FS_Union
<1>2. Cardinality(S \cup T) = Cardinality(S) + Cardinality(T) - Cardinality(S \cap T)
  BY <1>1, FS_Union
<1>3. Cardinality(S \cup T) <= Cardinality(Coordinator)
  BY <1>1, FS_Subset
<1>4. Cardinality(S) \in Nat /\ Cardinality(T) \in Nat /\ Cardinality(Coordinator) \in Nat
  BY <1>1, FS_CardinalityType
<1>5. SUFFICES ASSUME S \cap T = {} PROVE FALSE
  OBVIOUS
<1>6. Cardinality(S \cap T) = 0
  BY <1>5, FS_EmptySet
<1>7. Cardinality(S) + Cardinality(T) > Cardinality(Coordinator)
  <2>1. \A n \in Nat : (n + 1) \div 2 + (n \div 2 + 1) > n
    OBVIOUS
  <2>2. Cardinality(S) >= (Cardinality(Coordinator) + 1) \div 2
    BY DEF ReadQuorum
  <2>3. Cardinality(T) >= Cardinality(Coordinator) \div 2 + 1
    BY DEF MajorityOf
  <2> QED
    BY <1>4, <2>1, <2>2, <2>3
<1> QED
  BY <1>2, <1>3, <1>4, <1>6, <1>7
-----------------------------------------------------------------------------
(***************************************************************************)
(* Type correctness.                                                       *)
(***************************************************************************)

\* Serving a request keeps a register a GenerationRegVal.
LEMMA RegTypes ==
    ASSUME NEW v \in GenerationRegVal, NEW g \in UniqueGeneration, NEW x \in Value
    PROVE  /\ AfterRead(v, g) \in GenerationRegVal
           /\ AfterWrite(v, g, x) \in GenerationRegVal
           /\ WriteAnswer(v, g) \in UniqueGeneration
<1>1. v.readGen \in UniqueGeneration /\ v.writeGen \in UniqueGeneration
  BY DEF GenerationRegVal
<1>2. Later(v.readGen, g) \in UniqueGeneration /\ Later(v.readGen, v.writeGen) \in UniqueGeneration
  BY <1>1, LaterIsMax
<1> QED
  BY <1>1, <1>2 DEF GenerationRegVal, AfterRead, AfterWrite, WriteAnswer

\* conflictGen stays a natural number when it absorbs an answer.
LEMMA HighestInNat ==
    ASSUME NEW b \in ReadReply, NEW n \in Nat
    PROVE  MaxNat(n, HighestIn(b)) \in Nat /\ HighestIn(b) \in Nat
    BY DEF ReadReply, UniqueGeneration, HighestIn, MaxNat

\* Every step of a coordinator or a client keeps the types.
LEMMA TypeStep == TypeOK /\ [Next]_vars => TypeOK'
<1> SUFFICES ASSUME TypeOK, [Next]_vars PROVE TypeOK'
  OBVIOUS
<1> USE DEF TypeOK
<1>1. ASSUME NEW co \in Coordinator, NEW c \in Client, NEW answered \in BOOLEAN,
             ServeQuery(co, c, answered)
      PROVE  TypeOK'
  <2>1. reg[co] \in GenerationRegVal /\ Zero \in UniqueGeneration
    BY ZeroIsFirst
  <2>2. AfterRead(reg[co], Zero) \in GenerationRegVal
    BY <2>1, RegTypes DEF Value
  <2>3. reg' \in [Coordinator -> GenerationRegVal] /\ reg'[co] \in GenerationRegVal
    BY <1>1, <2>2 DEF ServeQuery
  <2>4. readReply' \in [Client -> SUBSET ReadReply]
    BY <1>1, <2>3 DEF ServeQuery, DeliverRead, ReadReply, GenerationRegVal
  <2> QED
    BY <1>1, <2>3, <2>4 DEF ServeQuery, clientVars
<1>2. ASSUME NEW co \in Coordinator, NEW c \in Client, NEW answered \in BOOLEAN,
             ServeRead(co, c, answered)
      PROVE  TypeOK'
  <2>2. AfterRead(reg[co], gen[c]) \in GenerationRegVal
    BY RegTypes DEF Value
  <2>3. reg' \in [Coordinator -> GenerationRegVal] /\ reg'[co] \in GenerationRegVal
    BY <1>2, <2>2 DEF ServeRead
  <2>4. readReply' \in [Client -> SUBSET ReadReply]
    BY <1>2, <2>3 DEF ServeRead, DeliverRead, ReadReply, GenerationRegVal
  <2> QED
    BY <1>2, <2>3, <2>4 DEF ServeRead, clientVars
<1>3. ASSUME NEW co \in Coordinator, NEW c \in Client, NEW answered \in BOOLEAN,
             ServeWrite(co, c, answered)
      PROVE  TypeOK'
  <2>2. AfterWrite(reg[co], gen[c], c) \in GenerationRegVal
        /\ WriteAnswer(reg[co], gen[c]) \in UniqueGeneration
    BY RegTypes DEF Value
  <2>3. reg' \in [Coordinator -> GenerationRegVal]
    BY <1>3, <2>2 DEF ServeWrite
  <2>4. writeReply' \in [Client -> SUBSET WriteReply]
    BY <1>3, <2>2 DEF ServeWrite, WriteReply
  <2> QED
    BY <1>3, <2>3, <2>4 DEF ServeWrite, clientVars
<1>4. ASSUME NEW c \in Client, StartRead(c) PROVE TypeOK'
  BY <1>4 DEF StartRead
<1>5. ASSUME NEW c \in Client, ChooseGeneration(c) PROVE TypeOK'
  <2>1. PICK b \in readReply[c], u \in Uid :
            /\ conflictGen' = [conflictGen EXCEPT ![c] = MaxNat(conflictGen[c], HighestIn(b)) + 1]
            /\ gen' = [gen EXCEPT ![c] =
                  [generation |-> MaxNat(conflictGen[c], HighestIn(b)) + 1, uid |-> u]]
    BY <1>5 DEF ChooseGeneration
  <2>2. MaxNat(conflictGen[c], HighestIn(b)) \in Nat
    BY HighestInNat
  <2>3. conflictGen' \in [Client -> Nat] /\ gen' \in [Client -> UniqueGeneration]
    BY <2>1, <2>2, UidAssumption DEF UniqueGeneration
  <2> QED
    BY <1>5, <2>3 DEF ChooseGeneration
<1>6. ASSUME NEW c \in Client, FinishRead(c) PROVE TypeOK'
  <2>1. PICK b \in readReply[c] :
          /\ conflictGen' = [conflictGen EXCEPT ![c] = MaxNat(@, HighestIn(b))]
          /\ doomed' = [doomed EXCEPT ![c] = IsDoomed(c, b)]
          /\ initial' = [initial EXCEPT ![c] = IsEmpty(b)]
          /\ seen' = [seen EXCEPT ![c] = [val |-> b.val, gen |-> b.gen, rgen |-> b.rgen]]
    BY <1>6 DEF FinishRead
  <2>2. conflictGen' \in [Client -> Nat]
    BY <2>1, HighestInNat
  <2>3. doomed' \in [Client -> BOOLEAN] /\ initial' \in [Client -> BOOLEAN]
    BY <2>1 DEF IsDoomed, IsEmpty, Before
  <2>4. seen' \in [Client -> [val : Value, gen : UniqueGeneration, rgen : UniqueGeneration]]
    BY <2>1 DEF ReadReply
  <2> QED
    BY <1>6, <2>2, <2>3, <2>4 DEF FinishRead
<1>7. ASSUME NEW c \in Client, OnConflict(c) PROVE TypeOK'
  BY <1>7 DEF OnConflict
<1>8. ASSUME NEW c \in Client, FinishPoll(c) PROVE TypeOK'
  <2>1. PICK b \in readReply[c] :
          /\ conflictGen' = [conflictGen EXCEPT ![c] = MaxNat(@, HighestIn(b))]
          /\ conflict' = [conflict EXCEPT ![c] = IF IsDoomed(c, b) THEN "returned" ELSE @]
    BY <1>8 DEF FinishPoll
  <2>2. conflictGen' \in [Client -> Nat]
    BY <2>1, HighestInNat
  <2> QED
    BY <1>8, <2>1, <2>2 DEF FinishPoll
<1>9. ASSUME NEW c \in Client, SetExclusive(c) PROVE TypeOK'
  BY <1>9 DEF SetExclusive
<1>10. ASSUME NEW c \in Client, FinishWrite(c) PROVE TypeOK'
  <2>1. conflictGen' \in [Client -> Nat] /\ outcome' \in [Client -> {"none", "success", "conflict"}]
    <3>1. PICK W \in SUBSET writeReply[c] : \E w \in W :
             IF w.gen = gen[c]
             THEN /\ outcome' = [outcome EXCEPT ![c] = "success"]
                  /\ UNCHANGED conflictGen
             ELSE /\ outcome' = [outcome EXCEPT ![c] = "conflict"]
                  /\ conflictGen' = [conflictGen EXCEPT ![c] = MaxNat(@, w.gen.generation)]
      BY <1>10, Zenon DEF FinishWrite
    <3>2. ASSUME NEW w \in W
          PROVE  MaxNat(conflictGen[c], w.gen.generation) \in Nat
      BY DEF MaxNat, WriteReply, UniqueGeneration
    <3> QED
      BY <3>1, <3>2
  <2> QED
    BY <1>10, <2>1 DEF FinishWrite
<1>11. CASE UNCHANGED vars
  BY <1>11 DEF vars
<1> QED
  BY <1>1, <1>2, <1>3, <1>4, <1>5, <1>6, <1>7, <1>8, <1>9, <1>10, <1>11, UpAssumption DEF Next

\* The variables keep their types: TypeOK is an invariant of the protocol for
\* any set of coordinators and clients.
THEOREM TypeCorrect == Spec => []TypeOK
<1>1. Init => TypeOK
  BY ZeroIsFirst DEF Init, TypeOK, EmptyReg, NothingSeen, GenerationRegVal, Value
<1> QED
  BY <1>1, TypeStep, PTL DEF Spec
-----------------------------------------------------------------------------
(***************************************************************************)
(* What a step leaves alone and what it only lets grow.                    *)
(***************************************************************************)

\* The life of a client: it never goes back a stage, keeps its generation and
\* what its read returned, and each change has one action as its cause.
Frame(c) ==
    /\ stage'[c] >= stage[c]
    /\ stage[c] >= 2 => gen'[c] = gen[c]
    /\ stage[c] >= 4 => seen'[c] = seen[c] /\ doomed'[c] = doomed[c]
    /\ stage[c] < 2 /\ stage'[c] >= 2 => ChooseGeneration(c)
    /\ stage'[c] < 2 => gen'[c] = gen[c]
    /\ stage[c] < 4 /\ stage'[c] >= 4 => FinishRead(c)
    /\ stage'[c] < 4 => doomed'[c] = doomed[c]
    /\ stage[c] < 6 /\ stage'[c] = 6 => FinishWrite(c)
    /\ outcome'[c] # outcome[c] => FinishWrite(c)
    /\ conflict'[c] # conflict[c] => OnConflict(c) \/ FinishPoll(c)
    /\ before'[c] # before[c] => StartRead(c)
    /\ writeReply[c] \subseteq writeReply'[c]
    /\ stage[c] # 5 => writeReply'[c] = writeReply[c]

\* Consistent, of the state after the step.
ConsistentNext(val, g) ==
    /\ val = NoValue => g = Zero
    /\ val # NoValue => stage'[val] >= 5 /\ g = gen'[val]

\* Every step respects the life of every client.
LEMMA FrameStep == TypeOK /\ [Next]_vars => \A c \in Client : Frame(c)
<1> SUFFICES ASSUME TypeOK, [Next]_vars, NEW c \in Client PROVE Frame(c)
  OBVIOUS
<1>0. /\ stage \in [Client -> {0, 1, 2, 4, 5, 6}]
      /\ gen \in [Client -> UniqueGeneration]
      /\ DOMAIN doomed = Client /\ DOMAIN seen = Client /\ DOMAIN conflict = Client
      /\ DOMAIN outcome = Client /\ DOMAIN before = Client
      /\ DOMAIN writeReply = Client
      /\ doomed = [x \in Client |-> doomed[x]] /\ seen = [x \in Client |-> seen[x]]
      /\ conflict = [x \in Client |-> conflict[x]] /\ outcome = [x \in Client |-> outcome[x]]
      /\ before = [x \in Client |-> before[x]] /\ writeReply = [x \in Client |-> writeReply[x]]
  BY DEF TypeOK
<1> USE DEF Frame
<1>1. ASSUME NEW co \in Coordinator, NEW d \in Client, NEW answered \in BOOLEAN,
             ServeQuery(co, d, answered) \/ ServeRead(co, d, answered) \/ ServeWrite(co, d, answered)
      PROVE  Frame(c)
  <2>1. UNCHANGED clientVars /\ UNCHANGED before
    BY <1>1 DEF ServeQuery, ServeRead, ServeWrite
  <2>2. writeReply[c] \subseteq writeReply'[c]
    <3>1. UNCHANGED writeReply \/ \E x : writeReply' = [writeReply EXCEPT ![d] = @ \cup {x}]
      BY <1>1 DEF ServeQuery, ServeRead, ServeWrite
    <3> QED
      BY <1>0, <3>1
  <2>3. stage[c] # 5 => writeReply'[c] = writeReply[c]
    <3>1. \/ UNCHANGED writeReply
          \/ stage[d] = 5 /\ \E x : writeReply' = [writeReply EXCEPT ![d] = @ \cup {x}]
      BY <1>1 DEF ServeQuery, ServeRead, ServeWrite
    <3> QED
      BY <1>0, <3>1
  <2> QED
    BY <1>0, <2>1, <2>2, <2>3 DEF clientVars
<1>2. ASSUME NEW d \in Client, StartRead(d) PROVE Frame(c)
  <2>1. /\ stage[d] = 0 /\ stage' = [stage EXCEPT ![d] = 1]
        /\ before' = [before EXCEPT ![d] = {x \in Client : outcome[x] = "success"}]
        /\ UNCHANGED <<gen, doomed, seen, conflict, outcome, writeReply>>
    BY <1>2 DEF StartRead
  <2> QED
    BY <1>0, <1>2, <2>1
<1>3. ASSUME NEW d \in Client, ChooseGeneration(d) PROVE Frame(c)
  <2>1. /\ stage[d] = 1 /\ stage' = [stage EXCEPT ![d] = 2]
        /\ \E x : gen' = [gen EXCEPT ![d] = x]
        /\ UNCHANGED <<doomed, seen, conflict, outcome, writeReply, before>>
    BY <1>3 DEF ChooseGeneration
  <2> QED
    BY <1>0, <1>3, <2>1
<1>4. ASSUME NEW d \in Client, FinishRead(d) PROVE Frame(c)
  <2>1. /\ stage[d] = 2 /\ stage' = [stage EXCEPT ![d] = 4]
        /\ \E x : seen' = [seen EXCEPT ![d] = x]
        /\ \E x : doomed' = [doomed EXCEPT ![d] = x]
        /\ UNCHANGED <<gen, conflict, outcome, writeReply, before>>
    BY <1>4 DEF FinishRead
  <2> QED
    BY <1>0, <1>4, <2>1
<1>5. ASSUME NEW d \in Client, OnConflict(d) PROVE Frame(c)
  <2>1. /\ \E x : conflict' = [conflict EXCEPT ![d] = x]
        /\ UNCHANGED <<stage, gen, doomed, seen, outcome, writeReply, before>>
    BY <1>5 DEF OnConflict
  <2> QED
    BY <1>0, <1>5, <2>1
<1>6. ASSUME NEW d \in Client, FinishPoll(d) PROVE Frame(c)
  <2>1. /\ \E x : conflict' = [conflict EXCEPT ![d] = x]
        /\ UNCHANGED <<stage, gen, doomed, seen, outcome, writeReply, before>>
    BY <1>6 DEF FinishPoll
  <2> QED
    BY <1>0, <1>6, <2>1
<1>7. ASSUME NEW d \in Client, SetExclusive(d) PROVE Frame(c)
  <2>1. /\ stage[d] = 4 /\ stage' = [stage EXCEPT ![d] = 5]
        /\ UNCHANGED <<gen, doomed, seen, conflict, outcome, writeReply, before>>
    BY <1>7 DEF SetExclusive
  <2> QED
    BY <1>0, <2>1
<1>8. ASSUME NEW d \in Client, FinishWrite(d) PROVE Frame(c)
  <2>1. /\ stage[d] = 5 /\ stage' = [stage EXCEPT ![d] = 6]
        /\ UNCHANGED <<gen, doomed, seen, conflict, writeReply, before>>
    BY <1>8 DEF FinishWrite
  <2>2. \E x : outcome' = [outcome EXCEPT ![d] = x]
    BY <1>8, Zenon DEF FinishWrite
  <2> QED
    BY <1>0, <1>8, <2>1, <2>2
<1>9. CASE UNCHANGED vars
  BY <1>0, <1>9 DEF vars
<1> QED
  BY <1>1, <1>2, <1>3, <1>4, <1>5, <1>6, <1>7, <1>8, <1>9, UpAssumption DEF Next

\* What a register has promised and a coordinator has refused stays so.
Advances ==
    /\ \A co \in Coordinator : /\ AtMost(reg[co].readGen, reg'[co].readGen)
                               /\ AtMost(reg[co].writeGen, reg'[co].writeGen)
    /\ \A co \in Coordinator, c \in Client :
          HasGen(c) /\ Acknowledged(co, c) => Acknowledged(co, c)'
    /\ \A co \in Coordinator, c \in Client :
          HasGen(c) /\ BlockedAt(co, c) => BlockedAt(co, c)'
    /\ \A c \in Client : HasGen(c) /\ Stuck(c) => Stuck(c)'
    /\ \A x \in Value, g \in UniqueGeneration : Consistent(x, g) => ConsistentNext(x, g)

\* Serving a request never lowers a generation of the register.
LEMMA RegGrows ==
    ASSUME NEW v \in GenerationRegVal, NEW g \in UniqueGeneration, NEW x \in Value
    PROVE  /\ AtMost(v.readGen, AfterRead(v, g).readGen)
           /\ AtMost(g, AfterRead(v, g).readGen)
           /\ AfterRead(v, g).writeGen = v.writeGen /\ AfterRead(v, g).val = v.val
           /\ AtMost(v.writeGen, AfterWrite(v, g, x).writeGen)
           /\ AfterWrite(v, g, x).readGen = v.readGen
           /\ AfterWrite(v, g, x).writeGen = v.writeGen => AfterWrite(v, g, x).val = v.val
           /\ AfterWrite(v, g, x).writeGen # v.writeGen =>
                 AfterWrite(v, g, x).writeGen = g /\ AfterWrite(v, g, x).val = x
<1>1. v.readGen \in UniqueGeneration /\ v.writeGen \in UniqueGeneration
  BY DEF GenerationRegVal
<1>2. /\ AfterRead(v, g).readGen = Later(v.readGen, g)
      /\ AfterRead(v, g).writeGen = v.writeGen
      /\ AfterRead(v, g).val = v.val
  BY DEF AfterRead, GenerationRegVal
<1>3. CASE Accepts(v, g)
  <2>1. /\ AfterWrite(v, g, x).readGen = v.readGen
        /\ AfterWrite(v, g, x).writeGen = g
        /\ AfterWrite(v, g, x).val = x
    BY <1>3 DEF AfterWrite, GenerationRegVal
  <2>2. Before(v.writeGen, g)
    BY <1>3 DEF Accepts
  <2> QED
    BY <1>1, <1>2, <2>1, <2>2, LaterIsMax, GenerationOrder
<1>4. CASE ~ Accepts(v, g)
  <2>1. AfterWrite(v, g, x) = v
    BY <1>4 DEF AfterWrite
  <2> QED
    BY <1>1, <1>2, <2>1, LaterIsMax, GenerationOrder
<1> QED
  BY <1>3, <1>4

\* A write is answered with its own generation, or with a later one, and in
\* the former case the register holds that generation or a later one.
LEMMA WriteAnswered ==
    ASSUME NEW v \in GenerationRegVal, NEW g \in UniqueGeneration, NEW x \in Value
    PROVE  /\ AtMost(g, WriteAnswer(v, g))
           /\ WriteAnswer(v, g) = g => /\ AtMost(v.readGen, g)
                                       /\ AtMost(v.writeGen, g)
                                       /\ AfterWrite(v, g, x).writeGen = g
<1>1. v.readGen \in UniqueGeneration /\ v.writeGen \in UniqueGeneration
  BY DEF GenerationRegVal
<1>2. CASE Accepts(v, g)
  BY <1>1, <1>2, GenerationOrder DEF WriteAnswer, AfterWrite, Accepts, GenerationRegVal
<1>3. CASE ~ Accepts(v, g)
  <2>1. WriteAnswer(v, g) = Later(v.readGen, v.writeGen) /\ AfterWrite(v, g, x) = v
    BY <1>3 DEF WriteAnswer, AfterWrite
  <2>2. Before(g, v.readGen) \/ ~ Before(v.writeGen, g)
    BY <1>3 DEF Accepts, AtMost
  <2>3. AtMost(v.readGen, Later(v.readGen, v.writeGen)) /\ AtMost(v.writeGen, Later(v.readGen, v.writeGen))
        /\ Later(v.readGen, v.writeGen) \in UniqueGeneration
    BY <1>1, LaterIsMax
  <2>4. CASE Before(g, v.readGen)
    BY <1>1, <2>1, <2>3, <2>4, GenerationOrder
  <2>5. CASE ~ Before(g, v.readGen) /\ ~ Before(v.writeGen, g)
    BY <1>1, <2>1, <2>3, <2>5, GenerationOrder
  <2> QED
    BY <2>2, <2>4, <2>5
<1> QED
  BY <1>2, <1>3

\* Every step lets registers and refusals only grow.
LEMMA AdvancesStep ==
    ASSUME TypeOK, TypeOK', InvWriteReply, [Next]_vars
    PROVE  Advances
<1>0. /\ \A co \in Coordinator : /\ reg[co] \in GenerationRegVal /\ reg'[co] \in GenerationRegVal
                                 /\ reg[co].readGen \in UniqueGeneration
                                 /\ reg[co].writeGen \in UniqueGeneration
                                 /\ reg'[co].readGen \in UniqueGeneration
                                 /\ reg'[co].writeGen \in UniqueGeneration
      /\ \A c \in Client : /\ gen[c] \in UniqueGeneration
                           /\ stage[c] \in {0, 1, 2, 4, 5, 6} /\ stage'[c] \in {0, 1, 2, 4, 5, 6}
  BY DEF TypeOK, GenerationRegVal
<1>1. \A c \in Client : Frame(c)
  BY FrameStep
<1>2. \/ UNCHANGED <<reg, writeReply>>
      \/ \E co \in Coordinator, g \in UniqueGeneration :
             reg' = [reg EXCEPT ![co] = AfterRead(@, g)] /\ UNCHANGED writeReply
      \/ \E co \in Coordinator, d \in Client, answered \in BOOLEAN : ServeWrite(co, d, answered)
  <2>1. ASSUME NEW co \in Coordinator, NEW c \in Client, NEW answered \in BOOLEAN,
               ServeQuery(co, c, answered)
        PROVE  reg' = [reg EXCEPT ![co] = AfterRead(@, Zero)] /\ UNCHANGED writeReply
    BY <2>1 DEF ServeQuery
  <2>2. ASSUME NEW co \in Coordinator, NEW c \in Client, NEW answered \in BOOLEAN,
               ServeRead(co, c, answered)
        PROVE  reg' = [reg EXCEPT ![co] = AfterRead(@, gen[c])] /\ UNCHANGED writeReply
    BY <2>2 DEF ServeRead
  <2>3. ASSUME NEW c \in Client,
               \/ StartRead(c) \/ ChooseGeneration(c) \/ FinishRead(c)
               \/ OnConflict(c) \/ FinishPoll(c)
               \/ SetExclusive(c) \/ FinishWrite(c)
        PROVE  UNCHANGED <<reg, writeReply>>
    BY <2>3 DEF StartRead, ChooseGeneration, FinishRead, OnConflict, FinishPoll, SetExclusive, FinishWrite
  <2>4. CASE UNCHANGED vars
    BY <2>4 DEF vars
  <2> QED
    BY <1>0, <2>1, <2>2, <2>3, <2>4, ZeroIsFirst, UpAssumption DEF Next
<1>3. \A co \in Coordinator : /\ AtMost(reg[co].readGen, reg'[co].readGen)
                             /\ AtMost(reg[co].writeGen, reg'[co].writeGen)
  <2> SUFFICES ASSUME NEW co \in Coordinator
               PROVE  /\ AtMost(reg[co].readGen, reg'[co].readGen)
                      /\ AtMost(reg[co].writeGen, reg'[co].writeGen)
    OBVIOUS
  <2>1. CASE UNCHANGED <<reg, writeReply>>
    BY <1>0, <2>1, GenerationOrder
  <2>2. ASSUME NEW k \in Coordinator, NEW g \in UniqueGeneration, reg' = [reg EXCEPT ![k] = AfterRead(@, g)]
        PROVE  /\ AtMost(reg[co].readGen, reg'[co].readGen)
               /\ AtMost(reg[co].writeGen, reg'[co].writeGen)
    <3>1. reg'[co] = reg[co] \/ reg'[co] = AfterRead(reg[co], g)
      BY <2>2 DEF TypeOK
    <3>2. NoValue \in Value
      BY DEF Value
    <3> QED
      BY <1>0, <3>1, <3>2, RegGrows, GenerationOrder
  <2>3. ASSUME NEW k \in Coordinator, NEW d \in Client, NEW answered \in BOOLEAN, ServeWrite(k, d, answered)
        PROVE  /\ AtMost(reg[co].readGen, reg'[co].readGen)
               /\ AtMost(reg[co].writeGen, reg'[co].writeGen)
    <3>1. reg'[co] = reg[co] \/ reg'[co] = AfterWrite(reg[co], gen[d], d)
      BY <2>3 DEF TypeOK, ServeWrite
    <3> QED
      BY <1>0, <3>1, RegGrows, GenerationOrder DEF Value
  <2> QED
    BY <1>2, <2>1, <2>2, <2>3
<1>4. \A co \in Coordinator, c \in Client :
          HasGen(c) /\ Acknowledged(co, c) => Acknowledged(co, c)'
  BY <1>1 DEF Frame, Acknowledged, HasGen
<1>5. ASSUME NEW co \in Coordinator, NEW c \in Client, HasGen(c), BlockedAt(co, c)
      PROVE  BlockedAt(co, c)'
  <2>1. gen'[c] = gen[c]
    BY <1>1, <1>5 DEF Frame, HasGen
  <2>2. Before(gen[c], reg'[co].readGen) \/ Before(gen[c], reg'[co].writeGen)
    BY <1>0, <1>3, <1>5, GenerationOrder DEF BlockedAt
  <2>3. ~ ([from |-> co, gen |-> gen[c]] \in writeReply'[c])
    <3>1. CASE UNCHANGED writeReply
      BY <1>5, <3>1 DEF BlockedAt, Acknowledged
    <3>2. ASSUME NEW k \in Coordinator, NEW d \in Client, NEW answered \in BOOLEAN,
                 ServeWrite(k, d, answered)
          PROVE  ~ ([from |-> co, gen |-> gen[c]] \in writeReply'[c])
      <4>1. \/ writeReply'[c] = writeReply[c]
            \/ d = c /\ writeReply'[c] =
                  writeReply[c] \cup {[from |-> k, gen |-> WriteAnswer(reg[k], gen[c])]}
        <5>1. \/ UNCHANGED writeReply
              \/ writeReply' = [writeReply EXCEPT ![d] =
                    @ \cup {[from |-> k, gen |-> WriteAnswer(reg[k], gen[d])]}]
          BY <3>2 DEF ServeWrite
        <5>2. writeReply \in [Client -> SUBSET WriteReply]
          BY DEF TypeOK
        <5> QED
          BY <5>1, <5>2
      <4>2. ASSUME WriteAnswer(reg[co], gen[c]) = gen[c] PROVE FALSE
        <5>1. AtMost(reg[co].readGen, gen[c]) /\ AtMost(reg[co].writeGen, gen[c])
          BY <1>0, <4>2, WriteAnswered DEF Value
        <5> QED
          BY <1>0, <1>5, <5>1, GenerationOrder DEF BlockedAt
      <4> QED
        BY <1>5, <4>1, <4>2 DEF BlockedAt, Acknowledged
    <3> QED
      BY <1>2, <3>1, <3>2
  <2> QED
    BY <2>1, <2>2, <2>3 DEF BlockedAt, Acknowledged
<1>6. \A c \in Client : HasGen(c) /\ Stuck(c) => Stuck(c)'
  BY <1>5 DEF Stuck, ReadQuorum
<1>7. \A x \in Value, g \in UniqueGeneration : Consistent(x, g) => ConsistentNext(x, g)
  BY <1>0, <1>1 DEF Consistent, ConsistentNext, Frame, Value
<1> QED
  BY <1>3, <1>4, <1>5, <1>6, <1>7 DEF Advances
-----------------------------------------------------------------------------
(***************************************************************************)
(* Each part of the invariant is preserved.                                *)
(***************************************************************************)

\* A chosen generation is positive and nobody else's.
LEMMA InvGenStep ==
    ASSUME TypeOK, TypeOK', InvGen, [Next]_vars
    PROVE  InvGen'
<1>1. \A c \in Client : Frame(c)
  BY FrameStep
<1>2. \A c \in Client : stage[c] \in {0, 1, 2, 4, 5, 6} /\ stage'[c] \in {0, 1, 2, 4, 5, 6}
  BY DEF TypeOK
<1>3. ASSUME NEW c \in Client, ChooseGeneration(c)
      PROVE  /\ gen'[c].generation > 0 /\ gen'[c].uid > 0
             /\ \A d \in Client : gen[d].uid # gen'[c].uid
             /\ \A d \in Client : d # c => gen'[d] = gen[d] /\ stage'[d] = stage[d]
  <2>1. PICK b \in readReply[c], u \in Uid :
            /\ FreshUid(u)
            /\ gen' = [gen EXCEPT ![c] =
                  [generation |-> MaxNat(conflictGen[c], HighestIn(b)) + 1, uid |-> u]]
    BY <1>3 DEF ChooseGeneration
  <2>2. MaxNat(conflictGen[c], HighestIn(b)) \in Nat
    BY HighestInNat DEF TypeOK
  <2>3. gen'[c] = [generation |-> MaxNat(conflictGen[c], HighestIn(b)) + 1, uid |-> u]
        /\ \A d \in Client : d # c => gen'[d] = gen[d]
    BY <2>1 DEF TypeOK
  <2>4. \A d \in Client : d # c => stage'[d] = stage[d]
    BY <1>3 DEF ChooseGeneration, TypeOK
  <2> QED
    BY <2>1, <2>2, <2>3, <2>4, UidAssumption DEF FreshUid
<1>4. ASSUME NEW c \in Client
      PROVE  IF HasGen(c)' THEN gen'[c].generation > 0 /\ gen'[c].uid > 0 ELSE gen'[c] = Zero
  BY <1>1, <1>2, <1>3 DEF InvGen, HasGen, Frame
<1>5. ASSUME NEW c \in Client, NEW d \in Client, HasGen(c)', HasGen(d)', c # d
      PROVE  gen'[c].uid # gen'[d].uid
  <2>1. CASE HasGen(c) /\ HasGen(d)
    BY <1>1, <1>5, <2>1 DEF InvGen, HasGen, Frame
  <2>2. CASE ~ HasGen(c)
    BY <1>1, <1>2, <1>3, <1>5, <2>2 DEF HasGen, Frame
  <2>3. CASE ~ HasGen(d)
    BY <1>1, <1>2, <1>3, <1>5, <2>3 DEF HasGen, Frame
  <2> QED
    BY <2>1, <2>2, <2>3
<1> QED
  BY <1>4, <1>5 DEF InvGen, HasGen

\* A register holds the value of the write whose generation it holds.
LEMMA InvRegStep ==
    ASSUME TypeOK, TypeOK', InvReg, Advances, [Next]_vars
    PROVE  InvReg'
<1> SUFFICES ASSUME NEW co \in Coordinator
             PROVE  ConsistentNext(reg'[co].val, reg'[co].writeGen)
  BY DEF InvReg, Consistent, ConsistentNext
<1>0. /\ reg[co] \in GenerationRegVal /\ reg[co].val \in Value /\ reg[co].writeGen \in UniqueGeneration
      /\ reg[co].readGen \in UniqueGeneration
      /\ NoValue \in Value /\ Zero \in UniqueGeneration
  BY ZeroIsFirst DEF TypeOK, GenerationRegVal, Value
<1>1. ConsistentNext(reg[co].val, reg[co].writeGen)
  BY <1>0 DEF InvReg, Advances
<1>2. ASSUME NEW k \in Coordinator, NEW c \in Client, NEW answered \in BOOLEAN,
             ServeQuery(k, c, answered) \/ ServeRead(k, c, answered)
      PROVE  reg'[co].val = reg[co].val /\ reg'[co].writeGen = reg[co].writeGen
  <2>1. \E g \in UniqueGeneration : reg' = [reg EXCEPT ![k] = AfterRead(@, g)]
    BY <1>0, <1>2 DEF ServeQuery, ServeRead, TypeOK
  <2>2. reg'[co] = reg[co] \/ \E g \in UniqueGeneration : reg'[co] = AfterRead(reg[co], g)
    BY <2>1 DEF TypeOK
  <2> QED
    BY <1>0, <2>2, RegGrows
<1>3. ASSUME NEW k \in Coordinator, NEW c \in Client, NEW answered \in BOOLEAN,
             ServeWrite(k, c, answered)
      PROVE  ConsistentNext(reg'[co].val, reg'[co].writeGen)
  <2>1. reg'[co] = reg[co] \/ reg'[co] = AfterWrite(reg[co], gen[c], c)
    BY <1>3 DEF ServeWrite, TypeOK
  <2>2. c \in Value /\ gen[c] \in UniqueGeneration /\ c # NoValue
    BY NoValueAssumption DEF Value, TypeOK
  <2>3. \/ reg'[co].val = reg[co].val /\ reg'[co].writeGen = reg[co].writeGen
        \/ reg'[co].val = c /\ reg'[co].writeGen = gen[c]
    BY <1>0, <2>1, <2>2, RegGrows
  <2>4. stage'[c] >= 5 /\ gen'[c] = gen[c]
    BY <1>3 DEF ServeWrite, clientVars
  <2> QED
    BY <1>1, <2>2, <2>3, <2>4 DEF ConsistentNext
<1>4. ASSUME UNCHANGED reg
      PROVE  ConsistentNext(reg'[co].val, reg'[co].writeGen)
  BY <1>1, <1>4
<1>5. ASSUME NEW c \in Client,
             \/ StartRead(c) \/ ChooseGeneration(c) \/ FinishRead(c)
             \/ OnConflict(c) \/ FinishPoll(c)
             \/ SetExclusive(c) \/ FinishWrite(c)
      PROVE  UNCHANGED reg
  BY <1>5 DEF StartRead, ChooseGeneration, FinishRead, OnConflict, FinishPoll, SetExclusive, FinishWrite
<1>6. CASE UNCHANGED vars
  BY <1>4, <1>6 DEF vars
<1> QED
  BY <1>1, <1>2, <1>3, <1>4, <1>5, <1>6, UpAssumption DEF Next

\* An answer to a write stays true of the register it came from.
LEMMA InvWriteReplyStep ==
    ASSUME TypeOK, TypeOK', InvWriteReply, Advances, [Next]_vars
    PROVE  InvWriteReply'
<1> SUFFICES ASSUME NEW c \in Client, NEW w \in writeReply'[c]
             PROVE  /\ stage'[c] >= 5
                    /\ AtMost(gen'[c], w.gen)
                    /\ w.gen = gen'[c] => AtMost(gen'[c], reg'[w.from].writeGen)
  BY DEF InvWriteReply
<1>0. /\ w.from \in Coordinator /\ w.gen \in UniqueGeneration
      /\ gen[c] \in UniqueGeneration /\ gen'[c] \in UniqueGeneration
      /\ reg[w.from].writeGen \in UniqueGeneration /\ reg'[w.from].writeGen \in UniqueGeneration
      /\ stage[c] \in {0, 1, 2, 4, 5, 6} /\ stage'[c] \in {0, 1, 2, 4, 5, 6}
  BY DEF TypeOK, WriteReply, GenerationRegVal
<1>1. Frame(c)
  BY FrameStep
<1>2. CASE w \in writeReply[c]
  <2>1. stage[c] >= 5 /\ AtMost(gen[c], w.gen) /\ (w.gen = gen[c] => AtMost(gen[c], reg[w.from].writeGen))
    BY <1>2 DEF InvWriteReply
  <2> QED
    BY <1>0, <1>1, <2>1, GenerationOrder DEF Frame, Advances
<1>3. CASE w \notin writeReply[c]
  <2>1. ASSUME NEW k \in Coordinator, NEW d \in Client, NEW answered \in BOOLEAN,
               ServeWrite(k, d, answered)
        PROVE  /\ stage'[c] >= 5
               /\ AtMost(gen'[c], w.gen)
               /\ w.gen = gen'[c] => AtMost(gen'[c], reg'[w.from].writeGen)
    <3>1. d = c /\ w = [from |-> k, gen |-> WriteAnswer(reg[k], gen[c])]
      <4>1. \/ UNCHANGED writeReply
            \/ writeReply' = [writeReply EXCEPT ![d] =
                  @ \cup {[from |-> k, gen |-> WriteAnswer(reg[k], gen[d])]}]
        BY <2>1 DEF ServeWrite
      <4>2. writeReply \in [Client -> SUBSET WriteReply]
        BY DEF TypeOK
      <4> QED
        BY <1>3, <4>1, <4>2
    <3>2. stage[c] >= 5 /\ UNCHANGED <<stage, gen>> /\ reg' = [reg EXCEPT ![k] = AfterWrite(@, gen[c], c)]
      BY <2>1, <3>1 DEF ServeWrite, clientVars
    <3>3. reg'[k] = AfterWrite(reg[k], gen[c], c) /\ reg[k] \in GenerationRegVal /\ c \in Value
      BY <3>2 DEF TypeOK, Value
    <3>4. w.from = k /\ w.gen = WriteAnswer(reg[k], gen[c])
      BY <3>1
    <3>5. AtMost(gen[c], w.gen) /\ (w.gen = gen[c] => reg'[k].writeGen = gen[c])
      BY <1>0, <3>3, <3>4, WriteAnswered
    <3> QED
      BY <1>0, <3>2, <3>4, <3>5, GenerationOrder
  <2>2. ASSUME NEW k \in Coordinator, NEW d \in Client, NEW answered \in BOOLEAN,
               ServeQuery(k, d, answered) \/ ServeRead(k, d, answered)
        PROVE  UNCHANGED writeReply
    BY <2>2 DEF ServeQuery, ServeRead
  <2>3. ASSUME NEW d \in Client,
               \/ StartRead(d) \/ ChooseGeneration(d) \/ FinishRead(d)
               \/ OnConflict(d) \/ FinishPoll(d)
               \/ SetExclusive(d) \/ FinishWrite(d)
        PROVE  UNCHANGED writeReply
    BY <2>3 DEF StartRead, ChooseGeneration, FinishRead, OnConflict, FinishPoll, SetExclusive, FinishWrite
  <2>4. CASE UNCHANGED vars
    BY <1>3, <2>4 DEF vars
  <2> QED
    BY <1>3, <2>1, <2>2, <2>3, <2>4, UpAssumption DEF Next
<1> QED
  BY <1>2, <1>3

\* The answer to a read that a step delivers is a copy of the register the
\* step has just committed.
Copied(k, r) ==
    r = [from |-> k, val |-> reg'[k].val, gen |-> reg'[k].writeGen, rgen |-> reg'[k].readGen]

\* An answer that is still there after a step belongs to the same call; a new
\* one was sent by the coordinator that served the step.
LEMMA ReadReplyFrame ==
    ASSUME TypeOK, InvReadReply, [Next]_vars, NEW c \in Client, NEW r \in readReply'[c]
    PROVE  \/ r \in readReply[c] /\ stage'[c] = stage[c] /\ before'[c] = before[c]
           \/ \E k \in Coordinator :
                 /\ UNCHANGED <<clientVars, writeReply, before>>
                 /\ Copied(k, r)
                 /\ \/ stage[c] \in {1, 4}
                    \/ stage[c] = 2 /\ reg' = [reg EXCEPT ![k] = AfterRead(@, gen[c])]
<1>0. /\ readReply \in [Client -> SUBSET ReadReply]
      /\ stage \in [Client -> {0, 1, 2, 4, 5, 6}]
      /\ before \in [Client -> SUBSET Client]
  BY DEF TypeOK
<1>1. r \in readReply[c] => stage[c] \in {1, 2, 4}
  BY DEF InvReadReply
<1> DEFINE Old == r \in readReply[c] /\ stage'[c] = stage[c] /\ before'[c] = before[c]
           New == \E k \in Coordinator :
                     /\ UNCHANGED <<clientVars, writeReply, before>>
                     /\ Copied(k, r)
                     /\ \/ stage[c] \in {1, 4}
                        \/ stage[c] = 2 /\ reg' = [reg EXCEPT ![k] = AfterRead(@, gen[c])]
<1>2. ASSUME NEW k \in Coordinator, NEW d \in Client, NEW answered \in BOOLEAN,
             ServeQuery(k, d, answered)
      PROVE  Old \/ New
  <2>1. /\ UNCHANGED <<clientVars, writeReply, before>>
        /\ stage[d] \in {1, 4}
        /\ \/ UNCHANGED readReply
           \/ readReply' = [readReply EXCEPT ![d] =
                 @ \cup {[from |-> k, val |-> reg'[k].val, gen |-> reg'[k].writeGen, rgen |-> reg'[k].readGen]}]
    BY <1>2 DEF ServeQuery, DeliverRead
  <2>2. r \in readReply[c] \/ (d = c /\ Copied(k, r))
    BY <1>0, <2>1 DEF Copied
  <2> QED
    BY <2>1, <2>2 DEF clientVars
<1>3. ASSUME NEW k \in Coordinator, NEW d \in Client, NEW answered \in BOOLEAN,
             ServeRead(k, d, answered)
      PROVE  Old \/ New
  <2>1. /\ UNCHANGED <<clientVars, writeReply, before>>
        /\ reg' = [reg EXCEPT ![k] = AfterRead(@, gen[d])]
        /\ \/ UNCHANGED readReply
           \/ stage[d] = 2 /\ readReply' = [readReply EXCEPT ![d] =
                 @ \cup {[from |-> k, val |-> reg'[k].val, gen |-> reg'[k].writeGen, rgen |-> reg'[k].readGen]}]
    BY <1>3 DEF ServeRead, DeliverRead
  <2>2. r \in readReply[c] \/ (d = c /\ stage[d] = 2 /\ Copied(k, r))
    BY <1>0, <2>1 DEF Copied
  <2> QED
    BY <2>1, <2>2 DEF clientVars
<1>4. ASSUME NEW k \in Coordinator, NEW d \in Client, NEW answered \in BOOLEAN,
             ServeWrite(k, d, answered)
      PROVE  Old
  BY <1>4 DEF ServeWrite, clientVars
<1>5. ASSUME NEW d \in Client, StartRead(d) PROVE Old
  <2>1. /\ stage[d] = 0 /\ stage' = [stage EXCEPT ![d] = 1] /\ UNCHANGED readReply
        /\ \E x : before' = [before EXCEPT ![d] = x]
    BY <1>5 DEF StartRead
  <2> QED
    BY <1>0, <1>1, <2>1
<1>6. ASSUME NEW d \in Client,
             \/ ChooseGeneration(d) \/ FinishRead(d) \/ SetExclusive(d)
      PROVE Old
  <2>1. /\ \E x : stage' = [stage EXCEPT ![d] = x]
        /\ readReply' = [readReply EXCEPT ![d] = {}] /\ UNCHANGED before
    BY <1>6 DEF ChooseGeneration, FinishRead, SetExclusive
  <2> QED
    BY <1>0, <2>1
<1>7. ASSUME NEW d \in Client, OnConflict(d) PROVE Old
  BY <1>7 DEF OnConflict
<1>8. ASSUME NEW d \in Client, FinishPoll(d) PROVE Old
  <2>1. UNCHANGED <<stage, before>> /\ readReply' = [readReply EXCEPT ![d] = {}]
    BY <1>8 DEF FinishPoll
  <2> QED
    BY <1>0, <2>1
<1>9. ASSUME NEW d \in Client, FinishWrite(d) PROVE Old
  <2>1. stage[d] = 5 /\ stage' = [stage EXCEPT ![d] = 6] /\ UNCHANGED <<readReply, before>>
    BY <1>9 DEF FinishWrite
  <2> QED
    BY <1>0, <1>1, <2>1
<1>10. CASE UNCHANGED vars
  BY <1>10 DEF vars
<1>11. Old \/ New
  BY <1>2, <1>3, <1>4, <1>5, <1>6, <1>7, <1>8, <1>9, <1>10, UpAssumption DEF Next
<1> QED
  BY <1>11

\* An answer to a read keeps its meaning while its client waits.
LEMMA InvReadReplyStep ==
    ASSUME TypeOK, TypeOK', InvGen, InvReg', InvReadReply, InvWriteReply, InvWriteReply',
           InvOutcome, InvBefore, Advances, [Next]_vars
    PROVE  InvReadReply'
<1> SUFFICES ASSUME NEW c \in Client, NEW r \in readReply'[c]
             PROVE  /\ stage'[c] \in {1, 2, 4}
                    /\ ConsistentNext(r.val, r.gen)
                    /\ stage'[c] = 1 =>
                          \A d \in before'[c] : Acknowledged(r.from, d)' => AtMost(gen'[d], r.gen)
                    /\ stage'[c] = 2 =>
                          /\ AtMost(gen'[c], reg'[r.from].readGen)
                          /\ \A d \in Client : HasGen(d)' /\ Before(gen'[d], gen'[c]) =>
                                AtMost(gen'[d], r.gen) \/ BlockedAt(r.from, d)'
  BY DEF InvReadReply, Consistent, ConsistentNext, Acknowledged, BlockedAt
<1>0. /\ r \in ReadReply /\ r.from \in Coordinator /\ r.gen \in UniqueGeneration /\ r.val \in Value
      /\ \A d \in Client : /\ gen[d] \in UniqueGeneration /\ gen'[d] \in UniqueGeneration
                           /\ stage[d] \in {0, 1, 2, 4, 5, 6} /\ stage'[d] \in {0, 1, 2, 4, 5, 6}
      /\ before[c] \subseteq Client /\ before'[c] \subseteq Client
      /\ \A co \in Coordinator :
            /\ reg[co] \in GenerationRegVal /\ reg'[co] \in GenerationRegVal
            /\ reg[co].readGen \in UniqueGeneration /\ reg'[co].readGen \in UniqueGeneration
            /\ reg'[co].writeGen \in UniqueGeneration
  BY DEF TypeOK, ReadReply, GenerationRegVal
<1>1. \A d \in Client : Frame(d)
  BY FrameStep
<1>2. CASE r \in readReply[c] /\ stage'[c] = stage[c] /\ before'[c] = before[c]
  <2>1. stage[c] \in {1, 2, 4} /\ ConsistentNext(r.val, r.gen)
    BY <1>0, <1>2 DEF InvReadReply, Advances
  <2>2. ASSUME stage[c] = 1, NEW d \in before[c], Acknowledged(r.from, d)'
        PROVE  AtMost(gen'[d], r.gen)
    <3>1. stage[d] = 6 /\ d \in Client
      BY <1>0 DEF InvBefore, InvOutcome
    <3>2. writeReply'[d] = writeReply[d] /\ gen'[d] = gen[d]
      BY <1>1, <3>1 DEF Frame
    <3> QED
      BY <1>2, <2>2, <3>2 DEF InvReadReply, Acknowledged
  <2>3. ASSUME stage[c] = 2
        PROVE  AtMost(gen'[c], reg'[r.from].readGen) /\ gen'[c] = gen[c]
    <3>1. gen'[c] = gen[c]
      BY <1>1, <2>3 DEF Frame
    <3>2. AtMost(gen[c], reg[r.from].readGen)
      BY <1>2, <2>3 DEF InvReadReply
    <3> QED
      BY <1>0, <3>1, <3>2, GenerationOrder DEF Advances
  <2>4. ASSUME stage[c] = 2, NEW d \in Client, HasGen(d)', Before(gen'[d], gen'[c])
        PROVE  AtMost(gen'[d], r.gen) \/ BlockedAt(r.from, d)'
    <3>1. CASE HasGen(d)
      <4>1. gen'[d] = gen[d] /\ gen'[c] = gen[c]
        BY <1>1, <2>4, <3>1 DEF Frame, HasGen
      <4>2. AtMost(gen[d], r.gen) \/ BlockedAt(r.from, d)
        BY <1>2, <2>4, <3>1, <4>1 DEF InvReadReply
      <4> QED
        BY <1>0, <3>1, <4>1, <4>2 DEF Advances
    <3>2. CASE ~ HasGen(d)
      <4>1. writeReply[d] = {}
        BY <1>0, <3>2 DEF InvWriteReply, HasGen
      <4>2. writeReply'[d] = {}
        BY <1>0, <1>1, <3>2, <4>1 DEF Frame, HasGen
      <4>3. Before(gen'[d], reg'[r.from].readGen)
        BY <1>0, <2>3, <2>4, GenerationOrder
      <4> QED
        BY <4>2, <4>3 DEF BlockedAt, Acknowledged
    <3> QED
      BY <3>1, <3>2
  <2> QED
    BY <1>2, <2>1, <2>2, <2>3, <2>4
<1>3. ASSUME NEW k \in Coordinator,
             UNCHANGED <<clientVars, writeReply, before>>,
             Copied(k, r),
             \/ stage[c] \in {1, 4}
             \/ stage[c] = 2 /\ reg' = [reg EXCEPT ![k] = AfterRead(@, gen[c])]
      PROVE  /\ stage'[c] \in {1, 2, 4}
             /\ ConsistentNext(r.val, r.gen)
             /\ stage'[c] = 1 =>
                   \A d \in before'[c] : Acknowledged(r.from, d)' => AtMost(gen'[d], r.gen)
             /\ stage'[c] = 2 =>
                   /\ AtMost(gen'[c], reg'[r.from].readGen)
                   /\ \A d \in Client : HasGen(d)' /\ Before(gen'[d], gen'[c]) =>
                         AtMost(gen'[d], r.gen) \/ BlockedAt(r.from, d)'
  <2>1. r.from = k /\ r.val = reg'[k].val /\ r.gen = reg'[k].writeGen
    BY <1>3 DEF Copied
  <2>2. stage'[c] = stage[c] /\ stage[c] \in {1, 2, 4} /\ ConsistentNext(r.val, r.gen)
    BY <1>3, <2>1 DEF InvReg, Consistent, ConsistentNext, clientVars
  <2>3. ASSUME NEW d \in Client, Acknowledged(k, d)'
        PROVE  AtMost(gen'[d], reg'[k].writeGen)
    BY <2>3 DEF InvWriteReply, Acknowledged
  <2>4. ASSUME stage[c] = 2
        PROVE  AtMost(gen'[c], reg'[k].readGen)
    <3>1. reg'[k] = AfterRead(reg[k], gen[c]) /\ gen'[c] = gen[c]
      BY <1>3, <2>4 DEF TypeOK, clientVars
    <3>2. NoValue \in Value
      BY DEF Value
    <3> QED
      BY <1>0, <3>1, <3>2, RegGrows
  <2>5. ASSUME stage[c] = 2, NEW d \in Client, Before(gen'[d], gen'[c])
        PROVE  AtMost(gen'[d], r.gen) \/ BlockedAt(k, d)'
    <3>1. Before(gen'[d], reg'[k].readGen)
      BY <1>0, <2>4, <2>5, GenerationOrder
    <3> QED
      BY <2>1, <2>3, <3>1 DEF BlockedAt
  <2> QED
    BY <1>0, <2>1, <2>2, <2>3, <2>4, <2>5
<1> QED
  BY <1>2, <1>3, ReadReplyFrame

\* What replicatedRead returns: a read quorum answered, and the best answer is
\* at least as late as each of them.
LEMMA ReplicatedReadFacts ==
    ASSUME TypeOK, NEW c \in Client, NEW b \in readReply[c], ReplicatedRead(c, b)
    PROVE  \E R \in SUBSET readReply[c] :
              /\ Senders(R) \in SUBSET Coordinator
              /\ ReadQuorum(Senders(R))
              /\ \A r \in R, g \in UniqueGeneration :
                    g.generation > 0 /\ AtMost(g, r.gen) => AtMost(g, b.gen)
<1>1. PICK R \in SUBSET readReply[c] :
         \/ MajorityEmpty(R) /\ BestEmpty(R, b)
         \/ MajorityNonEmpty(R) /\ BestNonEmpty(R, b)
  BY DEF ReplicatedRead
<1>2. \A r \in R : r \in ReadReply /\ r.from \in Coordinator /\ r.gen \in UniqueGeneration
  BY DEF TypeOK, ReadReply
<1>3. Senders(R) \in SUBSET Coordinator
  BY <1>2 DEF Senders
<1>4. b.gen \in UniqueGeneration
  BY DEF TypeOK, ReadReply
<1>5. CASE MajorityEmpty(R)
  <2>1. ReadQuorum(Senders(R))
    BY <1>5 DEF MajorityEmpty, ReadQuorum
  <2>2. ASSUME NEW r \in R, NEW g \in UniqueGeneration, g.generation > 0 PROVE ~ AtMost(g, r.gen)
    BY <1>2, <1>5, <2>2 DEF MajorityEmpty, IsEmpty, AtMost, Before, UniqueGeneration
  <2> QED
    BY <1>3, <2>1, <2>2
<1>6. CASE MajorityNonEmpty(R) /\ BestNonEmpty(R, b)
  <2>1. ReadQuorum(Senders(R))
    <3>1. IsFiniteSet(Senders(R)) /\ IsFiniteSet(Coordinator)
      BY <1>3, CoordinatorAssumption, FS_Subset
    <3>2. Cardinality(Senders(R)) \in Nat /\ Cardinality(Coordinator) \in Nat
      BY <3>1, FS_CardinalityType
    <3>3. Cardinality(Senders(R)) >= Cardinality(Coordinator) \div 2 + 1
      BY <1>6 DEF MajorityNonEmpty
    <3>4. \A n \in Nat : n \div 2 + 1 >= (n + 1) \div 2
      OBVIOUS
    <3> QED
      BY <3>2, <3>3, <3>4 DEF ReadQuorum
  <2>2. \A r \in R : AtMost(r.gen, b.gen)
    BY <1>2, <1>4, <1>6, GenerationOrder DEF BestNonEmpty
  <2> QED
    BY <1>2, <1>3, <1>4, <2>1, <2>2, GenerationOrder
<1> QED
  BY <1>1, <1>5, <1>6

\* A client that has not written and meets a later write is stuck: that write
\* was preceded by a read which made a quorum refuse earlier generations.
LEMMA LaterWriteBlocks ==
    ASSUME TypeOK, InvGen, InvReadReply, InvWriteReply, InvSeen,
           NEW c \in Client, HasGen(c), stage[c] < 5,
           NEW b \in readReply[c], Before(gen[c], b.gen)
    PROVE  Stuck(c)
<1>0. /\ \A d \in Client : gen[d] \in UniqueGeneration /\ stage[d] \in {0, 1, 2, 4, 5, 6}
      /\ b.val \in Value /\ b.gen \in UniqueGeneration
      /\ \A co \in Coordinator : reg[co].readGen \in UniqueGeneration
  BY DEF TypeOK, ReadReply, GenerationRegVal
<1>1. b.gen # Zero
  BY <1>0, ZeroIsFirst, GenerationOrder
<1>2. b.val \in Client /\ stage[b.val] >= 5 /\ gen[b.val] = b.gen
  BY <1>0, <1>1 DEF InvReadReply, Consistent, Value
<1>3. stage[b.val] >= 4
  BY <1>0, <1>2
<1>4. PICK S \in SUBSET Coordinator :
         ReadQuorum(S) /\ \A co \in S : AtMost(b.gen, reg[co].readGen)
  BY <1>2, <1>3 DEF InvSeen
<1>5. \A co \in S : Before(gen[c], reg[co].readGen)
  BY <1>0, <1>4, GenerationOrder
<1>6. \A co \in S : ~ Acknowledged(co, c)
  BY <1>0 DEF InvWriteReply, Acknowledged
<1> QED
  BY <1>4, <1>5, <1>6 DEF Stuck, BlockedAt

\* What a read returned stays a fact about every earlier write.
LEMMA InvSeenStep ==
    ASSUME TypeOK, TypeOK', InvGen, InvReadReply, InvWriteReply, InvSeen, Advances, [Next]_vars
    PROVE  InvSeen'
<1> SUFFICES ASSUME NEW c \in Client, stage'[c] >= 4
             PROVE  /\ ConsistentNext(seen'[c].val, seen'[c].gen)
                    /\ seen'[c].val # c
                    /\ doomed'[c] = Before(gen'[c], seen'[c].gen)
                    /\ \E S \in SUBSET Coordinator :
                          ReadQuorum(S) /\ \A co \in S : AtMost(gen'[c], reg'[co].readGen)
                    /\ \A d \in Client : HasGen(d)' /\ Before(gen'[d], gen'[c]) =>
                          AtMost(gen'[d], seen'[c].gen) \/ Stuck(d)'
  BY DEF InvSeen, Consistent, ConsistentNext, ReadQuorum, HasGen, Stuck, BlockedAt, Acknowledged
<1>0. /\ \A d \in Client : /\ gen[d] \in UniqueGeneration /\ gen'[d] \in UniqueGeneration
                           /\ stage[d] \in {0, 1, 2, 4, 5, 6} /\ stage'[d] \in {0, 1, 2, 4, 5, 6}
      /\ \A co \in Coordinator :
            reg[co].readGen \in UniqueGeneration /\ reg'[co].readGen \in UniqueGeneration
      /\ seen[c].val \in Value /\ seen[c].gen \in UniqueGeneration
  BY DEF TypeOK, GenerationRegVal
<1>1. \A d \in Client : Frame(d)
  BY FrameStep
<1>2. CASE stage[c] >= 4
  <2>1. seen'[c] = seen[c] /\ doomed'[c] = doomed[c] /\ gen'[c] = gen[c]
    BY <1>0, <1>1, <1>2 DEF Frame
  <2>2. /\ ConsistentNext(seen'[c].val, seen'[c].gen)
        /\ seen'[c].val # c
        /\ doomed'[c] = Before(gen'[c], seen'[c].gen)
    BY <1>0, <1>2, <2>1 DEF InvSeen, Advances
  <2>3. PICK S \in SUBSET Coordinator :
           ReadQuorum(S) /\ \A co \in S : AtMost(gen[c], reg[co].readGen)
    BY <1>2 DEF InvSeen
  <2>4. \A co \in S : AtMost(gen'[c], reg'[co].readGen)
    BY <1>0, <2>1, <2>3, GenerationOrder DEF Advances
  <2>5. ASSUME NEW d \in Client, HasGen(d)', Before(gen'[d], gen'[c])
        PROVE  AtMost(gen'[d], seen'[c].gen) \/ Stuck(d)'
    <3>1. CASE HasGen(d)
      <4>1. gen'[d] = gen[d]
        BY <1>1, <3>1 DEF Frame, HasGen
      <4>2. AtMost(gen[d], seen[c].gen) \/ Stuck(d)
        BY <1>2, <2>1, <2>5, <3>1, <4>1 DEF InvSeen
      <4> QED
        BY <2>1, <3>1, <4>1, <4>2 DEF Advances
    <3>2. CASE ~ HasGen(d)
      <4>1. writeReply'[d] = {}
        BY <1>0, <1>1, <3>2 DEF InvWriteReply, HasGen, Frame
      <4>2. \A co \in S : Before(gen'[d], reg'[co].readGen)
        BY <1>0, <2>4, <2>5, GenerationOrder
      <4>3. \A co \in S : BlockedAt(co, d)'
        BY <4>1, <4>2 DEF BlockedAt, Acknowledged
      <4> QED
        BY <2>3, <4>3 DEF Stuck, ReadQuorum
    <3> QED
      BY <3>1, <3>2
  <2> QED
    BY <2>2, <2>3, <2>4, <2>5
<1>3. CASE stage[c] < 4
  <2>1. FinishRead(c)
    BY <1>1, <1>3 DEF Frame
  <2>2. PICK b \in readReply[c] :
          /\ ReplicatedRead(c, b)
          /\ doomed' = [doomed EXCEPT ![c] = IsDoomed(c, b)]
          /\ seen' = [seen EXCEPT ![c] = [val |-> b.val, gen |-> b.gen, rgen |-> b.rgen]]
    BY <2>1 DEF FinishRead
  <2>3. /\ stage[c] = 2 /\ UNCHANGED <<reg, gen, writeReply>>
        /\ stage' = [stage EXCEPT ![c] = 4]
    BY <2>1 DEF FinishRead
  <2>4. /\ seen'[c].val = b.val /\ seen'[c].gen = b.gen
        /\ doomed'[c] = Before(gen[c], b.gen)
        /\ b.val \in Value /\ b.gen \in UniqueGeneration
    BY <2>2 DEF IsDoomed, TypeOK, ReadReply
  <2>5. Consistent(b.val, b.gen)
    BY DEF InvReadReply
  <2>6. ConsistentNext(b.val, b.gen)
    BY <2>4, <2>5 DEF Advances
  <2>7. b.val # c
    BY <2>3, <2>5, NoValueAssumption DEF Consistent
  <2>8. PICK R \in SUBSET readReply[c] :
              /\ Senders(R) \in SUBSET Coordinator
              /\ ReadQuorum(Senders(R))
              /\ \A r \in R, g \in UniqueGeneration :
                    g.generation > 0 /\ AtMost(g, r.gen) => AtMost(g, b.gen)
    BY <2>2, ReplicatedReadFacts
  <2>9. \A co \in Senders(R) : AtMost(gen[c], reg[co].readGen)
    BY <2>3, <2>8 DEF Senders, InvReadReply
  <2>10. ASSUME NEW d \in Client, HasGen(d), Before(gen[d], gen[c])
         PROVE  AtMost(gen[d], b.gen) \/ Stuck(d)
    <3>1. \A r \in R : AtMost(gen[d], r.gen) \/ BlockedAt(r.from, d)
      BY <2>3, <2>8, <2>10 DEF InvReadReply
    <3>2. gen[d].generation > 0
      BY <2>10 DEF InvGen
    <3>3. CASE \E r \in R : AtMost(gen[d], r.gen)
      BY <1>0, <2>8, <3>2, <3>3
    <3>4. CASE \A r \in R : BlockedAt(r.from, d)
      <4>1. \A co \in Senders(R) : BlockedAt(co, d)
        BY <3>4 DEF Senders
      <4> QED
        BY <2>8, <4>1 DEF Stuck
    <3> QED
      BY <3>1, <3>3, <3>4
  <2>11. ASSUME NEW d \in Client, HasGen(d)', Before(gen'[d], gen'[c])
         PROVE  AtMost(gen'[d], seen'[c].gen) \/ Stuck(d)'
    <3>1. HasGen(d) /\ gen'[d] = gen[d] /\ gen'[c] = gen[c]
      BY <1>0, <2>3, <2>11 DEF HasGen
    <3> QED
      BY <2>4, <2>10, <2>11, <3>1 DEF Advances
  <2> QED
    BY <2>3, <2>4, <2>6, <2>7, <2>8, <2>9, <2>11
<1> QED
  BY <1>0, <1>2, <1>3

\* A conflict that was noticed is a conflict for good.
LEMMA InvConflictStep ==
    ASSUME TypeOK, TypeOK', InvGen, InvReadReply, InvWriteReply, InvSeen, InvConflict,
           Advances, [Next]_vars
    PROVE  InvConflict'
<1> SUFFICES ASSUME NEW c \in Client, doomed'[c] \/ conflict'[c] = "returned"
             PROVE  stage'[c] >= 4 /\ Stuck(c)'
  BY DEF InvConflict
<1>0. /\ stage[c] \in {0, 1, 2, 4, 5, 6} /\ stage'[c] \in {0, 1, 2, 4, 5, 6}
      /\ doomed \in [Client -> BOOLEAN] /\ doomed' \in [Client -> BOOLEAN]
      /\ conflict \in [Client -> {"idle", "polling", "returned"}]
  BY DEF TypeOK
<1>1. Frame(c)
  BY FrameStep
<1>2. CASE doomed[c] \/ conflict[c] = "returned"
  <2>1. stage[c] >= 4 /\ Stuck(c)
    BY <1>2 DEF InvConflict
  <2> QED
    BY <1>0, <1>1, <2>1 DEF Frame, Advances, HasGen
<1>3. CASE ~ doomed[c] /\ conflict[c] # "returned" /\ doomed'[c]
  <2>0. doomed'[c] # doomed[c]
    BY <1>3, Zenon
  <2>1. FinishRead(c)
    <3>1. stage[c] < 4 /\ stage'[c] >= 4
      BY <1>0, <1>1, <2>0 DEF Frame
    <3> QED
      BY <1>1, <3>1 DEF Frame
  <2>2. PICK b \in readReply[c] : doomed' = [doomed EXCEPT ![c] = IsDoomed(c, b)]
    BY <2>1 DEF FinishRead
  <2>3. stage[c] = 2 /\ stage'[c] = 4
    BY <2>1 DEF FinishRead, TypeOK
  <2>4. Before(gen[c], b.gen)
    BY <1>0, <1>3, <2>2 DEF IsDoomed
  <2>5. Stuck(c)
    BY <2>3, <2>4, LaterWriteBlocks DEF HasGen
  <2> QED
    BY <2>3, <2>5 DEF Advances, HasGen
<1>4. CASE ~ doomed[c] /\ ~ doomed'[c] /\ conflict[c] # "returned" /\ conflict'[c] = "returned"
  <2>1. OnConflict(c) \/ FinishPoll(c)
    BY <1>1, <1>4 DEF Frame
  <2>2. ASSUME OnConflict(c) PROVE FALSE
    BY <1>0, <1>4, <2>2 DEF OnConflict
  <2>3. FinishPoll(c)
    BY <2>1, <2>2
  <2>4. PICK b \in readReply[c] :
           conflict' = [conflict EXCEPT ![c] = IF IsDoomed(c, b) THEN "returned" ELSE @]
    BY <2>3 DEF FinishPoll
  <2>5. stage[c] = 4 /\ stage'[c] = 4
    BY <2>3 DEF FinishPoll
  <2>6. Before(gen[c], b.gen)
    BY <1>0, <1>4, <2>4 DEF IsDoomed
  <2>7. Stuck(c)
    BY <2>5, <2>6, LaterWriteBlocks DEF HasGen
  <2> QED
    BY <2>5, <2>7 DEF Advances, HasGen
<1> QED
  BY <1>2, <1>3, <1>4

\* setExclusive() returns Void only after a majority acknowledged the write.
LEMMA InvOutcomeStep ==
    ASSUME TypeOK, TypeOK', InvWriteReply, InvOutcome, Advances, [Next]_vars
    PROVE  InvOutcome'
<1> SUFFICES ASSUME NEW c \in Client
             PROVE  /\ stage'[c] = 6 <=> outcome'[c] # "none"
                    /\ outcome'[c] = "success" =>
                          MajorityOf({co \in Coordinator : Acknowledged(co, c)'})
  BY DEF InvOutcome, MajorityOf
<1> DEFINE A == {co \in Coordinator : Acknowledged(co, c)}
           B == {co \in Coordinator : Acknowledged(co, c)'}
<1>0. /\ stage[c] \in {0, 1, 2, 4, 5, 6} /\ stage'[c] \in {0, 1, 2, 4, 5, 6}
      /\ outcome \in [Client -> {"none", "success", "conflict"}]
      /\ gen[c] \in UniqueGeneration
  BY DEF TypeOK
<1>1. Frame(c)
  BY FrameStep
<1>2. ASSUME NEW S \in SUBSET Coordinator, NEW T \in SUBSET Coordinator, S \subseteq T, MajorityOf(S)
      PROVE  MajorityOf(T)
  <2>1. IsFiniteSet(T) /\ IsFiniteSet(S) /\ IsFiniteSet(Coordinator)
    BY CoordinatorAssumption, FS_Subset
  <2>2. Cardinality(S) <= Cardinality(T) /\ Cardinality(S) \in Nat /\ Cardinality(T) \in Nat
        /\ Cardinality(Coordinator) \in Nat
    BY <1>2, <2>1, FS_Subset, FS_CardinalityType
  <2> QED
    BY <1>2, <2>2 DEF MajorityOf
<1>3. ASSUME outcome'[c] = outcome[c]
      PROVE  /\ stage'[c] = 6 <=> outcome'[c] # "none"
             /\ outcome'[c] = "success" => MajorityOf(B)
  <2>1. stage[c] < 6 /\ stage'[c] = 6 => FALSE
    <3>1. ASSUME FinishWrite(c) PROVE outcome'[c] # "none" /\ stage[c] = 5
      <4>1. \/ outcome' = [outcome EXCEPT ![c] = "success"]
            \/ outcome' = [outcome EXCEPT ![c] = "conflict"]
        BY <3>1, Zenon DEF FinishWrite
      <4>2. stage[c] = 5
        BY <3>1 DEF FinishWrite
      <4> QED
        BY <1>0, <4>1, <4>2
    <3>2. stage[c] < 6 /\ stage'[c] = 6 => FinishWrite(c)
      BY <1>1 DEF Frame
    <3>3. stage[c] = 6 <=> outcome[c] # "none"
      BY DEF InvOutcome
    <3> QED
      BY <1>3, <3>1, <3>2, <3>3
  <2>2. stage'[c] = 6 <=> outcome'[c] # "none"
    <3>1. stage[c] = 6 <=> outcome[c] # "none"
      BY DEF InvOutcome
    <3>2. stage'[c] >= stage[c]
      BY <1>1 DEF Frame
    <3> QED
      BY <1>0, <1>3, <2>1, <3>1, <3>2
  <2>3. ASSUME outcome'[c] = "success" PROVE MajorityOf(B)
    <3>1. MajorityOf(A) /\ stage[c] = 6
      BY <1>3, <2>3 DEF InvOutcome
    <3>2. A \subseteq B
      BY <3>1 DEF Advances, HasGen
    <3> QED
      BY <1>2, <3>1, <3>2
  <2> QED
    BY <2>2, <2>3
<1>4. ASSUME outcome'[c] # outcome[c]
      PROVE  /\ stage'[c] = 6 <=> outcome'[c] # "none"
             /\ outcome'[c] = "success" => MajorityOf(B)
  <2>1. FinishWrite(c)
    BY <1>1, <1>4 DEF Frame
  <2>2. stage[c] = 5 /\ stage'[c] = 6 /\ UNCHANGED <<gen, writeReply>>
    BY <2>1 DEF FinishWrite, TypeOK
  <2>3. PICK W \in SUBSET writeReply[c] : \E w \in W :
          /\ Cardinality(Senders(W)) >= WriteQuorum(c)
          /\ \A r \in W : AtMost(r.gen, w.gen)
          /\ IF w.gen = gen[c] THEN outcome' = [outcome EXCEPT ![c] = "success"]
                               ELSE outcome' = [outcome EXCEPT ![c] = "conflict"]
    BY <2>1, Zenon DEF FinishWrite
  <2>4. outcome'[c] # "none"
    BY <1>0, <2>3
  <2>5. ASSUME outcome'[c] = "success" PROVE MajorityOf(B)
    <3>1. PICK w \in W : w.gen = gen[c] /\ \A r \in W : AtMost(r.gen, w.gen)
      BY <1>0, <2>3, <2>5
    <3>2. \A r \in W : r.from \in Coordinator /\ r.gen \in UniqueGeneration
                      /\ r = [from |-> r.from, gen |-> r.gen]
      BY DEF TypeOK, WriteReply
    <3>3. \A r \in W : r.gen = gen[c]
      BY <1>0, <3>1, <3>2, GenerationOrder DEF InvWriteReply
    <3>4. \A r \in W : [from |-> r.from, gen |-> gen[c]] \in writeReply[c]
      BY <3>2, <3>3
    <3>5. Senders(W) \subseteq B /\ Senders(W) \subseteq Coordinator
      BY <2>2, <3>2, <3>4 DEF Senders, Acknowledged
    <3>6. MajorityOf(Senders(W))
      <4>1. Cardinality(Coordinator) \in Nat \ {0}
        BY CoordinatorAssumption, FS_CardinalityType, FS_EmptySet
      <4>2. \A n \in Nat \ {0} : n >= n \div 2 + 1
        OBVIOUS
      <4>3. Cardinality(Senders(W)) \in Nat
        BY <3>5, CoordinatorAssumption, FS_Subset, FS_CardinalityType
      <4>4. Cardinality(Senders(W)) >= WriteQuorum(c)
        BY <2>3
      <4> QED
        BY <4>1, <4>2, <4>3, <4>4 DEF MajorityOf, WriteQuorum
    <3> QED
      BY <1>2, <3>5, <3>6
  <2> QED
    BY <2>2, <2>4, <2>5
<1> QED
  BY <1>3, <1>4

\* A client chooses a generation later than every write that had succeeded
\* when its read began.
LEMMA InvBeforeStep ==
    ASSUME TypeOK, TypeOK', InvGen, InvReadReply, InvOutcome, InvBefore, Advances, [Next]_vars
    PROVE  InvBefore'
<1> SUFFICES ASSUME NEW c \in Client, NEW d \in before'[c]
             PROVE  outcome'[d] = "success" /\ (HasGen(c)' => Before(gen'[d], gen'[c]))
  BY DEF InvBefore
<1>0. /\ d \in Client
      /\ \A x \in Client : gen[x] \in UniqueGeneration /\ gen'[x] \in UniqueGeneration
                           /\ stage[x] \in {0, 1, 2, 4, 5, 6} /\ stage'[x] \in {0, 1, 2, 4, 5, 6}
  BY DEF TypeOK
<1>1. \A x \in Client : Frame(x)
  BY FrameStep
<1>2. ASSUME outcome[d] = "success" PROVE outcome'[d] = "success" /\ stage[d] = 6 /\ gen'[d] = gen[d]
  <2>1. stage[d] = 6
    BY <1>0, <1>2 DEF InvOutcome
  <2>2. ASSUME FinishWrite(d) PROVE FALSE
    BY <2>1, <2>2 DEF FinishWrite
  <2> QED
    BY <1>0, <1>1, <1>2, <2>1, <2>2 DEF Frame
<1>3. CASE d \in before[c]
  <2>1. outcome[d] = "success"
    BY <1>3 DEF InvBefore
  <2>2. ASSUME HasGen(c) PROVE Before(gen'[d], gen'[c])
    BY <1>1, <1>2, <1>3, <2>1, <2>2 DEF InvBefore, Frame, HasGen
  <2>3. ASSUME ~ HasGen(c), HasGen(c)' PROVE Before(gen'[d], gen'[c])
    <3>1. ChooseGeneration(c)
      BY <1>0, <1>1, <2>3 DEF Frame, HasGen
    <3>2. PICK b \in readReply[c], u \in Uid :
            /\ ReplicatedRead(c, b)
            /\ gen' = [gen EXCEPT ![c] =
                  [generation |-> MaxNat(conflictGen[c], HighestIn(b)) + 1, uid |-> u]]
      BY <3>1 DEF ChooseGeneration
    <3>3. PICK R \in SUBSET readReply[c] :
              /\ Senders(R) \in SUBSET Coordinator
              /\ ReadQuorum(Senders(R))
              /\ \A r \in R, g \in UniqueGeneration :
                    g.generation > 0 /\ AtMost(g, r.gen) => AtMost(g, b.gen)
      BY <3>2, ReplicatedReadFacts
    <3>4. Senders(R) \cap {co \in Coordinator : Acknowledged(co, d)} # {}
      <4>1. MajorityOf({co \in Coordinator : Acknowledged(co, d)})
        BY <1>0, <2>1 DEF InvOutcome
      <4> QED
        BY <3>3, <4>1, QuorumsMeet
    <3>5. PICK r \in R : Acknowledged(r.from, d)
      BY <3>4 DEF Senders
    <3>6. stage[c] = 1
      BY <3>1 DEF ChooseGeneration
    <3>7. AtMost(gen[d], r.gen)
      BY <1>3, <3>5, <3>6 DEF InvReadReply
    <3>8. gen[d].generation > 0
      BY <1>0, <1>2, <2>1 DEF InvGen, HasGen
    <3>9. AtMost(gen[d], b.gen)
      BY <1>0, <3>3, <3>7, <3>8
    <3>10. gen'[c].generation = MaxNat(conflictGen[c], HighestIn(b)) + 1
      BY <3>2 DEF TypeOK
    <3>11. /\ b.gen.generation \in Nat /\ gen[d].generation \in Nat
           /\ MaxNat(conflictGen[c], HighestIn(b)) \in Nat
           /\ MaxNat(conflictGen[c], HighestIn(b)) >= b.gen.generation
      BY DEF TypeOK, ReadReply, UniqueGeneration, HighestIn, MaxNat
    <3>12. gen[d].generation <= b.gen.generation
      BY <3>9, <3>11 DEF AtMost, Before
    <3>13. gen'[d] = gen[d]
      BY <1>2, <2>1
    <3> QED
      BY <3>10, <3>11, <3>12, <3>13 DEF Before
  <2> QED
    BY <1>2, <2>1, <2>2, <2>3
<1>4. CASE d \notin before[c]
  <2>1. StartRead(c)
    BY <1>1, <1>4 DEF Frame
  <2>2. outcome[d] = "success" /\ stage'[c] = 1
    BY <2>1 DEF StartRead, TypeOK
  <2> QED
    BY <1>2, <2>2 DEF HasGen
<1> QED
  BY <1>3, <1>4
-----------------------------------------------------------------------------
(***************************************************************************)
(* The theorems.                                                           *)
(***************************************************************************)

\* The inductive invariant holds when every register is empty and no client has
\* started.
LEMMA InitIInv == Init => IInv
<1> SUFFICES ASSUME Init PROVE IInv
  OBVIOUS
<1>1. TypeOK
  BY ZeroIsFirst DEF Init, TypeOK, EmptyReg, NothingSeen, GenerationRegVal, Value
<1>2. InvGen /\ InvReadReply /\ InvWriteReply /\ InvSeen /\ InvConflict /\ InvOutcome /\ InvBefore
  BY DEF Init, InvGen, HasGen, InvReadReply, InvWriteReply, InvSeen, InvConflict, InvOutcome, InvBefore
<1>3. InvReg
  BY DEF Init, InvReg, Consistent, EmptyReg
<1> QED
  BY <1>1, <1>2, <1>3 DEF IInv

\* Every step of a coordinator or a client keeps the inductive invariant.
LEMMA NextIInv == IInv /\ [Next]_vars => IInv'
<1> SUFFICES ASSUME IInv, [Next]_vars PROVE IInv'
  OBVIOUS
<1>0. /\ TypeOK /\ InvGen /\ InvReg /\ InvReadReply /\ InvWriteReply
      /\ InvSeen /\ InvConflict /\ InvOutcome /\ InvBefore
  BY DEF IInv
<1>1. TypeOK'
  BY <1>0, TypeStep
<1>2. Advances
  BY <1>0, <1>1, AdvancesStep
<1>3. InvGen'
  BY <1>0, <1>1, InvGenStep
<1>4. InvReg'
  BY <1>0, <1>1, <1>2, InvRegStep
<1>5. InvWriteReply'
  BY <1>0, <1>1, <1>2, InvWriteReplyStep
<1>6. InvReadReply'
  BY <1>0, <1>1, <1>2, <1>4, <1>5, InvReadReplyStep
<1>7. InvSeen'
  BY <1>0, <1>1, <1>2, InvSeenStep
<1>8. InvConflict'
  BY <1>0, <1>1, <1>2, InvConflictStep
<1>9. InvOutcome'
  BY <1>0, <1>1, <1>2, InvOutcomeStep
<1>10. InvBefore'
  BY <1>0, <1>1, <1>2, InvBeforeStep
<1> QED
  BY <1>1, <1>3, <1>4, <1>5, <1>6, <1>7, <1>8, <1>9, <1>10 DEF IInv

\* The inductive invariant holds in every reachable state.
THEOREM Inductive == Spec => []IInv
  BY InitIInv, NextIInv, PTL DEF Spec

\* A client that a read quorum blocks has not been acknowledged by a majority.
LEMMA StuckFails ==
    ASSUME InvOutcome, NEW c \in Client, Stuck(c)
    PROVE  ~ Succeeded(c)
<1>1. PICK S \in SUBSET Coordinator : ReadQuorum(S) /\ \A co \in S : BlockedAt(co, c)
  BY DEF Stuck
<1>2. SUFFICES ASSUME Succeeded(c) PROVE FALSE
  OBVIOUS
<1>3. MajorityOf({co \in Coordinator : Acknowledged(co, c)})
  BY <1>2 DEF InvOutcome, Succeeded
<1>4. S \cap {co \in Coordinator : Acknowledged(co, c)} # {}
  BY <1>1, <1>3, QuorumsMeet
<1> QED
  BY <1>1, <1>4 DEF BlockedAt

NoSuccessMissed ==
    \A c, d \in Client :
        Succeeded(c) /\ stage[d] >= 4 /\ Before(gen[c], gen[d]) => AtMost(gen[c], seen[d].gen)

\* A read that returned has not missed a successful write before its
\* generation, whatever becomes of its client.
LEMMA EarlierSuccessSeen == IInv => NoSuccessMissed
<1> SUFFICES ASSUME IInv, NEW c \in Client, NEW d \in Client,
                    Succeeded(c), stage[d] >= 4, Before(gen[c], gen[d])
             PROVE  AtMost(gen[c], seen[d].gen)
  BY DEF NoSuccessMissed
<1>1. stage[c] = 6
  BY DEF IInv, InvOutcome, Succeeded
<1>2. AtMost(gen[c], seen[d].gen) \/ Stuck(c)
  BY <1>1 DEF IInv, InvSeen, HasGen
<1> QED
  BY <1>2, StuckFails DEF IInv

\* The modifications by setExclusive() form one sequence: no successful one is
\* overwritten by a later one that had not read it.
THEOREM ExclusiveWrites == Spec => []NoLostUpdate
<1>1. IInv => NoLostUpdate
  <2> SUFFICES ASSUME IInv, NEW c \in Client, NEW d \in Client,
                      Succeeded(c), Succeeded(d), Before(gen[c], gen[d])
               PROVE  AtMost(gen[c], seen[d].gen)
    BY DEF NoLostUpdate
  <2>1. stage[d] = 6
    BY DEF IInv, InvOutcome, Succeeded
  <2> QED
    BY <2>1, EarlierSuccessSeen DEF NoSuccessMissed
<1> QED
  BY <1>1, Inductive, PTL

\* A doomed read and an onConflict() that returned are right: the client's
\* setExclusive does not succeed, now or later.
THEOREM ConflictsAreReal == Spec => []ConflictIsReal
<1>1. IInv => ConflictIsReal
  BY StuckFails DEF IInv, InvConflict, ConflictIsReal
<1> QED
  BY <1>1, Inductive, PTL

\* In a state of the inductive invariant, no read that returned has missed a
\* write that had succeeded before it began.
LEMMA Recent == IInv => ReadIsRecent
<1> SUFFICES ASSUME IInv, NEW d \in Client, stage[d] >= 4, NEW c \in before[d]
             PROVE  AtMost(gen[c], seen[d].gen)
  BY DEF ReadIsRecent
<1>1. c \in Client /\ stage[d] >= 2
  BY SMTT(30) DEF IInv, TypeOK
<1>2. Succeeded(c) /\ Before(gen[c], gen[d])
  BY <1>1 DEF IInv, InvBefore, HasGen, Succeeded
<1> QED
  BY <1>1, <1>2, EarlierSuccessSeen DEF NoSuccessMissed

\* read() never misses a setExclusive that had returned before it was called.
THEOREM ReadsAreRecent == Spec => []ReadIsRecent
  BY Recent, Inductive, PTL

\* In a state of the inductive invariant, what a successful client read was
\* the most recent successful write before its own.
LEMMA MostRecent == IInv => ReadWasMostRecent
<1> SUFFICES ASSUME IInv, NEW d \in Client, Succeeded(d)
             PROVE  /\ Before(seen[d].gen, gen[d])
                    /\ seen[d].val = NoValue => seen[d].gen = Zero
                    /\ seen[d].val # NoValue => seen[d].gen = gen[seen[d].val] /\ stage[seen[d].val] >= 5
                    /\ \A c \in Client : Succeeded(c) =>
                           ~ (Before(seen[d].gen, gen[c]) /\ Before(gen[c], gen[d]))
  BY DEF ReadWasMostRecent
<1>0. /\ gen[d] \in UniqueGeneration /\ seen[d].gen \in UniqueGeneration /\ seen[d].val \in Value
      /\ doomed \in [Client -> BOOLEAN]
      /\ \A c \in Client : gen[c] \in UniqueGeneration /\ stage[c] \in {0, 1, 2, 4, 5, 6}
  BY DEF IInv, TypeOK
<1>1. stage[d] = 6
  BY DEF IInv, InvOutcome, Succeeded
<1>2. Consistent(seen[d].val, seen[d].gen) /\ seen[d].val # d
  BY <1>1 DEF IInv, InvSeen
<1>3. ~ doomed[d]
  BY StuckFails DEF IInv, InvConflict
<1>4. ~ Before(gen[d], seen[d].gen)
  BY <1>0, <1>1, <1>3 DEF IInv, InvSeen
<1>5. gen[d] # seen[d].gen
  <2>1. gen[d].generation > 0 /\ gen[d] # Zero
    BY <1>0, <1>1 DEF IInv, InvGen, HasGen, Zero
  <2>2. CASE seen[d].val = NoValue
    BY <1>2, <2>1, <2>2 DEF Consistent
  <2>3. CASE seen[d].val # NoValue
    <3>1. seen[d].val \in Client /\ stage[seen[d].val] >= 5 /\ seen[d].gen = gen[seen[d].val]
      BY <1>0, <1>2, <2>3 DEF Consistent, Value
    <3>2. HasGen(d) /\ HasGen(seen[d].val)
      BY <1>0, <1>1, <3>1 DEF HasGen
    <3> QED
      BY <1>2, <3>1, <3>2 DEF IInv, InvGen
  <2> QED
    BY <2>2, <2>3
<1>6. Before(seen[d].gen, gen[d])
  BY <1>0, <1>4, <1>5, GenerationOrder
<1>7. ASSUME NEW c \in Client, Succeeded(c), Before(gen[c], gen[d])
      PROVE  ~ Before(seen[d].gen, gen[c])
  <2>1. AtMost(gen[c], seen[d].gen)
    BY <1>1, <1>7, EarlierSuccessSeen DEF NoSuccessMissed
  <2> QED
    BY <2>1 DEF AtMost
<1> QED
  BY <1>2, <1>6, <1>7 DEF Consistent

\* What a successful client read was the most recent state before its own.
THEOREM SuccessReadsMostRecent == Spec => []ReadWasMostRecent
  BY MostRecent, Inductive, PTL

\* A register never goes back: late reads and writes of clients that were
\* overtaken have no effect on it.
THEOREM RegistersAdvance == Spec => RegisterAdvances
<1>1. IInv /\ [Next]_vars =>
        [\A co \in Coordinator :
          /\ AtMost(reg[co].readGen, reg'[co].readGen)
          /\ AtMost(reg[co].writeGen, reg'[co].writeGen)
          /\ reg'[co].val # reg[co].val => Before(reg[co].writeGen, reg'[co].writeGen)]_vars
  <2> SUFFICES ASSUME IInv, [Next]_vars, NEW co \in Coordinator
               PROVE  /\ AtMost(reg[co].readGen, reg'[co].readGen)
                      /\ AtMost(reg[co].writeGen, reg'[co].writeGen)
                      /\ reg'[co].val # reg[co].val => Before(reg[co].writeGen, reg'[co].writeGen)
    OBVIOUS
  <2>1. IInv'
    BY NextIInv
  <2>2. Advances
    BY <2>1, AdvancesStep DEF IInv
  <2>3. \A x \in Client : Frame(x)
    BY FrameStep DEF IInv
  <2>4. /\ reg[co].writeGen \in UniqueGeneration /\ reg'[co].writeGen \in UniqueGeneration
        /\ reg[co].val \in Value /\ reg'[co].val \in Value
        /\ \A x \in Client : stage[x] \in {0, 1, 2, 4, 5, 6} /\ stage'[x] \in {0, 1, 2, 4, 5, 6}
    BY <2>1 DEF IInv, TypeOK, GenerationRegVal
  <2>5. ASSUME reg'[co].writeGen = reg[co].writeGen PROVE reg'[co].val = reg[co].val
    <3>1. Consistent(reg[co].val, reg[co].writeGen)
      BY DEF IInv, InvReg
    <3>2. ConsistentNext(reg[co].val, reg[co].writeGen)
      BY <2>2, <2>4, <3>1 DEF Advances
    <3>3. ConsistentNext(reg'[co].val, reg[co].writeGen)
      BY <2>1, <2>5 DEF IInv, InvReg, Consistent, ConsistentNext
    <3>4. \A x \in Client : stage'[x] >= 5 => gen'[x] # Zero
      BY <2>1, <2>4 DEF IInv, InvGen, HasGen, Zero
    <3>5. \A x, y \in Client : stage'[x] >= 5 /\ stage'[y] >= 5 /\ gen'[x] = gen'[y] => x = y
      <4>1. \A x, y \in Client : HasGen(x)' /\ HasGen(y)' /\ x # y => gen'[x].uid # gen'[y].uid
        BY <2>1 DEF IInv, InvGen
      <4> QED
        BY <2>4, <4>1 DEF HasGen
    <3> QED
      BY <2>4, <3>2, <3>3, <3>4, <3>5 DEF ConsistentNext, Value
  <2> QED
    BY <2>2, <2>4, <2>5, GenerationOrder DEF Advances
<1> QED
  BY <1>1, Inductive, PTL DEF Spec, RegisterAdvances
-----------------------------------------------------------------------------
(***************************************************************************)
(* Refinement of ExclusiveState.                                           *)
(***************************************************************************)

\* The instance orders generations as this module does.
LEMMA SameOrder ==
    /\ Promise!Zero = Zero
    /\ Promise!UniqueGeneration = UniqueGeneration
    /\ \A a, b : Promise!Before(a, b) <=> Before(a, b)
    /\ \A a, b : Promise!AtMost(a, b) <=> AtMost(a, b)
  BY DEF Promise!Zero, Zero, Promise!UniqueGeneration, UniqueGeneration,
         Promise!Before, Before, Promise!AtMost, AtMost

\* The phase of a client follows its stage.
LEMMA Phases ==
    ASSUME NEW c \in Client
    PROVE  /\ stage[c] = 0 => Phase(c) = "new"
           /\ stage[c] = 1 \/ stage[c] = 2 => Phase(c) = "reading"
           /\ stage[c] = 4 => Phase(c) = "read"
           /\ stage[c] = 5 => Phase(c) = "setting"
           /\ stage[c] = 6 => Phase(c) = outcome[c]
           /\ stage'[c] = 1 \/ stage'[c] = 2 => Phase(c)' = "reading"
           /\ stage'[c] = 4 => Phase(c)' = "read"
           /\ stage'[c] = 5 => Phase(c)' = "setting"
           /\ stage'[c] = 6 => Phase(c)' = outcome'[c]
           /\ stage'[c] = stage[c] /\ outcome'[c] = outcome[c] => Phase(c)' = Phase(c)
  BY DEF Phase

\* A step that changes one client's phase changes the phase function there.
LEMMA PhaseUpdate ==
    ASSUME NEW c \in Client,
           \A d \in Client : d # c => Phase(d)' = Phase(d)
    PROVE  [x \in Client |-> Phase(x)]' = [[x \in Client |-> Phase(x)] EXCEPT ![c] = Phase(c)']
  OBVIOUS

\* The coordinators' protocol implements the exclusive read-modify-write state
\* that CoordinatedState.h promises to its callers.
THEOREM Refinement == Spec => ImplementsExclusiveState
<1>1. Init => Promise!Init
  <2> SUFFICES ASSUME Init PROVE Promise!Init
    OBVIOUS
  <2>1. [x \in Client |-> Phase(x)] = [x \in Client |-> "new"]
    BY DEF Init, Phase
  <2>2. [x \in Client |-> seen[x].gen] = [x \in Client |-> Zero]
    BY DEF Init, NothingSeen
  <2>3. [x \in Client |-> Place(x)] = [x \in Client |-> Zero] /\ before = [x \in Client |-> {}]
    BY DEF Init, Place
  <2> QED
    BY <2>1, <2>2, <2>3, SameOrder DEF Promise!Init
<1>2. IInv /\ IInv' /\ [Next]_vars => [Promise!Next]_Promise!vars
  <2> SUFFICES ASSUME IInv, IInv', [Next]_vars
               PROVE  Promise!Next \/ UNCHANGED Promise!vars
    OBVIOUS
  <2> DEFINE ph == [x \in Client |-> Phase(x)]
             fr == [x \in Client |-> seen[x].gen]
             pl == [x \in Client |-> Place(x)]
  <2>0. /\ stage \in [Client -> {0, 1, 2, 4, 5, 6}] /\ gen \in [Client -> UniqueGeneration]
        /\ gen' \in [Client -> UniqueGeneration]
        /\ outcome \in [Client -> {"none", "success", "conflict"}]
        /\ before \in [Client -> SUBSET Client]
        /\ seen \in [Client -> [val : Value, gen : UniqueGeneration, rgen : UniqueGeneration]]
    BY DEF IInv, TypeOK
  <2>10. NoSuccessMissed'
    BY EarlierSuccessSeen, PTL
  <2>1. ASSUME UNCHANGED <<stage, gen, seen, outcome, before>>
        PROVE  UNCHANGED Promise!vars
    BY <2>1 DEF Promise!vars, Phase, Place
  <2>2. ASSUME NEW c \in Client, StartRead(c)
        PROVE  Promise!Begin(c)
    <3>1. /\ stage[c] = 0 /\ stage' = [stage EXCEPT ![c] = 1]
          /\ before' = [before EXCEPT ![c] = {d \in Client : outcome[d] = "success"}]
          /\ UNCHANGED <<gen, seen, outcome>>
      BY <2>2 DEF StartRead
    <3>2. ph[c] = "new" /\ ph' = [ph EXCEPT ![c] = "reading"]
      <4>1. Phase(c) = "new" /\ Phase(c)' = "reading"
        BY <2>0, <3>1, Phases
      <4>2. \A d \in Client : d # c => Phase(d)' = Phase(d)
        BY <2>0, <3>1, Phases
      <4> QED
        BY <4>1, <4>2, PhaseUpdate
    <3>3. \A d \in Client : outcome[d] = "success" <=> ph[d] = "success"
      <4> SUFFICES ASSUME NEW d \in Client PROVE outcome[d] = "success" <=> Phase(d) = "success"
        OBVIOUS
      <4>1. stage[d] = 6 <=> outcome[d] # "none"
        BY DEF IInv, InvOutcome
      <4> QED
        BY <2>0, <4>1, Phases
    <3>4. pl' = pl
      BY <2>0, <3>1 DEF Place
    <3> QED
      BY <2>0, <3>1, <3>2, <3>3, <3>4 DEF Promise!Begin, Promise!Committed
  <2>3. ASSUME NEW c \in Client, ChooseGeneration(c)
        PROVE  UNCHANGED Promise!vars
    <3>1. /\ stage[c] = 1 /\ stage' = [stage EXCEPT ![c] = 2]
          /\ \E x : gen' = [gen EXCEPT ![c] = x]
          /\ UNCHANGED <<seen, outcome, before>>
      BY <2>3 DEF ChooseGeneration
    <3>2. ph' = ph
      BY <2>0, <3>1 DEF Phase
    <3>3. fr' = fr
      BY <3>1
    <3>4. pl' = pl
      BY <2>0, <3>1 DEF Place
    <3> QED
      BY <3>1, <3>2, <3>3, <3>4 DEF Promise!vars
  <2>4. ASSUME NEW c \in Client, FinishRead(c)
        PROVE  Promise!Return(c)
    <3>1. /\ stage[c] = 2 /\ stage' = [stage EXCEPT ![c] = 4]
          /\ \E b \in readReply[c] :
                seen' = [seen EXCEPT ![c] = [val |-> b.val, gen |-> b.gen, rgen |-> b.rgen]]
          /\ UNCHANGED <<gen, outcome, before>>
      BY <2>4 DEF FinishRead
    <3>2. ph[c] = "reading" /\ ph' = [ph EXCEPT ![c] = "read"]
      <4>1. Phase(c) = "reading" /\ Phase(c)' = "read"
        BY <2>0, <3>1, Phases
      <4>2. \A d \in Client : d # c => Phase(d)' = Phase(d)
        BY <2>0, <3>1, Phases
      <4> QED
        BY <4>1, <4>2, PhaseUpdate
    <3>3. PICK b \in readReply[c] :
             seen' = [seen EXCEPT ![c] = [val |-> b.val, gen |-> b.gen, rgen |-> b.rgen]]
      BY <3>1
    <3>4. b.val \in Value /\ Consistent(b.val, b.gen)
      BY DEF IInv, TypeOK, ReadReply, InvReadReply
    <3>5. fr' = [fr EXCEPT ![c] = b.gen] /\ seen'[c].gen = b.gen
      BY <2>0, <3>3
    <3>6. b.gen \in Promise!Written
      <4>1. CASE b.val = NoValue
        BY <3>4, <4>1, SameOrder DEF Consistent, Promise!Written
      <4>2. CASE b.val # NoValue
        <5>1. b.val \in Client /\ stage[b.val] >= 5 /\ gen[b.val] = b.gen
          BY <3>4, <4>2 DEF Consistent, Value
        <5>2. outcome[b.val] \in {"success", "conflict"} \/ stage[b.val] = 5
          <6>1. stage[b.val] = 6 <=> outcome[b.val] # "none"
            BY <5>1 DEF IInv, InvOutcome
          <6> QED
            BY <2>0, <5>1, <6>1
        <5>3. ph[b.val] \in {"setting", "success", "conflict"}
          BY <2>0, <5>1, <5>2, Phases
        <5>4. pl[b.val] = b.gen
          BY <2>0, <5>1 DEF Place
        <5> QED
          BY <5>1, <5>3, <5>4 DEF Promise!Written
      <4> QED
        BY <4>1, <4>2
    <3>7. ASSUME NEW d \in Client, ph[d] = "success", Before(pl[d], gen[c])
          PROVE  AtMost(pl[d], b.gen)
      <4>1. stage[d] = 6 /\ outcome[d] = "success" /\ d # c
        BY <2>0, <3>1, <3>7 DEF Phase
      <4>2. Succeeded(d)' /\ stage'[c] >= 4 /\ pl[d] = gen[d]
        BY <2>0, <3>1, <4>1 DEF Succeeded, Place
      <4>3. Before(gen'[d], gen'[c])
        BY <3>1, <3>7, <4>2
      <4>4. AtMost(gen'[d], seen'[c].gen)
        BY <2>10, <4>2, <4>3 DEF NoSuccessMissed
      <4> QED
        BY <3>1, <3>5, <4>2, <4>4
    <3>8. gen[c] # Zero /\ gen[c] \in UniqueGeneration
      BY <2>0, <3>1 DEF IInv, InvGen, HasGen, Zero
    <3>9. pl' = [pl EXCEPT ![c] = gen[c]] /\ pl'[c] = gen[c]
      <4>1. Place(c)' = gen[c]
        BY <2>0, <3>1 DEF Place
      <4>2. \A d \in Client : d # c => Place(d)' = Place(d)
        BY <2>0, <3>1 DEF Place
      <4> QED
        BY <4>1, <4>2
    <3>10. ASSUME NEW d \in Client PROVE pl[d] # gen[c]
      <4>1. CASE stage[d] < 4
        BY <2>0, <3>8, <4>1 DEF Place
      <4>2. CASE stage[d] >= 4
        <5>1. HasGen(c) /\ HasGen(d) /\ c # d /\ pl[d] = gen[d]
          BY <2>0, <3>1, <4>2 DEF HasGen, Place
        <5> QED
          BY <5>1 DEF IInv, InvGen
      <4> QED
        BY <2>0, <4>1, <4>2
    <3>11. ASSUME NEW d \in before[c] PROVE Before(pl[d], gen[c])
      <4>1. d \in Client /\ outcome[d] = "success" /\ Before(gen[d], gen[c])
        BY <2>0, <3>1 DEF IInv, InvBefore, HasGen
      <4>2. stage[d] = 6
        BY <4>1 DEF IInv, InvOutcome
      <4> QED
        BY <4>1, <4>2 DEF Place
    <3>12. fr'[c] = b.gen
      BY <3>5
    <3> QED
      BY <3>1, <3>2, <3>5, <3>6, <3>7, <3>8, <3>9, <3>10, <3>11, <3>12, SameOrder
         DEF Promise!Return, Promise!Committed
  <2>5. ASSUME NEW c \in Client, SetExclusive(c)
        PROVE  Promise!Set(c)
    <3>1. /\ stage[c] = 4 /\ stage' = [stage EXCEPT ![c] = 5]
          /\ UNCHANGED <<gen, seen, outcome, before>>
      BY <2>5 DEF SetExclusive
    <3>2. ph[c] = "read" /\ ph' = [ph EXCEPT ![c] = "setting"]
      <4>1. Phase(c) = "read" /\ Phase(c)' = "setting"
        BY <2>0, <3>1, Phases
      <4>2. \A d \in Client : d # c => Phase(d)' = Phase(d)
        BY <2>0, <3>1, Phases
      <4> QED
        BY <4>1, <4>2, PhaseUpdate
    <3>3. pl' = pl
      BY <2>0, <3>1 DEF Place
    <3> QED
      BY <3>1, <3>2, <3>3 DEF Promise!Set
  <2>6. ASSUME NEW c \in Client, FinishWrite(c)
        PROVE  Promise!Succeed(c) \/ Promise!Fail(c)
    <3>1. /\ stage[c] = 5 /\ stage' = [stage EXCEPT ![c] = 6]
          /\ UNCHANGED <<gen, seen, before>>
      BY <2>6 DEF FinishWrite
    <3>2. \/ outcome' = [outcome EXCEPT ![c] = "success"]
          \/ outcome' = [outcome EXCEPT ![c] = "conflict"]
      BY <2>6, Zenon DEF FinishWrite
    <3>3. ph[c] = "setting"
      BY <2>0, <3>1 DEF Phase
    <3>6. pl' = pl
      BY <2>0, <3>1 DEF Place
    <3>4. CASE outcome' = [outcome EXCEPT ![c] = "conflict"]
      <4>1. ph' = [ph EXCEPT ![c] = "conflict"]
        <5>1. Phase(c)' = "conflict"
          BY <2>0, <3>1, <3>4, Phases
        <5>2. \A d \in Client : d # c => Phase(d)' = Phase(d)
          BY <2>0, <3>1, <3>4, Phases
        <5> QED
          BY <5>1, <5>2, PhaseUpdate
      <4> QED
        BY <3>1, <3>3, <3>6, <4>1 DEF Promise!Fail
    <3>5. CASE outcome' = [outcome EXCEPT ![c] = "success"]
      <4>1. ph' = [ph EXCEPT ![c] = "success"]
        <5>1. Phase(c)' = "success"
          BY <2>0, <3>1, <3>5, Phases
        <5>2. \A d \in Client : d # c => Phase(d)' = Phase(d)
          BY <2>0, <3>1, <3>5, Phases
        <5> QED
          BY <5>1, <5>2, PhaseUpdate
      <4>2. Succeeded(c)' /\ stage'[c] = 6 /\ pl[c] = gen'[c] /\ fr[c] = seen'[c].gen
        BY <2>0, <3>1, <3>5 DEF Succeeded, Place
      <4>3. ReadWasMostRecent'
        BY MostRecent, PTL
      <4>4. Before(fr[c], pl[c])
        BY <4>2, <4>3 DEF ReadWasMostRecent
      <4>5. ASSUME NEW d \in Client, ph[d] = "success"
            PROVE  ~ (Before(fr[c], pl[d]) /\ Before(pl[d], pl[c]))
        <5>1. stage[d] = 6 /\ outcome[d] = "success"
          BY <2>0, <4>5 DEF Phase
        <5>2. Succeeded(d)' /\ pl[d] = gen'[d]
          BY <2>0, <3>1, <3>5, <5>1 DEF Succeeded, Place
        <5> QED
          BY <4>2, <4>3, <5>2 DEF ReadWasMostRecent
      <4>6. ASSUME NEW d \in Client, ph[d] \notin {"new", "reading"}
            PROVE  ~ (Before(fr[d], pl[c]) /\ Before(pl[c], pl[d]))
        <5>1. stage[d] >= 4 /\ stage'[d] >= 4 /\ pl[d] = gen'[d] /\ fr[d] = seen'[d].gen
          BY <2>0, <3>1, <4>6 DEF Phase, Place
        <5>2. Before(gen'[c], gen'[d]) => AtMost(gen'[c], seen'[d].gen)
          BY <2>10, <4>2, <5>1 DEF NoSuccessMissed
        <5> QED
          BY <4>2, <5>1, <5>2 DEF AtMost
      <4>7. Promise!Serializes(c)
        BY <4>4, <4>5, <4>6, SameOrder
           DEF Promise!Serializes, Promise!Committed, Promise!HasRead, Promise!StrictlyBetween
      <4> QED
        BY <3>1, <3>3, <3>6, <4>1, <4>7 DEF Promise!Succeed
    <3> QED
      BY <3>2, <3>4, <3>5
  <2>7. ASSUME NEW co \in Coordinator, NEW c \in Client, NEW answered \in BOOLEAN,
               ServeQuery(co, c, answered) \/ ServeRead(co, c, answered) \/ ServeWrite(co, c, answered)
        PROVE  UNCHANGED Promise!vars
    <3>1. UNCHANGED <<stage, gen, seen, outcome, before>>
      BY <2>7 DEF ServeQuery, ServeRead, ServeWrite, clientVars
    <3> QED
      BY <2>1, <3>1
  <2>8. ASSUME NEW c \in Client, OnConflict(c) \/ FinishPoll(c)
        PROVE  UNCHANGED Promise!vars
    <3>1. UNCHANGED <<stage, gen, seen, outcome, before>>
      BY <2>8 DEF OnConflict, FinishPoll
    <3> QED
      BY <2>1, <3>1
  <2>9. CASE UNCHANGED vars
    BY <2>1, <2>9 DEF vars
  <2> QED
    BY <2>2, <2>3, <2>4, <2>5, <2>6, <2>7, <2>8, <2>9, UpAssumption DEF Next, Promise!Next
<1> QED
  BY <1>1, <1>2, Inductive, PTL DEF Spec, ImplementsExclusiveState, Promise!Spec
=====================================================================================
