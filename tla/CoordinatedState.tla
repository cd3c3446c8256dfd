------------------------------ MODULE CoordinatedState ------------------------------
(***************************************************************************)
(* The Paxos-like replicated state of the coordinators.                    *)
(*                                                                         *)
(* Every coordinator keeps one durable generation register and serves      *)
(* read(gen) and write(value, gen) on it, one request at a time, answering *)
(* only after its store has committed (localGenerationReg).  A Client is   *)
(* one CoordinatedStateImpl object: it reads once, may poll for conflicts  *)
(* and calls setExclusive at most once; a recovery that starts over        *)
(* creates another object.  A client whose process dies simply takes no    *)
(* more steps and no fairness is assumed of it (the clients in Mortal).    *)
(*                                                                         *)
(* A request that was sent stays deliverable: it may reach a coordinator   *)
(* late, after its sender has gone on or died, and more than once, because *)
(* a broken promise makes the sender send it again.  The answer to a       *)
(* served request may be lost (answered = FALSE in the Serve actions).     *)
(* A client resumes with any set of the answers that arrived which         *)
(* satisfies its quorum.                                                   *)
(*                                                                         *)
(* The value written by a client is represented by the client itself, so   *)
(* a value names the write it came from.                                   *)
(***************************************************************************)
EXTENDS UniqueGenerations, FiniteSets

CONSTANTS Coordinator,   \* the coordinators' generation registers
          Client,        \* CoordinatedStateImpl objects
          Up,            \* the coordinators that can be reached
          Mortal,        \* the clients whose process may die
          Uid,           \* the UIDs randomUniqueID() may return
          NoValue        \* the absent Optional<Value>

ASSUME CoordinatorAssumption == IsFiniteSet(Coordinator) /\ Coordinator # {}
ASSUME UpAssumption == Up \subseteq Coordinator
ASSUME UidAssumption == Uid \subseteq Nat \ {0}
ASSUME NoValueAssumption == NoValue \notin Client

VARIABLES
    reg,          \* per coordinator: the durable GenerationRegVal
    stage,        \* per client: 0 new, 1 and 2 in read(), 4 read, 5 writing, 6 done
    gen,          \* the client's own generation, chosen in stage 1
    conflictGen,  \* the highest generation number it knows of
    doomed,       \* its read saw a write of a later generation
    initial,      \* its read saw an empty register
    seen,         \* the GenerationRegReadReply its read() was built from
    conflict,     \* onConflict(): "idle", "polling" or "returned"
    outcome,      \* setExclusive(): "none", "success" or "conflict"
    readReply,    \* answers that arrived for the read in progress
    writeReply,   \* answers that arrived for the write
    before        \* history: who had succeeded when the client's read() began

clientVars == <<stage, gen, conflictGen, doomed, initial, seen, conflict, outcome>>
vars == <<reg, stage, gen, conflictGen, doomed, initial, seen, conflict, outcome,
          readReply, writeReply, before>>

Value == Client \cup {NoValue}

GenerationRegVal == [readGen : UniqueGeneration, writeGen : UniqueGeneration, val : Value]

\* What a read answers, together with the coordinator that sent it.
ReadReply == [from : Coordinator, val : Value, gen : UniqueGeneration, rgen : UniqueGeneration]

WriteReply == [from : Coordinator, gen : UniqueGeneration]

EmptyReg == [readGen |-> Zero, writeGen |-> Zero, val |-> NoValue]

NothingSeen == [val |-> NoValue, gen |-> Zero, rgen |-> Zero]

TypeOK ==
    /\ reg \in [Coordinator -> GenerationRegVal]
    /\ stage \in [Client -> {0, 1, 2, 4, 5, 6}]
    /\ gen \in [Client -> UniqueGeneration]
    /\ conflictGen \in [Client -> Nat]
    /\ doomed \in [Client -> BOOLEAN]
    /\ initial \in [Client -> BOOLEAN]
    /\ seen \in [Client -> [val : Value, gen : UniqueGeneration, rgen : UniqueGeneration]]
    /\ conflict \in [Client -> {"idle", "polling", "returned"}]
    /\ outcome \in [Client -> {"none", "success", "conflict"}]
    /\ readReply \in [Client -> SUBSET ReadReply]
    /\ writeReply \in [Client -> SUBSET WriteReply]
    /\ before \in [Client -> SUBSET Client]

Init ==
    /\ reg = [co \in Coordinator |-> EmptyReg]
    /\ stage = [c \in Client |-> 0]
    /\ gen = [c \in Client |-> Zero]
    /\ conflictGen = [c \in Client |-> 0]
    /\ doomed = [c \in Client |-> FALSE]
    /\ initial = [c \in Client |-> FALSE]
    /\ seen = [c \in Client |-> NothingSeen]
    /\ conflict = [c \in Client |-> "idle"]
    /\ outcome = [c \in Client |-> "none"]
    /\ readReply = [c \in Client |-> {}]
    /\ writeReply = [c \in Client |-> {}]
    /\ before = [c \in Client |-> {}]
-----------------------------------------------------------------------------
(***************************************************************************)
(* The generation register, localGenerationReg.                            *)
(***************************************************************************)

\* Mutant: a read leaves no mark.
AfterReadUnmarked(v, g) == v

\* The register after a read with generation g was served and committed.
AfterRead(v, g) == [v EXCEPT !.readGen = Later(v.readGen, g)]

\* Mutant: a write is not compared with the reads before it.
AcceptsUnread(v, g) == Before(v.writeGen, g)

Accepts(v, g) == AtMost(v.readGen, g) /\ Before(v.writeGen, g)

\* Mutant: every write is taken.
AfterAnyWrite(v, g, value) == [v EXCEPT !.writeGen = g, !.val = value]

\* The register after write(value, g) was served and committed.
AfterWrite(v, g, value) ==
    IF Accepts(v, g) THEN [v EXCEPT !.writeGen = g, !.val = value] ELSE v

\* What that write answers.
WriteAnswer(v, g) == IF Accepts(v, g) THEN g ELSE Later(v.readGen, v.writeGen)

Senders(replies) == {r.from : r \in replies}

\* The answer to a read of c is recorded when c still waits for it.
DeliverRead(co, c, waiting, answered, v) ==
    readReply' =
        IF waiting /\ answered /\ co \notin Senders(readReply[c])
        THEN [readReply EXCEPT ![c] =
                 @ \cup {[from |-> co, val |-> v.val, gen |-> v.writeGen, rgen |-> v.readGen]}]
        ELSE readReply

\* A read with the default generation: the first read of read(), or a poll.
ServeQuery(co, c, answered) ==
    /\ \/ stage[c] = 1
       \/ stage[c] = 4 /\ conflict[c] = "polling"
    /\ reg' = [reg EXCEPT ![co] = AfterRead(@, Zero)]
    /\ DeliverRead(co, c, TRUE, answered, reg'[co])
    /\ UNCHANGED <<clientVars, writeReply, before>>

\* The read with the client's own generation, however late it arrives.
ServeRead(co, c, answered) ==
    /\ stage[c] >= 2
    /\ reg' = [reg EXCEPT ![co] = AfterRead(@, gen[c])]
    /\ DeliverRead(co, c, stage[c] = 2, answered, reg'[co])
    /\ UNCHANGED <<clientVars, writeReply, before>>

\* The client's write, however late it arrives.
ServeWrite(co, c, answered) ==
    /\ stage[c] >= 5
    /\ reg' = [reg EXCEPT ![co] = AfterWrite(@, gen[c], c)]
    /\ writeReply' =
          IF stage[c] = 5 /\ answered /\ co \notin Senders(writeReply[c])
          THEN [writeReply EXCEPT ![c] =
                   @ \cup {[from |-> co, gen |-> WriteAnswer(reg[co], gen[c])]}]
          ELSE writeReply
    /\ UNCHANGED <<clientVars, readReply, before>>
-----------------------------------------------------------------------------
(***************************************************************************)
(* The client, CoordinatedStateImpl.                                       *)
(***************************************************************************)

IsEmpty(r) == r.gen.generation = 0

\* replicatedRead's two ways of having heard enough.
MajorityEmpty(R) ==
    /\ \A r \in R : IsEmpty(r)
    /\ Cardinality(Senders(R)) >= (Cardinality(Coordinator) + 1) \div 2

MajorityNonEmpty(R) ==
    /\ \A r \in R : ~ IsEmpty(r)
    /\ Cardinality(Senders(R)) >= Cardinality(Coordinator) \div 2 + 1

\* Among empty answers the best is the one with the latest read, among the
\* others the one with the latest write, then the latest read.
BestEmpty(R, b) == b \in R /\ \A r \in R : AtMost(r.rgen, b.rgen)

BestNonEmpty(R, b) ==
    /\ b \in R
    /\ \A r \in R : \/ Before(r.gen, b.gen)
                    \/ r.gen = b.gen /\ AtMost(r.rgen, b.rgen)

\* b is an answer replicatedRead may return to c now.
ReplicatedRead(c, b) ==
    \E R \in SUBSET readReply[c] :
        \/ MajorityEmpty(R) /\ BestEmpty(R, b)
        \/ MajorityNonEmpty(R) /\ BestNonEmpty(R, b)

HighestIn(b) == MaxNat(b.gen.generation, b.rgen.generation)

\* Mutant: a read is taken for a conflict, the client's own included.
IsDoomedByRead(c, b) == AtMost(gen[c], b.rgen)

\* Mutant: the UID is not compared.
IsDoomedByNumber(c, b) == gen[c].generation < b.gen.generation

IsDoomed(c, b) == Before(gen[c], b.gen)

\* read() is called and sends its first, generation-less read.
StartRead(c) ==
    /\ stage[c] = 0
    /\ stage' = [stage EXCEPT ![c] = 1]
    /\ before' = [before EXCEPT ![c] = {d \in Client : outcome[d] = "success"}]
    /\ UNCHANGED <<reg, gen, conflictGen, doomed, initial, seen, conflict, outcome,
                   readReply, writeReply>>

\* randomUniqueID() never returns a UID twice.
FreshUid(u) == \A d \in Client : gen[d].uid # u

\* The first read has its quorum: choose a later generation and read with it.
ChooseGeneration(c) ==
    /\ stage[c] = 1
    /\ \E b \in readReply[c], u \in Uid :
          LET n == MaxNat(conflictGen[c], HighestIn(b)) + 1
          IN  /\ ReplicatedRead(c, b)
              /\ FreshUid(u)
              /\ conflictGen' = [conflictGen EXCEPT ![c] = n]
              /\ gen' = [gen EXCEPT ![c] = [generation |-> n, uid |-> u]]
    /\ stage' = [stage EXCEPT ![c] = 2]
    /\ readReply' = [readReply EXCEPT ![c] = {}]
    /\ UNCHANGED <<reg, doomed, initial, seen, conflict, outcome, writeReply, before>>

\* The second read has its quorum: read() returns.
FinishRead(c) ==
    /\ stage[c] = 2
    /\ \E b \in readReply[c] :
          /\ ReplicatedRead(c, b)
          /\ conflictGen' = [conflictGen EXCEPT ![c] = MaxNat(@, HighestIn(b))]
          /\ doomed' = [doomed EXCEPT ![c] = IsDoomed(c, b)]
          /\ initial' = [initial EXCEPT ![c] = IsEmpty(b)]
          /\ seen' = [seen EXCEPT ![c] = [val |-> b.val, gen |-> b.gen, rgen |-> b.rgen]]
    /\ stage' = [stage EXCEPT ![c] = 4]
    /\ readReply' = [readReply EXCEPT ![c] = {}]
    /\ UNCHANGED <<reg, gen, conflict, outcome, writeReply, before>>

\* onConflict() is called: it returns at once for a doomed client.
OnConflict(c) ==
    /\ stage[c] = 4
    /\ conflict[c] = "idle"
    /\ conflict' = [conflict EXCEPT ![c] = IF doomed[c] THEN "returned" ELSE "polling"]
    /\ UNCHANGED <<reg, stage, gen, conflictGen, doomed, initial, seen, outcome,
                   readReply, writeReply, before>>

\* A poll of onConflict() has its quorum: return, or poll again.
FinishPoll(c) ==
    /\ stage[c] = 4
    /\ conflict[c] = "polling"
    /\ \E b \in readReply[c] :
          /\ ReplicatedRead(c, b)
          /\ conflictGen' = [conflictGen EXCEPT ![c] = MaxNat(@, HighestIn(b))]
          /\ conflict' = [conflict EXCEPT ![c] = IF IsDoomed(c, b) THEN "returned" ELSE @]
    /\ readReply' = [readReply EXCEPT ![c] = {}]
    /\ UNCHANGED <<reg, stage, gen, doomed, initial, seen, outcome, writeReply, before>>

\* setExclusive() is called and sends the write; a poll in progress can no
\* longer make onConflict() return, so its answers are dropped.
SetExclusive(c) ==
    /\ stage[c] = 4
    /\ stage' = [stage EXCEPT ![c] = 5]
    /\ readReply' = [readReply EXCEPT ![c] = {}]
    /\ UNCHANGED <<reg, gen, conflictGen, doomed, initial, seen, conflict, outcome,
                   writeReply, before>>

\* Mutant: one answer more than a majority.
WriteQuorumLarge(c) == Cardinality(Coordinator) \div 2 + 2

\* Mutant: the majority is rounded down.
WriteQuorumShort(c) == Cardinality(Coordinator) \div 2

\* The number of answers replicatedWrite waits for.
WriteQuorum(c) ==
    IF initial[c] THEN Cardinality(Coordinator) ELSE Cardinality(Coordinator) \div 2 + 1

\* The write has its quorum: setExclusive() returns or throws
\* coordinated_state_conflict.
FinishWrite(c) ==
    /\ stage[c] = 5
    /\ \E W \in SUBSET writeReply[c] : \E w \in W :
          /\ Cardinality(Senders(W)) >= WriteQuorum(c)
          /\ \A r \in W : AtMost(r.gen, w.gen)
          /\ IF w.gen = gen[c]
             THEN /\ outcome' = [outcome EXCEPT ![c] = "success"]
                  /\ UNCHANGED conflictGen
             ELSE /\ outcome' = [outcome EXCEPT ![c] = "conflict"]
                  /\ conflictGen' = [conflictGen EXCEPT ![c] = MaxNat(@, w.gen.generation)]
    /\ stage' = [stage EXCEPT ![c] = 6]
    /\ UNCHANGED <<reg, gen, doomed, initial, seen, conflict, readReply, writeReply, before>>

Next ==
    \/ \E co \in Up, c \in Client, answered \in BOOLEAN :
          ServeQuery(co, c, answered) \/ ServeRead(co, c, answered) \/ ServeWrite(co, c, answered)
    \/ \E c \in Client :
          \/ StartRead(c) \/ ChooseGeneration(c) \/ FinishRead(c)
          \/ OnConflict(c) \/ FinishPoll(c)
          \/ SetExclusive(c) \/ FinishWrite(c)

Spec == Init /\ [][Next]_vars

\* The coordinators in Up keep serving the requests of a client that does not
\* die, which sends them until they are answered, and the run loop resumes an
\* actor whose future is ready.  Nothing is assumed of the callers of read(),
\* onConflict() and setExclusive().
Fairness ==
    \A c \in Client \ Mortal :
        /\ WF_vars(ChooseGeneration(c))
        /\ WF_vars(FinishRead(c))
        /\ WF_vars(FinishPoll(c))
        /\ WF_vars(FinishWrite(c))
        /\ \A co \in Up :
              /\ WF_vars(ServeQuery(co, c, TRUE))
              /\ WF_vars(ServeRead(co, c, TRUE))
              /\ WF_vars(ServeWrite(co, c, TRUE))

FairSpec == Spec /\ Fairness
-----------------------------------------------------------------------------
(***************************************************************************)
(* Correctness.                                                            *)
(***************************************************************************)

Succeeded(c) == outcome[c] = "success"

\* The modifications by setExclusive() form one sequence, as the comment on
\* GenerationRegInterface promises: of two that returned Void, the later one
\* read the value of the earlier one or of something written after it.  A
\* failed setExclusive may be part of the sequence, so "the v2 of the previous
\* generation is the v1 of the next" holds with respect to the writes that
\* took effect, whether or not their caller was told.
NoLostUpdate ==
    \A c, d \in Client :
        Succeeded(c) /\ Succeeded(d) /\ Before(gen[c], gen[d]) => AtMost(gen[c], seen[d].gen)

\* "If it returns Void, ... the state returned by read was the most recent
\* before the new state": what a successful client read was written before its
\* own generation, by the client whose value it returned, and no other
\* successful write lies between the two.
ReadWasMostRecent ==
    \A d \in Client : Succeeded(d) =>
        /\ Before(seen[d].gen, gen[d])
        /\ seen[d].val = NoValue => seen[d].gen = Zero
        /\ seen[d].val # NoValue => seen[d].gen = gen[seen[d].val] /\ stage[seen[d].val] >= 5
        /\ \A c \in Client : Succeeded(c) =>
               ~ (Before(seen[d].gen, gen[c]) /\ Before(gen[c], gen[d]))

\* read() "returns the most recent state": a setExclusive that returned before
\* read() was called is never missed, even when read() is doomed or its client
\* never writes.
ReadIsRecent ==
    \A d \in Client : stage[d] >= 4 =>
        \A c \in before[d] : AtMost(gen[c], seen[d].gen)

\* A read that met a later write, and an onConflict() that returned, are
\* right: the client's setExclusive does not succeed.
ConflictIsReal ==
    \A c \in Client : doomed[c] \/ conflict[c] = "returned" => ~ Succeeded(c)

\* A register never goes back: neither a late read nor a late write of a client
\* that was overtaken lowers a generation or replaces a later value.
RegisterAdvances ==
    [][\A co \in Coordinator :
          /\ AtMost(reg[co].readGen, reg'[co].readGen)
          /\ AtMost(reg[co].writeGen, reg'[co].writeGen)
          /\ reg'[co].val # reg[co].val => Before(reg[co].writeGen, reg'[co].writeGen)]_vars

\* Some registers had been written when they answered the read of c, others had not.
Split(c) == \E r, s \in readReply[c] : IsEmpty(r) /\ ~ IsEmpty(s)

\* A majority of the registers has a write of a later generation.
Overtaken(c) ==
    \E Q \in SUBSET Coordinator :
        2 * Cardinality(Q) > Cardinality(Coordinator) /\ \A co \in Q : Before(gen[c], reg[co].writeGen)

\* With a mere majority of the coordinators in reach, a read() that was called
\* returns, and so does a setExclusive(): contention makes them fail, never hang.
\* But there are two exceptions.  replicatedRead waits for a majority of empty
\* or a majority of written registers, and waits for ever when a first write was
\* interrupted and the answers show some of each.  And a setExclusive() that found
\* the registers empty needs the answers of all.
CallsReturn ==
    \A c \in Client \ Mortal :
        /\ stage[c] = 1 ~> (stage[c] >= 4 \/ []Split(c))
        /\ (stage[c] = 5 /\ ~ initial[c]) ~> stage[c] = 6

\* onConflict() notices that a later write has reached a majority, also when its
\* setExclusive() has not returned yet or never will; again unless a poll meets
\* some registers empty and others written.
LaterWriteNoticed ==
    \A c \in Client \ Mortal :
        (conflict[c] = "polling" /\ Overtaken(c))
            ~> (conflict[c] = "returned" \/ stage[c] > 4 \/ []Split(c))

-----------------------------------------------------------------------------
(***************************************************************************)
(* The replicated protocol implements ExclusiveState.                      *)
(***************************************************************************)

Phase(c) ==
    IF stage[c] = 0 THEN "new"
    ELSE IF stage[c] <= 2 THEN "reading"
    ELSE IF stage[c] = 4 THEN "read"
    ELSE IF stage[c] = 5 THEN "setting"
    ELSE outcome[c]

\* A client has its place in the order once its read() has returned.
Place(c) == IF stage[c] >= 4 THEN gen[c] ELSE Zero

Promise == INSTANCE ExclusiveState
               WITH phase <- [c \in Client |-> Phase(c)],
                    place <- [c \in Client |-> Place(c)],
                    from  <- [c \in Client |-> seen[c].gen],
                    known <- before

\* The coordinators' registers, quorums and late messages are invisible to the
\* callers of CoordinatedState: they see the serial order that ExclusiveState
\* describes.
ImplementsExclusiveState == Promise!Spec
=====================================================================================
