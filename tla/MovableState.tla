-------------------------------- MODULE MovableState --------------------------------
(***************************************************************************)
(* MovableCoordinatedState: the coordinated state can be moved from one    *)
(* set of coordinators to another while recoveries keep changing it.       *)
(*                                                                         *)
(* A Process is one recovery on a cluster controller that was elected by   *)
(* the coordinators home[p].  Leader election gives no exclusion: any      *)
(* number of them run at once, and one that dies takes no more steps; what *)
(* it was writing may still take effect.  Every CoordinatedState object it *)
(* creates (Slot) is used for one read and at most one setExclusive, which *)
(* behave as ExclusiveState promises.                                      *)
(*                                                                         *)
(* The database state that is saved is represented by the set of all       *)
(* modifications it was built from.                                        *)
(***************************************************************************)
EXTENDS Naturals, FiniteSets

CONSTANTS Process,    \* recoveries
          Quorum,     \* coordinator sets, each with a connection string of its own
          First,      \* the one that holds the state in the beginning
          MaxMain,    \* how many times one recovery may write the state
          MaxPlace    \* places in the order of one coordinator set

ASSUME FirstAssumption == First \in Quorum
ASSUME BoundAssumption == MaxMain \in Nat \ {0} /\ MaxPlace \in Nat

Slot == 1..(MaxMain + 2)
OldCs == MaxMain + 1        \* cs of move()
NewCs == MaxMain + 2        \* nccs of move()
Object == Process \X Slot

VARIABLES home,     \* the coordinators p was elected by
          pc,       \* what p waits for
          slot,     \* the object p uses
          value,    \* the state p has read or written (prevDBState, myDBState, lastValue)
          target,   \* where p moves the state
          forward,  \* the coordinator sets somebody was told to use instead of theirs
          where,    \* per object: its coordinators
          phase,    \* per object: as in ExclusiveState
          place,    \* per object: its place in the order, 0 until it has one
          from,     \* per object: the place of what it read
          known,    \* per object: the objects that had succeeded when its read began
          data      \* per object: the MovableValue it writes

vars == <<home, pc, slot, value, target, forward, where, phase, place, from, known, data>>
objectVars == <<where, phase, place, from, known, data>>

States == SUBSET Object

MovableValue == [value : States, mode : {"Empty", "MaybeTo", "Active", "MovingFrom"}, other : Quorum]

\* other is absent in an Active value; First stands for it.
Active(v) == [value |-> v, mode |-> "Active", other |-> First]
MaybeTo(v, q) == [value |-> v, mode |-> "MaybeTo", other |-> q]
Empty == [value |-> {}, mode |-> "Empty", other |-> First]
MovingFrom(v, q) == [value |-> v, mode |-> "MovingFrom", other |-> q]

Own(p) == <<p, slot[p]>>

TypeOK ==
    /\ home \in [Process -> Quorum]
    /\ pc \in [Process -> {"off", "reading", "ready", "writing", "written", "finishing",
                           "recovered", "newReading", "newRead", "newWriting", "newWritten",
                           "oldReading", "moving", "movingWrite", "forwarding", "gone"}]
    /\ slot \in [Process -> Slot]
    /\ value \in [Process -> States]
    /\ target \in [Process -> Quorum]
    /\ forward \subseteq Quorum
    /\ where \in [Object -> Quorum]
    /\ phase \in [Object -> {"new", "reading", "read", "setting", "success", "conflict"}]
    /\ place \in [Object -> 0..MaxPlace]
    /\ from \in [Object -> 0..MaxPlace]
    /\ known \in [Object -> SUBSET Object]
    /\ data \in [Object -> MovableValue]

Init ==
    /\ home = [p \in Process |-> First]
    /\ pc = [p \in Process |-> "off"]
    /\ slot = [p \in Process |-> 1]
    /\ value = [p \in Process |-> {}]
    /\ target = [p \in Process |-> First]
    /\ forward = {}
    /\ where = [o \in Object |-> First]
    /\ phase = [o \in Object |-> "new"]
    /\ place = [o \in Object |-> 0]
    /\ from = [o \in Object |-> 0]
    /\ known = [o \in Object |-> {}]
    /\ data = [o \in Object |-> Empty]
-----------------------------------------------------------------------------
(***************************************************************************)
(* One set of coordinators.  When a read and a setExclusive return is not  *)
(* this code's doing: it is assumed here as ExclusiveState promises it,    *)
(* and CoordinatedState is proved to implement that.                       *)
(***************************************************************************)

At(q) == {o \in Object : where[o] = q}

Successes(q) == {o \in At(q) : phase[o] = "success"}

Written(q) == {o \in At(q) : phase[o] \in {"setting", "success", "conflict"}}

HasRead(q) == {o \in At(q) : phase[o] \notin {"new", "reading"}}

\* What the coordinators q hold after the modification at place n.
Content(q, n) ==
    IF n = 0 THEN (IF q = First THEN Active({}) ELSE Empty)
    ELSE data[CHOOSE o \in Written(q) : place[o] = n]

\* A new object is created and its read() called.
BeginRead(p, s, q) ==
    LET o == <<p, s>> IN
    /\ slot' = [slot EXCEPT ![p] = s]
    /\ where' = [where EXCEPT ![o] = q]
    /\ phase' = [phase EXCEPT ![o] = "reading"]
    /\ known' = [known EXCEPT ![o] = Successes(q)]
    /\ UNCHANGED <<place, from, data>>

\* The read() of object o returns what the modification at place m wrote.
ReadReturns(o, n, m) ==
    LET q == where[o] IN
    /\ phase[o] = "reading"
    /\ \A x \in HasRead(q) : place[x] # n
    /\ \A x \in known[o] : place[x] < n
    /\ m \in {0} \cup {place[x] : x \in Written(q)}
    /\ \A x \in Successes(q) : place[x] < n => place[x] <= m
    /\ place' = [place EXCEPT ![o] = n]
    /\ from' = [from EXCEPT ![o] = m]
    /\ phase' = [phase EXCEPT ![o] = "read"]
    /\ UNCHANGED <<where, known, data>>

\* setExclusive(v) is called on object o.
Set(o, v) ==
    /\ phase' = [phase EXCEPT ![o] = "setting"]
    /\ data' = [data EXCEPT ![o] = v]
    /\ UNCHANGED <<where, place, from, known>>

\* The promise of ExclusiveState: what o read is the most recent state before its own,
\* and it does not come between another object and what that one read.
Serializes(o) ==
    LET q == where[o] IN
    /\ from[o] < place[o]
    /\ \A x \in Successes(q) : ~ (from[o] < place[x] /\ place[x] < place[o])
    /\ \A x \in HasRead(q) : ~ (from[x] < place[o] /\ place[o] < place[x])

\* setExclusive returns.
Success(o) ==
    /\ phase[o] = "setting"
    /\ Serializes(o)
    /\ phase' = [phase EXCEPT ![o] = "success"]
    /\ UNCHANGED <<where, place, from, known, data>>
-----------------------------------------------------------------------------
(***************************************************************************)
(* A recovery reads the state, writes it, and reads it again for the next  *)
(* write (ReusableCoordinatedState).                                       *)
(***************************************************************************)

Start(p) ==
    /\ pc[p] = "off"
    /\ \E q \in {First} \cup forward :
          /\ home' = [home EXCEPT ![p] = q]
          /\ BeginRead(p, 1, q)
    /\ pc' = [pc EXCEPT ![p] = "reading"]
    /\ UNCHANGED <<value, target, forward>>

\* Mutant: a state that is on the move is used as it is.
MustMoveNever(v) == FALSE

MustMove(v) == v.mode = "MaybeTo"

\* Mutant: the state may have changed between writing and reading.
FoundAny(p, v) == TRUE

FoundOwn(p, v) == v.value = value[p]

\* The read() of MovableCoordinatedState: a state that may have been moved is
\* not returned, the move is completed instead.  A recovery that reads again
\* after its write goes on only when it finds what it wrote.
FinishRead(p) ==
    /\ pc[p] = "reading"
    /\ \E n \in 1..MaxPlace, m \in 0..MaxPlace :
          /\ ReadReturns(Own(p), n, m)
          /\ LET v == Content(home[p], m) IN
             IF MustMove(v)
             THEN /\ pc' = [pc EXCEPT ![p] = "moving"]
                  /\ target' = [target EXCEPT ![p] = v.other]
                  /\ value' = [value EXCEPT ![p] = v.value]
             ELSE /\ pc' = [pc EXCEPT ![p] =
                               IF slot[p] = 1 \/ FoundOwn(p, v) THEN "ready" ELSE "gone"]
                  /\ value' = [value EXCEPT ![p] = IF slot[p] = 1 THEN v.value ELSE @]
                  /\ UNCHANGED target
    /\ UNCHANGED <<home, slot, forward>>

\* A write that is not the last one.
Write(p) ==
    /\ pc[p] = "ready"
    /\ slot[p] < MaxMain
    /\ value' = [value EXCEPT ![p] = @ \cup {Own(p)}]
    /\ Set(Own(p), Active(value'[p]))
    /\ pc' = [pc EXCEPT ![p] = "writing"]
    /\ UNCHANGED <<home, slot, target, forward>>

\* The last write; changeCoordinators() makes it with the state as it is when
\* the recovery has not come that far.
FinalWrite(p) ==
    /\ pc[p] = "ready"
    /\ \/ value' = [value EXCEPT ![p] = @ \cup {Own(p)}]
       \/ slot[p] > 1 /\ UNCHANGED value
    /\ Set(Own(p), Active(value'[p]))
    /\ pc' = [pc EXCEPT ![p] = "finishing"]
    /\ UNCHANGED <<home, slot, target, forward>>

FinishWrite(p) ==
    /\ pc[p] \in {"writing", "finishing"}
    /\ Success(Own(p))
    /\ pc' = [pc EXCEPT ![p] = IF @ = "writing" THEN "written" ELSE "recovered"]
    /\ UNCHANGED <<home, slot, value, target, forward>>

Reread(p) ==
    /\ pc[p] = "written"
    /\ BeginRead(p, slot[p] + 1, home[p])
    /\ pc' = [pc EXCEPT ![p] = "reading"]
    /\ UNCHANGED <<home, value, target, forward>>
-----------------------------------------------------------------------------
(***************************************************************************)
(* move() and moveTo().                                                    *)
(***************************************************************************)

\* A connection string contains a random key: it was never used before.
Unused(q) == q # First /\ \A o \in Object : phase[o] # "new" => where[o] # q

Move(p) ==
    /\ pc[p] = "recovered"
    /\ \E q \in Quorum :
          /\ Unused(q)
          /\ target' = [target EXCEPT ![p] = q]
          /\ BeginRead(p, NewCs, q)
    /\ pc' = [pc EXCEPT ![p] = "newReading"]
    /\ UNCHANGED <<home, value, forward>>

\* The new coordinators must be uninitialized.
FinishNewRead(p) ==
    /\ pc[p] = "newReading"
    /\ \E n \in 1..MaxPlace, m \in 0..MaxPlace :
          /\ ReadReturns(Own(p), n, m)
          /\ pc' = [pc EXCEPT ![p] = IF Content(target[p], m) = Empty THEN "newRead" ELSE "gone"]
    /\ UNCHANGED <<home, slot, value, target, forward>>

WriteNew(p) ==
    /\ pc[p] = "newRead"
    /\ Set(Own(p), MovingFrom(value[p], home[p]))
    /\ pc' = [pc EXCEPT ![p] = "newWriting"]
    /\ UNCHANGED <<home, slot, value, target, forward>>

FinishNewWrite(p) ==
    /\ pc[p] = "newWriting"
    /\ Success(Own(p))
    /\ pc' = [pc EXCEPT ![p] = "newWritten"]
    /\ UNCHANGED <<home, slot, value, target, forward>>

ReadOld(p) ==
    /\ pc[p] = "newWritten"
    /\ BeginRead(p, OldCs, home[p])
    /\ pc' = [pc EXCEPT ![p] = "oldReading"]
    /\ UNCHANGED <<home, value, target, forward>>

\* The old coordinators still hold what p wrote (lastCSValue).
Unchanged(p, v) == v = Active(value[p])

FinishOldRead(p) ==
    /\ pc[p] = "oldReading"
    /\ \E n \in 1..MaxPlace, m \in 0..MaxPlace :
          /\ ReadReturns(Own(p), n, m)
          /\ pc' = [pc EXCEPT ![p] = IF Unchanged(p, Content(home[p], m)) THEN "moving" ELSE "gone"]
    /\ UNCHANGED <<home, slot, value, target, forward>>

WriteMaybeTo(p) ==
    /\ pc[p] = "moving"
    /\ Set(Own(p), MaybeTo(value[p], target[p]))
    /\ pc' = [pc EXCEPT ![p] = "movingWrite"]
    /\ UNCHANGED <<home, slot, value, target, forward>>

FinishMaybeTo(p) ==
    /\ pc[p] = "movingWrite"
    /\ Success(Own(p))
    /\ pc' = [pc EXCEPT ![p] = "forwarding"]
    /\ UNCHANGED <<home, slot, value, target, forward>>

\* The coordinators p was elected by are told to forward to the new ones.
Forward(p) ==
    /\ pc[p] = "forwarding"
    /\ forward' = forward \cup {target[p]}
    /\ pc' = [pc EXCEPT ![p] = "gone"]
    /\ UNCHANGED <<home, slot, value, target, objectVars>>

\* setExclusive throws coordinated_state_conflict, which ends the recovery.
Conflict(p) ==
    /\ pc[p] \in {"writing", "finishing", "newWriting", "movingWrite"}
    /\ phase' = [phase EXCEPT ![Own(p)] = "conflict"]
    /\ pc' = [pc EXCEPT ![p] = "gone"]
    /\ UNCHANGED <<home, slot, value, target, forward, where, place, from, known, data>>

Next ==
    \E p \in Process :
        \/ Start(p) \/ FinishRead(p) \/ Write(p) \/ FinalWrite(p) \/ FinishWrite(p) \/ Reread(p)
        \/ Move(p) \/ FinishNewRead(p) \/ WriteNew(p) \/ FinishNewWrite(p)
        \/ ReadOld(p) \/ FinishOldRead(p) \/ WriteMaybeTo(p) \/ FinishMaybeTo(p)
        \/ Forward(p) \/ Conflict(p)

Spec == Init /\ [][Next]_vars
-----------------------------------------------------------------------------
(***************************************************************************)
(* Correctness.                                                            *)
(***************************************************************************)

\* The objects with which a state was saved successfully.
Saved == {o \in Object : phase[o] = "success" /\ data[o].mode = "Active"}

\* The database has one history however often it is moved: of two states that
\* were saved successfully, at the same or at different coordinators, one was
\* built on the other.  A move that is abandoned, repeated by another recovery
\* or overtaken by a write loses nothing and forks nothing.
OneHistory ==
    \A a, b \in Saved : data[a].value \subseteq data[b].value \/ data[b].value \subseteq data[a].value

\* The move is permanent, as the comment on move() says: coordinators from
\* which the state was moved save nothing new.  A write that is acknowledged
\* late is part of what was moved.
MovedForGood ==
    \A a \in Saved : \A x \in Successes(where[a]) :
        data[x].mode = "MaybeTo" => data[a].value \subseteq data[x].value

\* Whoever is sent to other coordinators finds a state there, and everything
\* saved at the coordinators it was moved from is part of it.
ForwardedToCurrent ==
    \A q \in forward : \E o \in Written(q) :
        /\ data[o].mode = "MovingFrom"
        /\ \A a \in Saved : where[a] = data[o].other => data[a].value \subseteq data[o].value

\* A move, half done or complete, misleads nobody: the variables have their types, the
\* coordinators that were left stay left, and those named in their place are the right ones.
MoveInv == TypeOK /\ MovedForGood /\ ForwardedToCurrent
=====================================================================================
