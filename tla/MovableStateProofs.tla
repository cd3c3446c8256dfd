---------------------------- MODULE MovableStateProofs ----------------------------
(***************************************************************************)
(* Proofs, for any number of recoveries, coordinator sets and moves, that  *)
(* the database keeps one history while its state is moved from            *)
(* coordinators to coordinators, each of which keeps ExclusiveState's      *)
(* promise.                                                                *)
(***************************************************************************)
EXTENDS MovableState, TLAPS

-----------------------------------------------------------------------------
(***************************************************************************)
(* The inductive invariant.                                                *)
(***************************************************************************)

Read(o) == phase[o] \notin {"new", "reading"}

Wrote(o) == phase[o] \in {"setting", "success", "conflict"}

IsPlace(q, n) == n = 0 \/ \E o \in Object : where[o] = q /\ Wrote(o) /\ place[o] = n

\* A value that is built on another one: it contains it, and is the same if the
\* state was on the move.
Follows(v, u) == u.value \subseteq v.value /\ (u.mode = "MaybeTo" => v = u)

\* Reads that return have different places, and return what somebody wrote.
InvPlace ==
    /\ \A o \in Object : IF Read(o) THEN place[o] \in 1 .. MaxPlace ELSE place[o] = 0 /\ from[o] = 0
    /\ \A x, y \in Object :
          Read(x) /\ Read(y) /\ where[x] = where[y] /\ place[x] = place[y] => x = y
    /\ \A o \in Object : Read(o) => IsPlace(where[o], from[o])

\* Nobody after a success has missed it.
InvSeen ==
    /\ \A x, y \in Object :
          phase[x] = "success" /\ Read(y) /\ where[x] = where[y] /\ place[x] < place[y]
             => place[x] <= from[y]
    /\ \A x, y \in Object :
          x \in known[y] => /\ phase[x] = "success" /\ phase[y] # "new" /\ where[x] = where[y]
                            /\ Read(y) => place[x] < place[y]

\* Nobody whose place is after n has missed what is at n.
Unstraddled(q, n) ==
    \A y \in Object : Read(y) /\ where[y] = q /\ n < place[y] => n <= from[y]

\* Then everybody after n, or who read something after n, read something built on n.
InvLine ==
    \A q \in Quorum, n \in 1 .. MaxPlace : Unstraddled(q, n) =>
        \A y \in Object : Read(y) /\ where[y] = q /\ (n < place[y] \/ n <= from[y]) =>
            IsPlace(q, n) /\ Follows(Content(q, from[y]), Content(q, n))

\* q was initialized by a move with the state v of the coordinators h.
Created(q, v, h) ==
    \E c \in Object : /\ c[2] = NewCs /\ where[c] = q /\ phase[c] = "success"
                      /\ data[c] = MovingFrom(v, h)

\* What is written is built on what was read, and a move names coordinators that hold
\* the state that is moved.
InvData ==
    \A o \in Object : Wrote(o) =>
        /\ Follows(data[o], Content(where[o], from[o]))
        /\ IF o[2] = NewCs THEN data[o].mode = "MovingFrom" ELSE data[o].mode \in {"Active", "MaybeTo"}
        /\ data[o].mode = "MaybeTo" => Created(data[o].other, data[o].value, where[o])

\* New coordinators are initialized by one move before anybody else uses them.
InvCreate ==
    /\ \A x \in Object : phase[x] # "new" /\ x[2] = NewCs =>
          /\ where[x] # First
          /\ \A y \in Object : phase[y] # "new" /\ y[2] = NewCs /\ where[y] = where[x] => x = y
    /\ \A x \in Object : phase[x] # "new" /\ x[2] # NewCs /\ where[x] # First =>
          \E c \in known[x] : c[2] = NewCs

\* The moves that were completed, and where they led.
Departed(q, x) == x \in Object /\ where[x] = q /\ phase[x] = "success" /\ data[x].mode = "MaybeTo"

Reached(q) == q = First \/ \E h \in Quorum, x \in Object : Departed(h, x) /\ data[x].other = q

\* The state left q1 and is, with all it was, in what q2 began with.
Precedes(q1, q2) ==
    \E x, c \in Object : /\ Departed(q1, x)
                         /\ c[2] = NewCs /\ where[c] = q2 /\ phase[c] = "success"
                         /\ data[x].value \subseteq data[c].value

\* Only coordinators the state has reached are used, and they come one after the other.
InvReached ==
    /\ \A q \in forward : q # First /\ Reached(q)
    /\ \A x \in Object : phase[x] # "new" /\ x[2] # NewCs => Reached(where[x])
    /\ \A q1, q2 \in Quorum : Reached(q1) /\ Reached(q2) /\ q1 # q2 =>
          Precedes(q1, q2) \/ Precedes(q2, q1)

\* What p waits for, and what it may do with the value it has.
OwnPhase(p) ==
    IF pc[p] \in {"reading", "newReading", "oldReading"} THEN {"reading"}
    ELSE IF pc[p] \in {"ready", "newRead", "moving"} THEN {"read"}
    ELSE IF pc[p] \in {"writing", "finishing", "newWriting", "movingWrite"} THEN {"setting"}
    ELSE IF pc[p] = "gone" THEN {"read", "success", "conflict"}
    ELSE {"success"}

AtNew == {"newReading", "newRead", "newWriting", "newWritten"}

InvSlot(p) ==
    /\ home[p] \in {First} \cup forward
    /\ pc[p] = "off" => slot[p] = 1 /\ \A s \in Slot : phase[<<p, s>>] = "new"
    /\ pc[p] # "off" => phase[Own(p)] \in OwnPhase(p)
    /\ pc[p] \in {"reading", "ready", "writing", "written", "finishing", "recovered"} =>
          slot[p] \in 1 .. MaxMain
    /\ pc[p] \in AtNew => slot[p] = NewCs /\ where[Own(p)] = target[p]
    /\ pc[p] \notin AtNew \cup {"off", "gone"} => slot[p] # NewCs /\ where[Own(p)] = home[p]
    /\ pc[p] = "oldReading" => slot[p] = OldCs
    /\ pc[p] \in {"writing", "written"} => slot[p] < MaxMain
    /\ \A s \in Slot : s > slot[p] /\ s # NewCs => phase[<<p, s>>] = "new"
    /\ slot[p] <= MaxMain => phase[<<p, NewCs>>] = "new"
    /\ slot[p] = NewCs => phase[<<p, OldCs>>] = "new"

InvValue(p) ==
    /\ pc[p] = "ready" => /\ Content(home[p], from[Own(p)]).value = value[p]
                          /\ Content(home[p], from[Own(p)]).mode # "MaybeTo"
    /\ pc[p] = "newRead" => Content(target[p], from[Own(p)]) = Empty
    /\ pc[p] = "newWriting" => data[Own(p)] = MovingFrom(value[p], home[p])
    /\ pc[p] \in {"newWritten", "oldReading", "moving"} => Created(target[p], value[p], home[p])
    /\ pc[p] = "moving" =>
          Content(home[p], from[Own(p)]) \in {Active(value[p]), MaybeTo(value[p], target[p])}
    /\ pc[p] \in {"movingWrite", "forwarding"} => data[Own(p)] = MaybeTo(value[p], target[p])

IInv == /\ TypeOK
        /\ InvPlace
        /\ InvSeen
        /\ InvLine
        /\ InvData
        /\ InvCreate
        /\ InvReached
        /\ \A p \in Process : InvSlot(p) /\ InvValue(p)

-----------------------------------------------------------------------------
(***************************************************************************)
(* Objects and their places.                                               *)
(***************************************************************************)

LEMMA Objects ==
    /\ MaxMain \in Nat \ {0} /\ MaxPlace \in Nat
    /\ \A p \in Process, s \in Slot : <<p, s>> \in Object /\ <<p, s>>[2] = s
    /\ 1 \in Slot /\ OldCs \in Slot /\ NewCs \in Slot
    /\ OldCs \in Nat /\ NewCs \in Nat /\ OldCs > MaxMain /\ NewCs > OldCs
    /\ \A s \in 1 .. MaxMain : s \in Slot /\ s # NewCs /\ s # OldCs
    /\ \A s \in Slot : s \in Nat /\ (s > MaxMain => s = OldCs \/ s = NewCs)
  BY BoundAssumption DEF Object, Slot, OldCs, NewCs

LEMMA Typed ==
    ASSUME TypeOK
    PROVE  /\ \A p \in Process :
                 /\ Own(p) \in Object /\ Own(p) = <<p, slot[p]>> /\ Own(p)[2] = slot[p] /\ slot[p] \in Slot
                 /\ home[p] \in Quorum /\ target[p] \in Quorum /\ value[p] \in SUBSET Object
           /\ \A o \in Object :
                 /\ where[o] \in Quorum /\ place[o] \in 0 .. MaxPlace /\ from[o] \in 0 .. MaxPlace
                 /\ place[o] \in Nat /\ from[o] \in Nat
                 /\ data[o] \in MovableValue /\ known[o] \subseteq Object
                 /\ phase[o] \in {"new", "reading", "read", "setting", "success", "conflict"}
<1>1. ASSUME NEW p \in Process
      PROVE  /\ Own(p) \in Object /\ Own(p) = <<p, slot[p]>> /\ Own(p)[2] = slot[p] /\ slot[p] \in Slot
             /\ home[p] \in Quorum /\ target[p] \in Quorum /\ value[p] \in SUBSET Object
  BY Objects DEF TypeOK, Own, States
<1>2. ASSUME NEW o \in Object
      PROVE  /\ where[o] \in Quorum /\ place[o] \in 0 .. MaxPlace /\ from[o] \in 0 .. MaxPlace
             /\ data[o] \in MovableValue /\ known[o] \subseteq Object
             /\ phase[o] \in {"new", "reading", "read", "setting", "success", "conflict"}
  BY DEF TypeOK
<1>3. \A n \in 0 .. MaxPlace : n \in Nat
  BY Objects
<1> QED
  BY <1>1, <1>2, <1>3

\* The values that are written have their type, and are what their names say.
LEMMA Values ==
    ASSUME NEW v \in SUBSET Object, NEW q \in Quorum
    PROVE  /\ Active(v) \in MovableValue /\ Active(v).value = v /\ Active(v).mode = "Active"
           /\ MaybeTo(v, q) \in MovableValue /\ MaybeTo(v, q).value = v
           /\ MaybeTo(v, q).mode = "MaybeTo" /\ MaybeTo(v, q).other = q
           /\ MovingFrom(v, q) \in MovableValue /\ MovingFrom(v, q).value = v
           /\ MovingFrom(v, q).mode = "MovingFrom" /\ MovingFrom(v, q).other = q
           /\ Empty \in MovableValue /\ Empty.value = {} /\ Empty.mode = "Empty"
  BY FirstAssumption DEF Active, MaybeTo, MovingFrom, Empty, MovableValue, States

\* What the coordinators hold after a write is what was written.
ContentIs == \A o \in Object : Wrote(o) => Content(where[o], place[o]) = data[o]

LEMMA ContentOf == TypeOK /\ InvPlace => ContentIs
<1> SUFFICES ASSUME TypeOK, InvPlace, NEW o \in Object, Wrote(o)
             PROVE  Content(where[o], place[o]) = data[o]
  BY DEF ContentIs
<1>1. Read(o) /\ place[o] \in 1 .. MaxPlace
  BY Typed DEF Read, Wrote, InvPlace
<1>2. o \in Written(where[o])
  BY DEF Written, At, Wrote
<1>3. \A x \in Written(where[o]) : place[x] = place[o] => x = o
  BY <1>1 DEF Written, At, Wrote, Read, InvPlace
<1>4. (CHOOSE x \in Written(where[o]) : place[x] = place[o]) = o
  BY <1>2, <1>3
<1>5. place[o] # 0
  BY <1>1, Objects
<1> QED
  BY <1>4, <1>5 DEF Content

\* Whatever is read has its type.
LEMMA ContentTyped ==
    ASSUME TypeOK, InvPlace, NEW q \in Quorum, NEW m, IsPlace(q, m)
    PROVE  Content(q, m) \in MovableValue
<1>1. CASE m = 0
  <2>1. Content(q, m) = IF q = First THEN Active({}) ELSE Empty
    BY <1>1 DEF Content
  <2>2. {} \in SUBSET Object
    OBVIOUS
  <2> QED
    BY <2>1, <2>2, Values
<1>2. CASE m # 0
  <2>1. PICK o \in Object : where[o] = q /\ Wrote(o) /\ place[o] = m
    BY <1>2 DEF IsPlace
  <2> QED
    BY <2>1, ContentOf, Typed DEF ContentIs
<1> QED
  BY <1>1, <1>2

-----------------------------------------------------------------------------
(***************************************************************************)
(* What a step does to the objects.                                        *)
(***************************************************************************)

Keeps(o) ==
    \A x \in Object : x # o =>
        /\ where'[x] = where[x] /\ phase'[x] = phase[x] /\ place'[x] = place[x]
        /\ from'[x] = from[x] /\ known'[x] = known[x] /\ data'[x] = data[x]

Begins(o, q) ==
    /\ Keeps(o)
    /\ phase[o] = "new" /\ phase'[o] = "reading"
    /\ where'[o] = q /\ known'[o] = Successes(q)
    /\ place'[o] = place[o] /\ from'[o] = from[o] /\ data'[o] = data[o]
    /\ IF o[2] = NewCs THEN Unused(q) ELSE Reached(q)

Returns(o, n, m) ==
    /\ Keeps(o)
    /\ phase[o] = "reading" /\ phase'[o] = "read"
    /\ where'[o] = where[o] /\ known'[o] = known[o] /\ data'[o] = data[o]
    /\ place'[o] = n /\ from'[o] = m
    /\ \A x \in Object : Read(x) /\ where[x] = where[o] => place[x] # n
    /\ \A x \in known[o] : place[x] < n
    /\ IsPlace(where[o], m)
    /\ \A x \in Object :
          phase[x] = "success" /\ where[x] = where[o] /\ place[x] < n => place[x] <= m

Sets(o, v) ==
    /\ Keeps(o)
    /\ phase[o] = "read" /\ phase'[o] = "setting"
    /\ where'[o] = where[o] /\ known'[o] = known[o] /\ place'[o] = place[o] /\ from'[o] = from[o]
    /\ data'[o] = v
    /\ Follows(v, Content(where[o], from[o]))
    /\ IF o[2] = NewCs THEN v.mode = "MovingFrom" ELSE v.mode \in {"Active", "MaybeTo"}
    /\ v.mode = "MaybeTo" => Created(v.other, v.value, where[o])

Ends(o, outcome) ==
    /\ Keeps(o)
    /\ phase[o] = "setting" /\ phase'[o] = outcome
    /\ where'[o] = where[o] /\ known'[o] = known[o] /\ place'[o] = place[o] /\ from'[o] = from[o]
    /\ data'[o] = data[o]
    /\ outcome \in {"success", "conflict"}
    /\ outcome = "success" => Serializes(o)

ObjectStep ==
    \/ UNCHANGED objectVars
    \/ \E o \in Object :
          \/ \E q \in Quorum : Begins(o, q)
          \/ \E n \in 1 .. MaxPlace, m \in 0 .. MaxPlace : Returns(o, n, m)
          \/ \E v \in MovableValue : Sets(o, v)
          \/ \E outcome \in {"success", "conflict"} : Ends(o, outcome)

LEMMA BeginReadBegins ==
    ASSUME TypeOK, NEW p \in Process, NEW s \in Slot, NEW q \in Quorum, BeginRead(p, s, q),
           phase[<<p, s>>] = "new",
           IF s = NewCs THEN Unused(q) ELSE Reached(q)
    PROVE  Begins(<<p, s>>, q) /\ slot' = [slot EXCEPT ![p] = s]
<1>1. <<p, s>> \in Object /\ <<p, s>>[2] = s
  BY Objects
<1> DEFINE o == <<p, s>>
<1>2. o \in Object /\ o[2] = s
  BY <1>1
<1>3. /\ where' = [where EXCEPT ![o] = q] /\ phase' = [phase EXCEPT ![o] = "reading"]
      /\ known' = [known EXCEPT ![o] = Successes(q)] /\ UNCHANGED <<place, from, data>>
      /\ slot' = [slot EXCEPT ![p] = s] /\ phase[o] = "new"
  BY DEF BeginRead
<1> HIDE DEF o
<1>4. Begins(o, q)
  BY <1>2, <1>3 DEF Begins, Keeps, TypeOK
<1> QED
  BY <1>3, <1>4 DEF o

LEMMA ReadReturnsReturns ==
    ASSUME TypeOK, NEW o \in Object, NEW n, NEW m, ReadReturns(o, n, m)
    PROVE  Returns(o, n, m)
<1>1. /\ phase[o] = "reading" /\ \A x \in HasRead(where[o]) : place[x] # n
      /\ \A x \in known[o] : place[x] < n
      /\ m \in {0} \cup {place[x] : x \in Written(where[o])}
      /\ \A x \in Successes(where[o]) : place[x] < n => place[x] <= m
      /\ place' = [place EXCEPT ![o] = n] /\ from' = [from EXCEPT ![o] = m]
      /\ phase' = [phase EXCEPT ![o] = "read"] /\ UNCHANGED <<where, known, data>>
  BY DEF ReadReturns
<1>2. IsPlace(where[o], m)
  BY <1>1 DEF IsPlace, Written, At, Wrote
<1>3. Keeps(o) /\ phase'[o] = "read" /\ place'[o] = n /\ from'[o] = m
  BY <1>1 DEF Keeps, TypeOK
<1>4. \A x \in Object : Read(x) /\ where[x] = where[o] => place[x] # n
  BY <1>1 DEF HasRead, At, Read
<1>5. \A x \in Object :
         phase[x] = "success" /\ where[x] = where[o] /\ place[x] < n => place[x] <= m
  BY <1>1 DEF Successes, At
<1> QED
  BY <1>1, <1>2, <1>3, <1>4, <1>5 DEF Returns

LEMMA SetSets ==
    ASSUME TypeOK, NEW o \in Object, NEW v, Set(o, v), phase[o] = "read",
           Follows(v, Content(where[o], from[o])),
           IF o[2] = NewCs THEN v.mode = "MovingFrom" ELSE v.mode \in {"Active", "MaybeTo"},
           v.mode = "MaybeTo" => Created(v.other, v.value, where[o])
    PROVE  Sets(o, v)
<1>1. Keeps(o)
  BY DEF Set, Keeps, TypeOK
<1> QED
  BY <1>1 DEF Set, Sets, TypeOK

LEMMA SuccessEnds ==
    ASSUME TypeOK, NEW o \in Object, Success(o)
    PROVE  Ends(o, "success")
  BY DEF Success, Ends, Keeps, TypeOK

\* Coordinators to which somebody was forwarded were initialized before.
LEMMA ReachedCreated ==
    ASSUME InvData, NEW q, Reached(q), q # First
    PROVE  \E v, h : Created(q, v, h)
<1>1. PICK h \in Quorum, x \in Object : Departed(h, x) /\ data[x].other = q
  BY DEF Reached
<1>2. Wrote(x) /\ data[x].mode = "MaybeTo"
  BY <1>1 DEF Departed, Wrote
<1> QED
  BY <1>1, <1>2 DEF InvData

\* Each action of a recovery is at most one call on, or one return of, one object.
LEMMA ObjectSteps ==
    ASSUME IInv, [Next]_vars
    PROVE  ObjectStep
<1>0. TypeOK /\ InvData /\ InvReached /\ \A p \in Process : InvSlot(p) /\ InvValue(p)
  BY DEF IInv
<1>a. \A p \in Process : Reached(home[p])
  BY <1>0 DEF InvSlot, InvReached, Reached
<1>1. CASE UNCHANGED vars
  BY <1>1 DEF ObjectStep, vars, objectVars
<1>2. ASSUME NEW p \in Process, Start(p)
      PROVE  ObjectStep
  <2>1. PICK q \in {First} \cup forward : BeginRead(p, 1, q)
    BY <1>2 DEF Start
  <2>2. q \in Quorum /\ Reached(q)
    BY <1>0, FirstAssumption DEF InvReached, TypeOK, Reached
  <2>3. phase[<<p, 1>>] = "new" /\ 1 \in Slot /\ 1 # NewCs
    <3>1. pc[p] = "off" /\ InvSlot(p)
      BY <1>0, <1>2 DEF Start
    <3>2. 1 \in Slot /\ 1 # NewCs
      BY Objects DEF Slot, NewCs
    <3> QED
      BY <3>1, <3>2 DEF InvSlot
  <2>4. Begins(<<p, 1>>, q)
    BY <1>0, <2>1, <2>2, <2>3, BeginReadBegins
  <2> QED
    BY <2>2, <2>3, <2>4, Objects DEF ObjectStep
<1>3. ASSUME NEW p \in Process, FinishRead(p) \/ FinishNewRead(p) \/ FinishOldRead(p)
      PROVE  ObjectStep
  <2>1. PICK n \in 1 .. MaxPlace, m \in 0 .. MaxPlace : ReadReturns(Own(p), n, m)
    BY <1>3 DEF FinishRead, FinishNewRead, FinishOldRead
  <2> QED
    BY <1>0, <2>1, ReadReturnsReturns, Typed DEF ObjectStep
<1>4. ASSUME NEW p \in Process, Write(p) \/ FinalWrite(p)
      PROVE  ObjectStep
  <2>1. /\ Set(Own(p), Active(value'[p])) /\ pc[p] = "ready"
        /\ value'[p] \in SUBSET Object /\ value[p] \subseteq value'[p]
    BY <1>0, <1>4, Typed DEF Write, FinalWrite, TypeOK
  <2>2. PICK v \in SUBSET Object : v = value'[p]
    BY <2>1
  <2>3. /\ phase[Own(p)] = "read" /\ where[Own(p)] = home[p] /\ Own(p)[2] # NewCs
        /\ Content(home[p], from[Own(p)]).value = value[p]
        /\ Content(home[p], from[Own(p)]).mode # "MaybeTo"
    BY <1>0, <2>1, Typed, Objects DEF InvSlot, InvValue, OwnPhase, AtNew
  <2>4. Active(v) \in MovableValue /\ Active(v).value = v /\ Active(v).mode = "Active"
    BY FirstAssumption, Values
  <2>5. Follows(Active(v), Content(home[p], from[Own(p)]))
    BY <2>1, <2>2, <2>3, <2>4 DEF Follows
  <2>6. Sets(Own(p), Active(v))
    BY <1>0, <2>1, <2>2, <2>3, <2>4, <2>5, SetSets, Typed
  <2> QED
    BY <1>0, <2>4, <2>6, Typed DEF ObjectStep
<1>5. ASSUME NEW p \in Process, FinishWrite(p) \/ FinishNewWrite(p) \/ FinishMaybeTo(p)
      PROVE  ObjectStep
  <2>1. Success(Own(p))
    BY <1>5 DEF FinishWrite, FinishNewWrite, FinishMaybeTo
  <2> QED
    BY <1>0, <2>1, SuccessEnds, Typed DEF ObjectStep
<1>6. ASSUME NEW p \in Process, Reread(p)
      PROVE  ObjectStep
  <2>1. /\ slot[p] \in 1 .. MaxMain /\ slot[p] < MaxMain
        /\ \A s \in Slot : s > slot[p] /\ s # NewCs => phase[<<p, s>>] = "new"
    BY <1>0, <1>6 DEF Reread, InvSlot
  <2>2. slot[p] + 1 \in Slot /\ slot[p] + 1 # NewCs /\ slot[p] + 1 > slot[p]
    BY <2>1, Objects DEF Slot, NewCs
  <2>3. Begins(<<p, slot[p] + 1>>, home[p])
    BY <1>0, <1>a, <1>6, <2>1, <2>2, BeginReadBegins, Typed DEF Reread
  <2> QED
    BY <1>0, <2>2, <2>3, Objects, Typed DEF ObjectStep
<1>7. ASSUME NEW p \in Process, Move(p)
      PROVE  ObjectStep
  <2>1. PICK q \in Quorum : Unused(q) /\ BeginRead(p, NewCs, q)
    BY <1>7 DEF Move
  <2>2. phase[<<p, NewCs>>] = "new"
    <3>1. pc[p] = "recovered" /\ InvSlot(p)
      BY <1>0, <1>7 DEF Move
    <3>2. slot[p] \in 1 .. MaxMain /\ (slot[p] <= MaxMain => phase[<<p, NewCs>>] = "new")
      BY <3>1 DEF InvSlot
    <3> QED
      BY <3>2, Objects
  <2>3. Begins(<<p, NewCs>>, q)
    BY <1>0, <2>1, <2>2, BeginReadBegins, Objects
  <2> QED
    BY <2>3, Objects DEF ObjectStep
<1>8. ASSUME NEW p \in Process, WriteNew(p)
      PROVE  ObjectStep
  <2>1. /\ phase[Own(p)] = "read" /\ where[Own(p)] = target[p] /\ Own(p)[2] = NewCs
        /\ Content(target[p], from[Own(p)]) = Empty
    <3>1. pc[p] = "newRead" /\ InvSlot(p) /\ InvValue(p) /\ Own(p)[2] = slot[p]
      BY <1>0, <1>8, Typed DEF WriteNew
    <3>2. phase[Own(p)] = "read" /\ where[Own(p)] = target[p] /\ Own(p)[2] = NewCs
      BY <3>1 DEF InvSlot, OwnPhase, AtNew
    <3> QED
      BY <3>1, <3>2 DEF InvValue
  <2> DEFINE v == MovingFrom(value[p], home[p])
  <2>2. v \in MovableValue /\ v.mode = "MovingFrom" /\ Empty.value = {} /\ Empty.mode = "Empty"
    <3>1. value[p] \in SUBSET Object /\ home[p] \in Quorum
      BY <1>0, Typed
    <3> QED
      BY <3>1, Values, SMTT(30)
  <2>3. Set(Own(p), v)
    BY <1>8 DEF WriteNew
  <2> HIDE DEF v
  <2>4. Sets(Own(p), v)
    BY <1>0, <2>1, <2>2, <2>3, SetSets, Typed DEF Follows
  <2> QED
    BY <1>0, <2>2, <2>4, Typed DEF ObjectStep
<1>9. ASSUME NEW p \in Process, ReadOld(p)
      PROVE  ObjectStep
  <2>1. phase[<<p, OldCs>>] = "new"
    BY <1>0, <1>9 DEF ReadOld, InvSlot, AtNew
  <2>2. Begins(<<p, OldCs>>, home[p])
    BY <1>0, <1>a, <1>9, <2>1, BeginReadBegins, Objects, Typed DEF ReadOld
  <2> QED
    BY <1>0, <2>2, Objects, Typed DEF ObjectStep
<1>10. ASSUME NEW p \in Process, WriteMaybeTo(p)
       PROVE  ObjectStep
  <2>1. /\ phase[Own(p)] = "read" /\ where[Own(p)] = home[p] /\ Own(p)[2] # NewCs
        /\ Content(home[p], from[Own(p)]) \in {Active(value[p]), MaybeTo(value[p], target[p])}
        /\ Created(target[p], value[p], home[p])
    <3>1. pc[p] = "moving" /\ InvSlot(p) /\ InvValue(p) /\ Own(p)[2] = slot[p]
      BY <1>0, <1>10, Typed DEF WriteMaybeTo
    <3>2. phase[Own(p)] = "read" /\ where[Own(p)] = home[p] /\ Own(p)[2] # NewCs
      BY <3>1 DEF InvSlot, OwnPhase, AtNew
    <3> QED
      BY <3>1, <3>2 DEF InvValue
  <2> DEFINE v == MaybeTo(value[p], target[p])
             u == Active(value[p])
  <2>2. /\ v \in MovableValue /\ v.mode = "MaybeTo" /\ v.value = value[p] /\ v.other = target[p]
        /\ u.mode = "Active" /\ u.value = value[p]
    BY <1>0, Typed, Values
  <2>3. Set(Own(p), v) /\ Content(home[p], from[Own(p)]) \in {u, v}
    BY <1>10, <2>1 DEF WriteMaybeTo
  <2> HIDE DEF v, u
  <2>4. Follows(v, Content(where[Own(p)], from[Own(p)]))
    BY <2>1, <2>2, <2>3 DEF Follows
  <2>5. Sets(Own(p), v)
    BY <1>0, <2>1, <2>2, <2>3, <2>4, SetSets, Typed
  <2> QED
    BY <1>0, <2>2, <2>5, Typed DEF ObjectStep
<1>11. ASSUME NEW p \in Process, Forward(p)
       PROVE  ObjectStep
  BY <1>11 DEF Forward, ObjectStep
<1>12. ASSUME NEW p \in Process, Conflict(p)
       PROVE  ObjectStep
  <2>1. phase[Own(p)] = "setting"
    BY <1>0, <1>12 DEF Conflict, InvSlot, OwnPhase
  <2>2. Ends(Own(p), "conflict")
    BY <1>0, <1>12, <2>1, Typed DEF Conflict, Ends, Keeps, TypeOK
  <2> QED
    BY <1>0, <2>2, Typed DEF ObjectStep
<1> QED
  BY <1>1, <1>2, <1>3, <1>4, <1>5, <1>6, <1>7, <1>8, <1>9, <1>10, <1>11, <1>12 DEF Next

-----------------------------------------------------------------------------
(***************************************************************************)
(* Types.                                                                  *)
(***************************************************************************)

LEMMA TypeInit == Init => TypeOK
<1> SUFFICES ASSUME Init
             PROVE  TypeOK
  OBVIOUS
<1>1. Empty \in MovableValue /\ 1 \in Slot /\ 0 \in 0 .. MaxPlace
  BY Objects, FirstAssumption DEF Empty, MovableValue, States
<1> QED
  BY <1>1, FirstAssumption DEF Init, TypeOK, States

\* Every action of a recovery keeps the types.
LEMMA TypeStep ==
    ASSUME IInv, [Next]_vars
    PROVE  TypeOK'
<1>0. TypeOK /\ InvPlace /\ \A p \in Process : InvSlot(p)
  BY DEF IInv
<1>1. CASE UNCHANGED vars
  BY <1>0, <1>1 DEF TypeOK, vars
<1>2. ASSUME NEW p \in Process, NEW s \in Slot, NEW q \in Quorum, BeginRead(p, s, q)
      PROVE  /\ slot' \in [Process -> Slot] /\ where' \in [Object -> Quorum]
             /\ phase' \in [Object -> {"new", "reading", "read", "setting", "success", "conflict"}]
             /\ known' \in [Object -> SUBSET Object] /\ UNCHANGED <<place, from, data>>
  <2>1. Successes(q) \in SUBSET Object
    BY DEF Successes, At
  <2> QED
    BY <1>0, <1>2, <2>1 DEF BeginRead, TypeOK
<1>3. ASSUME NEW p \in Process, NEW n \in 1 .. MaxPlace, NEW m \in 0 .. MaxPlace,
             ReadReturns(Own(p), n, m)
      PROVE  /\ phase' \in [Object -> {"new", "reading", "read", "setting", "success", "conflict"}]
             /\ place' \in [Object -> 0 .. MaxPlace] /\ from' \in [Object -> 0 .. MaxPlace]
             /\ UNCHANGED <<where, known, data>>
             /\ IsPlace(where[Own(p)], m)
  <2>1. n \in 0 .. MaxPlace
    BY Objects
  <2>2. IsPlace(where[Own(p)], m)
    BY <1>0, <1>3, Typed, ReadReturnsReturns DEF Returns
  <2> QED
    BY <1>0, <1>3, <2>1, <2>2 DEF ReadReturns, TypeOK
<1>4. ASSUME NEW p \in Process, Start(p)
      PROVE  TypeOK'
  <2>1. PICK q \in {First} \cup forward : BeginRead(p, 1, q) /\ home' = [home EXCEPT ![p] = q]
    BY <1>4 DEF Start
  <2>2. q \in Quorum /\ 1 \in Slot
    BY <1>0, FirstAssumption, Objects DEF TypeOK
  <2>3. pc' = [pc EXCEPT ![p] = "reading"] /\ UNCHANGED <<value, target, forward>>
    BY <1>4 DEF Start
  <2> QED
    BY <1>0, <1>2, <2>1, <2>2, <2>3 DEF TypeOK
<1>5. ASSUME NEW p \in Process, FinishRead(p)
      PROVE  TypeOK'
  <2>1. PICK n \in 1 .. MaxPlace, m \in 0 .. MaxPlace :
           /\ ReadReturns(Own(p), n, m)
           /\ IF MustMove(Content(home[p], m))
              THEN /\ pc' = [pc EXCEPT ![p] = "moving"]
                   /\ target' = [target EXCEPT ![p] = Content(home[p], m).other]
                   /\ value' = [value EXCEPT ![p] = Content(home[p], m).value]
              ELSE /\ pc' = [pc EXCEPT ![p] = IF slot[p] = 1 \/ FoundOwn(p, Content(home[p], m))
                                              THEN "ready" ELSE "gone"]
                   /\ value' = [value EXCEPT ![p] = IF slot[p] = 1 THEN Content(home[p], m).value ELSE @]
                   /\ UNCHANGED target
    BY <1>5 DEF FinishRead
  <2>2. where[Own(p)] = home[p]
    BY <1>0, <1>5 DEF FinishRead, InvSlot, AtNew
  <2>3. Content(home[p], m) \in MovableValue
    BY <1>0, <1>3, <2>1, <2>2, ContentTyped, Typed
  <2>4. Content(home[p], m).value \in States /\ Content(home[p], m).other \in Quorum
    BY <2>3 DEF MovableValue
  <2>5. UNCHANGED <<home, slot, forward>>
    BY <1>5 DEF FinishRead
  <2>6. value' \in [Process -> States] /\ target' \in [Process -> Quorum]
    BY <1>0, <2>1, <2>4 DEF TypeOK
  <2>7. pc' = [pc EXCEPT ![p] = "moving"] \/ pc' = [pc EXCEPT ![p] = "ready"]
        \/ pc' = [pc EXCEPT ![p] = "gone"]
    BY <2>1
  <2> QED
    BY <1>0, <1>3, <2>1, <2>5, <2>6, <2>7 DEF TypeOK
<1>6. ASSUME NEW p \in Process, NEW v \in MovableValue, Set(Own(p), v)
      PROVE  /\ phase' \in [Object -> {"new", "reading", "read", "setting", "success", "conflict"}]
             /\ data' \in [Object -> MovableValue] /\ UNCHANGED <<where, place, from, known>>
  BY <1>0, <1>6 DEF Set, TypeOK
<1>7. ASSUME NEW p \in Process, Write(p) \/ FinalWrite(p)
      PROVE  TypeOK'
  <2>1. value[p] \cup {Own(p)} \in SUBSET Object
    BY <1>0, Typed
  <2>2. value' \in [Process -> States] /\ Set(Own(p), Active(value'[p]))
    BY <1>0, <1>7, <2>1 DEF Write, FinalWrite, TypeOK, States
  <2>3. PICK v \in SUBSET Object : v = value'[p]
    BY <2>2 DEF States
  <2>4. Active(v) \in MovableValue
    BY FirstAssumption, Values
  <2>5. /\ pc' = [pc EXCEPT ![p] = "writing"] \/ pc' = [pc EXCEPT ![p] = "finishing"]
        /\ UNCHANGED <<home, slot, target, forward>>
    BY <1>7 DEF Write, FinalWrite
  <2>6. /\ phase' \in [Object -> {"new", "reading", "read", "setting", "success", "conflict"}]
        /\ data' \in [Object -> MovableValue] /\ UNCHANGED <<where, place, from, known>>
    BY <1>6, <2>2, <2>3, <2>4
  <2> QED
    BY <1>0, <2>2, <2>5, <2>6 DEF TypeOK
<1>8. ASSUME NEW p \in Process, FinishWrite(p) \/ FinishNewWrite(p) \/ FinishMaybeTo(p)
      PROVE  TypeOK'
  <2>1. Own(p) \in Object
    BY <1>0, Typed
  <2> QED
    BY <1>0, <1>8, <2>1 DEF FinishWrite, FinishNewWrite, FinishMaybeTo, Success, TypeOK
<1>9. ASSUME NEW p \in Process, Reread(p)
      PROVE  TypeOK'
  <2>1. slot[p] \in 1 .. MaxMain /\ slot[p] < MaxMain
    BY <1>0, <1>9 DEF Reread, InvSlot
  <2>2. slot[p] + 1 \in Slot /\ home[p] \in Quorum
    BY <1>0, <2>1, Objects, Typed DEF Slot
  <2>3. /\ BeginRead(p, slot[p] + 1, home[p]) /\ pc' = [pc EXCEPT ![p] = "reading"]
        /\ UNCHANGED <<home, value, target, forward>>
    BY <1>9 DEF Reread
  <2> QED
    BY <1>0, <1>2, <2>2, <2>3 DEF TypeOK
<1>10. ASSUME NEW p \in Process, Move(p)
       PROVE  TypeOK'
  <2>1. PICK q \in Quorum : BeginRead(p, NewCs, q) /\ target' = [target EXCEPT ![p] = q]
    BY <1>10 DEF Move
  <2>2. pc' = [pc EXCEPT ![p] = "newReading"] /\ UNCHANGED <<home, value, forward>>
    BY <1>10 DEF Move
  <2> QED
    BY <1>0, <1>2, <2>1, <2>2, Objects DEF TypeOK
<1>11. ASSUME NEW p \in Process, FinishNewRead(p) \/ FinishOldRead(p)
       PROVE  TypeOK'
  <2>1. PICK n \in 1 .. MaxPlace, m \in 0 .. MaxPlace : ReadReturns(Own(p), n, m)
    BY <1>11 DEF FinishNewRead, FinishOldRead
  <2>2. /\ \E x \in {"newRead", "gone", "moving"} : pc' = [pc EXCEPT ![p] = x]
        /\ UNCHANGED <<home, slot, value, target, forward>>
    BY <1>11 DEF FinishNewRead, FinishOldRead
  <2> QED
    BY <1>0, <1>3, <2>1, <2>2 DEF TypeOK
<1>12. ASSUME NEW p \in Process, WriteNew(p) \/ WriteMaybeTo(p)
       PROVE  TypeOK'
  <2>1. PICK v \in MovableValue : Set(Own(p), v)
    <3>1. value[p] \in SUBSET Object /\ home[p] \in Quorum /\ target[p] \in Quorum
      BY <1>0, Typed
    <3>2. MovingFrom(value[p], home[p]) \in MovableValue /\ MaybeTo(value[p], target[p]) \in MovableValue
      BY <3>1, Values
    <3> QED
      BY <1>12, <3>2 DEF WriteNew, WriteMaybeTo
  <2>2. /\ \E x \in {"newWriting", "movingWrite"} : pc' = [pc EXCEPT ![p] = x]
        /\ UNCHANGED <<home, slot, value, target, forward>>
    BY <1>12 DEF WriteNew, WriteMaybeTo
  <2> QED
    BY <1>0, <1>6, <2>1, <2>2 DEF TypeOK
<1>13. ASSUME NEW p \in Process, ReadOld(p)
       PROVE  TypeOK'
  <2>1. /\ BeginRead(p, OldCs, home[p]) /\ pc' = [pc EXCEPT ![p] = "oldReading"]
        /\ UNCHANGED <<home, value, target, forward>> /\ home[p] \in Quorum
    BY <1>0, <1>13, Typed DEF ReadOld
  <2> QED
    BY <1>0, <1>2, <2>1, Objects DEF TypeOK
<1>14. ASSUME NEW p \in Process, Forward(p) \/ Conflict(p)
       PROVE  TypeOK'
  <2>1. Own(p) \in Object /\ target[p] \in Quorum
    BY <1>0, Typed
  <2> QED
    BY <1>0, <1>14, <2>1 DEF Forward, Conflict, objectVars, TypeOK
<1> QED
  BY <1>1, <1>4, <1>5, <1>7, <1>8, <1>9, <1>10, <1>11, <1>12, <1>13, <1>14 DEF Next

-----------------------------------------------------------------------------
(***************************************************************************)
(* The order in which the states of one coordinator set follow each other. *)
(***************************************************************************)

\* What has happened to an object stays.
Stays ==
    \A x \in Object :
        /\ phase[x] # "new" => phase'[x] # "new" /\ where'[x] = where[x] /\ known'[x] = known[x]
        /\ Read(x) => Read(x)' /\ place'[x] = place[x] /\ from'[x] = from[x]
        /\ Wrote(x) => Wrote(x)' /\ data'[x] = data[x]
        /\ phase[x] = "success" => phase'[x] = "success"

LEMMA ObjectsStay == ObjectStep => Stays
  BY DEF ObjectStep, Stays, Keeps, Begins, Returns, Sets, Ends, Read, Wrote, objectVars

LEMMA PlaceStays ==
    ASSUME Stays, NEW q, NEW n, IsPlace(q, n)
    PROVE  IsPlace(q, n)'
  BY DEF Stays, IsPlace, Wrote, Read

LEMMA PlaceStep ==
    ASSUME TypeOK, InvPlace, ObjectStep
    PROVE  InvPlace'
<1>0. Stays
  BY ObjectsStay
<1>a. \A o \in Object : Read(o) \/ phase[o] \in {"new", "reading"}
  BY DEF Read
<1>1. CASE UNCHANGED objectVars
  BY <1>1 DEF objectVars, InvPlace, Read, IsPlace, Wrote
<1>2. ASSUME NEW o \in Object, NEW q, Begins(o, q)
      PROVE  InvPlace'
  <2>1. ~ Read(o) /\ ~ Read(o)' /\ place'[o] = place[o] /\ from'[o] = from[o]
    BY <1>2 DEF Begins, Read
  <2>2. \A x \in Object : x # o => /\ Read(x)' = Read(x) /\ where'[x] = where[x]
                                   /\ place'[x] = place[x] /\ from'[x] = from[x]
    BY <1>2 DEF Begins, Keeps, Read
  <2>3. \A x \in Object : IF Read(x)' THEN place'[x] \in 1 .. MaxPlace ELSE place'[x] = 0 /\ from'[x] = 0
    BY <2>1, <2>2 DEF InvPlace
  <2>4. \A x, y \in Object : Read(x)' /\ Read(y)' /\ where'[x] = where'[y] /\ place'[x] = place'[y] => x = y
    BY <2>1, <2>2 DEF InvPlace
  <2>5. \A x \in Object : Read(x)' => IsPlace(where[x], from[x])' /\ where'[x] = where[x] /\ from'[x] = from[x]
    BY <1>0, <2>1, <2>2, PlaceStays DEF InvPlace
  <2> QED
    BY <2>3, <2>4, <2>5 DEF InvPlace
<1>3. ASSUME NEW o \in Object, NEW n \in 1 .. MaxPlace, NEW m \in 0 .. MaxPlace, Returns(o, n, m)
      PROVE  InvPlace'
  <2>1. /\ Read(o)' /\ place'[o] = n /\ from'[o] = m /\ where'[o] = where[o] /\ IsPlace(where[o], m)
        /\ \A x \in Object : Read(x) /\ where[x] = where[o] => place[x] # n
    BY <1>3 DEF Returns, Read
  <2>2. \A x \in Object : x # o => /\ Read(x)' = Read(x) /\ where'[x] = where[x]
                                   /\ place'[x] = place[x] /\ from'[x] = from[x]
    BY <1>3 DEF Returns, Keeps, Read
  <2>3. \A x \in Object : IF Read(x)' THEN place'[x] \in 1 .. MaxPlace ELSE place'[x] = 0 /\ from'[x] = 0
    BY <2>1, <2>2 DEF InvPlace
  <2>4. \A x, y \in Object : Read(x)' /\ Read(y)' /\ where'[x] = where'[y] /\ place'[x] = place'[y] => x = y
    BY <2>1, <2>2 DEF InvPlace
  <2>5. ASSUME NEW x \in Object, Read(x)'
        PROVE  IsPlace(where[x], from[x])'
    <3>1. PICK q, k : q = where'[x] /\ k = from'[x]
      OBVIOUS
    <3>2. IsPlace(q, k)
      BY <2>1, <2>2, <2>5, <3>1 DEF InvPlace
    <3>3. IsPlace(q, k)'
      BY <1>0, <3>2, PlaceStays
    <3> QED
      BY <3>1, <3>3
  <2> QED
    BY <2>3, <2>4, <2>5 DEF InvPlace
<1>4. ASSUME NEW o \in Object, (\E v : Sets(o, v)) \/ (\E outcome : Ends(o, outcome))
      PROVE  InvPlace'
  <2>1. \A x \in Object : /\ Read(x)' = Read(x) /\ where'[x] = where[x]
                          /\ place'[x] = place[x] /\ from'[x] = from[x]
    BY <1>4 DEF Sets, Ends, Keeps, Read
  <2>2. \A x \in Object : Read(x)' => IsPlace(where[x], from[x])'
    <3> SUFFICES ASSUME NEW x \in Object, Read(x)'
                 PROVE  IsPlace(where[x], from[x])'
      OBVIOUS
    <3>1. PICK q, k : q = where[x] /\ k = from[x]
      OBVIOUS
    <3>2. IsPlace(q, k)'
      BY <1>0, <2>1, <3>1, PlaceStays DEF InvPlace
    <3> QED
      BY <2>1, <3>1, <3>2
  <2> QED
    BY <2>1, <2>2 DEF InvPlace
<1> QED
  BY <1>1, <1>2, <1>3, <1>4 DEF ObjectStep

\* What was written can be read for ever after.
LEMMA ContentStays ==
    ASSUME TypeOK, InvPlace, TypeOK', InvPlace', Stays, NEW q, NEW m, IsPlace(q, m)
    PROVE  Content(q, m)' = Content(q, m)
<1>1. CASE m = 0
  BY <1>1 DEF Content
<1>2. CASE m # 0
  <2>1. PICK o \in Object : where[o] = q /\ Wrote(o) /\ place[o] = m
    BY <1>2 DEF IsPlace
  <2>2. where'[o] = q /\ Wrote(o)' /\ place'[o] = m /\ data'[o] = data[o]
    BY <2>1 DEF Stays, Wrote, Read
  <2>3. ContentIs /\ ContentIs'
    BY ContentOf, PTL
  <2>4. Content(q, m) = data[o]
    BY <2>1, <2>3 DEF ContentIs
  <2>5. Content(q, m)' = data'[o]
    BY <2>2, <2>3 DEF ContentIs
  <2> QED
    BY <2>2, <2>4, <2>5
<1> QED
  BY <1>1, <1>2

LEMMA CreatedStays ==
    ASSUME Stays, NEW q, NEW v, NEW h, Created(q, v, h)
    PROVE  Created(q, v, h)'
  BY DEF Stays, Created, Wrote

LEMMA SeenStep ==
    ASSUME TypeOK, InvPlace, InvSeen, ObjectStep
    PROVE  InvSeen'
<1>0. \A x \in Object : place[x] \in Nat /\ from[x] \in Nat
  BY Typed
<1>1. CASE UNCHANGED objectVars
  BY <1>1 DEF objectVars, InvSeen, Read
<1>2. ASSUME NEW o \in Object, NEW q, Begins(o, q)
      PROVE  InvSeen'
  <2>1. ~ Read(o)' /\ phase'[o] = "reading" /\ phase[o] = "new" /\ where'[o] = q
    BY <1>2 DEF Begins, Read
  <2>2. \A x \in Object : x # o => /\ Read(x)' = Read(x) /\ where'[x] = where[x] /\ phase'[x] = phase[x]
                                   /\ place'[x] = place[x] /\ from'[x] = from[x] /\ known'[x] = known[x]
    BY <1>2 DEF Begins, Keeps, Read
  <2>3. \A x \in known'[o] : x \in Object /\ phase[x] = "success" /\ where[x] = q
    BY <1>2 DEF Begins, Successes, At
  <2> QED
    BY <2>1, <2>2, <2>3 DEF InvSeen
<1>3. ASSUME NEW o \in Object, NEW n \in 1 .. MaxPlace, NEW m \in 0 .. MaxPlace, Returns(o, n, m)
      PROVE  InvSeen'
  <2>1. /\ phase[o] = "reading" /\ phase'[o] = "read" /\ where'[o] = where[o] /\ known'[o] = known[o]
        /\ place'[o] = n /\ from'[o] = m /\ \A x \in known[o] : place[x] < n
        /\ \A x \in Object :
              phase[x] = "success" /\ where[x] = where[o] /\ place[x] < n => place[x] <= m
    BY <1>3 DEF Returns
  <2>2. \A x \in Object : x # o => /\ Read(x)' = Read(x) /\ where'[x] = where[x] /\ phase'[x] = phase[x]
                                   /\ place'[x] = place[x] /\ from'[x] = from[x] /\ known'[x] = known[x]
    BY <1>3 DEF Returns, Keeps, Read
  <2> QED
    BY <2>1, <2>2 DEF InvSeen
<1>4. ASSUME NEW o \in Object, \E v : Sets(o, v)
      PROVE  InvSeen'
  BY <1>4 DEF Sets, Keeps, InvSeen, Read
<1>5. ASSUME NEW o \in Object, NEW outcome, Ends(o, outcome)
      PROVE  InvSeen'
  <2>1. \A x \in Object : /\ Read(x)' = Read(x) /\ where'[x] = where[x]
                          /\ place'[x] = place[x] /\ from'[x] = from[x] /\ known'[x] = known[x]
                          /\ x # o => phase'[x] = phase[x]
    BY <1>5 DEF Ends, Keeps, Read
  <2>2. \A y \in Object : phase'[o] = "success" /\ Read(y) /\ where[o] = where[y] /\ place[o] < place[y]
                             => place[o] <= from[y]
    BY <1>0, <1>5 DEF Ends, Serializes, HasRead, At, Read
  <2>3. phase[o] = "setting" /\ phase'[o] # "new"
    BY <1>5 DEF Ends
  <2>4. \A x, y \in Object :
          phase'[x] = "success" /\ Read(y)' /\ where'[x] = where'[y] /\ place'[x] < place'[y]
             => place'[x] <= from'[y]
    BY <2>1, <2>2 DEF InvSeen
  <2>5. \A x, y \in Object :
          x \in known'[y] => /\ phase'[x] = "success" /\ phase'[y] # "new" /\ where'[x] = where'[y]
                             /\ Read(y)' => place'[x] < place'[y]
    BY <2>1, <2>3 DEF InvSeen
  <2> QED
    BY <2>4, <2>5 DEF InvSeen
<1> QED
  BY <1>1, <1>2, <1>3, <1>4, <1>5 DEF ObjectStep

LEMMA FollowsTrans ==
    ASSUME NEW u, NEW v, NEW w, Follows(v, u), Follows(w, v)
    PROVE  Follows(w, u)
  BY DEF Follows

LEMMA LineStep ==
    ASSUME TypeOK, InvPlace, InvLine, InvData, TypeOK', InvPlace', ObjectStep
    PROVE  InvLine'
<1>0. Stays
  BY ObjectsStay
<1> SUFFICES ASSUME NEW q \in Quorum, NEW n \in 1 .. MaxPlace, Unstraddled(q, n)',
                    NEW y \in Object, Read(y)', where'[y] = q, n < place'[y] \/ n <= from'[y]
             PROVE  (IsPlace(q, n) /\ Follows(Content(q, from[y]), Content(q, n)))'
  BY DEF InvLine
<1>1. Unstraddled(q, n)
  BY <1>0 DEF Unstraddled, Stays, Read
<1>2. \A x \in Object : place[x] \in Nat /\ from[x] \in Nat
  BY Typed
<1>3. PICK m : m = from'[y]
  OBVIOUS
<1>4. IsPlace(q, n) /\ IsPlace(q, m) /\ Follows(Content(q, m), Content(q, n))
  <2>1. CASE Read(y)
    <3>1. where[y] = q /\ from[y] = m /\ (n < place[y] \/ n <= from[y])
      BY <1>0, <1>3, <2>1 DEF Stays, Read
    <3>2. IsPlace(q, from[y])
      BY <2>1, <3>1 DEF InvPlace
    <3> QED
      BY <1>1, <2>1, <3>1, <3>2 DEF InvLine
  <2>2. CASE ~ Read(y)
    <3>1. PICK k \in 1 .. MaxPlace, l \in 0 .. MaxPlace : Returns(y, k, l)
      BY <2>2 DEF ObjectStep, objectVars, Begins, Returns, Sets, Ends, Keeps, Read
    <3>2. where[y] = q /\ IsPlace(q, m) /\ place'[y] = k /\ m \in Nat /\ m = l
      BY <1>3, <3>1, Objects DEF Returns
    <3>3. n <= m
      BY <1>3, <3>2 DEF Unstraddled
    <3>4. CASE n = m
      BY <3>2, <3>4 DEF Follows
    <3>5. CASE n < m
      <4>1. PICK z \in Object : where[z] = q /\ Wrote(z) /\ place[z] = m
        BY <3>2, <3>5 DEF IsPlace
      <4>2. Read(z) /\ n < place[z]
        BY <3>5, <4>1 DEF Read, Wrote
      <4>3. IsPlace(q, n) /\ Follows(Content(q, from[z]), Content(q, n))
        BY <1>1, <4>1, <4>2 DEF InvLine
      <4>4. Follows(data[z], Content(q, from[z]))
        BY <4>1 DEF InvData
      <4>5. data[z] = Content(q, m)
        BY <4>1, ContentOf DEF ContentIs
      <4> QED
        BY <3>2, <4>3, <4>4, <4>5, FollowsTrans
    <3> QED
      BY <3>2, <3>3, <3>4, <3>5
  <2> QED
    BY <2>1, <2>2
<1>5. Content(q, m)' = Content(q, m) /\ Content(q, n)' = Content(q, n) /\ IsPlace(q, n)'
  BY <1>0, <1>4, ContentStays, PlaceStays
<1>6. Follows(Content(q, m)', Content(q, n)')
  BY <1>4, <1>5
<1> QED
  BY <1>3, <1>5, <1>6 DEF Follows

LEMMA DataStep ==
    ASSUME TypeOK, InvPlace, InvData, TypeOK', InvPlace', ObjectStep
    PROVE  InvData'
<1>0. Stays
  BY ObjectsStay
<1> SUFFICES ASSUME NEW o \in Object, Wrote(o)'
             PROVE  /\ Follows(data'[o], Content(where[o], from[o])')
                    /\ IF o[2] = NewCs THEN data'[o].mode = "MovingFrom"
                       ELSE data'[o].mode \in {"Active", "MaybeTo"}
                    /\ data'[o].mode = "MaybeTo" => Created(data[o].other, data[o].value, where[o])'
  BY DEF InvData, Follows
<1>1. /\ Read(o) /\ where'[o] = where[o] /\ from'[o] = from[o]
      /\ Follows(data'[o], Content(where[o], from[o]))
      /\ IF o[2] = NewCs THEN data'[o].mode = "MovingFrom" ELSE data'[o].mode \in {"Active", "MaybeTo"}
      /\ data'[o].mode = "MaybeTo" => Created(data'[o].other, data'[o].value, where[o])
  <2>1. CASE Wrote(o)
    <3>1. Read(o) /\ where'[o] = where[o] /\ from'[o] = from[o] /\ data'[o] = data[o]
      BY <1>0, <2>1 DEF Stays, Read, Wrote
    <3> QED
      BY <2>1, <3>1 DEF InvData
  <2>2. CASE ~ Wrote(o)
    <3>1. PICK v \in MovableValue : Sets(o, v)
      BY <2>2 DEF ObjectStep, objectVars, Begins, Returns, Sets, Ends, Keeps, Wrote
    <3> QED
      BY <3>1 DEF Sets, Read
  <2> QED
    BY <2>1, <2>2
<1>2. PICK q, m, v : q = where[o] /\ m = from[o] /\ v = data'[o]
  OBVIOUS
<1>3. Content(q, m)' = Content(q, m)
  BY <1>0, <1>1, <1>2, ContentStays DEF InvPlace
<1>4. v.mode = "MaybeTo" => Created(v.other, v.value, q)'
  BY <1>0, <1>1, <1>2, CreatedStays
<1> QED
  BY <1>1, <1>2, <1>3, <1>4

LEMMA CreateStep ==
    ASSUME TypeOK, InvSeen, InvData, InvCreate, ObjectStep
    PROVE  InvCreate'
<1>1. CASE UNCHANGED objectVars
  BY <1>1 DEF objectVars, InvCreate
<1>2. ASSUME NEW o \in Object, NEW q, Begins(o, q)
      PROVE  InvCreate'
  <2>1. phase[o] = "new" /\ phase'[o] = "reading" /\ where'[o] = q
    BY <1>2 DEF Begins
  <2>2. \A x \in Object : x # o => where'[x] = where[x] /\ phase'[x] = phase[x] /\ known'[x] = known[x]
    BY <1>2 DEF Begins, Keeps
  <2>3. CASE o[2] = NewCs
    <3>1. q # First /\ \A x \in Object : phase[x] # "new" => where[x] # q
      BY <1>2, <2>3 DEF Begins, Unused
    <3> QED
      BY <2>1, <2>2, <2>3, <3>1 DEF InvCreate
  <2>4. CASE o[2] # NewCs
    <3>1. q # First => \E c \in Object : c[2] = NewCs /\ where[c] = q /\ phase[c] = "success"
      BY <1>2, <2>4, ReachedCreated DEF Begins, Created
    <3>2. q # First => \E c \in known'[o] : c[2] = NewCs
      BY <1>2, <3>1 DEF Begins, Successes, At
    <3> QED
      BY <2>1, <2>2, <2>4, <3>2 DEF InvCreate
  <2> QED
    BY <2>3, <2>4
<1>3. ASSUME NEW o \in Object, \/ \E n, m : Returns(o, n, m)
                              \/ \E v : Sets(o, v)
                              \/ \E outcome : Ends(o, outcome)
      PROVE  InvCreate'
  <2>1. \A x \in Object : /\ where'[x] = where[x] /\ known'[x] = known[x]
                          /\ phase'[x] = "new" <=> phase[x] = "new"
    BY <1>3 DEF Returns, Sets, Ends, Keeps
  <2> QED
    BY <2>1 DEF InvCreate
<1> QED
  BY <1>1, <1>2, <1>3 DEF ObjectStep

-----------------------------------------------------------------------------
(***************************************************************************)
(* Coordinator sets one after the other.                                   *)
(***************************************************************************)

\* A write that nobody missed is contained in everything written after it.
LEMMA LaterFollows ==
    ASSUME TypeOK, InvPlace, InvLine, InvData, NEW x \in Object, NEW y \in Object,
           Wrote(x), Wrote(y), where[x] = where[y], place[x] < place[y],
           Unstraddled(where[x], place[x])
    PROVE  Follows(data[y], data[x])
<1>1. Read(x) /\ Read(y)
  BY DEF Wrote, Read
<1>2. place[x] \in 1 .. MaxPlace /\ where[x] \in Quorum
  BY <1>1, Typed DEF InvPlace
<1>3. Follows(Content(where[x], from[y]), Content(where[x], place[x]))
  BY <1>1, <1>2 DEF InvLine
<1>4. Content(where[x], place[x]) = data[x]
  BY ContentOf DEF ContentIs
<1>5. Follows(data[y], Content(where[x], from[y]))
  BY DEF InvData
<1> QED
  BY <1>3, <1>4, <1>5, FollowsTrans

LEMMA SuccessUnstraddled ==
    ASSUME InvSeen, NEW x \in Object, phase[x] = "success"
    PROVE  Unstraddled(where[x], place[x])
  BY DEF InvSeen, Unstraddled

\* Coordinators that were initialized by a move hold nothing that is not built on it.
LEMMA BeginsWithMoved ==
    ASSUME TypeOK, InvPlace, InvSeen, InvLine, InvData, InvCreate,
           NEW c \in Object, c[2] = NewCs, phase[c] = "success",
           NEW o \in Object, Wrote(o), o[2] # NewCs, where[o] = where[c]
    PROVE  data[c].value \subseteq data[o].value
<1>1. where[c] # First /\ phase[o] # "new" /\ Read(o) /\ Wrote(c)
  BY DEF InvCreate, Wrote, Read
<1>2. PICK d \in known[o] : d[2] = NewCs
  BY <1>1 DEF InvCreate
<1>3. d \in Object /\ phase[d] = "success" /\ where[d] = where[o] /\ place[d] < place[o]
  BY <1>1, <1>2, Typed DEF InvSeen
<1>4. d = c
  BY <1>2, <1>3 DEF InvCreate
<1>5. Unstraddled(where[c], place[c])
  BY SuccessUnstraddled
<1> QED
  BY <1>1, <1>3, <1>4, <1>5, LaterFollows DEF Follows

LEMMA ReachedStays ==
    ASSUME Stays
    PROVE  /\ \A q, x : Departed(q, x) => Departed(q, x)' /\ data'[x] = data[x]
           /\ \A q : Reached(q) => Reached(q)'
           /\ \A q1, q2 : Precedes(q1, q2) => Precedes(q1, q2)'
<1>1. \A x \in Object : phase[x] = "success" => /\ phase'[x] = "success" /\ where'[x] = where[x]
                                                /\ data'[x] = data[x]
  BY DEF Stays, Wrote
<1>2. \A q, x : Departed(q, x) => Departed(q, x)' /\ data'[x] = data[x]
  BY <1>1 DEF Departed
<1>3. \A q : Reached(q) => Reached(q)'
  BY <1>2 DEF Reached
<1>4. ASSUME NEW q1, NEW q2, Precedes(q1, q2)
      PROVE  Precedes(q1, q2)'
  <2>1. PICK x, c \in Object : /\ Departed(q1, x)
                               /\ c[2] = NewCs /\ where[c] = q2 /\ phase[c] = "success"
                               /\ data[x].value \subseteq data[c].value
    BY <1>4 DEF Precedes
  <2>2. Departed(q1, x)' /\ data'[x] = data[x] /\ where'[c] = q2 /\ phase'[c] = "success" /\ data'[c] = data[c]
    BY <1>1, <1>2, <2>1
  <2> QED
    BY <2>1, <2>2 DEF Precedes
<1> QED
  BY <1>2, <1>3, <1>4

\* The state moves on from one coordinator set to one other.
LEMMA LineOfCoordinators ==
    ASSUME TypeOK, InvPlace, InvSeen, InvLine, InvData, InvCreate, InvReached, ObjectStep
    PROVE  \A q1, q2 \in Quorum : Reached(q1)' /\ Reached(q2)' /\ q1 # q2 =>
              Precedes(q1, q2)' \/ Precedes(q2, q1)'
<1>0. Stays
  BY ObjectsStay
<1>1. CASE \A q \in Quorum : Reached(q)' => Reached(q)
  BY <1>0, <1>1, ReachedStays DEF InvReached
<1>2. ASSUME NEW r \in Quorum, Reached(r)', ~ Reached(r)
      PROVE  \A q1, q2 \in Quorum : Reached(q1)' /\ Reached(q2)' /\ q1 # q2 =>
                Precedes(q1, q2)' \/ Precedes(q2, q1)'
  <2>1. PICK o \in Object : /\ phase'[o] = "success" /\ data'[o].mode = "MaybeTo" /\ data'[o].other = r
                            /\ ~ Departed(where[o], o)
    <3>1. PICK h \in Quorum, x \in Object : Departed(h, x)' /\ data'[x].other = r
      BY <1>2 DEF Reached
    <3>2. CASE Departed(where[x], x)
      <4>1. data'[x] = data[x]
        BY <1>0, <3>2, ReachedStays
      <4>2. where[x] \in Quorum
        BY Typed
      <4> QED
        BY <1>2, <3>1, <3>2, <4>1, <4>2 DEF Reached
    <3> QED
      BY <3>1, <3>2 DEF Departed
  <2>2. phase[o] # "success"
    BY <1>0, <2>1 DEF Departed, Stays, Wrote
  <2>3. Ends(o, "success")
    BY <2>1, <2>2 DEF ObjectStep, objectVars, Begins, Returns, Sets, Ends, Keeps
  <2>4. /\ Wrote(o) /\ data'[o] = data[o] /\ where'[o] = where[o] /\ Serializes(o)
        /\ phase[o] = "setting" /\ \A x \in Object : x # o => phase'[x] = phase[x]
    BY <2>3 DEF Ends, Keeps, Wrote
  <2> DEFINE h == where[o]
  <2>5. h \in Quorum /\ o[2] # NewCs /\ Reached(h) /\ data[o].mode = "MaybeTo" /\ data[o].other = r
    BY <2>1, <2>4, Typed DEF InvData, InvReached, Wrote
  <2>6. PICK c \in Object : /\ c[2] = NewCs /\ where[c] = r /\ phase[c] = "success"
                            /\ data[c] = MovingFrom(data[o].value, h)
    BY <2>4, <2>5 DEF InvData, Created
  <2>7. data[c].value = data[o].value
    BY <2>6 DEF MovingFrom
  <2>8. Unstraddled(h, place[o])
    BY <2>4, Typed DEF Serializes, HasRead, At, Unstraddled, Read
  \* Nobody has left h before, or r would have been reached already.
  <2>9. \A x : ~ Departed(h, x)
    <3> SUFFICES ASSUME NEW x, Departed(h, x)
                 PROVE  FALSE
      OBVIOUS
    <3>1. x \in Object /\ where[x] = h /\ phase[x] = "success" /\ data[x].mode = "MaybeTo" /\ Wrote(x)
      BY DEF Departed, Wrote
    <3>2. data[x] = data[o]
      <4>1. CASE place[x] < place[o]
        BY <2>4, <2>5, <3>1, <4>1, SuccessUnstraddled, LaterFollows DEF Follows
      <4>2. CASE place[o] < place[x]
        BY <2>4, <2>5, <2>8, <3>1, <4>2, LaterFollows DEF Follows
      <4>3. place[o] # place[x]
        BY <2>2, <2>4, <3>1 DEF InvPlace, Wrote, Read
      <4> QED
        BY <3>1, <4>1, <4>2, <4>3, Typed
    <3> QED
      BY <1>2, <2>5, <3>1, <3>2 DEF Reached
  <2>10. ASSUME NEW q \in Quorum, Reached(q)
         PROVE  Precedes(q, r)'
    <3>1. where'[c] = r /\ phase'[c] = "success" /\ data'[c] = data[c]
      BY <1>0, <2>6 DEF Stays, Wrote
    <3>2. CASE q = h
      <4>1. Departed(h, o)'
        BY <2>1, <2>4 DEF Departed
      <4> QED
        BY <2>4, <2>6, <2>7, <3>1, <3>2, <4>1 DEF Precedes
    <3>3. CASE q # h
      <4>1. Precedes(q, h)
        BY <2>5, <2>9, <2>10, <3>3 DEF InvReached, Precedes
      <4>2. PICK x, d \in Object : /\ Departed(q, x)
                                   /\ d[2] = NewCs /\ where[d] = h /\ phase[d] = "success"
                                   /\ data[x].value \subseteq data[d].value
        BY <4>1 DEF Precedes
      <4>3. data[d].value \subseteq data[o].value
        BY <2>4, <2>5, <4>2, BeginsWithMoved
      <4>4. Departed(q, x)' /\ data'[x] = data[x]
        BY <1>0, <4>2, ReachedStays
      <4> QED
        BY <2>6, <2>7, <3>1, <4>2, <4>3, <4>4 DEF Precedes
    <3> QED
      BY <3>2, <3>3
  <2>11. \A q \in Quorum : Reached(q)' => Reached(q) \/ q = r
    <3> SUFFICES ASSUME NEW q \in Quorum, Reached(q)', ~ Reached(q)
                 PROVE  q = r
      OBVIOUS
    <3>1. PICK g \in Quorum, x \in Object : Departed(g, x)' /\ data'[x].other = q
      BY DEF Reached
    <3>2. CASE x = o
      BY <2>1, <3>1, <3>2
    <3>3. CASE x # o
      <4>1. Departed(g, x) /\ data'[x] = data[x]
        BY <2>3, <3>1, <3>3 DEF Departed, Ends, Keeps
      <4> QED
        BY <3>1, <4>1 DEF Reached
    <3> QED
      BY <3>2, <3>3
  <2> QED
    BY <1>0, <2>10, <2>11, ReachedStays DEF InvReached
<1> QED
  BY <1>1, <1>2

LEMMA ReachedStep ==
    ASSUME IInv, [Next]_vars
    PROVE  InvReached'
<1>0. /\ TypeOK /\ InvPlace /\ InvSeen /\ InvLine /\ InvData /\ InvCreate /\ InvReached
      /\ \A p \in Process : InvSlot(p) /\ InvValue(p)
  BY DEF IInv
<1>1. ObjectStep /\ Stays
  BY ObjectSteps, ObjectsStay
<1>2. ASSUME NEW q \in forward'
      PROVE  q # First /\ Reached(q)'
  <2>1. CASE q \in forward
    BY <1>0, <1>1, <2>1, ReachedStays DEF InvReached
  <2>2. CASE q \notin forward
    <3>1. PICK p \in Process : Forward(p)
      BY <2>2 DEF Next, vars, Start, FinishRead, Write, FinalWrite, FinishWrite, Reread, Move,
                  FinishNewRead, WriteNew, FinishNewWrite, ReadOld, FinishOldRead, WriteMaybeTo,
                  FinishMaybeTo, Conflict
    <3>2. q = target[p] /\ pc[p] = "forwarding" /\ target[p] \in Quorum /\ value[p] \in SUBSET Object
      BY <1>0, <2>2, <3>1, Typed DEF Forward
    <3>3. /\ phase[Own(p)] = "success" /\ data[Own(p)] = MaybeTo(value[p], target[p])
          /\ Own(p) \in Object /\ where[Own(p)] \in Quorum
      BY <1>0, <3>2, Typed DEF InvSlot, InvValue, OwnPhase
    <3>4. data[Own(p)].mode = "MaybeTo" /\ data[Own(p)].other = q
      BY <3>2, <3>3, Values
    <3>5. Reached(q)
      BY <3>3, <3>4 DEF Reached, Departed
    <3>6. PICK c \in Object : c[2] = NewCs /\ where[c] = q /\ phase[c] = "success"
      BY <1>0, <3>3, <3>4 DEF InvData, Wrote, Created
    <3>7. q # First
      BY <1>0, <3>6 DEF InvCreate
    <3> QED
      BY <1>1, <3>5, <3>7, ReachedStays
  <2> QED
    BY <2>1, <2>2
<1>3. ASSUME NEW x \in Object, phase'[x] # "new", x[2] # NewCs
      PROVE  Reached(where[x])'
  <2>1. PICK q : q = where'[x]
    OBVIOUS
  <2>2. Reached(q)
    <3>1. CASE phase[x] # "new"
      BY <1>0, <1>1, <1>3, <2>1, <3>1 DEF InvReached, Stays
    <3>2. CASE phase[x] = "new"
      <4>1. PICK h \in Quorum : Begins(x, h)
        BY <1>1, <1>3, <3>2 DEF ObjectStep, objectVars, Begins, Returns, Sets, Ends, Keeps
      <4> QED
        BY <1>3, <2>1, <4>1 DEF Begins
    <3> QED
      BY <3>1, <3>2
  <2> QED
    BY <1>1, <2>1, <2>2, ReachedStays
<1> QED
  BY <1>0, <1>1, <1>2, <1>3, LineOfCoordinators DEF InvReached

-----------------------------------------------------------------------------
(***************************************************************************)
(* What a recovery knows.                                                  *)
(***************************************************************************)

\* A step of another recovery.
Aside(p) ==
    /\ home'[p] = home[p] /\ pc'[p] = pc[p] /\ slot'[p] = slot[p] /\ value'[p] = value[p]
    /\ target'[p] = target[p] /\ forward \subseteq forward'
    /\ \A s \in Slot : LET o == <<p, s>> IN
          /\ where'[o] = where[o] /\ phase'[o] = phase[o] /\ place'[o] = place[o]
          /\ from'[o] = from[o] /\ known'[o] = known[o] /\ data'[o] = data[o]

LEMMA OthersAside ==
    ASSUME IInv, NEW p \in Process, NEW r \in Process, r # p,
           \/ Start(r) \/ FinishRead(r) \/ Write(r) \/ FinalWrite(r) \/ FinishWrite(r) \/ Reread(r)
           \/ Move(r) \/ FinishNewRead(r) \/ WriteNew(r) \/ FinishNewWrite(r)
           \/ ReadOld(r) \/ FinishOldRead(r) \/ WriteMaybeTo(r) \/ FinishMaybeTo(r)
           \/ Forward(r) \/ Conflict(r)
    PROVE  Aside(p)
<1>0. TypeOK
  BY DEF IInv
<1>1. /\ home'[p] = home[p] /\ pc'[p] = pc[p] /\ slot'[p] = slot[p] /\ value'[p] = value[p]
      /\ target'[p] = target[p] /\ forward \subseteq forward'
  BY <1>0 DEF TypeOK, Start, FinishRead, Write, FinalWrite, FinishWrite, Reread, Move,
              FinishNewRead, WriteNew, FinishNewWrite, ReadOld, FinishOldRead, WriteMaybeTo,
              FinishMaybeTo, Forward, Conflict, BeginRead
<1>2. PICK s \in Nat : \A o \in Object : o # <<r, s>> =>
         /\ where'[o] = where[o] /\ phase'[o] = phase[o] /\ place'[o] = place[o]
         /\ from'[o] = from[o] /\ known'[o] = known[o] /\ data'[o] = data[o]
  <2>1. ASSUME NEW s \in Nat, NEW q, BeginRead(r, s, q)
        PROVE  \A o \in Object : o # <<r, s>> =>
                  /\ where'[o] = where[o] /\ phase'[o] = phase[o] /\ place'[o] = place[o]
                  /\ from'[o] = from[o] /\ known'[o] = known[o] /\ data'[o] = data[o]
    BY <1>0, <2>1 DEF BeginRead, TypeOK
  <2>2. slot[r] \in Nat /\ slot[r] + 1 \in Nat /\ 1 \in Nat /\ NewCs \in Nat /\ OldCs \in Nat
        /\ Own(r) = <<r, slot[r]>>
    <3>1. slot[r] \in Slot /\ Own(r) = <<r, slot[r]>>
      BY <1>0, Typed
    <3>2. slot[r] \in Nat /\ NewCs \in Nat /\ OldCs \in Nat
      BY <3>1, Objects
    <3> QED
      BY <3>1, <3>2
  <2>3. CASE Start(r) \/ Reread(r) \/ Move(r) \/ ReadOld(r)
    BY <2>1, <2>2, <2>3 DEF Start, Reread, Move, ReadOld
  <2>4. CASE ~ (Start(r) \/ Reread(r) \/ Move(r) \/ ReadOld(r))
    <3>1. \A o \in Object : o # Own(r) =>
              /\ where'[o] = where[o] /\ phase'[o] = phase[o] /\ place'[o] = place[o]
              /\ from'[o] = from[o] /\ known'[o] = known[o] /\ data'[o] = data[o]
      BY <1>0, <2>4 DEF TypeOK, FinishRead, Write, FinalWrite, FinishWrite,
                  FinishNewRead, WriteNew, FinishNewWrite, FinishOldRead, WriteMaybeTo,
                  FinishMaybeTo, Forward, Conflict, objectVars, ReadReturns, Set, Success
    <3> QED
      BY <2>2, <3>1
  <2> QED
    BY <2>3, <2>4
<1>3. \A k \in Slot : <<p, k>> \in Object /\ <<p, k>> # <<r, s>>
  BY Objects
<1> QED
  BY <1>1, <1>2, <1>3 DEF Aside

LEMMA AsideSlot ==
    ASSUME TypeOK, NEW p \in Process, InvSlot(p), Aside(p)
    PROVE  InvSlot(p)'
<1>1. slot[p] \in Slot /\ NewCs \in Slot /\ OldCs \in Slot
  BY Objects DEF TypeOK
<1> QED
  BY <1>1 DEF InvSlot, Aside, Own, OwnPhase

LEMMA AsideValue ==
    ASSUME TypeOK, InvPlace, TypeOK', InvPlace', Stays,
           NEW p \in Process, InvSlot(p), InvValue(p), Aside(p)
    PROVE  InvValue(p)'
<1>1. slot[p] \in Slot /\ Own(p) \in Object /\ Own(p) = <<p, slot[p]>>
  BY Typed
<1>2. PICK h, q, v, o, m : h = home[p] /\ q = target[p] /\ v = value[p] /\ o = Own(p) /\ m = from[o]
  OBVIOUS
<1>3. /\ home'[p] = h /\ target'[p] = q /\ value'[p] = v /\ pc'[p] = pc[p] /\ Own(p)' = o
      /\ from'[o] = m /\ data'[o] = data[o]
  BY <1>1, <1>2 DEF Aside, Own
<1>4. pc[p] \in {"ready", "moving"} => Content(h, m)' = Content(h, m)
  <2> SUFFICES ASSUME pc[p] \in {"ready", "moving"}
               PROVE  Content(h, m)' = Content(h, m)
    OBVIOUS
  <2>1. Read(o) /\ where[o] = h
    BY <1>2 DEF InvSlot, OwnPhase, AtNew, Read
  <2>2. IsPlace(h, m)
    BY <1>1, <1>2, <2>1 DEF InvPlace
  <2> QED
    BY <2>2, ContentStays
<1>5. pc[p] = "newRead" => Content(q, m)' = Content(q, m)
  <2> SUFFICES ASSUME pc[p] = "newRead"
               PROVE  Content(q, m)' = Content(q, m)
    OBVIOUS
  <2>1. Read(o) /\ where[o] = q
    BY <1>2 DEF InvSlot, OwnPhase, AtNew, Read
  <2>2. IsPlace(q, m)
    BY <1>1, <1>2, <2>1 DEF InvPlace
  <2> QED
    BY <2>2, ContentStays
<1>6. Created(q, v, h) => Created(q, v, h)'
  BY CreatedStays
<1>7. /\ pc[p] = "ready" => Content(h, m).value = v /\ Content(h, m).mode # "MaybeTo"
      /\ pc[p] = "newRead" => Content(q, m) = Empty
      /\ pc[p] = "newWriting" => data[o] = MovingFrom(v, h)
      /\ pc[p] \in {"newWritten", "oldReading", "moving"} => Created(q, v, h)
      /\ pc[p] = "moving" => Content(h, m) \in {Active(v), MaybeTo(v, q)}
      /\ pc[p] \in {"movingWrite", "forwarding"} => data[o] = MaybeTo(v, q)
  BY <1>2 DEF InvValue
<1>8. /\ pc'[p] = "ready" => Content(h, m)'.value = v /\ Content(h, m)'.mode # "MaybeTo"
      /\ pc'[p] = "newRead" => Content(q, m)' = Empty
      /\ pc'[p] = "newWriting" => data'[o] = MovingFrom(v, h)
      /\ pc'[p] \in {"newWritten", "oldReading", "moving"} => Created(q, v, h)'
      /\ pc'[p] = "moving" => Content(h, m)' \in {Active(v), MaybeTo(v, q)}
      /\ pc'[p] \in {"movingWrite", "forwarding"} => data'[o] = MaybeTo(v, q)
  BY <1>3, <1>4, <1>5, <1>6, <1>7
<1> QED
  BY <1>3, <1>8 DEF InvValue

\* A recovery that creates an object and calls its read().
LEMMA BeginKnows ==
    ASSUME IInv, [Next]_vars, Stays, NEW p \in Process,
           Start(p) \/ Reread(p) \/ Move(p) \/ ReadOld(p)
    PROVE  InvSlot(p)' /\ InvValue(p)'
<1>0. TypeOK /\ InvSlot(p) /\ InvValue(p)
  BY DEF IInv
<1>1. slot[p] \in Slot /\ slot[p] \in Nat
  BY <1>0, Typed, Objects
<1>2. ASSUME NEW s \in Slot, NEW q, BeginRead(p, s, q)
      PROVE  /\ slot'[p] = s /\ where'[<<p, s>>] = q /\ phase'[<<p, s>>] = "reading"
             /\ \A k \in Slot : k # s => phase'[<<p, k>>] = phase[<<p, k>>]
             /\ Own(p)' = <<p, s>>
  BY <1>0, <1>2, Objects DEF BeginRead, TypeOK, Own
<1>3. CASE Start(p)
  <2>1. PICK q \in {First} \cup forward : BeginRead(p, 1, q) /\ home'[p] = q
    BY <1>0, <1>3 DEF Start, TypeOK
  <2>2. pc'[p] = "reading" /\ pc[p] = "off" /\ forward' = forward
    BY <1>0, <1>3 DEF Start, TypeOK
  <2>3. \A k \in Slot : phase[<<p, k>>] = "new"
    BY <1>0, <2>2 DEF InvSlot
  <2>4. /\ slot'[p] = 1 /\ where'[<<p, 1>>] = q /\ phase'[<<p, 1>>] = "reading" /\ Own(p)' = <<p, 1>>
        /\ \A k \in Slot : k # 1 => phase'[<<p, k>>] = "new"
    BY <1>2, <2>1, <2>3, Objects
  <2>5. 1 \in 1 .. MaxMain /\ 1 # NewCs /\ 1 # OldCs
    BY Objects
  <2>6. InvSlot(p)'
    BY <2>1, <2>2, <2>4, <2>5, Objects DEF InvSlot, OwnPhase, AtNew
  <2> QED
    BY <2>2, <2>6 DEF InvValue
<1>4. CASE Reread(p)
  <2>1. /\ pc'[p] = "reading" /\ pc[p] = "written" /\ forward' = forward /\ home'[p] = home[p]
        /\ BeginRead(p, slot[p] + 1, home[p])
    BY <1>0, <1>4 DEF Reread, TypeOK
  <2>2. /\ home[p] \in {First} \cup forward /\ slot[p] \in 1 .. MaxMain /\ slot[p] < MaxMain
        /\ \A k \in Slot : k > slot[p] /\ k # NewCs => phase[<<p, k>>] = "new"
        /\ slot[p] <= MaxMain => phase[<<p, NewCs>>] = "new"
    BY <1>0, <2>1 DEF InvSlot
  <2>3. slot[p] + 1 \in 1 .. MaxMain /\ slot[p] + 1 \in Slot /\ slot[p] + 1 # NewCs
    BY <2>2, Objects DEF Slot, NewCs
  <2>4. PICK s \in Slot : s = slot[p] + 1
    BY <2>3
  <2>5. /\ slot'[p] = s /\ where'[<<p, s>>] = home[p] /\ phase'[<<p, s>>] = "reading" /\ Own(p)' = <<p, s>>
        /\ \A k \in Slot : k # s => phase'[<<p, k>>] = phase[<<p, k>>]
    BY <1>2, <2>1, <2>4
  <2>6. s # NewCs /\ s <= MaxMain /\ s \in 1 .. MaxMain /\ \A k \in Slot : k > s => k > slot[p] /\ k # s
    BY <2>2, <2>3, <2>4, Objects
  <2>7. InvSlot(p)'
    BY <2>1, <2>2, <2>5, <2>6, Objects DEF InvSlot, OwnPhase, AtNew
  <2> QED
    BY <2>1, <2>7 DEF InvValue
<1>5. CASE Move(p)
  <2>1. PICK q \in Quorum : BeginRead(p, NewCs, q) /\ target'[p] = q
    BY <1>0, <1>5 DEF Move, TypeOK
  <2>2. /\ pc'[p] = "newReading" /\ pc[p] = "recovered" /\ forward' = forward /\ home'[p] = home[p]
    BY <1>0, <1>5 DEF Move, TypeOK
  <2>3. /\ home[p] \in {First} \cup forward /\ slot[p] \in 1 .. MaxMain
        /\ \A k \in Slot : k > slot[p] /\ k # NewCs => phase[<<p, k>>] = "new"
    BY <1>0, <2>2 DEF InvSlot
  <2>4. /\ slot'[p] = NewCs /\ where'[<<p, NewCs>>] = q /\ phase'[<<p, NewCs>>] = "reading"
        /\ Own(p)' = <<p, NewCs>>
        /\ \A k \in Slot : k # NewCs => phase'[<<p, k>>] = phase[<<p, k>>]
    BY <1>2, <2>1, Objects
  <2>5. /\ phase[<<p, OldCs>>] = "new" /\ OldCs # NewCs /\ ~ NewCs <= MaxMain
        /\ \A k \in Slot : ~ k > NewCs
    BY <2>3, Objects DEF Slot, NewCs, OldCs
  <2>6. InvSlot(p)'
    BY <2>1, <2>2, <2>3, <2>4, <2>5, Objects DEF InvSlot, OwnPhase, AtNew
  <2> QED
    BY <2>2, <2>6 DEF InvValue
<1>6. CASE ReadOld(p)
  <2>1. /\ pc'[p] = "oldReading" /\ pc[p] = "newWritten" /\ forward' = forward /\ home'[p] = home[p]
        /\ BeginRead(p, OldCs, home[p]) /\ value'[p] = value[p] /\ target'[p] = target[p]
    BY <1>0, <1>6 DEF ReadOld, TypeOK
  <2>2. home[p] \in {First} \cup forward /\ Created(target[p], value[p], home[p])
    BY <1>0, <2>1 DEF InvSlot, InvValue
  <2>3. /\ slot'[p] = OldCs /\ where'[<<p, OldCs>>] = home[p] /\ phase'[<<p, OldCs>>] = "reading"
        /\ Own(p)' = <<p, OldCs>>
    BY <1>2, <2>1, Objects
  <2>4. OldCs # NewCs /\ ~ OldCs <= MaxMain /\ \A k \in Slot : k > OldCs => k = NewCs
    BY Objects DEF Slot, NewCs, OldCs
  <2>5. InvSlot(p)'
    BY <2>1, <2>2, <2>3, <2>4, Objects DEF InvSlot, OwnPhase, AtNew
  <2>6. PICK q, v, h : q = target[p] /\ v = value[p] /\ h = home[p]
    OBVIOUS
  <2>7. Created(q, v, h)'
    BY <2>2, <2>6, CreatedStays
  <2> QED
    BY <2>1, <2>5, <2>6, <2>7 DEF InvValue
<1> QED
  BY <1>3, <1>4, <1>5, <1>6

\* A call or a return on the object a recovery uses.
LEMMA GoesOnSlot ==
    ASSUME TypeOK, NEW p \in Process, InvSlot(p), Keeps(Own(p)), where'[Own(p)] = where[Own(p)],
           slot'[p] = slot[p], home'[p] = home[p], forward \subseteq forward',
           pc'[p] \in AtNew => target'[p] = target[p],
           phase'[Own(p)] \in OwnPhase(p)',
           pc[p] # "off", pc[p] # "gone", pc'[p] # "off", pc'[p] # "oldReading",
           pc'[p] \in AtNew => pc[p] \in AtNew,
           pc[p] \in AtNew => pc'[p] \in AtNew \cup {"gone"},
           pc'[p] \in {"ready", "writing", "finishing"} => pc[p] \in {"reading", "ready"},
           pc'[p] \in {"reading", "written", "recovered"} => pc[p] \in {"writing", "finishing"},
           pc'[p] = "written" => pc[p] = "writing",
           pc'[p] = "writing" => slot[p] < MaxMain
    PROVE  InvSlot(p)'
<1>1. /\ slot[p] \in Slot /\ Own(p) = <<p, slot[p]>> /\ Own(p)' = <<p, slot[p]>>
      /\ NewCs \in Slot /\ OldCs \in Slot
  BY Typed, Objects DEF Own
<1>2. \A k \in Slot : k # slot[p] => phase'[<<p, k>>] = phase[<<p, k>>]
  <2>1. \A k \in Slot : k # slot[p] => <<p, k>> \in Object /\ <<p, k>> # Own(p)
    BY <1>1, Objects
  <2> QED
    BY <2>1 DEF Keeps
<1>3. \A k \in Slot : k > slot[p] => k # slot[p]
  <2>1. \A k \in Slot : k \in Nat
    BY Objects
  <2> QED
    BY <1>1, <2>1
<1>4. slot[p] <= MaxMain => slot[p] # NewCs
  BY <1>1, Objects
<1>5. slot[p] = NewCs => slot[p] # OldCs
  BY <1>1, Objects
<1>6. /\ home'[p] \in {First} \cup forward'
      /\ pc'[p] # "off" => phase'[Own(p)'] \in OwnPhase(p)'
      /\ \A s \in Slot : s > slot'[p] /\ s # NewCs => phase'[<<p, s>>] = "new"
      /\ slot'[p] <= MaxMain => phase'[<<p, NewCs>>] = "new"
      /\ slot'[p] = NewCs => phase'[<<p, OldCs>>] = "new"
  BY <1>1, <1>2, <1>3, <1>4, <1>5 DEF InvSlot
<1>7. /\ pc'[p] \in {"reading", "ready", "writing", "written", "finishing", "recovered"} =>
            slot'[p] \in 1 .. MaxMain
      /\ pc'[p] \in {"writing", "written"} => slot'[p] < MaxMain
  BY DEF InvSlot
<1>8. /\ pc'[p] \in AtNew => slot'[p] = NewCs /\ where'[Own(p)'] = target'[p]
      /\ pc'[p] \notin AtNew \cup {"off", "gone"} => slot'[p] # NewCs /\ where'[Own(p)'] = home'[p]
  BY <1>1 DEF InvSlot
<1> QED
  BY <1>6, <1>7, <1>8 DEF InvSlot

\* A recovery whose read() returns.
LEMMA ReadKnows ==
    ASSUME IInv, [Next]_vars, Stays, TypeOK', InvPlace', NEW p \in Process,
           FinishRead(p) \/ FinishNewRead(p) \/ FinishOldRead(p)
    PROVE  InvSlot(p)' /\ InvValue(p)'
<1>0. TypeOK /\ InvPlace /\ InvData /\ InvSlot(p) /\ InvValue(p)
  BY DEF IInv
<1>1. PICK o \in Object : o = Own(p)
  BY <1>0, Typed
<1>2. PICK h \in Quorum, q \in Quorum, v \in SUBSET Object : h = home[p] /\ q = target[p] /\ v = value[p]
  BY <1>0, Typed
<1>3. home'[p] = h /\ slot'[p] = slot[p] /\ forward' = forward /\ Own(p)' = o
  BY <1>1, <1>2 DEF FinishRead, FinishNewRead, FinishOldRead, Own
<1>4. ASSUME NEW n, NEW m, ReadReturns(o, n, m)
      PROVE  /\ Keeps(o) /\ where'[o] = where[o] /\ phase'[o] = "read" /\ from'[o] = m
             /\ IsPlace(where[o], m)
             /\ Content(where[o], m) \in MovableValue
             /\ \A w : w = where[o] => Content(w, m)' = Content(w, m)
  <2>1. Returns(o, n, m)
    BY <1>0, <1>4, ReadReturnsReturns
  <2>2. IsPlace(where[o], m)
    BY <2>1 DEF Returns
  <2> QED
    BY <1>0, <2>1, <2>2, ContentStays, ContentTyped, Typed DEF Returns
<1>5. CASE FinishRead(p)
  <2>1. PICK n, m :
           /\ ReadReturns(o, n, m)
           /\ IF MustMove(Content(h, m))
              THEN /\ pc' = [pc EXCEPT ![p] = "moving"]
                   /\ target' = [target EXCEPT ![p] = Content(h, m).other]
                   /\ value' = [value EXCEPT ![p] = Content(h, m).value]
              ELSE /\ pc' = [pc EXCEPT ![p] = IF slot[p] = 1 \/ FoundOwn(p, Content(h, m))
                                              THEN "ready" ELSE "gone"]
                   /\ value' = [value EXCEPT ![p] = IF slot[p] = 1 THEN Content(h, m).value ELSE @]
                   /\ UNCHANGED target
    BY <1>1, <1>2, <1>5 DEF FinishRead
  <2>2. pc[p] = "reading" /\ where[o] = h
    BY <1>0, <1>1, <1>2, <1>5 DEF FinishRead, InvSlot, AtNew
  <2>3. PICK c \in MovableValue : c = Content(h, m) /\ c = Content(h, m)'
    BY <1>4, <2>1, <2>2
  <2>4. CASE MustMove(c)
    <3>1. pc'[p] = "moving" /\ target'[p] = c.other /\ value'[p] = c.value
      BY <1>0, <2>1, <2>3, <2>4 DEF TypeOK
    <3>2. c.mode = "MaybeTo"
      BY <2>4 DEF MustMove
    <3>3. c = MaybeTo(c.value, c.other)
      BY <3>2 DEF MaybeTo, MovableValue
    <3>4. Created(c.other, c.value, h)
      <4>1. m # 0
        <5>1. Content(h, 0).mode # "MaybeTo"
          BY DEF Content, Active, Empty
        <5> QED
          BY <2>3, <3>2, <5>1
      <4>2. PICK z \in Object : where[z] = h /\ Wrote(z) /\ place[z] = m
        BY <1>4, <2>1, <2>2, <4>1 DEF IsPlace
      <4>3. data[z] = c
        BY <1>0, <2>3, <4>2, ContentOf DEF ContentIs
      <4> QED
        BY <1>0, <3>2, <4>2, <4>3 DEF InvData
    <3>5. Created(c.other, c.value, h)'
      BY <3>4, CreatedStays
    <3>6. InvSlot(p)'
      BY <1>0, <1>1, <1>2, <1>3, <1>4, <2>1, <2>2, <3>1, GoesOnSlot DEF OwnPhase, AtNew
    <3>7. InvValue(p)'
      BY <1>3, <1>4, <2>1, <2>3, <3>1, <3>3, <3>5 DEF InvValue
    <3> QED
      BY <3>6, <3>7
  <2>5. CASE ~ MustMove(c)
    <3>1. /\ pc'[p] \in {"ready", "gone"} /\ target'[p] = q
          /\ pc'[p] = "ready" => value'[p] = c.value
      BY <1>0, <1>2, <2>1, <2>3, <2>5 DEF TypeOK, FoundOwn
    <3>2. c.mode # "MaybeTo"
      BY <2>5 DEF MustMove
    <3>3. InvSlot(p)'
      BY <1>0, <1>1, <1>2, <1>3, <1>4, <2>1, <2>2, <3>1, GoesOnSlot DEF OwnPhase, AtNew
    <3>4. InvValue(p)'
      BY <1>3, <1>4, <2>1, <2>3, <3>1, <3>2 DEF InvValue
    <3> QED
      BY <3>3, <3>4
  <2> QED
    BY <2>4, <2>5
<1>6. CASE FinishNewRead(p)
  <2>1. PICK n, m :
           /\ ReadReturns(o, n, m)
           /\ pc' = [pc EXCEPT ![p] = IF Content(q, m) = Empty THEN "newRead" ELSE "gone"]
           /\ UNCHANGED <<value, target>>
    BY <1>1, <1>2, <1>6 DEF FinishNewRead
  <2>2. pc[p] = "newReading" /\ where[o] = q
    BY <1>0, <1>1, <1>2, <1>6 DEF FinishNewRead, InvSlot, AtNew
  <2>3. PICK c \in MovableValue : c = Content(q, m) /\ c = Content(q, m)'
    BY <1>4, <2>1, <2>2
  <2>4. /\ pc'[p] \in {"newRead", "gone"} /\ target'[p] = q
        /\ pc'[p] = "newRead" => c = Empty
    BY <1>0, <1>2, <2>1, <2>3 DEF TypeOK
  <2>5. InvSlot(p)'
    BY <1>0, <1>1, <1>2, <1>3, <1>4, <2>1, <2>2, <2>4, GoesOnSlot DEF OwnPhase, AtNew
  <2>6. InvValue(p)'
    BY <1>3, <1>4, <2>1, <2>3, <2>4 DEF InvValue
  <2> QED
    BY <2>5, <2>6
<1>7. CASE FinishOldRead(p)
  <2>1. PICK n, m :
           /\ ReadReturns(o, n, m)
           /\ pc' = [pc EXCEPT ![p] = IF Unchanged(p, Content(h, m)) THEN "moving" ELSE "gone"]
           /\ UNCHANGED <<value, target>>
    BY <1>1, <1>2, <1>7 DEF FinishOldRead
  <2>2. pc[p] = "oldReading" /\ where[o] = h /\ Created(q, v, h)
    BY <1>0, <1>1, <1>2, <1>7 DEF FinishOldRead, InvSlot, InvValue, AtNew
  <2>3. PICK c \in MovableValue : c = Content(h, m) /\ c = Content(h, m)'
    BY <1>4, <2>1, <2>2
  <2>4. /\ pc'[p] \in {"moving", "gone"} /\ target'[p] = q /\ value'[p] = v
        /\ pc'[p] = "moving" => c = Active(v)
    BY <1>0, <1>2, <2>1, <2>3 DEF TypeOK, Unchanged
  <2>5. Created(q, v, h)'
    BY <2>2, CreatedStays
  <2>6. InvSlot(p)'
    BY <1>0, <1>1, <1>2, <1>3, <1>4, <2>1, <2>2, <2>4, GoesOnSlot DEF OwnPhase, AtNew
  <2>7. InvValue(p)'
    BY <1>3, <1>4, <2>1, <2>3, <2>4, <2>5 DEF InvValue
  <2> QED
    BY <2>6, <2>7
<1> QED
  BY <1>5, <1>6, <1>7

\* A recovery that calls setExclusive(), whose setExclusive() returns, or that forwards.
LEMMA WriteKnows ==
    ASSUME IInv, [Next]_vars, Stays, NEW p \in Process,
           \/ Write(p) \/ FinalWrite(p) \/ FinishWrite(p) \/ WriteNew(p) \/ FinishNewWrite(p)
           \/ WriteMaybeTo(p) \/ FinishMaybeTo(p) \/ Forward(p) \/ Conflict(p)
    PROVE  InvSlot(p)' /\ InvValue(p)'
<1>0. TypeOK /\ InvSlot(p) /\ InvValue(p)
  BY DEF IInv
<1>1. PICK o \in Object : o = Own(p) /\ o[2] = slot[p]
  BY <1>0, Typed
<1>2. PICK h, q, v : h = home[p] /\ q = target[p] /\ v = value[p]
  OBVIOUS
<1>3. home'[p] = h /\ slot'[p] = slot[p] /\ forward \subseteq forward' /\ Own(p)' = o /\ target'[p] = q
  BY <1>1, <1>2 DEF Write, FinalWrite, FinishWrite, WriteNew, FinishNewWrite, WriteMaybeTo,
                    FinishMaybeTo, Forward, Conflict, Own
<1>4. /\ phase[o] \in OwnPhase(p) \/ pc[p] = "off"
      /\ pc[p] \in AtNew => slot[p] = NewCs /\ where[o] = q
  BY <1>0, <1>1, <1>2 DEF InvSlot
<1>5. Keeps(o) /\ where'[o] = where[o]
  BY <1>0, <1>1 DEF Write, FinalWrite, FinishWrite, WriteNew, FinishNewWrite, WriteMaybeTo,
                    FinishMaybeTo, Forward, Conflict, Set, Success, Keeps, TypeOK, objectVars
<1>6. CASE Write(p) \/ FinalWrite(p)
  <2>1. /\ pc[p] = "ready" /\ pc'[p] \in {"writing", "finishing"} /\ phase'[o] = "setting"
        /\ pc'[p] = "writing" => slot[p] < MaxMain
    BY <1>0, <1>1, <1>6 DEF Write, FinalWrite, Set, TypeOK
  <2>2. InvSlot(p)'
    BY <1>0, <1>1, <1>2, <1>3, <1>5, <2>1, GoesOnSlot DEF OwnPhase, AtNew
  <2> QED
    BY <2>1, <2>2 DEF InvValue
<1>7. CASE FinishWrite(p)
  <2>1. /\ pc[p] \in {"writing", "finishing"} /\ pc'[p] \in {"written", "recovered"}
        /\ phase'[o] = "success"
        /\ pc'[p] = "written" => pc[p] = "writing"
    BY <1>0, <1>1, <1>7 DEF FinishWrite, Success, TypeOK
  <2>2. InvSlot(p)'
    BY <1>0, <1>1, <1>2, <1>3, <1>5, <2>1, GoesOnSlot DEF OwnPhase, AtNew
  <2> QED
    BY <2>1, <2>2 DEF InvValue
<1>8. CASE WriteNew(p)
  <2>1. /\ pc[p] = "newRead" /\ pc'[p] = "newWriting" /\ phase'[o] = "setting" /\ value'[p] = v
        /\ data'[o] = MovingFrom(v, h)
    BY <1>0, <1>1, <1>2, <1>8 DEF WriteNew, Set, TypeOK
  <2>2. InvSlot(p)'
    BY <1>0, <1>1, <1>2, <1>3, <1>5, <2>1, GoesOnSlot DEF OwnPhase, AtNew
  <2> QED
    BY <1>3, <2>1, <2>2 DEF InvValue
<1>9. CASE FinishNewWrite(p)
  <2>1. /\ pc[p] = "newWriting" /\ pc'[p] = "newWritten" /\ phase'[o] = "success" /\ value'[p] = v
        /\ data'[o] = data[o]
    BY <1>0, <1>1, <1>2, <1>9 DEF FinishNewWrite, Success, TypeOK
  <2>2. data[o] = MovingFrom(v, h) /\ o[2] = NewCs /\ where'[o] = q
    BY <1>0, <1>1, <1>2, <1>4, <1>5, <2>1 DEF InvValue, AtNew
  <2>3. Created(q, v, h)'
    BY <2>1, <2>2 DEF Created
  <2>4. InvSlot(p)'
    BY <1>0, <1>1, <1>2, <1>3, <1>5, <2>1, GoesOnSlot DEF OwnPhase, AtNew
  <2> QED
    BY <1>3, <2>1, <2>3, <2>4 DEF InvValue
<1>10. CASE WriteMaybeTo(p)
  <2>1. /\ pc[p] = "moving" /\ pc'[p] = "movingWrite" /\ phase'[o] = "setting" /\ value'[p] = v
        /\ data'[o] = MaybeTo(v, q)
    BY <1>0, <1>1, <1>2, <1>10 DEF WriteMaybeTo, Set, TypeOK
  <2>2. InvSlot(p)'
    BY <1>0, <1>1, <1>2, <1>3, <1>5, <2>1, GoesOnSlot DEF OwnPhase, AtNew
  <2> QED
    BY <1>3, <2>1, <2>2 DEF InvValue
<1>11. CASE FinishMaybeTo(p)
  <2>1. /\ pc[p] = "movingWrite" /\ pc'[p] = "forwarding" /\ phase'[o] = "success" /\ value'[p] = v
        /\ data'[o] = data[o]
    BY <1>0, <1>1, <1>2, <1>11 DEF FinishMaybeTo, Success, TypeOK
  <2>2. data[o] = MaybeTo(v, q)
    BY <1>0, <1>1, <1>2, <2>1 DEF InvValue
  <2>3. InvSlot(p)'
    BY <1>0, <1>1, <1>2, <1>3, <1>5, <2>1, GoesOnSlot DEF OwnPhase, AtNew
  <2> QED
    BY <1>3, <2>1, <2>2, <2>3 DEF InvValue
<1>12. CASE Forward(p)
  <2>1. pc[p] = "forwarding" /\ pc'[p] = "gone" /\ phase'[o] = phase[o]
    BY <1>0, <1>12 DEF Forward, objectVars, TypeOK
  <2>2. phase[o] = "success"
    BY <1>4, <2>1 DEF OwnPhase
  <2>3. InvSlot(p)'
    BY <1>0, <1>1, <1>2, <1>3, <1>5, <2>1, <2>2, GoesOnSlot DEF OwnPhase, AtNew
  <2> QED
    BY <2>1, <2>3 DEF InvValue
<1>13. CASE Conflict(p)
  <2>1. /\ pc[p] \in {"writing", "finishing", "newWriting", "movingWrite"} /\ pc'[p] = "gone"
        /\ phase'[o] = "conflict"
    BY <1>0, <1>1, <1>13 DEF Conflict, TypeOK
  <2>2. InvSlot(p)'
    BY <1>0, <1>1, <1>2, <1>3, <1>5, <2>1, GoesOnSlot DEF OwnPhase, AtNew
  <2> QED
    BY <2>1, <2>2 DEF InvValue
<1> QED
  BY <1>6, <1>7, <1>8, <1>9, <1>10, <1>11, <1>12, <1>13

-----------------------------------------------------------------------------
(***************************************************************************)
(* The theorems.                                                           *)
(***************************************************************************)

LEMMA InvInit == Init => IInv
<1> SUFFICES ASSUME Init
             PROVE  IInv
  OBVIOUS
<1>1. TypeOK
  BY TypeInit
<1>2. \A o \in Object : phase[o] = "new" /\ place[o] = 0 /\ from[o] = 0 /\ known[o] = {} /\ ~ Read(o) /\ ~ Wrote(o)
  BY DEF Init, Read, Wrote
<1>3. InvPlace /\ InvSeen /\ InvLine /\ InvData /\ InvCreate
  BY <1>2 DEF InvPlace, InvSeen, InvLine, InvData, InvCreate
<1>4. \A q : Reached(q) => q = First
  BY <1>2 DEF Reached, Departed
<1>5. InvReached
  BY <1>2, <1>4 DEF InvReached, Init
<1>6. ASSUME NEW p \in Process
      PROVE  InvSlot(p) /\ InvValue(p)
  <2>1. /\ pc[p] = "off" /\ slot[p] = 1 /\ home[p] = First
        /\ \A s \in Slot : <<p, s>> \in Object
    BY Objects DEF Init
  <2>2. InvSlot(p)
    <3>1. \A s \in Slot : phase[<<p, s>>] = "new"
      BY <1>2, <2>1
    <3> QED
      BY <2>1, <3>1, Objects DEF InvSlot, AtNew
  <2> QED
    BY <2>1, <2>2 DEF InvValue
<1> QED
  BY <1>1, <1>3, <1>5, <1>6 DEF IInv

LEMMA InvNext == IInv /\ [Next]_vars => IInv'
<1> SUFFICES ASSUME IInv, [Next]_vars
             PROVE  IInv'
  OBVIOUS
<1>1. /\ TypeOK /\ InvPlace /\ InvSeen /\ InvLine /\ InvData /\ InvCreate
      /\ \A p \in Process : InvSlot(p) /\ InvValue(p)
  BY DEF IInv
<1>2. ObjectStep /\ Stays /\ TypeOK'
  BY ObjectSteps, ObjectsStay, TypeStep
<1>3. InvPlace'
  BY <1>1, <1>2, PlaceStep
<1>4. InvSeen' /\ InvLine' /\ InvData' /\ InvCreate'
  BY <1>1, <1>2, <1>3, SeenStep, LineStep, DataStep, CreateStep
<1>5. InvReached'
  BY ReachedStep
<1>6. ASSUME NEW p \in Process
      PROVE  InvSlot(p)' /\ InvValue(p)'
  <2>1. CASE UNCHANGED vars
    <3>1. Aside(p)
      BY <2>1 DEF vars, Aside
    <3> QED
      BY <1>1, <1>2, <1>3, <3>1, AsideSlot, AsideValue
  <2>2. ASSUME NEW r \in Process, r # p,
               \/ Start(r) \/ FinishRead(r) \/ Write(r) \/ FinalWrite(r) \/ FinishWrite(r) \/ Reread(r)
               \/ Move(r) \/ FinishNewRead(r) \/ WriteNew(r) \/ FinishNewWrite(r)
               \/ ReadOld(r) \/ FinishOldRead(r) \/ WriteMaybeTo(r) \/ FinishMaybeTo(r)
               \/ Forward(r) \/ Conflict(r)
        PROVE  InvSlot(p)' /\ InvValue(p)'
    <3>1. Aside(p)
      BY <2>2, OthersAside
    <3> QED
      BY <1>1, <1>2, <1>3, <3>1, AsideSlot, AsideValue
  <2>3. CASE Start(p) \/ Reread(p) \/ Move(p) \/ ReadOld(p)
    BY <1>2, <2>3, BeginKnows
  <2>4. CASE FinishRead(p) \/ FinishNewRead(p) \/ FinishOldRead(p)
    BY <1>2, <1>3, <2>4, ReadKnows
  <2>5. CASE \/ Write(p) \/ FinalWrite(p) \/ FinishWrite(p) \/ WriteNew(p) \/ FinishNewWrite(p)
             \/ WriteMaybeTo(p) \/ FinishMaybeTo(p) \/ Forward(p) \/ Conflict(p)
    BY <1>2, <2>5, WriteKnows
  <2> QED
    BY <2>1, <2>2, <2>3, <2>4, <2>5 DEF Next
<1> QED
  BY <1>2, <1>3, <1>4, <1>5, <1>6 DEF IInv

\* The inductive invariant of recoveries that read, write and move the coordinated state.
THEOREM Invariance == Spec => []IInv
<1> QED
  BY InvInit, InvNext, PTL DEF Spec

\* A state saved where a move succeeded is part of what was moved.
LEMMA Moved ==
    ASSUME IInv, NEW a \in Saved, NEW x \in Object, Departed(where[a], x)
    PROVE  data[a].value \subseteq data[x].value
<1>1. TypeOK /\ InvPlace /\ InvSeen /\ InvLine /\ InvData
  BY DEF IInv
<1>2. /\ a \in Object /\ phase[a] = "success" /\ data[a].mode = "Active" /\ Wrote(a)
      /\ where[x] = where[a] /\ phase[x] = "success" /\ data[x].mode = "MaybeTo" /\ Wrote(x)
  BY DEF Saved, Departed, Wrote
<1>3. CASE place[a] < place[x]
  BY <1>1, <1>2, <1>3, SuccessUnstraddled, LaterFollows DEF Follows
<1>4. CASE place[x] < place[a]
  BY <1>1, <1>2, <1>4, SuccessUnstraddled, LaterFollows DEF Follows
<1>5. CASE place[x] = place[a]
  BY <1>1, <1>2, <1>5 DEF InvPlace, Wrote, Read
<1> QED
  BY <1>1, <1>2, <1>3, <1>4, <1>5, Typed

\* Of two states saved successfully, by whichever recoveries, at the same or at
\* different coordinators, one was built on the other: MovableCoordinatedState keeps
\* one history through moves that are abandoned, repeated or overtaken.
THEOREM HistoryIsOne == Spec => []OneHistory
<1>1. IInv => OneHistory
  <2> SUFFICES ASSUME IInv, NEW a \in Saved, NEW b \in Saved
               PROVE  data[a].value \subseteq data[b].value \/ data[b].value \subseteq data[a].value
    BY DEF OneHistory
  <2>1. TypeOK /\ InvPlace /\ InvSeen /\ InvLine /\ InvData /\ InvCreate /\ InvReached
    BY DEF IInv
  <2>2. /\ a \in Object /\ phase[a] = "success" /\ data[a].mode = "Active" /\ Wrote(a)
        /\ b \in Object /\ phase[b] = "success" /\ data[b].mode = "Active" /\ Wrote(b)
    BY DEF Saved, Wrote
  <2>3. CASE where[a] = where[b]
    <3>1. CASE place[a] < place[b]
      BY <2>1, <2>2, <2>3, <3>1, SuccessUnstraddled, LaterFollows DEF Follows
    <3>2. CASE place[b] < place[a]
      BY <2>1, <2>2, <2>3, <3>2, SuccessUnstraddled, LaterFollows DEF Follows
    <3>3. CASE place[a] = place[b]
      BY <2>1, <2>2, <2>3, <3>3 DEF InvPlace, Wrote, Read
    <3> QED
      BY <2>1, <2>2, <3>1, <3>2, <3>3, Typed
  <2>4. ASSUME NEW x \in Saved, NEW y \in Saved, Precedes(where[x], where[y])
        PROVE  data[x].value \subseteq data[y].value
    <3>1. PICK d, c \in Object : /\ Departed(where[x], d)
                                 /\ c[2] = NewCs /\ where[c] = where[y] /\ phase[c] = "success"
                                 /\ data[d].value \subseteq data[c].value
      BY <2>4 DEF Precedes
    <3>2. data[x].value \subseteq data[d].value
      BY <3>1, Moved
    <3>3. y \in Object /\ Wrote(y) /\ y[2] # NewCs
      BY <2>1 DEF Saved, Wrote, InvData
    <3>4. data[c].value \subseteq data[y].value
      BY <2>1, <3>1, <3>3, BeginsWithMoved
    <3> QED
      BY <3>1, <3>2, <3>4
  <2>5. CASE where[a] # where[b]
    <3>1. a[2] # NewCs /\ b[2] # NewCs
      BY <2>1, <2>2 DEF InvData
    <3>2. /\ Reached(where[a]) /\ Reached(where[b])
          /\ where[a] \in Quorum /\ where[b] \in Quorum
      BY <2>1, <2>2, <3>1, Typed DEF InvReached
    <3>3. Precedes(where[a], where[b]) \/ Precedes(where[b], where[a])
      BY <2>1, <2>5, <3>2 DEF InvReached
    <3> QED
      BY <2>4, <3>3
  <2> QED
    BY <2>3, <2>5
<1> QED
  BY <1>1, Invariance, PTL

\* The move is permanent and leads to the right place: coordinators from which the
\* state was moved save nothing that was not moved with it, and whoever is forwarded
\* finds all that was saved where it was sent from.
THEOREM MovesArePermanent == Spec => []MoveInv
<1>1. IInv => MovedForGood
  <2> SUFFICES ASSUME IInv, NEW a \in Saved, NEW x \in Successes(where[a]), data[x].mode = "MaybeTo"
               PROVE  data[a].value \subseteq data[x].value
    BY DEF MovedForGood
  <2>1. x \in Object /\ Departed(where[a], x)
    BY DEF Successes, At, Departed
  <2> QED
    BY <2>1, Moved
<1>2. IInv => ForwardedToCurrent
  <2> SUFFICES ASSUME IInv, NEW q \in forward
               PROVE  \E o \in Written(q) :
                         /\ data[o].mode = "MovingFrom"
                         /\ \A a \in Saved : where[a] = data[o].other => data[a].value \subseteq data[o].value
    BY DEF ForwardedToCurrent
  <2>1. TypeOK /\ InvReached /\ InvData
    BY DEF IInv
  <2>2. PICK h \in Quorum, x \in Object : Departed(h, x) /\ data[x].other = q
    BY <2>1 DEF InvReached, Reached
  <2>3. Wrote(x) /\ where[x] = h /\ data[x].mode = "MaybeTo"
    BY <2>2 DEF Departed, Wrote
  <2>4. PICK c \in Object : /\ where[c] = q /\ phase[c] = "success"
                            /\ data[c] = MovingFrom(data[x].value, h)
    BY <2>1, <2>2, <2>3 DEF InvData, Created
  <2>5. c \in Written(q) /\ data[c].mode = "MovingFrom" /\ data[c].other = h /\ data[c].value = data[x].value
    BY <2>4 DEF Written, At, MovingFrom
  <2>6. \A a \in Saved : where[a] = h => data[a].value \subseteq data[x].value
    BY <2>2, Moved
  <2> QED
    BY <2>5, <2>6
<1>3. IInv => TypeOK
  BY DEF IInv
<1> QED
  BY <1>1, <1>2, <1>3, Invariance, PTL DEF MoveInv
===================================================================================
