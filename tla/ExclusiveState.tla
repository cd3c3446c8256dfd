------------------------------- MODULE ExclusiveState -------------------------------
(***************************************************************************)
(* What CoordinatedState.h promises, without coordinators, quorums or      *)
(* messages: a state that is changed by optimistic read-modify-write.      *)
(*                                                                         *)
(* A client whose read returns has a place in one serial order of          *)
(* modifications and knows the place of the modification whose value it    *)
(* read.  Its setExclusive() may return Void only when that modification   *)
(* is still the most recent one before its own place.                      *)
(***************************************************************************)
EXTENDS UniqueGenerations

CONSTANT Client

VARIABLES phase,   \* "new", "reading", "read", "setting", "success" or "conflict"
          place,   \* the client's place in the order; Zero until it has one
          from,    \* the place of the modification it read; Zero for the empty state
          known    \* the modifications that had succeeded when it began to read

vars == <<phase, place, from, known>>

Committed(c) == phase[c] = "success"

HasRead(c) == phase[c] \notin {"new", "reading"}

\* The places of modifications that were started, and of the empty state.
Written == {Zero} \cup {place[c] : c \in {d \in Client : phase[d] \in {"setting", "success", "conflict"}}}

StrictlyBetween(a, b, c) == Before(a, b) /\ Before(b, c)

Init ==
    /\ phase = [c \in Client |-> "new"]
    /\ place = [c \in Client |-> Zero]
    /\ from = [c \in Client |-> Zero]
    /\ known = [c \in Client |-> {}]

Begin(c) ==
    /\ phase[c] = "new"
    /\ phase' = [phase EXCEPT ![c] = "reading"]
    /\ known' = [known EXCEPT ![c] = {d \in Client : Committed(d)}]
    /\ UNCHANGED <<place, from>>

\* c gets a place nobody else has, after every modification that was complete
\* when it began to read, and the value of a modification that was started.  No
\* successful modification before its place is missed.
Return(c) ==
    /\ phase[c] = "reading"
    /\ place'[c] \in UniqueGeneration \ {Zero}
    /\ \A d \in Client : place[d] # place'[c]
    /\ \A d \in known[c] : Before(place[d], place'[c])
    /\ from'[c] \in Written
    /\ \A d \in Client : Committed(d) /\ Before(place[d], place'[c]) => AtMost(place[d], from'[c])
    /\ place' = [place EXCEPT ![c] = place'[c]]
    /\ from' = [from EXCEPT ![c] = from'[c]]
    /\ phase' = [phase EXCEPT ![c] = "read"]
    /\ UNCHANGED known

Set(c) ==
    /\ phase[c] = "read"
    /\ phase' = [phase EXCEPT ![c] = "setting"]
    /\ UNCHANGED <<place, from, known>>

\* Nothing that committed lies between what c read and c's own place, and c
\* does not come between the place of another client and what that one read,
\* whether that client has succeeded, will succeed or fails.
Serializes(c) ==
    /\ Before(from[c], place[c])
    /\ \A d \in Client :
          /\ Committed(d) => ~ StrictlyBetween(from[c], place[d], place[c])
          /\ HasRead(d) => ~ StrictlyBetween(from[d], place[c], place[d])

Succeed(c) ==
    /\ phase[c] = "setting"
    /\ Serializes(c)
    /\ phase' = [phase EXCEPT ![c] = "success"]
    /\ UNCHANGED <<place, from, known>>

Fail(c) ==
    /\ phase[c] = "setting"
    /\ phase' = [phase EXCEPT ![c] = "conflict"]
    /\ UNCHANGED <<place, from, known>>

Next ==
    \E c \in Client :
        Begin(c) \/ Return(c) \/ Set(c) \/ Succeed(c) \/ Fail(c)

Spec == Init /\ [][Next]_vars
=====================================================================================
