---------------------------- MODULE LeaderElectionProofs ----------------------------
(***************************************************************************)
(* Nobody is forgotten in an election: the proof that ElectionInv holds in *)
(* every reachable state, for all coordinators, processes and bounds,      *)
(* whether time behaves (Timely) or not.                                   *)
(***************************************************************************)
EXTENDS LeaderElection, WellFoundedInduction, TLAPS

-----------------------------------------------------------------------------
(***************************************************************************)
(* The inductive invariant.  That nobody is forgotten needs to know that a *)
(* changeID stands for one process wherever it occurs: a reply that names  *)
(* a nominee with the changeID the asker knows makes it ask again with the *)
(* reply's nominee, and it is the same question only if it is the same     *)
(* nominee.  So there is an assignment of numbers to processes that every  *)
(* info in a register, a process or a message follows.                     *)
(***************************************************************************)

\* The infos that follow an assignment f.
Following(f) == {a \in LeaderInfo : a.who = f[a.id]}

\* Registers, processes and messages hold infos of S only.
HoldsOnly(S) ==
    /\ availableCandidates \in [Coord -> SUBSET S]
    /\ availableLeaders \in [Coord -> SUBSET S]
    /\ currentNominee \in [Coord -> S \cup {Absent}]
    /\ myInfo \in [Process -> S \cup {Absent}]
    /\ nominees \in [Requester -> [Coord -> S \cup {Absent, Forwarded}]]
    /\ requests \subseteq [to : Coord, from : Requester, info : S \cup {Absent}, known : Answer]
    /\ answers \subseteq [from : Coord, to : Requester, id : 0..MaxId, nominee : S \cup {Absent, Forwarded}]
    /\ beats \subseteq [to : Coord, info : S, prev : S]
    /\ \A b \in beats : b.prev.id = b.info.id

\* The types of everything else.
TypeRest ==
    /\ notify \in [Coord -> Seq(Waiter)]
    /\ nextInterval \in [Coord -> {"off", "now", "later"}]
    /\ forward \in [Coord -> {"no", "set", "durable"}]
    /\ role \in [Requester \cup Mover -> {"off", "candidate", "leader", "monitor", "forwarding", "moved"}]
    /\ fitness \in [Process -> Fitness]
    /\ heard \in [Process -> [Coord -> {"none", "yes", "no"}]]
    /\ acked \in [Mover \cup Process -> SUBSET Coord]
    /\ forwards \subseteq Coord \X (Mover \cup Process)
    /\ committing \in [Coord -> SUBSET (Mover \cup Process)]
    /\ ended \subseteq Coord
    /\ waited \in [Process -> 0..Patience]
    /\ faults \in 0..MaxFaults

\* A leader has a changeID: it was elected with one.
LeadersHaveInfo == \A p \in Process : role[p] = "leader" => myInfo[p] # Absent

IInv ==
    /\ \E f \in [Id -> Process \cup {NoOne}] : HoldsOnly(Following(f))
    /\ TypeRest
    /\ LeadersHaveInfo
    /\ NobodyForgotten

-----------------------------------------------------------------------------
(***************************************************************************)
(* Infos.                                                                  *)
(***************************************************************************)

\* The least number of a set.
LEMMA LeastNumber ==
    ASSUME NEW T, T \subseteq Nat, T # {}
    PROVE  \E n \in T : \A m \in T : n <= m
<1> DEFINE R == OpToRel(<, Nat)
<1>1. IsWellFoundedOn(R, Nat)
  BY NatLessThanWellFounded
<1>2. \A m, n \in Nat : m < n => <<m, n>> \in R
  BY DEF OpToRel
<1> HIDE DEF R
<1>3. PICK n \in T : \A m \in T : ~ (<<m, n>> \in R)
  BY <1>1, WFMin
<1>4. ASSUME NEW m \in T PROVE n <= m
  <2>1. m \in Nat /\ n \in Nat /\ ~ (<<m, n>> \in R)
    BY <1>3
  <2>2. ~ (m < n)
    BY <1>2, <2>1
  <2> QED
    BY <2>1, <2>2
<1> QED
  BY <1>4

\* What the proofs use of a set of infos: a fitness may change, a set of them has a
\* first element, and the changeID tells them apart.
Coherent(S) ==
    /\ S \subseteq LeaderInfo
    /\ \A a \in S, x \in Fitness : [a EXCEPT !.fit = x] \in S
    /\ \A T \in SUBSET S : T # {} => First(T) \in T
    /\ \A a, b \in S \cup {Absent, Forwarded} : SameChange(a, b) => a = b

\* operator< is total on infos that the changeID tells apart, so a std::set of them has
\* a first element.
LEMMA FirstExists ==
    ASSUME NEW T, T \subseteq LeaderInfo, T # {}, \A a, b \in T : SameChange(a, b) => a = b
    PROVE  First(T) \in T
<1>1. PICK m \in {a.fit : a \in T} : \A n \in {a.fit : a \in T} : m <= n
  <2>1. {a.fit : a \in T} \subseteq Nat /\ {a.fit : a \in T} # {}
    BY DEF LeaderInfo, Fitness
  <2> QED
    BY <2>1, LeastNumber
<1> DEFINE U == {a \in T : a.fit = m}
<1>2. PICK i \in {a.id : a \in U} : \A n \in {a.id : a \in U} : i <= n
  <2>1. {a.id : a \in U} \subseteq Nat /\ {a.id : a \in U} # {}
    BY <1>1 DEF LeaderInfo, Id
  <2> QED
    BY <2>1, LeastNumber
<1>3. PICK a \in T : a.fit = m /\ a.id = i
  BY <1>2
<1>4. ASSUME NEW b \in T PROVE a = b \/ Less(a, b)
  <2>1. a.fit \in Nat /\ b.fit \in Nat /\ a.id \in Nat /\ b.id \in Nat
    BY DEF LeaderInfo, Fitness, Id
  <2>2. a.fit <= b.fit /\ (b.fit = a.fit => a.id <= b.id)
    BY <1>1, <1>2, <1>3
  <2>3. a.fit = b.fit /\ a.id = b.id => a = b
    BY DEF SameChange
  <2> QED
    BY <2>1, <2>2, <2>3 DEF Less
<1> QED
  BY <1>3, <1>4 DEF First

LEMMA FollowingCoherent ==
    ASSUME NEW f \in [Id -> Process \cup {NoOne}]
    PROVE  Coherent(Following(f))
<1>1. Following(f) \subseteq LeaderInfo
  BY DEF Following
<1>2. ASSUME NEW a \in Following(f), NEW x \in Fitness PROVE [a EXCEPT !.fit = x] \in Following(f)
  BY DEF Following, LeaderInfo
<1>3. ASSUME NEW a \in Following(f) \cup {Absent, Forwarded}, NEW b \in Following(f) \cup {Absent, Forwarded},
             SameChange(a, b)
      PROVE  a = b
  <2>1. a.id = b.id /\ a.fit = b.fit
    BY <1>3 DEF SameChange
  <2>2. CASE a \in Following(f) /\ b \in Following(f)
    BY <2>1, <2>2 DEF Following, LeaderInfo
  <2>3. CASE a \notin Following(f) \/ b \notin Following(f)
    <3>1. \A d \in Following(f) : d.id # 0 /\ d.id # MaxId + 1
      BY SizeAssumption DEF Following, LeaderInfo, Id
    <3>2. Absent.id = 0 /\ Forwarded.id = MaxId + 1 /\ MaxId + 1 # 0
      BY SizeAssumption DEF Absent, Forwarded
    <3> QED
      BY <2>1, <2>3, <3>1, <3>2
  <2> QED
    BY <2>2, <2>3
<1>4. ASSUME NEW T \in SUBSET Following(f), T # {} PROVE First(T) \in T
  BY <1>1, <1>3, <1>4, FirstExists
<1> QED
  BY <1>1, <1>2, <1>3, <1>4 DEF Coherent

LEMMA HoldsMore ==
    ASSUME NEW S, NEW T, S \subseteq T, HoldsOnly(S)
    PROVE  HoldsOnly(T)
  BY DEF HoldsOnly

LEMMA InfoTyped ==
    ASSUME IInv
    PROVE  TypeOK
<1>1. PICK f \in [Id -> Process \cup {NoOne}] : HoldsOnly(Following(f))
  BY DEF IInv
<1>2. HoldsOnly(LeaderInfo)
  BY <1>1, HoldsMore DEF Following
<1> QED
  BY <1>2 DEF HoldsOnly, IInv, TypeRest, TypeOK, Answer, Request, Reply, Beat

-----------------------------------------------------------------------------
(***************************************************************************)
(* Types: what each action leaves in registers, processes and messages.    *)
(***************************************************************************)

\* What the coordinators' requests and replies look like.
LEMMA MessagesTyped ==
    ASSUME NEW S, Coherent(S), HoldsOnly(S), TypeRest
    PROVE  /\ \A c \in Coord, w \in Waiter, n \in S \cup {Absent, Forwarded} :
                 Told(c, w, n) \in [from : Coord, to : Requester, id : 0..MaxId, nominee : S \cup {Absent, Forwarded}]
           /\ \A q \in requests : Waiting(q) \in Waiter
           /\ \A c \in Coord : Range(notify[c]) \subseteq Waiter
           /\ \A r \in Requester : InfoOf(r) \in S \cup {Absent} /\ InfoOf(r).id \in 0..MaxId
           /\ \A r \in Requester, c \in Coord :
                 Asking(r, c) \in [to : Coord, from : Requester, info : S \cup {Absent}, known : Answer]
<1>0. S \subseteq LeaderInfo /\ S \cup {Absent, Forwarded} \subseteq Answer
  BY SizeAssumption DEF Coherent, Answer
<1>1. \A a \in S \cup {Absent} : a.id \in 0..MaxId
  <2>1. Absent.id = 0 /\ 0 \in 0..MaxId
    BY SizeAssumption DEF Absent
  <2>2. \A a \in S : a.id \in 0..MaxId
    BY <1>0, SizeAssumption DEF LeaderInfo, Id
  <2> QED
    BY <2>1, <2>2
<1>2. \A c \in Coord, w \in Waiter, n \in S \cup {Absent, Forwarded} :
         Told(c, w, n) \in [from : Coord, to : Requester, id : 0..MaxId, nominee : S \cup {Absent, Forwarded}]
  BY DEF Told, Waiter
<1>3. \A q \in requests : Waiting(q) \in Waiter
  BY <1>1 DEF Waiting, Waiter, HoldsOnly
<1>4. \A c \in Coord : Range(notify[c]) \subseteq Waiter
  BY DEF TypeRest, Range
<1>5. \A r \in Requester : InfoOf(r) \in S \cup {Absent}
  BY DEF InfoOf, HoldsOnly
<1>6. \A r \in Requester, c \in Coord :
         Asking(r, c) \in [to : Coord, from : Requester, info : S \cup {Absent}, known : Answer]
  BY <1>0, <1>5 DEF Asking, HoldsOnly
<1> QED
  BY <1>1, <1>2, <1>3, <1>4, <1>5, <1>6

\* The three ways a request can end.
LEMMA AnswerOrParkIs ==
    ASSUME NEW c \in Coord, NEW q \in requests, AnswerOrPark(c, q)
    PROVE  \/ /\ answers' = answers \cup {Told(c, Waiting(q), currentNominee[c])}
              /\ notify' = notify
           \/ /\ answers' = answers \cup ToldAll(c, Range(notify[c]) \cup {Waiting(q)}, currentNominee[c])
              /\ notify' = [notify EXCEPT ![c] = <<>>]
           \/ /\ notify' = [notify EXCEPT ![c] = Append(@, Waiting(q))]
              /\ answers' = answers
<1>1. CASE News(c, q)
  BY <1>1 DEF AnswerOrPark
<1>2. CASE ~News(c, q) /\ Overflows(c)
  BY <1>2 DEF AnswerOrPark
<1>3. CASE ~News(c, q) /\ ~Overflows(c)
  BY <1>3 DEF AnswerOrPark
<1> QED
  BY <1>1, <1>2, <1>3

LEMMA AnswerOrParkTyped ==
    ASSUME NEW S, Coherent(S), HoldsOnly(S), TypeRest, NEW c \in Coord, NEW q \in requests, AnswerOrPark(c, q)
    PROVE  /\ answers' \subseteq [from : Coord, to : Requester, id : 0..MaxId, nominee : S \cup {Absent, Forwarded}]
           /\ notify' \in [Coord -> Seq(Waiter)]
<1>1. currentNominee[c] \in S \cup {Absent, Forwarded} /\ Waiting(q) \in Waiter /\ Range(notify[c]) \subseteq Waiter
  BY MessagesTyped DEF HoldsOnly
<1>2. \A ws \in SUBSET Waiter : ToldAll(c, ws, currentNominee[c])
         \subseteq [from : Coord, to : Requester, id : 0..MaxId, nominee : S \cup {Absent, Forwarded}]
  BY <1>1, MessagesTyped DEF ToldAll
<1>3. CASE answers' = answers \cup {Told(c, Waiting(q), currentNominee[c])} /\ notify' = notify
  <2>1. Told(c, Waiting(q), currentNominee[c]) \in
           [from : Coord, to : Requester, id : 0..MaxId, nominee : S \cup {Absent, Forwarded}]
    BY <1>1, MessagesTyped
  <2> QED
    BY <1>3, <2>1 DEF HoldsOnly, TypeRest
<1>4. CASE /\ answers' = answers \cup ToldAll(c, Range(notify[c]) \cup {Waiting(q)}, currentNominee[c])
           /\ notify' = [notify EXCEPT ![c] = <<>>]
  <2>1. <<>> \in Seq(Waiter)
    OBVIOUS
  <2>2. notify' \in [Coord -> Seq(Waiter)]
    BY <1>4, <2>1 DEF TypeRest
  <2>3. Range(notify[c]) \cup {Waiting(q)} \in SUBSET Waiter
    BY <1>1
  <2> QED
    BY <1>2, <1>4, <2>2, <2>3 DEF HoldsOnly
<1>5. CASE notify' = [notify EXCEPT ![c] = Append(@, Waiting(q))] /\ answers' = answers
  <2>1. notify[c] \in Seq(Waiter)
    BY DEF TypeRest
  <2>2. Append(notify[c], Waiting(q)) \in Seq(Waiter)
    BY <1>1, <2>1
  <2> QED
    BY <1>5, <2>2 DEF HoldsOnly, TypeRest
<1> QED
  BY <1>3, <1>4, <1>5, AnswerOrParkIs

LEMMA HurryTyped ==
    ASSUME TypeRest, NEW c \in Coord, Hurry(c)
    PROVE  nextInterval' \in [Coord -> {"off", "now", "later"}]
  BY DEF Hurry, TypeRest

LEMMA ServeTyped ==
    ASSUME NEW S, Coherent(S), HoldsOnly(S), TypeRest, NEW c \in Coord,
           ServeForwarded(c) \/ ServeGetLeader(c) \/ ServeCandidacy(c)
    PROVE  HoldsOnly(S)' /\ TypeRest'
<1>1. CASE ServeForwarded(c)
  <2>1. PICK q \in requests : /\ requests' = requests \ {q}
                              /\ answers' = answers \cup {Told(c, Waiting(q), Forwarded)}
    BY <1>1 DEF ServeForwarded
  <2>2. answers' \subseteq [from : Coord, to : Requester, id : 0..MaxId, nominee : S \cup {Absent, Forwarded}]
    BY <2>1, MessagesTyped DEF HoldsOnly
  <2> QED
    BY <1>1, <2>1, <2>2 DEF ServeForwarded, register, HoldsOnly, TypeRest
<1>2. CASE ServeGetLeader(c)
  <2>1. PICK q \in requests : /\ requests' = requests \ {q} /\ AnswerOrPark(c, q)
                              /\ nextInterval' = nextInterval \/ Hurry(c)
    BY <1>2 DEF ServeGetLeader
  <2>2. nextInterval' \in [Coord -> {"off", "now", "later"}]
    BY <2>1, HurryTyped DEF TypeRest
  <2>3. UNCHANGED <<availableCandidates, availableLeaders, currentNominee, forward, role, myInfo,
                    fitness, nominees, heard, acked, beats, forwards, committing, ended, waited, faults>>
    BY <1>2 DEF ServeGetLeader
  <2>4. /\ answers' \subseteq [from : Coord, to : Requester, id : 0..MaxId, nominee : S \cup {Absent, Forwarded}]
        /\ notify' \in [Coord -> Seq(Waiter)]
    BY <2>1, AnswerOrParkTyped
  <2>5. HoldsOnly(S)'
    BY <2>1, <2>3, <2>4 DEF HoldsOnly
  <2>6. TypeRest'
    BY <2>2, <2>3, <2>4 DEF TypeRest
  <2> QED
    BY <2>5, <2>6
<1>3. CASE ServeCandidacy(c)
  <2>1. PICK q \in requests : /\ requests' = requests \ {q} /\ AnswerOrPark(c, q) /\ Hurry(c) /\ q.info # Absent
                              /\ availableCandidates' = [availableCandidates EXCEPT ![c] = @ \cup {q.info}]
    BY <1>3 DEF ServeCandidacy
  <2>2. nextInterval' \in [Coord -> {"off", "now", "later"}]
    BY <2>1, HurryTyped
  <2>3. q.info \in S
    BY <2>1 DEF HoldsOnly
  <2>4. availableCandidates' \in [Coord -> SUBSET S]
    BY <2>1, <2>3 DEF HoldsOnly
  <2>5. UNCHANGED <<availableLeaders, currentNominee, forward, role, myInfo, fitness, nominees,
                    heard, acked, beats, forwards, committing, ended, waited, faults>>
    BY <1>3 DEF ServeCandidacy
  <2>6. /\ answers' \subseteq [from : Coord, to : Requester, id : 0..MaxId, nominee : S \cup {Absent, Forwarded}]
        /\ notify' \in [Coord -> Seq(Waiter)]
    BY <2>1, AnswerOrParkTyped
  <2>7. HoldsOnly(S)'
    BY <2>1, <2>4, <2>5, <2>6 DEF HoldsOnly
  <2>8. TypeRest'
    BY <2>2, <2>5, <2>6 DEF TypeRest
  <2> QED
    BY <2>7, <2>8
<1> QED
  BY <1>1, <1>2, <1>3

LEMMA HeartbeatTyped ==
    ASSUME NEW S, Coherent(S), HoldsOnly(S), TypeRest, NEW c \in Coord, ServeHeartbeat(c)
    PROVE  HoldsOnly(S)' /\ TypeRest'
<1>1. PICK b \in beats :
         /\ beats' = beats \ {b}
         /\ \/ /\ Hurry(c)
               /\ availableLeaders' = [availableLeaders EXCEPT ![c] = (@ \ {b.prev}) \cup {b.info}]
            \/ nextInterval' = nextInterval /\ availableLeaders' = availableLeaders
         /\ \/ heard' = heard
            \/ \E x \in {"yes", "no"} : heard' = [heard EXCEPT ![b.info.who][c] = x]
  BY DEF ServeHeartbeat
<1>2. UNCHANGED <<availableCandidates, currentNominee, notify, forward, role, myInfo, fitness,
                  nominees, acked, requests, answers, forwards, committing, ended, waited, faults>>
  BY DEF ServeHeartbeat
<1>3. b.info \in S /\ b.info.who \in Process
  BY DEF HoldsOnly, Coherent, LeaderInfo
<1>4. nextInterval' \in [Coord -> {"off", "now", "later"}]
  BY <1>1, HurryTyped DEF TypeRest
<1>5. availableLeaders' \in [Coord -> SUBSET S]
  BY <1>1, <1>3 DEF HoldsOnly
<1>6. heard' \in [Process -> [Coord -> {"none", "yes", "no"}]]
  <2>1. CASE heard' = heard
    BY <2>1 DEF TypeRest
  <2>2. ASSUME NEW x \in {"yes", "no"}, heard' = [heard EXCEPT ![b.info.who][c] = x]
        PROVE  heard' \in [Process -> [Coord -> {"none", "yes", "no"}]]
    <3>1. heard \in [Process -> [Coord -> {"none", "yes", "no"}]]
      BY DEF TypeRest
    <3>2. PICK p \in Process : p = b.info.who
      BY <1>3
    <3>3. heard' = [heard EXCEPT ![p] = [heard[p] EXCEPT ![c] = x]]
      BY <2>2, <3>1, <3>2
    <3>4. [heard[p] EXCEPT ![c] = x] \in [Coord -> {"none", "yes", "no"}]
      BY <3>1
    <3> QED
      BY <3>1, <3>3, <3>4
  <2> QED
    BY <1>1, <2>1, <2>2
<1>7. HoldsOnly(S)'
  BY <1>1, <1>2, <1>5 DEF HoldsOnly
<1>8. TypeRest'
  BY <1>2, <1>4, <1>6 DEF TypeRest
<1> QED
  BY <1>7, <1>8

LEMMA NextNomineeTyped ==
    ASSUME NEW S, Coherent(S), HoldsOnly(S), NEW c \in Coord
    PROVE  NextNominee(c) \in S \cup {Absent}
<1>1. availableCandidates[c] \in SUBSET S /\ availableLeaders[c] \in SUBSET S
  BY DEF HoldsOnly
<1>2. /\ availableCandidates[c] # {} => First(availableCandidates[c]) \in S
      /\ availableLeaders[c] # {} => First(availableLeaders[c]) \in S
  BY <1>1 DEF Coherent
<1> QED
  BY <1>2 DEF NextNominee

LEMMA PassTimeTyped ==
    ASSUME TypeRest, NEW c \in Coord, PassTime(c)
    PROVE  ended' \subseteq Coord /\ waited' \in [Process -> 0..Patience]
<1>1. CASE ~Timely \/ nextInterval[c] = "now"
  BY <1>1 DEF PassTime, TypeRest
<1>2. CASE ~ (~Timely \/ nextInterval[c] = "now")
  <2>1. ended' = (IF RoundOver(c) THEN {c} ELSE ended \cup {c})
    BY <1>2 DEF PassTime
  <2>2. waited' = [p \in Process |->
              IF RoundOver(c) /\ waited[p] # 0 /\ waited[p] < Patience THEN waited[p] + 1 ELSE waited[p]]
    BY <1>2 DEF PassTime
  <2>3. \A p \in Process : waited[p] \in 0..Patience /\ (waited[p] < Patience => waited[p] + 1 \in 0..Patience)
    BY SizeAssumption DEF TypeRest
  <2> QED
    BY <2>1, <2>2, <2>3 DEF TypeRest
<1> QED
  BY <1>1, <1>2

\* What the end of an interval does to a register.
LEMMA EndIntervalIs ==
    ASSUME NEW c \in Coord, EndInterval(c)
    PROVE  /\ \/ notify' = notify /\ answers' = answers
              \/ /\ answers' = answers \cup ToldAll(c, Range(notify[c]), NextNominee(c))
                 /\ notify' = [notify EXCEPT ![c] = <<>>]
           /\ currentNominee' = currentNominee \/ currentNominee' = [currentNominee EXCEPT ![c] = NextNominee(c)]
           /\ nextInterval' = [nextInterval EXCEPT ![c] = "off"] \/ nextInterval' = [nextInterval EXCEPT ![c] = "later"]
           /\ availableLeaders' = availableLeaders \/ availableLeaders' = [availableLeaders EXCEPT ![c] = {}]
           /\ availableCandidates' = availableCandidates \/ availableCandidates' = [availableCandidates EXCEPT ![c] = {}]
           /\ PassTime(c)
           /\ UNCHANGED <<forward, role, myInfo, fitness, nominees, heard, acked, requests, beats,
                          forwards, committing, faults>>
  BY DEF EndInterval

LEMMA ToldAllTyped ==
    ASSUME NEW S, Coherent(S), HoldsOnly(S), TypeRest, NEW c \in Coord, NEW n \in S \cup {Absent, Forwarded},
           answers' = answers \cup ToldAll(c, Range(notify[c]), n), notify' = [notify EXCEPT ![c] = <<>>]
    PROVE  /\ answers' \subseteq [from : Coord, to : Requester, id : 0..MaxId, nominee : S \cup {Absent, Forwarded}]
           /\ notify' \in [Coord -> Seq(Waiter)]
<1>1. Range(notify[c]) \subseteq Waiter
  BY MessagesTyped
<1>2. ToldAll(c, Range(notify[c]), n)
         \subseteq [from : Coord, to : Requester, id : 0..MaxId, nominee : S \cup {Absent, Forwarded}]
  BY <1>1, MessagesTyped DEF ToldAll
<1>3. <<>> \in Seq(Waiter)
  OBVIOUS
<1> QED
  BY <1>2, <1>3 DEF HoldsOnly, TypeRest

LEMMA EndIntervalTyped ==
    ASSUME NEW S, Coherent(S), HoldsOnly(S), TypeRest, NEW c \in Coord, EndInterval(c)
    PROVE  HoldsOnly(S)' /\ TypeRest'
<1>1. NextNominee(c) \in S \cup {Absent}
  BY NextNomineeTyped
<1>2. /\ answers' \subseteq [from : Coord, to : Requester, id : 0..MaxId, nominee : S \cup {Absent, Forwarded}]
      /\ notify' \in [Coord -> Seq(Waiter)]
  <2>1. CASE notify' = notify /\ answers' = answers
    BY <2>1 DEF HoldsOnly, TypeRest
  <2>2. CASE /\ answers' = answers \cup ToldAll(c, Range(notify[c]), NextNominee(c))
             /\ notify' = [notify EXCEPT ![c] = <<>>]
    BY <1>1, <2>2, ToldAllTyped
  <2> QED
    BY <2>1, <2>2, EndIntervalIs
<1>3. ended' \subseteq Coord /\ waited' \in [Process -> 0..Patience]
  BY EndIntervalIs, PassTimeTyped
<1>4. currentNominee' \in [Coord -> S \cup {Absent}]
  BY <1>1, EndIntervalIs DEF HoldsOnly
<1>5. availableLeaders' \in [Coord -> SUBSET S] /\ availableCandidates' \in [Coord -> SUBSET S]
  BY EndIntervalIs DEF HoldsOnly
<1>6. nextInterval' \in [Coord -> {"off", "now", "later"}]
  BY EndIntervalIs DEF TypeRest
<1>7. UNCHANGED <<forward, role, myInfo, fitness, nominees, heard, acked, requests, beats, forwards, committing, faults>>
  BY EndIntervalIs
<1>8. HoldsOnly(S)'
  BY <1>2, <1>4, <1>5, <1>7 DEF HoldsOnly
<1>9. TypeRest'
  BY <1>2, <1>3, <1>6, <1>7 DEF TypeRest
<1> QED
  BY <1>8, <1>9

LEMMA NotifyCheckTyped ==
    ASSUME NEW S, Coherent(S), HoldsOnly(S), TypeRest, NEW c \in Coord, NotifyCheck(c)
    PROVE  HoldsOnly(S)' /\ TypeRest'
<1>1. notify[c] \in Seq(Waiter) /\ notify[c] # <<>> /\ currentNominee[c] \in S \cup {Absent, Forwarded}
  BY DEF NotifyCheck, TypeRest, HoldsOnly
<1>2. Head(notify[c]) \in Waiter /\ Tail(notify[c]) \in Seq(Waiter)
  BY <1>1
<1>3. Told(c, Head(notify[c]), currentNominee[c]) \in
         [from : Coord, to : Requester, id : 0..MaxId, nominee : S \cup {Absent, Forwarded}]
  BY <1>1, <1>2, MessagesTyped
<1>4. /\ answers' \subseteq [from : Coord, to : Requester, id : 0..MaxId, nominee : S \cup {Absent, Forwarded}]
      /\ notify' \in [Coord -> Seq(Waiter)]
  BY <1>2, <1>3 DEF NotifyCheck, HoldsOnly, TypeRest
<1>5. HoldsOnly(S)'
  BY <1>4 DEF NotifyCheck, HoldsOnly
<1>6. TypeRest'
  BY <1>4 DEF NotifyCheck, TypeRest
<1> QED
  BY <1>5, <1>6

LEMMA ServeForwardTyped ==
    ASSUME NEW S, Coherent(S), HoldsOnly(S), TypeRest, NEW c \in Coord, ServeForward(c)
    PROVE  HoldsOnly(S)' /\ TypeRest'
<1>1. PICK m \in Mover \cup Process :
         /\ forwards' = forwards \ {<<c, m>>}
         /\ \/ /\ forward' = [forward EXCEPT ![c] = "set"]
               /\ committing' = [committing EXCEPT ![c] = {m}]
               /\ acked' = acked
            \/ /\ acked' = [acked EXCEPT ![m] = @ \cup {c}]
               /\ forward' = forward /\ committing' = committing
  BY DEF ServeForward
<1>2. UNCHANGED <<register, role, myInfo, fitness, nominees, heard, requests, answers, beats, ended, waited, faults>>
  BY DEF ServeForward
<1>3. forward' \in [Coord -> {"no", "set", "durable"}]
  BY <1>1 DEF TypeRest
<1>4. /\ committing' \in [Coord -> SUBSET (Mover \cup Process)]
      /\ acked' \in [Mover \cup Process -> SUBSET Coord]
  <2>1. CASE committing' = [committing EXCEPT ![c] = {m}] /\ acked' = acked
    BY <2>1 DEF TypeRest
  <2>2. CASE acked' = [acked EXCEPT ![m] = @ \cup {c}] /\ committing' = committing
    BY <2>2 DEF TypeRest
  <2> QED
    BY <1>1, <2>1, <2>2
<1>5. HoldsOnly(S)'
  BY <1>2 DEF register, HoldsOnly
<1>6. TypeRest'
  BY <1>1, <1>2, <1>3, <1>4 DEF register, TypeRest
<1> QED
  BY <1>5, <1>6

LEMMA ResetTyped ==
    ASSUME NEW S, HoldsOnly(S), TypeRest, NEW c \in Coord, ResetRegister(c)
    PROVE  /\ availableCandidates' \in [Coord -> SUBSET S]
           /\ availableLeaders' \in [Coord -> SUBSET S]
           /\ currentNominee' \in [Coord -> S \cup {Absent}]
           /\ notify' \in [Coord -> Seq(Waiter)]
           /\ nextInterval' \in [Coord -> {"off", "now", "later"}]
<1>1. <<>> \in Seq(Waiter)
  OBVIOUS
<1>2. notify' \in [Coord -> Seq(Waiter)]
  BY <1>1 DEF ResetRegister, TypeRest
<1> QED
  BY <1>2 DEF ResetRegister, HoldsOnly, TypeRest

LEMMA ForwardDurableTyped ==
    ASSUME NEW S, Coherent(S), HoldsOnly(S), TypeRest, NEW c \in Coord, ForwardDurable(c)
    PROVE  HoldsOnly(S)' /\ TypeRest'
<1>1. /\ committing' = [committing EXCEPT ![c] = {}]
      /\ forward' = [forward EXCEPT ![c] = "durable"]
      /\ acked' = [m \in DOMAIN acked |-> IF m \in committing[c] THEN acked[m] \cup {c} ELSE acked[m]]
      /\ answers' = answers \cup ToldAll(c, Range(notify[c]), Forwarded)
      /\ ResetRegister(c)
      /\ UNCHANGED <<role, myInfo, fitness, nominees, heard, requests, beats, forwards, ended, waited, faults>>
  BY DEF ForwardDurable
<1>2. answers' \subseteq [from : Coord, to : Requester, id : 0..MaxId, nominee : S \cup {Absent, Forwarded}]
  BY <1>1, ToldAllTyped DEF ResetRegister
<1>3. acked' \in [Mover \cup Process -> SUBSET Coord]
  BY <1>1 DEF TypeRest
<1>4. forward' \in [Coord -> {"no", "set", "durable"}] /\ committing' \in [Coord -> SUBSET (Mover \cup Process)]
  BY <1>1 DEF TypeRest
<1>5. HoldsOnly(S)'
  BY <1>1, <1>2, ResetTyped DEF HoldsOnly
<1>6. TypeRest'
  BY <1>1, <1>3, <1>4, ResetTyped DEF TypeRest
<1> QED
  BY <1>5, <1>6

LEMMA RestartsTyped ==
    ASSUME NEW S, Coherent(S), HoldsOnly(S), TypeRest, NEW c \in Coord, Restarts(c), faults' \in 0..MaxFaults
    PROVE  HoldsOnly(S)' /\ TypeRest'
<1>1. /\ ResetRegister(c)
      /\ requests' = requests \cup {Asking(r, c) : r \in {r \in Requester : Parked(r, c)}}
      /\ forwards' = forwards \cup {<<c, m>> : m \in committing[c]}
      /\ committing' = [committing EXCEPT ![c] = {}]
      /\ UNCHANGED <<role, myInfo, fitness, nominees, heard, acked, answers, beats, ended, waited>>
  BY DEF Restarts
<1>2. requests' \subseteq [to : Coord, from : Requester, info : S \cup {Absent}, known : Answer]
  BY <1>1, MessagesTyped DEF HoldsOnly
<1>3. forwards' \subseteq Coord \X (Mover \cup Process) /\ committing' \in [Coord -> SUBSET (Mover \cup Process)]
  BY <1>1 DEF TypeRest
<1>4. forward' \in [Coord -> {"no", "set", "durable"}]
  <2>1. PICK f \in {"no", "set", "durable"} : forward' = [forward EXCEPT ![c] = f]
    BY DEF Restarts, TypeRest
  <2> QED
    BY <2>1 DEF TypeRest
<1>5. HoldsOnly(S)'
  BY <1>1, <1>2, ResetTyped DEF HoldsOnly
<1>6. TypeRest'
  BY <1>1, <1>3, <1>4, ResetTyped DEF TypeRest
<1> QED
  BY <1>5, <1>6

LEMMA FaultTyped ==
    ASSUME TypeRest, Fault
    PROVE  faults' \in 0..MaxFaults
  BY SizeAssumption DEF TypeRest, Fault

\* What watching the nominees leads to.
LEMMA WatchTyped ==
    ASSUME NEW S, Coherent(S), HoldsOnly(S), TypeRest, NEW r \in Requester,
           NEW v \in [Coord -> S \cup {Absent, Forwarded}], Watch(r, v, InfoOf(r))
    PROVE  /\ nominees' \in [Requester -> [Coord -> S \cup {Absent, Forwarded}]]
           /\ role' \in [Requester \cup Mover -> {"off", "candidate", "leader", "monitor", "forwarding", "moved"}]
           /\ forwards' \subseteq Coord \X (Mover \cup Process)
           /\ beats' \subseteq [to : Coord, info : S, prev : S] /\ \A b \in beats' : b.prev.id = b.info.id
           /\ heard' \in [Process -> [Coord -> {"none", "yes", "no"}]]
           /\ waited' \in [Process -> 0..Patience]
<1> DEFINE elected == r \in Process /\ ~IsForwarded(v) /\ Elected(v, InfoOf(r).id)
           nominated == \E c \in Coord : SameChange(v[c], InfoOf(r))
<1>1. /\ nominees' = [nominees EXCEPT ![r] = IF elected THEN NoNominees ELSE v]
      /\ role' = [role EXCEPT ![r] = IF IsForwarded(v) THEN (IF r \in Process THEN "forwarding" ELSE "moved")
                                     ELSE IF elected THEN "leader" ELSE @]
      /\ forwards' = forwards \cup {<<c, r>> : c \in {c \in Coord : r \in Process /\ IsForwarded(v)}}
      /\ beats' = beats \cup {[to |-> c, info |-> InfoOf(r), prev |-> InfoOf(r)] : c \in {c \in Coord : elected}}
      /\ heard' = (IF elected THEN [heard EXCEPT ![r] = [c \in Coord |-> "none"]] ELSE heard)
      /\ waited' = IF r \in Monitor THEN waited
                   ELSE [waited EXCEPT ![r] =
                          IF elected \/ IsForwarded(v) \/ ~nominated \/ Votes(v, Best(v)) >= Majority THEN 0
                          ELSE IF @ = 0 THEN 1 ELSE @]
  BY DEF Watch
<1>2. elected => InfoOf(r) \in S /\ r \in Process
  <2>1. elected => InfoOf(r).id # 0 /\ r \in Process
    BY DEF Elected
  <2>2. InfoOf(r) \in S \cup {Absent} /\ Absent.id = 0
    BY MessagesTyped DEF Absent
  <2> QED
    BY <2>1, <2>2
<1> HIDE DEF elected, nominated
<1>3. nominees' \in [Requester -> [Coord -> S \cup {Absent, Forwarded}]]
  <2>1. NoNominees \in [Coord -> S \cup {Absent, Forwarded}]
    BY DEF NoNominees
  <2> QED
    BY <1>1, <2>1 DEF HoldsOnly
<1>4. role' \in [Requester \cup Mover -> {"off", "candidate", "leader", "monitor", "forwarding", "moved"}]
  BY <1>1 DEF TypeRest
<1>5. forwards' \subseteq Coord \X (Mover \cup Process)
  BY <1>1 DEF TypeRest
<1>6. beats' \subseteq [to : Coord, info : S, prev : S] /\ \A b \in beats' : b.prev.id = b.info.id
  BY <1>1, <1>2 DEF HoldsOnly
<1>7. heard' \in [Process -> [Coord -> {"none", "yes", "no"}]]
  <2>1. [c \in Coord |-> "none"] \in [Coord -> {"none", "yes", "no"}]
    OBVIOUS
  <2> QED
    BY <1>1, <1>2, <2>1 DEF TypeRest
<1>8. waited' \in [Process -> 0..Patience]
  <2>1. CASE r \in Monitor
    BY <1>1, <2>1 DEF TypeRest
  <2>2. CASE r \notin Monitor
    <3>1. r \in Process
      BY <2>2 DEF Requester
    <3>2. PICK x : /\ waited' = [waited EXCEPT ![r] = x]
                   /\ x = 0 \/ x = waited[r] \/ x = 1
      BY <1>1, <2>2
    <3> QED
      BY <3>1, <3>2, SizeAssumption DEF TypeRest
  <2> QED
    BY <2>1, <2>2
<1> QED
  BY <1>3, <1>4, <1>5, <1>6, <1>7, <1>8

LEMMA HearNomineeTyped ==
    ASSUME NEW S, Coherent(S), HoldsOnly(S), TypeRest, NEW r \in Requester, HearNominee(r)
    PROVE  HoldsOnly(S)' /\ TypeRest'
<1>1. PICK a \in answers :
         /\ a.to = r
         /\ answers' = answers \ {a}
         /\ \/ /\ UNCHANGED <<nominees, role, forwards, beats, heard, waited>>
            \/ Watch(r, [nominees[r] EXCEPT ![a.from] = a.nominee], InfoOf(r))
         /\ \/ requests' = requests
            \/ requests' = requests \cup {[to |-> a.from, from |-> r, info |-> InfoOf(r), known |-> a.nominee]}
  BY DEF HearNominee
<1>2. UNCHANGED <<register, forward, myInfo, fitness, acked, committing, ended, faults>>
  BY DEF HearNominee
<1>3. a.from \in Coord /\ a.nominee \in S \cup {Absent, Forwarded} /\ S \cup {Absent, Forwarded} \subseteq Answer
  BY DEF HoldsOnly, Coherent, Answer
<1>4. [nominees[r] EXCEPT ![a.from] = a.nominee] \in [Coord -> S \cup {Absent, Forwarded}]
  BY <1>3 DEF HoldsOnly
<1>5. requests' \subseteq [to : Coord, from : Requester, info : S \cup {Absent}, known : Answer]
  <2>1. InfoOf(r) \in S \cup {Absent}
    BY MessagesTyped
  <2> QED
    BY <1>1, <1>3, <2>1 DEF HoldsOnly
<1>6. /\ nominees' \in [Requester -> [Coord -> S \cup {Absent, Forwarded}]]
      /\ role' \in [Requester \cup Mover -> {"off", "candidate", "leader", "monitor", "forwarding", "moved"}]
      /\ forwards' \subseteq Coord \X (Mover \cup Process)
      /\ beats' \subseteq [to : Coord, info : S, prev : S] /\ \A b \in beats' : b.prev.id = b.info.id
      /\ heard' \in [Process -> [Coord -> {"none", "yes", "no"}]]
      /\ waited' \in [Process -> 0..Patience]
  <2>1. CASE UNCHANGED <<nominees, role, forwards, beats, heard, waited>>
    BY <2>1 DEF HoldsOnly, TypeRest
  <2>2. CASE Watch(r, [nominees[r] EXCEPT ![a.from] = a.nominee], InfoOf(r))
    BY <1>4, <2>2, WatchTyped
  <2> QED
    BY <1>1, <2>1, <2>2
<1>7. HoldsOnly(S)'
  BY <1>1, <1>2, <1>5, <1>6 DEF register, HoldsOnly
<1>8. TypeRest'
  BY <1>2, <1>6 DEF register, TypeRest
<1> QED
  BY <1>7, <1>8

LEMMA StartMonitorTyped ==
    ASSUME NEW S, Coherent(S), HoldsOnly(S), TypeRest, NEW r \in Requester, StartMonitor(r)
    PROVE  HoldsOnly(S)' /\ TypeRest'
<1>1. requests' \subseteq [to : Coord, from : Requester, info : S \cup {Absent}, known : Answer]
  BY MessagesTyped DEF StartMonitor, HoldsOnly
<1>2. HoldsOnly(S)'
  BY <1>1 DEF StartMonitor, register, HoldsOnly
<1>3. TypeRest'
  BY DEF StartMonitor, register, TypeRest
<1> QED
  BY <1>2, <1>3

\* A leader's heartbeats carry its info, with the fitness it has now.
LEMMA HeartbeatsSent ==
    ASSUME NEW S, Coherent(S), HoldsOnly(S), TypeRest, LeadersHaveInfo, NEW p \in Process, role[p] = "leader",
           NEW x \in Fitness, SendHeartbeats(p, [myInfo[p] EXCEPT !.fit = x])
    PROVE  /\ myInfo' \in [Process -> S \cup {Absent}]
           /\ beats' \subseteq [to : Coord, info : S, prev : S] /\ \A b \in beats' : b.prev.id = b.info.id
           /\ heard' \in [Process -> [Coord -> {"none", "yes", "no"}]]
           /\ myInfo'[p] # Absent /\ \A o \in Process : o # p => myInfo'[o] = myInfo[o]
<1>1. myInfo[p] \in S
  BY DEF HoldsOnly, LeadersHaveInfo
<1>2. PICK a : a = [myInfo[p] EXCEPT !.fit = x]
  OBVIOUS
<1>3. a \in S /\ a.id = myInfo[p].id
  BY <1>1, <1>2 DEF Coherent, LeaderInfo
<1>4. /\ myInfo' = [myInfo EXCEPT ![p] = a]
      /\ beats' = beats \cup {[to |-> c, info |-> a, prev |-> myInfo[p]] : c \in Coord}
      /\ heard' = [heard EXCEPT ![p] = [c \in Coord |-> "none"]]
  BY <1>2 DEF SendHeartbeats
<1>5. beats' \subseteq [to : Coord, info : S, prev : S] /\ \A b \in beats' : b.prev.id = b.info.id
  BY <1>1, <1>3, <1>4 DEF HoldsOnly
<1>6. heard' \in [Process -> [Coord -> {"none", "yes", "no"}]]
  <2>1. [c \in Coord |-> "none"] \in [Coord -> {"none", "yes", "no"}]
    OBVIOUS
  <2> QED
    BY <1>4, <2>1 DEF TypeRest
<1>7. a # Absent
  BY <1>3, SizeAssumption DEF Coherent, LeaderInfo, Absent, Id
<1>8. /\ myInfo' \in [Process -> S \cup {Absent}]
      /\ myInfo'[p] = a /\ \A o \in Process : o # p => myInfo'[o] = myInfo[o]
  BY <1>3, <1>4 DEF HoldsOnly
<1> QED
  BY <1>5, <1>6, <1>7, <1>8

LEMMA StillLeaderTyped ==
    ASSUME NEW S, Coherent(S), HoldsOnly(S), TypeRest, LeadersHaveInfo, NEW p \in Process, StillLeader(p)
    PROVE  HoldsOnly(S)' /\ TypeRest' /\ LeadersHaveInfo' /\ myInfo' = myInfo
<1>1. role[p] = "leader" /\ SendHeartbeats(p, myInfo[p])
  BY DEF StillLeader
<1>2. UNCHANGED <<register, forward, role, fitness, nominees, acked, requests, answers, forwards,
                  committing, ended, waited, faults>>
  BY DEF StillLeader
<1>3. myInfo[p] \in S /\ myInfo[p] \in LeaderInfo
  BY <1>1 DEF HoldsOnly, LeadersHaveInfo, Coherent
<1>4. PICK x \in Fitness : x = myInfo[p].fit /\ myInfo[p] = [myInfo[p] EXCEPT !.fit = x]
  BY <1>3 DEF LeaderInfo
<1>5. SendHeartbeats(p, [myInfo[p] EXCEPT !.fit = x])
  BY <1>1, <1>4
<1>6. /\ myInfo' \in [Process -> S \cup {Absent}]
      /\ beats' \subseteq [to : Coord, info : S, prev : S] /\ \A b \in beats' : b.prev.id = b.info.id
      /\ heard' \in [Process -> [Coord -> {"none", "yes", "no"}]]
  BY <1>1, <1>5, HeartbeatsSent
<1>7. myInfo' = myInfo
  BY <1>1 DEF SendHeartbeats, HoldsOnly
<1>8. HoldsOnly(S)'
  BY <1>2, <1>6 DEF register, HoldsOnly
<1>9. TypeRest' /\ LeadersHaveInfo'
  BY <1>2, <1>6, <1>7 DEF register, TypeRest, LeadersHaveInfo
<1> QED
  BY <1>7, <1>8, <1>9

LEMMA LeaveTyped ==
    ASSUME NEW S, Coherent(S), HoldsOnly(S), TypeRest, LeadersHaveInfo, NEW p \in Process, Leave(p),
           faults' \in 0..MaxFaults
    PROVE  HoldsOnly(S)' /\ TypeRest' /\ LeadersHaveInfo'
<1>1. p \in Requester
  BY DEF Requester
<1>2. myInfo' \in [Process -> S \cup {Absent}] /\ nominees' \in [Requester -> [Coord -> S \cup {Absent, Forwarded}]]
  <2>1. NoNominees \in [Coord -> S \cup {Absent, Forwarded}]
    BY DEF NoNominees
  <2> QED
    BY <1>1, <2>1 DEF Leave, HoldsOnly
<1>3. HoldsOnly(S)'
  BY <1>2 DEF Leave, register, HoldsOnly
<1>4. role' \in [Requester \cup Mover -> {"off", "candidate", "leader", "monitor", "forwarding", "moved"}]
  BY <1>1 DEF Leave, TypeRest
<1>5. heard' \in [Process -> [Coord -> {"none", "yes", "no"}]] /\ waited' \in [Process -> 0..Patience]
  <2>1. [c \in Coord |-> "none"] \in [Coord -> {"none", "yes", "no"}] /\ 0 \in 0..Patience
    BY SizeAssumption
  <2> QED
    BY <2>1 DEF Leave, TypeRest
<1>6. TypeRest'
  BY <1>4, <1>5 DEF Leave, register, TypeRest
<1>7. LeadersHaveInfo'
  BY <1>1 DEF Leave, LeadersHaveInfo, TypeRest, HoldsOnly, Requester
<1> QED
  BY <1>3, <1>6, <1>7

LEMMA CoordinatorsTyped ==
    ASSUME NEW S, HoldsOnly(S), TypeRest, LeadersHaveInfo, NEW m \in Mover \cup Process,
           ChangeCoordinators(m) \/ CoordinatorsChanged(m)
    PROVE  HoldsOnly(S)' /\ TypeRest' /\ LeadersHaveInfo'
<1>1. m \in Requester \cup Mover
  BY DEF Requester
<1>2. /\ \E x \in {"forwarding", "moved"} : role' = [role EXCEPT ![m] = x]
      /\ forwards' \subseteq Coord \X (Mover \cup Process)
      /\ UNCHANGED <<register, forward, myInfo, fitness, nominees, heard, acked, requests, answers, beats,
                     committing, ended, waited, faults>>
  BY DEF ChangeCoordinators, CoordinatorsChanged, TypeRest
<1>3. /\ role' \in [Requester \cup Mover -> {"off", "candidate", "leader", "monitor", "forwarding", "moved"}]
      /\ \A p \in Process : role'[p] = "leader" => role[p] = "leader"
  BY <1>1, <1>2 DEF TypeRest, Requester
<1>4. HoldsOnly(S)'
  BY <1>2 DEF register, HoldsOnly
<1>5. TypeRest' /\ LeadersHaveInfo'
  BY <1>2, <1>3 DEF register, TypeRest, LeadersHaveInfo
<1> QED
  BY <1>4, <1>5

\* Whatever is held anywhere has a number that is not drawn again.
LEMMA HeldIsDrawn ==
    /\ \A c \in Coord : \A a \in availableCandidates[c] : a.id \in Drawn
    /\ \A c \in Coord : \A a \in availableLeaders[c] : a.id \in Drawn
    /\ \A c \in Coord : currentNominee[c].id \in Drawn
    /\ \A p \in Process : myInfo[p].id \in Drawn
    /\ \A r \in Requester, c \in Coord : nominees[r][c].id \in Drawn
    /\ \A q \in requests : q.info.id \in Drawn
    /\ \A b \in beats : b.info.id \in Drawn
    /\ \A a \in answers : a.nominee.id \in Drawn
<1> DEFINE at(c) == availableCandidates[c] \cup availableLeaders[c] \cup {currentNominee[c]}
           A == {a.id : a \in UNION {at(c) : c \in Coord}}
           B == {w.id : w \in UNION {Range(notify[c]) : c \in Coord}}
           D == {myInfo[p].id : p \in Process}
           E == {nominees[r][c].id : r \in Requester, c \in Coord}
           F == {q.info.id : q \in requests \cup beats}
           G == {a.nominee.id : a \in answers}
           H == {a.id : a \in answers}
<1>1. Drawn = A \cup B \cup D \cup E \cup F \cup G \cup H
  BY DEF Drawn
<1>2. \A c \in Coord : \A a \in at(c) : a.id \in A
  OBVIOUS
<1>3. \A p \in Process : myInfo[p].id \in D
  OBVIOUS
<1>4. \A r \in Requester, c \in Coord : nominees[r][c].id \in E
  OBVIOUS
<1>5. (\A q \in requests : q.info.id \in F) /\ \A b \in beats : b.info.id \in F
  OBVIOUS
<1>6. \A a \in answers : a.nominee.id \in G
  OBVIOUS
<1>7. \A c \in Coord : /\ \A a \in availableCandidates[c] : a \in at(c)
                       /\ \A a \in availableLeaders[c] : a \in at(c)
                       /\ currentNominee[c] \in at(c)
  OBVIOUS
<1> HIDE DEF A, B, D, E, F, G, H, at
<1> QED
  BY <1>1, <1>2, <1>3, <1>4, <1>5, <1>6, <1>7

\* A number that is not drawn again is held nowhere.
LEMMA HoldsOthers ==
    ASSUME NEW S, Coherent(S), HoldsOnly(S), NEW i \in Id \ Drawn
    PROVE  HoldsOnly({a \in S : a.id # i})
<1> DEFINE T == {a \in S : a.id # i}
<1>0. i # 0 /\ i # MaxId + 1
  BY SizeAssumption DEF Id
<1>1. availableCandidates \in [Coord -> SUBSET T] /\ availableLeaders \in [Coord -> SUBSET T]
  BY HeldIsDrawn DEF HoldsOnly
<1>2. currentNominee \in [Coord -> T \cup {Absent}]
  BY HeldIsDrawn DEF HoldsOnly
<1>3. myInfo \in [Process -> T \cup {Absent}]
  BY HeldIsDrawn DEF HoldsOnly
<1>4. nominees \in [Requester -> [Coord -> T \cup {Absent, Forwarded}]]
  <2>1. \A r \in Requester : nominees[r] \in [Coord -> T \cup {Absent, Forwarded}]
    BY HeldIsDrawn DEF HoldsOnly
  <2> QED
    BY <2>1 DEF HoldsOnly
<1>5. requests \subseteq [to : Coord, from : Requester, info : T \cup {Absent}, known : Answer]
  BY HeldIsDrawn DEF HoldsOnly
<1>6. answers \subseteq [from : Coord, to : Requester, id : 0..MaxId, nominee : T \cup {Absent, Forwarded}]
  BY HeldIsDrawn DEF HoldsOnly
<1>7. beats \subseteq [to : Coord, info : T, prev : T] /\ \A b \in beats : b.prev.id = b.info.id
  BY HeldIsDrawn DEF HoldsOnly
<1> QED
  BY <1>1, <1>2, <1>3, <1>4, <1>5, <1>6, <1>7 DEF HoldsOnly

\* Who stands gets a new number; it is assigned to nobody else.
LEMMA StandTyped ==
    ASSUME NEW f \in [Id -> Process \cup {NoOne}], HoldsOnly(Following(f)), TypeRest, LeadersHaveInfo,
           NEW p \in Process, NEW x \in Fitness, Stand(p, x),
           UNCHANGED <<register, forward, nominees, heard, acked, answers, beats, forwards, committing, ended>>,
           fitness' \in [Process -> Fitness], faults' \in 0..MaxFaults
    PROVE  /\ \E g \in [Id -> Process \cup {NoOne}] : HoldsOnly(Following(g))'
           /\ TypeRest' /\ LeadersHaveInfo'
<1>1. PICK i \in Id \ Drawn :
         /\ role' = [role EXCEPT ![p] = "candidate"]
         /\ myInfo' = [myInfo EXCEPT ![p] = [id |-> i, fit |-> x, who |-> p]]
         /\ requests' = requests \cup {[to |-> c, from |-> p, info |-> [id |-> i, fit |-> x, who |-> p],
                                        known |-> nominees[p][c]] : c \in Coord}
         /\ waited' = [waited EXCEPT ![p] = 0]
  BY DEF Stand
<1>2. p \in Requester
  BY DEF Requester
<1> DEFINE g == [f EXCEPT ![i] = p]
           n == [id |-> i, fit |-> x, who |-> p]
<1>3. g \in [Id -> Process \cup {NoOne}]
  OBVIOUS
<1>4. n \in Following(g) /\ {a \in Following(f) : a.id # i} \subseteq Following(g)
  BY DEF Following, LeaderInfo
<1>5. HoldsOnly({a \in Following(f) : a.id # i})
  BY FollowingCoherent, HoldsOthers
<1>6. HoldsOnly(Following(g)) /\ Coherent(Following(g))
  BY <1>3, <1>4, <1>5, HoldsMore, FollowingCoherent
<1>7. PICK S, a : S = Following(g) /\ a = n
  OBVIOUS
<1>8. HoldsOnly(S) /\ Coherent(S) /\ a \in S
  BY <1>4, <1>6, <1>7
<1>9. \A c \in Coord : nominees[p][c] \in Answer
  BY <1>2, <1>8 DEF HoldsOnly, Coherent, Answer
<1>10. requests' \subseteq [to : Coord, from : Requester, info : S \cup {Absent}, known : Answer]
  <2>1. requests' = requests \cup {[to |-> c, from |-> p, info |-> a, known |-> nominees[p][c]] : c \in Coord}
    BY <1>1, <1>7
  <2> QED
    BY <1>2, <1>8, <1>9, <2>1 DEF HoldsOnly
<1>11. myInfo' \in [Process -> S \cup {Absent}]
  BY <1>1, <1>7, <1>8 DEF HoldsOnly
<1>12. HoldsOnly(S)'
  BY <1>8, <1>10, <1>11 DEF register, HoldsOnly
<1>13. role' \in [Requester \cup Mover -> {"off", "candidate", "leader", "monitor", "forwarding", "moved"}]
  BY <1>1, <1>2 DEF TypeRest
<1>14. waited' \in [Process -> 0..Patience]
  BY <1>1, SizeAssumption DEF TypeRest
<1>15. TypeRest'
  BY <1>13, <1>14 DEF register, TypeRest
<1>16. LeadersHaveInfo'
  <2>1. \A o \in Process : /\ o # p => role'[o] = role[o] /\ myInfo'[o] = myInfo[o]
                           /\ role'[p] = "candidate"
    BY <1>1, <1>2 DEF TypeRest, HoldsOnly, Requester
  <2> QED
    BY <2>1 DEF LeadersHaveInfo
<1> QED
  BY <1>3, <1>7, <1>12, <1>15, <1>16

-----------------------------------------------------------------------------
(***************************************************************************)
(* Nobody is forgotten.                                                    *)
(***************************************************************************)

\* Waiter w of coordinator c waits in its register, or its reply is on the way.
Handed(c, w) ==
    \/ w \in Range(notify[c])
    \/ \E a \in answers : a.from = c /\ a.to = w.who /\ a.id = w.id

Wants(r) == [who |-> r, id |-> InfoOf(r).id]

Owed(r, c) ==
    Asks(r) /\ nominees[r][c] # Forwarded => Asking(r, c) \in requests \/ Handed(c, Wants(r))

LEMMA ForgottenIs ==
    /\ NobodyForgotten <=> \A r \in Requester, c \in Coord : Owed(r, c)
    /\ NobodyForgotten' <=> \A r \in Requester, c \in Coord : Owed(r, c)'
<1>1. \A r, c : Asks(r) => (Parked(r, c) <=> Wants(r) \in Range(notify[c]))
  BY DEF Parked, Wants, Range
<1>2. \A r, c : Asks(r)' => (Parked(r, c)' <=> Wants(r)' \in Range(notify'[c]))
  BY DEF Parked, Wants, Range, Asks, InfoOf
<1>3. \A r : Wants(r).who = r /\ Wants(r).id = InfoOf(r).id
  BY DEF Wants
<1>4. \A r : Wants(r)'.who = r /\ Wants(r)'.id = InfoOf(r)'.id
  BY DEF Wants
<1>5. NobodyForgotten <=> \A r \in Requester, c \in Coord : Owed(r, c)
  BY <1>1, <1>3 DEF NobodyForgotten, Owed, Handed
<1>6. NobodyForgotten' <=> \A r \in Requester, c \in Coord : Owed(r, c)'
  BY <1>2, <1>4 DEF NobodyForgotten, Owed, Handed
<1> QED
  BY <1>5, <1>6

\* A coordinator's step forgets nobody if whoever it handled is answered or parked.
LEMMA CoordinatorOwes ==
    ASSUME NobodyForgotten, UNCHANGED <<role, myInfo, nominees>>,
           \A c \in Coord : \A w : Handed(c, w) => Handed(c, w)',
           \A q \in requests : q \in requests' \/ Handed(q.to, Waiting(q))'
    PROVE  NobodyForgotten'
<1> SUFFICES ASSUME NEW r \in Requester, NEW c \in Coord PROVE Owed(r, c)'
  BY ForgottenIs
<1>1. Owed(r, c)
  BY ForgottenIs
<1>2. /\ Asks(r)' <=> Asks(r)
      /\ nominees'[r][c] = nominees[r][c]
      /\ Asking(r, c)' = Asking(r, c)
      /\ Wants(r)' = Wants(r)
  BY DEF Asks, Asking, Wants, InfoOf
<1>3. Asking(r, c).to = c /\ Waiting(Asking(r, c)) = Wants(r)
  BY DEF Asking, Waiting, Wants
<1>4. PICK w, q : w = Wants(r) /\ q = Asking(r, c)
  OBVIOUS
<1>5. CASE q \in requests
  <2>1. q \in requests' \/ Handed(c, w)'
    BY <1>3, <1>4, <1>5
  <2> QED
    BY <1>2, <1>4, <2>1 DEF Owed, Handed
<1>6. CASE Handed(c, w)
  <2>1. Handed(c, w)'
    BY <1>6
  <2> QED
    BY <1>2, <1>4, <2>1 DEF Owed, Handed
<1> QED
  BY <1>1, <1>2, <1>4, <1>5, <1>6 DEF Owed

\* Everybody who waits in a register is told.
LEMMA AllAreTold ==
    ASSUME NEW c \in Coord, notify \in [Coord -> Seq(Waiter)], NEW W, Range(notify[c]) \subseteq W, NEW n,
           answers' = answers \cup ToldAll(c, W, n), notify' = [notify EXCEPT ![c] = <<>>]
    PROVE  /\ \A w \in W : Handed(c, w)'
           /\ \A d \in Coord : \A w : Handed(d, w) => Handed(d, w)'
<1>1. ASSUME NEW w \in W PROVE Handed(c, w)'
  <2>1. Told(c, w, n) \in answers'
    BY DEF ToldAll
  <2>2. Told(c, w, n).from = c /\ Told(c, w, n).to = w.who /\ Told(c, w, n).id = w.id
    BY DEF Told
  <2> QED
    BY <2>1, <2>2 DEF Handed
<1>2. ASSUME NEW d \in Coord, NEW w, Handed(d, w) PROVE Handed(d, w)'
  <2>1. CASE \E a \in answers : a.from = d /\ a.to = w.who /\ a.id = w.id
    BY <2>1 DEF Handed
  <2>2. CASE w \in Range(notify[d])
    <3>1. CASE d = c
      BY <1>1, <2>2, <3>1
    <3>2. CASE d # c
      BY <2>2, <3>2 DEF Handed
    <3> QED
      BY <3>1, <3>2
  <2> QED
    BY <1>2, <2>1, <2>2 DEF Handed
<1> QED
  BY <1>1, <1>2

LEMMA AnswerOrParkOwes ==
    ASSUME NobodyForgotten, TypeRest, NEW c \in Coord, NEW q \in requests, q.to = c, AnswerOrPark(c, q),
           requests' = requests \ {q}, UNCHANGED <<role, myInfo, nominees>>
    PROVE  NobodyForgotten'
<1>0. notify \in [Coord -> Seq(Waiter)]
  BY DEF TypeRest
<1>1. Handed(c, Waiting(q))' /\ \A d \in Coord : \A w : Handed(d, w) => Handed(d, w)'
  <2>1. CASE answers' = answers \cup {Told(c, Waiting(q), currentNominee[c])} /\ notify' = notify
    <3>1. PICK a : a = Told(c, Waiting(q), currentNominee[c])
      OBVIOUS
    <3>2. a \in answers' /\ a.from = c /\ a.to = Waiting(q).who /\ a.id = Waiting(q).id
      BY <2>1, <3>1 DEF Told
    <3> QED
      BY <2>1, <3>2 DEF Handed, Waiting
  <2>2. CASE /\ answers' = answers \cup ToldAll(c, Range(notify[c]) \cup {Waiting(q)}, currentNominee[c])
             /\ notify' = [notify EXCEPT ![c] = <<>>]
    BY <1>0, <2>2, AllAreTold DEF Waiting
  <2>3. CASE notify' = [notify EXCEPT ![c] = Append(@, Waiting(q))] /\ answers' = answers
    <3>1. PICK s \in Seq(Waiter) : s = notify[c]
      BY <1>0
    <3>2. notify'[c] = Append(s, Waiting(q)) /\ \A d \in Coord : d # c => notify'[d] = notify[d]
      BY <1>0, <2>3, <3>1
    <3>3. Range(s) \cup {Waiting(q)} \subseteq Range(Append(s, Waiting(q)))
      <4>1. /\ DOMAIN s = 1..Len(s) /\ DOMAIN Append(s, Waiting(q)) = 1..(Len(s) + 1) /\ Len(s) \in Nat
            /\ \A i \in 1..Len(s) : Append(s, Waiting(q))[i] = s[i]
            /\ Append(s, Waiting(q))[Len(s) + 1] = Waiting(q)
        OBVIOUS
      <4> QED
        BY <4>1 DEF Range
    <3>4. Handed(c, Waiting(q))'
      BY <3>2, <3>3 DEF Handed, Waiting
    <3> QED
      BY <2>3, <3>1, <3>2, <3>3, <3>4 DEF Handed
  <2> QED
    BY <2>1, <2>2, <2>3, AnswerOrParkIs
<1>2. \A o \in requests : o \in requests' \/ Handed(o.to, Waiting(o))'
  BY <1>1 DEF Handed, Waiting
<1> QED
  BY <1>1, <1>2, CoordinatorOwes

LEMMA CoordinatorForgetsNobody ==
    ASSUME NobodyForgotten, TypeRest, NEW c \in Coord,
           \/ ServeForwarded(c) \/ ServeGetLeader(c) \/ ServeCandidacy(c) \/ ServeHeartbeat(c)
           \/ ServeForward(c) \/ ForwardDurable(c) \/ EndInterval(c) \/ NotifyCheck(c)
    PROVE  NobodyForgotten'
<1>0. notify \in [Coord -> Seq(Waiter)]
  BY DEF TypeRest
<1>1. CASE ServeForwarded(c)
  <2>1. PICK q \in requests : /\ q.to = c /\ requests' = requests \ {q}
                              /\ answers' = answers \cup {Told(c, Waiting(q), Forwarded)}
    BY <1>1 DEF ServeForwarded
  <2>2. notify' = notify /\ UNCHANGED <<role, myInfo, nominees>>
    BY <1>1 DEF ServeForwarded, register
  <2>3. PICK a : a = Told(c, Waiting(q), Forwarded)
    OBVIOUS
  <2>4. a \in answers' /\ a.from = c /\ a.to = Waiting(q).who /\ a.id = Waiting(q).id
    BY <2>1, <2>3 DEF Told
  <2>5. Handed(q.to, Waiting(q))'
    BY <2>1, <2>4 DEF Handed, Waiting
  <2>6. \A o \in requests : o \in requests' \/ Handed(o.to, Waiting(o))'
    BY <2>1, <2>5 DEF Handed, Waiting
  <2>7. \A d \in Coord : \A w : Handed(d, w) => Handed(d, w)'
    BY <2>1, <2>2 DEF Handed
  <2> QED
    BY <2>2, <2>6, <2>7, CoordinatorOwes
<1>2. CASE ServeGetLeader(c)
  <2>1. PICK q \in requests : q.to = c /\ requests' = requests \ {q} /\ AnswerOrPark(c, q)
    BY <1>2 DEF ServeGetLeader
  <2>2. UNCHANGED <<role, myInfo, nominees>>
    BY <1>2 DEF ServeGetLeader
  <2> QED
    BY <2>1, <2>2, AnswerOrParkOwes
<1>3. CASE ServeCandidacy(c)
  <2>1. PICK q \in requests : q.to = c /\ requests' = requests \ {q} /\ AnswerOrPark(c, q)
    BY <1>3 DEF ServeCandidacy
  <2>2. UNCHANGED <<role, myInfo, nominees>>
    BY <1>3 DEF ServeCandidacy
  <2> QED
    BY <2>1, <2>2, AnswerOrParkOwes
<1>4. ASSUME UNCHANGED <<role, myInfo, nominees, notify, requests, answers>>
      PROVE  NobodyForgotten'
  <2>1. \A d \in Coord : \A w : Handed(d, w) => Handed(d, w)'
    BY <1>4 DEF Handed
  <2>2. \A q \in requests : q \in requests' \/ Handed(q.to, Waiting(q))'
    BY <1>4
  <2> QED
    BY <1>4, <2>1, <2>2, CoordinatorOwes
<1>5. CASE ServeHeartbeat(c)
  BY <1>4, <1>5 DEF ServeHeartbeat
<1>6. CASE ServeForward(c)
  BY <1>4, <1>6 DEF ServeForward, register
<1>7. ASSUME UNCHANGED <<role, myInfo, nominees, requests>>, NEW n,
             answers' = answers \cup ToldAll(c, Range(notify[c]), n), notify' = [notify EXCEPT ![c] = <<>>]
      PROVE  NobodyForgotten'
  <2>1. \A d \in Coord : \A w : Handed(d, w) => Handed(d, w)'
    BY <1>0, <1>7, AllAreTold
  <2>2. \A q \in requests : q \in requests' \/ Handed(q.to, Waiting(q))'
    BY <1>7
  <2> QED
    BY <1>7, <2>1, <2>2, CoordinatorOwes
<1>8. CASE ForwardDurable(c)
  BY <1>7, <1>8 DEF ForwardDurable, ResetRegister
<1>9. CASE EndInterval(c)
  <2>1. UNCHANGED <<role, myInfo, nominees, requests>>
    BY <1>9, EndIntervalIs
  <2>2. CASE notify' = notify /\ answers' = answers
    BY <1>4, <2>1, <2>2
  <2>3. CASE /\ answers' = answers \cup ToldAll(c, Range(notify[c]), NextNominee(c))
             /\ notify' = [notify EXCEPT ![c] = <<>>]
    BY <1>7, <2>1, <2>3
  <2> QED
    BY <1>9, <2>2, <2>3, EndIntervalIs
<1>10. CASE NotifyCheck(c)
  <2>1. /\ notify[c] # <<>> /\ notify' = [notify EXCEPT ![c] = Tail(@)]
        /\ answers' = answers \cup {Told(c, Head(notify[c]), currentNominee[c])}
        /\ UNCHANGED <<role, myInfo, nominees, requests>>
    BY <1>10 DEF NotifyCheck
  <2>2. \E s \in Seq(Waiter) : s = notify[c] /\ Told(c, Head(s), currentNominee[c]) \in answers'
    BY <1>0, <2>1
  <2> PICK s \in Seq(Waiter) : s = notify[c] /\ Told(c, Head(s), currentNominee[c]) \in answers'
    BY <2>2
  <2> DEFINE a == Told(c, Head(s), currentNominee[c])
  <2>3. s # <<>> /\ notify'[c] = Tail(s) /\ \A d \in Coord : d # c => notify'[d] = notify[d]
    BY <1>0, <2>1, <2>2
  <2>4. Range(s) \subseteq Range(Tail(s)) \cup {Head(s)}
    <3>1. /\ DOMAIN s = 1..Len(s) /\ Len(s) \in Nat /\ Head(s) = s[1]
          /\ DOMAIN Tail(s) = 1..(Len(s) - 1) /\ \A i \in 1..(Len(s) - 1) : Tail(s)[i] = s[i + 1]
      BY <2>3
    <3>2. ASSUME NEW i \in 1..Len(s) PROVE s[i] \in Range(Tail(s)) \cup {Head(s)}
      <4>1. CASE i = 1
        BY <3>1, <4>1
      <4>2. CASE i # 1
        <5>1. i - 1 \in DOMAIN Tail(s) /\ Tail(s)[i - 1] = s[i]
          BY <3>1, <4>2
        <5> QED
          BY <5>1 DEF Range
      <4> QED
        BY <4>1, <4>2
    <3> QED
      BY <3>1, <3>2 DEF Range
  <2>5. a \in answers' /\ a.from = c /\ a.to = Head(s).who /\ a.id = Head(s).id
    BY <2>1, <2>2 DEF Told
  <2>6. \A d \in Coord : \A w : Handed(d, w) => Handed(d, w)'
    BY <2>1, <2>2, <2>3, <2>4, <2>5 DEF Handed
  <2>7. \A q \in requests : q \in requests' \/ Handed(q.to, Waiting(q))'
    BY <2>1
  <2> QED
    BY <2>1, <2>6, <2>7, CoordinatorOwes
<1> QED
  BY <1>1, <1>2, <1>3, <1>5, <1>6, <1>8, <1>9, <1>10

\* Whoever waited in a register that is lost asks again.
LEMMA RestartForgetsNobody ==
    ASSUME NobodyForgotten, TypeRest, NEW c \in Coord, Restarts(c)
    PROVE  NobodyForgotten'
<1> SUFFICES ASSUME NEW r \in Requester, NEW d \in Coord PROVE Owed(r, d)'
  BY ForgottenIs
<1>1. Owed(r, d)
  BY ForgottenIs
<1>2. /\ requests' = requests \cup {Asking(o, c) : o \in {o \in Requester : Parked(o, c)}}
      /\ notify' = [notify EXCEPT ![c] = <<>>]
      /\ UNCHANGED <<role, myInfo, nominees, answers>>
  BY DEF Restarts, ResetRegister
<1>3. /\ Asks(r)' <=> Asks(r)
      /\ nominees'[r][d] = nominees[r][d]
      /\ Asking(r, d)' = Asking(r, d)
      /\ Wants(r)' = Wants(r)
  BY <1>2 DEF Asks, Asking, Wants, InfoOf
<1>4. PICK w, q : w = Wants(r) /\ q = Asking(r, d)
  OBVIOUS
<1>5. CASE d # c /\ w \in Range(notify[d])
  <2>1. notify'[d] = notify[d]
    BY <1>2, <1>5 DEF TypeRest
  <2> QED
    BY <1>3, <1>4, <1>5, <2>1 DEF Owed, Handed
<1>6. CASE d = c /\ Asks(r) /\ w \in Range(notify[d])
  <2>1. Parked(r, c)
    BY <1>4, <1>6 DEF Parked, Wants, Range
  <2>2. q \in requests'
    BY <1>2, <1>4, <1>6, <2>1
  <2> QED
    BY <1>3, <1>4, <2>2 DEF Owed
<1>7. CASE q \in requests \/ \E a \in answers : a.from = d /\ a.to = w.who /\ a.id = w.id
  BY <1>2, <1>3, <1>4, <1>7 DEF Owed, Handed
<1> QED
  BY <1>1, <1>3, <1>4, <1>5, <1>6, <1>7 DEF Owed, Handed

\* A step of one process or monitor owes nothing new to the others.
LEMMA OthersOwed ==
    ASSUME NobodyForgotten, NEW p, notify' = notify, requests \subseteq requests',
           \A a \in answers : a.to # p => a \in answers',
           \A r \in Requester : r # p => role'[r] = role[r] /\ nominees'[r] = nominees[r] /\ InfoOf(r)' = InfoOf(r),
           \A c \in Coord : p \in Requester => Owed(p, c)'
    PROVE  NobodyForgotten'
<1> SUFFICES ASSUME NEW r \in Requester, NEW c \in Coord, r # p PROVE Owed(r, c)'
  BY ForgottenIs
<1>1. Owed(r, c)
  BY ForgottenIs
<1>2. /\ Asks(r)' <=> Asks(r)
      /\ nominees'[r][c] = nominees[r][c]
      /\ Asking(r, c)' = Asking(r, c)
      /\ Wants(r)' = Wants(r)
  BY DEF Asks, Asking, Wants
<1>3. PICK w, q : w = Wants(r) /\ q = Asking(r, c)
  OBVIOUS
<1>4. w.who = r
  BY <1>3 DEF Wants
<1> QED
  BY <1>1, <1>2, <1>3, <1>4 DEF Owed, Handed

\* A leader, and whoever stopped, waits for no nominee.
LEMMA SilentOwed ==
    ASSUME NobodyForgotten, NEW S, HoldsOnly(S), TypeRest, NEW p \in Requester \cup Mover, notify' = notify,
           requests \subseteq requests', answers' = answers,
           \A r \in Requester : r # p => role'[r] = role[r] /\ nominees'[r] = nominees[r] /\ InfoOf(r)' = InfoOf(r),
           role'[p] \notin {"candidate", "monitor"}
    PROVE  NobodyForgotten'
<1>1. \A c \in Coord : Owed(p, c)'
  BY DEF Owed, Asks
<1> QED
  BY <1>1, OthersOwed

\* Who stands asks every coordinator.
LEMMA StandForgetsNobody ==
    ASSUME NobodyForgotten, NEW S, HoldsOnly(S), TypeRest, NEW p \in Process, NEW x \in Fitness, Stand(p, x),
           UNCHANGED <<notify, nominees, answers>>
    PROVE  NobodyForgotten'
<1>1. PICK i \in Id \ Drawn :
         /\ role' = [role EXCEPT ![p] = "candidate"]
         /\ myInfo' = [myInfo EXCEPT ![p] = [id |-> i, fit |-> x, who |-> p]]
         /\ requests' = requests \cup {[to |-> c, from |-> p, info |-> [id |-> i, fit |-> x, who |-> p],
                                        known |-> nominees[p][c]] : c \in Coord}
  BY DEF Stand
<1>2. \A r \in Requester : r # p => role'[r] = role[r] /\ nominees'[r] = nominees[r] /\ InfoOf(r)' = InfoOf(r)
  BY <1>1 DEF TypeRest, HoldsOnly, InfoOf
<1>3. ASSUME NEW c \in Coord PROVE Owed(p, c)'
  <2>1. InfoOf(p)' = [id |-> i, fit |-> x, who |-> p]
    BY <1>1 DEF InfoOf, HoldsOnly
  <2>2. Asking(p, c)' \in requests'
    BY <1>1, <2>1 DEF Asking
  <2> QED
    BY <2>2 DEF Owed
<1> QED
  BY <1>1, <1>2, <1>3, OthersOwed

LEMMA StartMonitorForgetsNobody ==
    ASSUME NobodyForgotten, TypeRest, NEW r \in Requester, StartMonitor(r)
    PROVE  NobodyForgotten'
<1>1. /\ role' = [role EXCEPT ![r] = "monitor"]
      /\ requests' = requests \cup {Asking(r, c) : c \in Coord}
      /\ UNCHANGED <<notify, myInfo, nominees, answers>>
  BY DEF StartMonitor, register
<1>2. \A o \in Requester : InfoOf(o)' = InfoOf(o) /\ (o # r => role'[o] = role[o])
  BY <1>1 DEF TypeRest, InfoOf
<1>3. ASSUME NEW c \in Coord PROVE Owed(r, c)'
  <2>1. Asking(r, c)' = Asking(r, c)
    BY <1>1, <1>2 DEF Asking
  <2> QED
    BY <1>1, <2>1 DEF Owed
<1> QED
  BY <1>1, <1>2, <1>3, OthersOwed

\* A reply leads to the next request, about the same nominee: it is the one its
\* changeID stands for.
LEMMA HearForgetsNobody ==
    ASSUME NobodyForgotten, NEW S, Coherent(S), HoldsOnly(S), TypeRest, NEW r \in Requester, HearNominee(r)
    PROVE  NobodyForgotten'
<1>1. PICK a \in answers :
         /\ a.to = r
         /\ answers' = answers \ {a}
         /\ IF Asks(r) /\ a.id = InfoOf(r).id
              THEN /\ IF SameChange(a.nominee, nominees[r][a.from])
                        THEN UNCHANGED <<nominees, role, forwards, beats, heard, waited>>
                        ELSE Watch(r, [nominees[r] EXCEPT ![a.from] = a.nominee], InfoOf(r))
                   /\ requests' = IF role'[r] = role[r]
                         THEN requests \cup {[to |-> a.from, from |-> r, info |-> InfoOf(r), known |-> a.nominee]}
                         ELSE requests
              ELSE UNCHANGED <<nominees, role, forwards, beats, heard, waited, requests>>
  BY DEF HearNominee
<1>2. notify' = notify /\ myInfo' = myInfo
  BY DEF HearNominee, register
<1>3. \A o \in Requester : InfoOf(o)' = InfoOf(o)
  BY <1>2 DEF InfoOf
<1>4. a.from \in Coord /\ a.nominee \in S \cup {Absent, Forwarded} /\ r \in DOMAIN role /\ r \in DOMAIN nominees
  BY DEF HoldsOnly, TypeRest
<1>5. \A o \in Requester : o # r => role'[o] = role[o] /\ nominees'[o] = nominees[o]
  BY <1>1 DEF Watch, HoldsOnly, TypeRest
<1>6. requests \subseteq requests'
  BY <1>1
<1>7. ASSUME NEW c \in Coord, c # a.from \/ ~ (Asks(r) /\ a.id = InfoOf(r).id),
             role'[r] = role[r], nominees'[r][c] = nominees[r][c]
      PROVE  Owed(r, c)'
  <2>1. Owed(r, c)
    BY ForgottenIs
  <2>2. /\ Asks(r)' <=> Asks(r)
        /\ Asking(r, c)' = Asking(r, c)
        /\ Wants(r)' = Wants(r)
    BY <1>3, <1>7 DEF Asks, Asking, Wants
  <2>3. PICK w, q : w = Wants(r) /\ q = Asking(r, c)
    OBVIOUS
  <2>4. w.who = r /\ w.id = InfoOf(r).id
    BY <2>3 DEF Wants
  <2>5. Asks(r) /\ Handed(c, w) => Handed(c, w)'
    BY <1>1, <1>2, <1>7, <2>4 DEF Handed
  <2> QED
    BY <1>6, <1>7, <2>1, <2>2, <2>3, <2>5 DEF Owed, Handed
<1>8. ASSUME NEW c \in Coord PROVE Owed(r, c)'
  <2>1. CASE ~ (Asks(r) /\ a.id = InfoOf(r).id)
    BY <1>1, <1>7, <2>1
  <2>2. CASE Asks(r) /\ a.id = InfoOf(r).id /\ SameChange(a.nominee, nominees[r][a.from])
    <3>1. UNCHANGED <<nominees, role>>
      BY <1>1, <2>2
    <3>2. nominees[r][a.from] = a.nominee
      <4>1. nominees[r][a.from] \in S \cup {Absent, Forwarded}
        BY <1>4 DEF HoldsOnly
      <4> QED
        BY <1>4, <2>2, <4>1 DEF Coherent
    <3>3. CASE c = a.from
      <4>1. [to |-> c, from |-> r, info |-> InfoOf(r), known |-> nominees[r][c]] \in requests'
        BY <1>1, <2>2, <3>1, <3>2, <3>3
      <4>2. Asking(r, c)' \in requests'
        BY <1>3, <3>1, <4>1 DEF Asking
      <4> QED
        BY <4>2 DEF Owed
    <3> QED
      BY <1>7, <3>1, <3>3
  <2>3. CASE Asks(r) /\ a.id = InfoOf(r).id /\ ~ SameChange(a.nominee, nominees[r][a.from])
    <3> DEFINE v == [nominees[r] EXCEPT ![a.from] = a.nominee]
               elected == r \in Process /\ ~IsForwarded(v) /\ Elected(v, InfoOf(r).id)
    <3>1. /\ nominees' = [nominees EXCEPT ![r] = IF elected THEN NoNominees ELSE v]
          /\ role' = [role EXCEPT ![r] = IF IsForwarded(v) THEN (IF r \in Process THEN "forwarding" ELSE "moved")
                                         ELSE IF elected THEN "leader" ELSE @]
      BY <1>1, <2>3 DEF Watch
    <3>2. nominees[r] \in [Coord -> S \cup {Absent, Forwarded}]
      BY DEF HoldsOnly
    <3>3. v[a.from] = a.nominee /\ \A d \in Coord : d # a.from => v[d] = nominees[r][d]
      BY <1>4, <3>2
    <3> HIDE DEF v, elected
    <3>4. CASE IsForwarded(v) \/ elected
      <4>1. role'[r] \in {"forwarding", "moved", "leader"}
        BY <1>4, <3>1, <3>4
      <4> QED
        BY <4>1 DEF Owed, Asks
    <3>5. CASE ~ IsForwarded(v) /\ ~ elected
      <4>1. role'[r] = role[r] /\ nominees'[r] = v
        BY <1>4, <3>1, <3>5
      <4>2. CASE c = a.from
        <5>1. [to |-> c, from |-> r, info |-> InfoOf(r), known |-> v[c]] \in requests'
          BY <1>1, <2>3, <3>3, <4>1, <4>2
        <5>2. Asking(r, c)' \in requests'
          BY <1>3, <4>1, <5>1 DEF Asking
        <5> QED
          BY <5>2 DEF Owed
      <4>3. CASE c # a.from
        BY <1>7, <3>3, <4>1, <4>3
      <4> QED
        BY <4>2, <4>3
    <3> QED
      BY <3>4, <3>5
  <2> QED
    BY <2>1, <2>2, <2>3
<1>9. \A b \in answers : b.to # r => b \in answers'
  BY <1>1
<1> QED
  BY <1>2, <1>3, <1>5, <1>6, <1>8, <1>9, OthersOwed

-----------------------------------------------------------------------------
(***************************************************************************)
(* The invariant.                                                          *)
(***************************************************************************)

LEMMA InitHolds == Init => IInv
<1> SUFFICES ASSUME Init PROVE IInv
  OBVIOUS
<1>1. PICK f \in [Id -> Process \cup {NoOne}] : TRUE
  <2>1. [i \in Id |-> NoOne] \in [Id -> Process \cup {NoOne}]
    OBVIOUS
  <2> QED
    BY <2>1
<1>2. HoldsOnly(Following(f))
  <2>1. NoNominees \in [Coord -> Following(f) \cup {Absent, Forwarded}]
    BY DEF NoNominees
  <2> QED
    BY <2>1 DEF Init, HoldsOnly
<1>3. TypeRest
  <2>1. notify \in [Coord -> Seq(Waiter)]
    BY DEF Init
  <2>2. 0 \in Fitness /\ 0 \in 0..Patience /\ 0 \in 0..MaxFaults
    BY SizeAssumption DEF Fitness
  <2> QED
    BY <2>1, <2>2 DEF Init, TypeRest
<1>4. LeadersHaveInfo /\ NobodyForgotten
  BY DEF Init, LeadersHaveInfo, NobodyForgotten, Asks, Requester
<1> QED
  BY <1>1, <1>2, <1>3, <1>4 DEF IInv

LEMMA Stutter ==
    ASSUME IInv, UNCHANGED vars
    PROVE  IInv'
<1>1. PICK f \in [Id -> Process \cup {NoOne}] : HoldsOnly(Following(f))
  BY DEF IInv
<1>2. HoldsOnly(Following(f))'
  BY <1>1 DEF vars, register, HoldsOnly
<1>3. TypeRest' /\ LeadersHaveInfo'
  BY DEF IInv, vars, register, TypeRest, LeadersHaveInfo
<1>4. NobodyForgotten'
  BY DEF IInv, vars, register, NobodyForgotten, Asks, Parked, Asking, InfoOf
<1> QED
  BY <1>1, <1>2, <1>3, <1>4 DEF IInv

LEMMA CoordinatorStep ==
    ASSUME IInv, NEW c \in Coord, Serve(c) \/ EndInterval(c) \/ NotifyCheck(c) \/ RestartCoordinator(c)
    PROVE  IInv'
<1>1. PICK f \in [Id -> Process \cup {NoOne}] : HoldsOnly(Following(f))
  BY DEF IInv
<1>2. PICK S : S = Following(f)
  OBVIOUS
<1>3. Coherent(S) /\ HoldsOnly(S) /\ TypeRest /\ LeadersHaveInfo /\ NobodyForgotten
  BY <1>1, <1>2, FollowingCoherent DEF IInv
<1>4. ASSUME HoldsOnly(S)', TypeRest', NobodyForgotten', role' = role, myInfo' = myInfo
      PROVE  IInv'
  <2>1. LeadersHaveInfo'
    BY <1>3, <1>4 DEF LeadersHaveInfo
  <2> QED
    BY <1>1, <1>2, <1>4, <2>1 DEF IInv
<1>5. CASE ServeForwarded(c) \/ ServeGetLeader(c) \/ ServeCandidacy(c)
  <2>1. role' = role /\ myInfo' = myInfo
    BY <1>5 DEF ServeForwarded, ServeGetLeader, ServeCandidacy
  <2> QED
    BY <1>3, <1>4, <1>5, <2>1, ServeTyped, CoordinatorForgetsNobody
<1>6. CASE ServeHeartbeat(c)
  <2>1. role' = role /\ myInfo' = myInfo
    BY <1>6 DEF ServeHeartbeat
  <2> QED
    BY <1>3, <1>4, <1>6, <2>1, HeartbeatTyped, CoordinatorForgetsNobody
<1>7. CASE ServeForward(c)
  <2>1. role' = role /\ myInfo' = myInfo
    BY <1>7 DEF ServeForward
  <2> QED
    BY <1>3, <1>4, <1>7, <2>1, ServeForwardTyped, CoordinatorForgetsNobody
<1>8. CASE ForwardDurable(c)
  <2>1. role' = role /\ myInfo' = myInfo
    BY <1>8 DEF ForwardDurable
  <2> QED
    BY <1>3, <1>4, <1>8, <2>1, ForwardDurableTyped, CoordinatorForgetsNobody
<1>9. CASE EndInterval(c)
  <2>1. role' = role /\ myInfo' = myInfo
    BY <1>9, EndIntervalIs
  <2> QED
    BY <1>3, <1>4, <1>9, <2>1, EndIntervalTyped, CoordinatorForgetsNobody
<1>10. CASE NotifyCheck(c)
  <2>1. role' = role /\ myInfo' = myInfo
    BY <1>10 DEF NotifyCheck
  <2> QED
    BY <1>3, <1>4, <1>10, <2>1, NotifyCheckTyped, CoordinatorForgetsNobody
<1>11. CASE RestartCoordinator(c) \/ TooManyNotifications(c)
  <2>1. Restarts(c) /\ faults' \in 0..MaxFaults
    BY <1>3, <1>11, FaultTyped DEF RestartCoordinator, TooManyNotifications, TypeRest
  <2>2. role' = role /\ myInfo' = myInfo
    BY <2>1 DEF Restarts
  <2> QED
    BY <1>3, <1>4, <2>1, <2>2, RestartsTyped, RestartForgetsNobody
<1> QED
  BY <1>5, <1>6, <1>7, <1>8, <1>9, <1>10, <1>11 DEF Serve

LEMMA RequesterStep ==
    ASSUME IInv, NEW r \in Requester, HearNominee(r) \/ StartMonitor(r)
    PROVE  IInv'
<1>1. PICK f \in [Id -> Process \cup {NoOne}] : HoldsOnly(Following(f))
  BY DEF IInv
<1>2. PICK S : S = Following(f)
  OBVIOUS
<1>3. Coherent(S) /\ HoldsOnly(S) /\ TypeRest /\ LeadersHaveInfo /\ NobodyForgotten
  BY <1>1, <1>2, FollowingCoherent DEF IInv
<1>4. ASSUME HoldsOnly(S)', TypeRest', NobodyForgotten', LeadersHaveInfo'
      PROVE  IInv'
  BY <1>1, <1>2, <1>4 DEF IInv
<1>5. CASE HearNominee(r)
  <2>1. myInfo' = myInfo /\ \A p \in Process : role'[p] = "leader" => role[p] = "leader" \/ InfoOf(p).id # 0
    <3>1. PICK a \in answers : \/ role' = role
                               \/ Watch(r, [nominees[r] EXCEPT ![a.from] = a.nominee], InfoOf(r))
      BY <1>5 DEF HearNominee
    <3>2. CASE role' = role
      BY <1>5, <3>2 DEF HearNominee
    <3>3. CASE Watch(r, [nominees[r] EXCEPT ![a.from] = a.nominee], InfoOf(r))
      <4> DEFINE v == [nominees[r] EXCEPT ![a.from] = a.nominee]
      <4>1. role' = [role EXCEPT ![r] =
                        IF IsForwarded(v) THEN (IF r \in Process THEN "forwarding" ELSE "moved")
                        ELSE IF r \in Process /\ ~IsForwarded(v) /\ Elected(v, InfoOf(r).id) THEN "leader" ELSE @]
        BY <3>3 DEF Watch
      <4> HIDE DEF v
      <4>2. \A p \in Process : role'[p] = "leader" => role[p] = "leader" \/ (p = r /\ Elected(v, InfoOf(r).id))
        BY <1>3, <4>1 DEF TypeRest, Requester
      <4>3. myInfo' = myInfo
        BY <1>5 DEF HearNominee
      <4> QED
        BY <4>2, <4>3 DEF Elected
    <3> QED
      BY <3>1, <3>2, <3>3
  <2>2. LeadersHaveInfo'
    BY <1>3, <2>1 DEF LeadersHaveInfo, InfoOf, Absent
  <2> QED
    BY <1>3, <1>4, <1>5, <2>2, HearNomineeTyped, HearForgetsNobody
<1>6. CASE StartMonitor(r)
  <2>1. LeadersHaveInfo'
    BY <1>3, <1>6, SizeAssumption DEF StartMonitor, LeadersHaveInfo, TypeRest, Requester
  <2> QED
    BY <1>3, <1>4, <1>6, <2>1, StartMonitorTyped, StartMonitorForgetsNobody
<1> QED
  BY <1>5, <1>6

LEMMA ProcessStep ==
    ASSUME IInv, NEW p \in Process, Run(p) \/ ChangeFitness(p) \/ Die(p)
    PROVE  IInv'
<1>1. PICK f \in [Id -> Process \cup {NoOne}] : HoldsOnly(Following(f))
  BY DEF IInv
<1>2. PICK S : S = Following(f)
  OBVIOUS
<1>3. Coherent(S) /\ HoldsOnly(S) /\ TypeRest /\ LeadersHaveInfo /\ NobodyForgotten
  BY <1>1, <1>2, FollowingCoherent DEF IInv
<1>4. ASSUME HoldsOnly(S)', TypeRest', NobodyForgotten', LeadersHaveInfo'
      PROVE  IInv'
  BY <1>1, <1>2, <1>4 DEF IInv
<1>0. p \in Requester /\ p \in Requester \cup Mover
  BY DEF Requester
<1>5. ASSUME NEW x \in Fitness, Stand(p, x),
             UNCHANGED <<register, forward, nominees, heard, acked, answers, beats, forwards, committing, ended>>,
             fitness' \in [Process -> Fitness], faults' \in 0..MaxFaults
      PROVE  IInv'
  <2>1. UNCHANGED <<notify, nominees, answers>>
    BY <1>5 DEF register
  <2>2. NobodyForgotten'
    BY <1>3, <1>5, <2>1, StandForgetsNobody
  <2> QED
    BY <1>1, <1>3, <1>5, <2>2, StandTyped DEF IInv
<1>6. CASE StartCandidate(p) \/ BadCandidateTimeout(p)
  BY <1>3, <1>5, <1>6 DEF StartCandidate, BadCandidateTimeout, TypeRest
<1>7. CASE StillLeader(p)
  <2>1. myInfo' = myInfo
    BY <1>3, <1>7, StillLeaderTyped
  <2>2. role[p] = "leader" /\ UNCHANGED <<notify, role, nominees, requests, answers>>
    BY <1>7 DEF StillLeader, register
  <2>3. NobodyForgotten'
    BY <1>0, <1>3, <2>1, <2>2, SilentOwed DEF InfoOf
  <2> QED
    BY <1>3, <1>4, <1>7, <2>3, StillLeaderTyped
<1>8. CASE ReplacedAsLeader(p) \/ ReleaseLeadership(p) \/ Die(p)
  <2>1. Leave(p) /\ faults' \in 0..MaxFaults
    BY <1>3, <1>8, FaultTyped DEF ReplacedAsLeader, ReleaseLeadership, Die, TypeRest
  <2>2. UNCHANGED <<notify, requests, answers>> /\ role'[p] = "off"
    BY <1>0, <1>3, <2>1 DEF Leave, register, TypeRest
  <2>3. \A r \in Requester : r # p => role'[r] = role[r] /\ nominees'[r] = nominees[r] /\ InfoOf(r)' = InfoOf(r)
    BY <1>3, <2>1 DEF Leave, TypeRest, HoldsOnly, InfoOf
  <2>4. NobodyForgotten'
    BY <1>0, <1>3, <2>2, <2>3, SilentOwed
  <2> QED
    BY <1>3, <1>4, <2>1, <2>4, LeaveTyped
<1>9. CASE ChangeFitness(p)
  <2>1. PICK x \in Fitness \ {fitness[p]} :
           /\ fitness' = [fitness EXCEPT ![p] = x]
           /\ CASE role[p] = "candidate" -> Stand(p, x) /\ UNCHANGED <<beats, heard>>
                [] role[p] = "leader" -> /\ SendHeartbeats(p, [myInfo[p] EXCEPT !.fit = x])
                                         /\ UNCHANGED <<role, requests, waited>>
                [] OTHER -> UNCHANGED <<role, myInfo, requests, waited, beats, heard>>
    BY <1>9 DEF ChangeFitness
  <2>2. UNCHANGED <<register, forward, nominees, acked, answers, forwards, committing, ended>> /\ faults' \in 0..MaxFaults
    BY <1>3, <1>9, FaultTyped DEF ChangeFitness
  <2>3. fitness' \in [Process -> Fitness]
    BY <1>3, <2>1 DEF TypeRest
  <2>4. CASE role[p] = "candidate"
    BY <1>5, <2>1, <2>2, <2>3, <2>4
  <2>5. CASE role[p] = "leader"
    <3>1. SendHeartbeats(p, [myInfo[p] EXCEPT !.fit = x]) /\ UNCHANGED <<role, requests, waited>>
      BY <2>1, <2>5
    <3>2. /\ myInfo' \in [Process -> S \cup {Absent}]
          /\ beats' \subseteq [to : Coord, info : S, prev : S] /\ \A b \in beats' : b.prev.id = b.info.id
          /\ heard' \in [Process -> [Coord -> {"none", "yes", "no"}]]
          /\ myInfo'[p] # Absent /\ \A o \in Process : o # p => myInfo'[o] = myInfo[o]
      BY <1>3, <2>5, <3>1, HeartbeatsSent
    <3>3. HoldsOnly(S)'
      BY <1>3, <2>2, <3>1, <3>2 DEF register, HoldsOnly
    <3>4. TypeRest'
      BY <1>3, <2>2, <2>3, <3>1, <3>2 DEF register, TypeRest
    <3>5. LeadersHaveInfo'
      BY <1>3, <3>1, <3>2 DEF LeadersHaveInfo
    <3>6. NobodyForgotten'
      <4>1. \A r \in Requester : r # p => InfoOf(r)' = InfoOf(r)
        BY <3>2 DEF InfoOf
      <4>2. UNCHANGED <<notify, nominees, answers>>
        BY <2>2 DEF register
      <4> QED
        BY <1>0, <1>3, <2>5, <3>1, <4>1, <4>2, SilentOwed
    <3> QED
      BY <1>4, <3>3, <3>4, <3>5, <3>6
  <2>6. CASE role[p] # "candidate" /\ role[p] # "leader"
    <3>1. UNCHANGED <<role, myInfo, requests, waited, beats, heard>>
      BY <2>1, <2>6
    <3>2. HoldsOnly(S)'
      BY <1>3, <2>2, <3>1 DEF register, HoldsOnly
    <3>3. TypeRest' /\ LeadersHaveInfo'
      BY <1>3, <2>2, <2>3, <3>1 DEF register, TypeRest, LeadersHaveInfo
    <3>4. NobodyForgotten'
      BY <1>3, <2>2, <3>1 DEF register, NobodyForgotten, Asks, Parked, Asking, InfoOf
    <3> QED
      BY <1>4, <3>2, <3>3, <3>4
  <2> QED
    BY <2>4, <2>5, <2>6
<1> QED
  BY <1>6, <1>7, <1>8, <1>9 DEF Run

LEMMA MoverStep ==
    ASSUME IInv, NEW m \in Mover \cup Process, ChangeCoordinators(m) \/ CoordinatorsChanged(m)
    PROVE  IInv'
<1>1. PICK f \in [Id -> Process \cup {NoOne}] : HoldsOnly(Following(f))
  BY DEF IInv
<1>2. PICK S : S = Following(f)
  OBVIOUS
<1>3. HoldsOnly(S) /\ TypeRest /\ LeadersHaveInfo /\ NobodyForgotten
  BY <1>1, <1>2 DEF IInv
<1>4. /\ \E x \in {"forwarding", "moved"} : role' = [role EXCEPT ![m] = x]
      /\ UNCHANGED <<notify, myInfo, nominees, requests, answers>>
  BY DEF ChangeCoordinators, CoordinatorsChanged, register
<1>5. m \in Requester \cup Mover
  BY DEF Requester
<1>6. /\ role'[m] \notin {"candidate", "monitor"}
      /\ \A r \in Requester : r # m => role'[r] = role[r]
      /\ \A r \in Requester : InfoOf(r)' = InfoOf(r)
  BY <1>3, <1>4, <1>5 DEF TypeRest, InfoOf
<1>7. NobodyForgotten'
  BY <1>3, <1>4, <1>5, <1>6, SilentOwed
<1> QED
  BY <1>1, <1>2, <1>3, <1>7, CoordinatorsTyped DEF IInv

\* IInv is an inductive invariant of the specification.
THEOREM Invariance == Spec => []IInv
<1>1. IInv /\ [Next]_vars => IInv'
  BY CoordinatorStep, RequesterStep, ProcessStep, MoverStep, Stutter DEF Next
<1> QED
  BY <1>1, InitHolds, PTL DEF Spec

\* Whoever asks a coordinator for its nominee is never forgotten: until it hears of a
\* forwarding, the coordinator has its request, its reply is on the way, or it waits in the
\* register, through restarts, overflows of the register and changes of nominee.
THEOREM NobodyIsForgotten == Spec => []ElectionInv
<1>1. IInv => ElectionInv
  BY InfoTyped DEF IInv, ElectionInv
<1> QED
  BY <1>1, Invariance, PTL

=============================================================================
