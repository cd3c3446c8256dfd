------------------------------- MODULE LeaderElection -------------------------------
(***************************************************************************)
(* Election of the cluster controller.  Every coordinator keeps a leader   *)
(* register (leaderRegister): it nominates a candidate, or the leader that *)
(* sent it a heartbeat, at the end of every interval.  A candidate asks    *)
(* every coordinator whom it nominates (submitCandidacy) and becomes the   *)
(* leader when a majority of the answers it has name it; the leader sends  *)
(* heartbeats until a majority disowns it (tryBecomeLeaderInternal).  A    *)
(* monitor only asks (monitorLeaderOneGeneration).  The coordinators can   *)
(* be told to forward everybody to other coordinators (setForward).        *)
(*                                                                         *)
(* changeID is a fitness (its first bits, the lower the better) and a      *)
(* random number; a number that occurs nowhere any more may be drawn again.*)
(* A message that is lost is retried, which is a message that takes long.  *)
(*                                                                         *)
(* If Timely, time passes as the knobs mean it to: messages are faster     *)
(* than intervals and are handled in lockstep (replies, then the requests  *)
(* they lead to, then heartbeats; one receiver after the other), every     *)
(* leader has a heartbeat handled in every interval, intervals end at the  *)
(* same rate everywhere (candidateDelay grows to the same maximum).        *)
(* Otherwise nothing is known about speeds.                                *)
(***************************************************************************)
EXTENDS Naturals, FiniteSets, Sequences, Functions

CONSTANTS Coord,            \* coordinators
          Process,          \* processes that can be cluster controller
          Monitor,          \* processes that only want to know it
          Mover,            \* who may change the coordinators
          NoOne,            \* the serializedInfo of an absent nominee
          MaxId,            \* random numbers to draw from
          MaxFitness,       \* the worst fitness
          Unknown, Remote,  \* fitnesses whose dcFitness is FitnessUnknown, FitnessRemote
          MaxNotifications, \* MAX_NOTIFICATIONS
          MaxFaults,        \* crashes and changes of fitness
          Patience,         \* rounds of intervals that fit into 2 * POLLING_FREQUENCY
          Timely

ASSUME SizeAssumption ==
    /\ IsFiniteSet(Coord) /\ Coord # {}
    /\ Process \cap Monitor = {}
    /\ NoOne \notin Process
    /\ MaxId \in Nat /\ MaxFitness \in Nat /\ MaxNotifications \in Nat
    /\ MaxFaults \in Nat /\ Patience \in Nat \ {0}
    /\ {Unknown, Remote} \subseteq Nat
    /\ Timely \in BOOLEAN

Id == 1..MaxId
Fitness == 0..MaxFitness
LeaderInfo == [id : Id, fit : Fitness, who : Process]

Absent == [id |-> 0, fit |-> 0, who |-> NoOne]
Forwarded == [id |-> MaxId + 1, fit |-> 0, who |-> NoOne]   \* forward = true
Answer == LeaderInfo \cup {Absent, Forwarded}

NoNominees == [c \in Coord |-> Absent]

Requester == Process \cup Monitor

VARIABLES
    \* the register of each coordinator
    availableCandidates, availableLeaders, currentNominee,
    notify,        \* the requests that wait: whose, with which number
    nextInterval,  \* "off", "now" (delay(0)), "later"
    forward,       \* "no", "set" (in memory only), "durable"
    \* the processes
    role,          \* "off", "candidate", "leader", "monitor", "forwarding", "moved"
    myInfo, fitness,
    nominees,      \* what each coordinator answered last
    heard,         \* replies to the last heartbeats: "none", "yes", "no"
    acked,         \* per mover or forwarded process: who answered its ForwardRequest
    \* the network
    requests,      \* candidacy and getLeader requests
    answers,       \* and their replies
    beats,         \* leaderHeartbeat requests
    forwards,      \* forward requests
    committing,    \* the forward request whose forwarding a coordinator makes durable
    \* time and faults
    ended,         \* coordinators whose interval ended in this round
    waited,        \* rounds badCandidateTimeout has run
    faults

register == <<availableCandidates, availableLeaders, currentNominee, notify, nextInterval>>
vars == <<register, forward, role, myInfo, fitness, nominees, heard, acked,
          requests, answers, beats, forwards, committing, ended, waited, faults>>

Request == [to : Coord, from : Requester, info : LeaderInfo \cup {Absent}, known : Answer]
Reply == [from : Coord, to : Requester, id : 0..MaxId, nominee : Answer]
Beat == [to : Coord, info : LeaderInfo, prev : LeaderInfo]
Waiter == [who : Requester, id : 0..MaxId]

TypeOK ==
    /\ availableCandidates \in [Coord -> SUBSET LeaderInfo]
    /\ availableLeaders \in [Coord -> SUBSET LeaderInfo]
    /\ currentNominee \in [Coord -> LeaderInfo \cup {Absent}]
    /\ notify \in [Coord -> Seq(Waiter)]
    /\ nextInterval \in [Coord -> {"off", "now", "later"}]
    /\ forward \in [Coord -> {"no", "set", "durable"}]
    /\ role \in [Requester \cup Mover -> {"off", "candidate", "leader", "monitor", "forwarding", "moved"}]
    /\ myInfo \in [Process -> LeaderInfo \cup {Absent}]
    /\ fitness \in [Process -> Fitness]
    /\ nominees \in [Requester -> [Coord -> Answer]]
    /\ heard \in [Process -> [Coord -> {"none", "yes", "no"}]]
    /\ acked \in [Mover \cup Process -> SUBSET Coord]
    /\ requests \subseteq Request
    /\ answers \subseteq Reply
    /\ beats \subseteq Beat
    /\ forwards \subseteq Coord \X (Mover \cup Process)
    /\ committing \in [Coord -> SUBSET (Mover \cup Process)]
    /\ ended \subseteq Coord
    /\ waited \in [Process -> 0..Patience]
    /\ faults \in 0..MaxFaults

Init ==
    /\ availableCandidates = [c \in Coord |-> {}]
    /\ availableLeaders = [c \in Coord |-> {}]
    /\ currentNominee = [c \in Coord |-> Absent]
    /\ notify = [c \in Coord |-> <<>>]
    /\ nextInterval = [c \in Coord |-> "off"]
    /\ forward = [c \in Coord |-> "no"]
    /\ role = [r \in Requester \cup Mover |-> "off"]
    /\ myInfo = [p \in Process |-> Absent]
    /\ fitness = [p \in Process |-> 0]
    /\ nominees = [r \in Requester |-> NoNominees]
    /\ heard = [p \in Process |-> [c \in Coord |-> "none"]]
    /\ acked = [m \in Mover \cup Process |-> {}]
    /\ requests = {} /\ answers = {} /\ beats = {} /\ forwards = {}
    /\ committing = [c \in Coord |-> {}]
    /\ ended = {}
    /\ waited = [p \in Process |-> 0]
    /\ faults = 0
-----------------------------------------------------------------------------
(***************************************************************************)
(* LeaderInfo                                                              *)
(***************************************************************************)

\* operator<: the fitness bits come first.
Less(a, b) == a.fit < b.fit \/ (a.fit = b.fit /\ a.id < b.id)

\* The first element of a std::set<LeaderInfo>.
First(S) == CHOOSE a \in S : \A b \in S : a = b \/ Less(a, b)

\* changeID, all of it, as operator== compares it.
SameChange(a, b) == a.id = b.id /\ a.fit = b.fit

EqualInternalId(a, b) == a.id = b.id

\* Mutant: a fitter candidate does not take over.
LeaderChangeRefused(leader, candidate) ==
    leader.fit < candidate.fit /\ EqualInternalId(leader, candidate)

LeaderChangeRequired(leader, candidate) ==
    \/ leader.fit > candidate.fit /\ ~EqualInternalId(leader, candidate)
    \/ leader.fit < candidate.fit /\ EqualInternalId(leader, candidate)

Majority == Cardinality(Coord) \div 2 + 1

(***************************************************************************)
(* getLeader(): the number most nominations have, the smallest of them,    *)
(* and whether they are a majority.                                        *)
(***************************************************************************)
Votes(v, i) == Cardinality({c \in Coord : v[c].id = i})

Best(v) ==
    LET named == {v[c].id : c \in Coord} \ {0} IN
    IF named = {} THEN 0
    ELSE CHOOSE i \in named :
           \A j \in named : Votes(v, i) > Votes(v, j) \/ (Votes(v, i) = Votes(v, j) /\ i <= j)

IsForwarded(v) == \E c \in Coord : v[c] = Forwarded

\* Mutant: one vote more than a majority is needed.
ElectedByMore(v, i) == i # 0 /\ Best(v) = i /\ Votes(v, i) > Majority

Elected(v, i) == i # 0 /\ Best(v) = i /\ Votes(v, i) >= Majority

\* A crash or a change of fitness; if Timely, between two intervals' worth of messages.
Fault ==
    /\ faults < MaxFaults
    /\ faults' = faults + 1
    /\ Timely => requests = {} /\ answers = {} /\ beats = {}

\* Numbers that nobody has heard of or can hear of any more.
Drawn ==
    LET at(c) == availableCandidates[c] \cup availableLeaders[c] \cup {currentNominee[c]} IN
    {a.id : a \in UNION {at(c) : c \in Coord}}
      \cup {w.id : w \in UNION {Range(notify[c]) : c \in Coord}}
      \cup {myInfo[p].id : p \in Process}
      \cup {nominees[r][c].id : r \in Requester, c \in Coord}
      \cup {q.info.id : q \in requests \cup beats}
      \cup {a.nominee.id : a \in answers} \cup {a.id : a \in answers}
-----------------------------------------------------------------------------
(***************************************************************************)
(* A coordinator: leaderServer and leaderRegister.                         *)
(***************************************************************************)

\* What r asks coordinator c: candidacy if it is a candidate, getLeader if a monitor.
InfoOf(r) == IF r \in Process THEN myInfo[r] ELSE Absent

Asking(r, c) == [to |-> c, from |-> r, info |-> InfoOf(r), known |-> nominees[r][c]]

Asks(r) == role[r] \in {"candidate", "monitor"}

Waiting(q) == [who |-> q.from, id |-> q.info.id]

Told(c, w, n) == [from |-> c, to |-> w.who, id |-> w.id, nominee |-> n]

\* Mutant: only one of them is told.
ToldOne(c, ws, n) == IF ws = {} THEN {} ELSE {Told(c, CHOOSE w \in ws : TRUE, n)}

ToldAll(c, ws, n) == {Told(c, w, n) : w \in ws}

Parked(r, c) == Asks(r) /\ \E i \in DOMAIN notify[c] : notify[c][i] = [who |-> r, id |-> InfoOf(r).id]

\* The reply that a request gets at once, if it does: a nominee it does not know.
News(c, q) == currentNominee[c] # Absent /\ ~SameChange(currentNominee[c], q.known)

(***************************************************************************)
(* A request that learns nothing new waits.  When too many wait, all of    *)
(* them are sent currentNominee.get(), which fails if there is none.       *)
(***************************************************************************)
Overflows(c) == Len(notify[c]) + 1 > MaxNotifications

Fails(c, q) == ~News(c, q) /\ Overflows(c) /\ currentNominee[c] = Absent

AnswerOrPark(c, q) ==
    LET w == Waiting(q) IN
    CASE News(c, q) ->
           /\ answers' = answers \cup {Told(c, w, currentNominee[c])}
           /\ UNCHANGED notify
      [] ~News(c, q) /\ Overflows(c) ->
           /\ answers' = answers \cup ToldAll(c, Range(notify[c]) \cup {w}, currentNominee[c])
           /\ notify' = [notify EXCEPT ![c] = <<>>]
      [] ~News(c, q) /\ ~Overflows(c) ->
           /\ notify' = [notify EXCEPT ![c] = Append(@, w)]
           /\ UNCHANGED answers

\* nextInterval = delay(0), unless one is running.
Hurry(c) == nextInterval' = [nextInterval EXCEPT ![c] = IF @ = "off" THEN "now" ELSE @]

\* If Timely, whose turn it is to handle a message.  Handlers of different receivers
\* commute, so one order of receivers stands for all.
ServesNext(c) == c = CHOOSE d \in Coord : \E q \in requests : q.to = d

BeatsNext(c) == c = CHOOSE d \in Coord : \E b \in beats : b.to = d

HearsNext(r) == r = CHOOSE o \in Requester : \E a \in answers : a.to = o

\* A coordinator that forwards answers every request with it.
ServeForwarded(c) ==
    \E q \in requests :
        /\ Timely => answers = {} /\ ServesNext(c)
        /\ q.to = c
        /\ forward[c] # "no"
        /\ requests' = requests \ {q}
        /\ answers' = answers \cup {Told(c, Waiting(q), Forwarded)}
        /\ UNCHANGED <<register, forward, role, myInfo, fitness, nominees, heard, acked,
                       beats, forwards, committing, ended, waited, faults>>

ServeGetLeader(c) ==
    \E q \in requests :
        /\ Timely => answers = {} /\ ServesNext(c)
        /\ q.to = c /\ q.info = Absent
        /\ forward[c] = "no" /\ ~Fails(c, q)
        /\ requests' = requests \ {q}
        /\ AnswerOrPark(c, q)
        /\ IF News(c, q) \/ Overflows(c) THEN UNCHANGED nextInterval ELSE Hurry(c)
        /\ UNCHANGED <<availableCandidates, availableLeaders, currentNominee, forward, role, myInfo,
                       fitness, nominees, heard, acked, beats, forwards, committing, ended, waited, faults>>

\* A candidate's prevChangeID is its new number with no fitness: nothing is erased.
ServeCandidacy(c) ==
    \E q \in requests :
        /\ Timely => answers = {} /\ ServesNext(c)
        /\ q.to = c /\ q.info # Absent
        /\ forward[c] = "no" /\ ~Fails(c, q)
        /\ requests' = requests \ {q}
        /\ Hurry(c)
        /\ availableCandidates' = [availableCandidates EXCEPT ![c] = @ \cup {q.info}]
        /\ AnswerOrPark(c, q)
        /\ UNCHANGED <<availableLeaders, currentNominee, forward, role, myInfo, fitness, nominees,
                       heard, acked, beats, forwards, committing, ended, waited, faults>>

\* The reply reaches a leader that still waits for this round of heartbeats.
ServeHeartbeat(c) ==
    \E b \in beats :
        LET current == forward[c] = "no" /\ EqualInternalId(currentNominee[c], b.info)
            p == b.info.who
        IN
        /\ Timely => answers = {} /\ requests = {} /\ BeatsNext(c)
        /\ b.to = c
        /\ beats' = beats \ {b}
        /\ IF forward[c] = "no"
             THEN /\ Hurry(c)
                  /\ availableLeaders' = [availableLeaders EXCEPT ![c] = (@ \ {b.prev}) \cup {b.info}]
             ELSE UNCHANGED <<nextInterval, availableLeaders>>
        /\ heard' = IF role[p] = "leader" /\ SameChange(myInfo[p], b.info)
                      THEN [heard EXCEPT ![p][c] = IF current THEN "yes" ELSE "no"]
                      ELSE heard
        /\ UNCHANGED <<availableCandidates, currentNominee, notify, forward, role, myInfo, fitness,
                       nominees, acked, requests, answers, forwards, committing, ended, waited, faults>>

\* An interval that is not delay(0) ends after every message it could have waited for.
IntervalElapsed(c) ==
    \/ nextInterval[c] = "now"
    \/ /\ nextInterval[c] = "later"
       /\ ~Timely
    \/ /\ nextInterval[c] = "later"
       /\ requests = {} /\ answers = {} /\ beats = {}
       /\ \A d \in Coord : nextInterval[d] # "now"
       /\ \A p \in Process : role[p] = "leader" => myInfo[p] \in availableLeaders[c]
       /\ c \notin ended \/ {d \in Coord : nextInterval[d] = "later"} \subseteq ended

\* The end of a round in which the intervals of all coordinators ended.
RoundOver(c) == {d \in Coord : nextInterval[d] = "later"} \subseteq ended

PassTime(c) ==
    IF ~Timely \/ nextInterval[c] = "now" THEN UNCHANGED <<ended, waited>>
    ELSE /\ ended' = IF RoundOver(c) THEN {c} ELSE ended \cup {c}
         /\ waited' = [p \in Process |->
              IF RoundOver(c) /\ waited[p] # 0 /\ waited[p] < Patience THEN waited[p] + 1 ELSE waited[p]]

NextNominee(c) ==
    LET cs == availableCandidates[c]
        ls == availableLeaders[c]
    IN IF cs # {} /\ (ls = {} \/ LeaderChangeRequired(First(ls), First(cs))) THEN First(cs)
       ELSE IF ls # {} THEN First(ls)
       ELSE Absent

Default(c) ==
    availableLeaders[c] = {} /\ availableCandidates[c] = {} /\ notify[c] = <<>> /\ currentNominee[c] = Absent

\* Whether everybody who waits hears of the next nominee.
Notifies(c) ==
    LET cur == currentNominee[c]
        next == NextNominee(c)
    IN \/ cur = Absent \/ next = Absent
       \/ ~EqualInternalId(cur, next)
       \/ Less(cur, next)
       \/ cur.fit = Unknown /\ next.fit = Remote

\* A register in its default state ends.
EndInterval(c) ==
    /\ IntervalElapsed(c)
    /\ PassTime(c)
    /\ IF Default(c)
         THEN /\ nextInterval' = [nextInterval EXCEPT ![c] = "off"]
              /\ UNCHANGED <<availableCandidates, availableLeaders, currentNominee, notify, answers>>
         ELSE /\ IF Notifies(c)
                   THEN /\ answers' = answers \cup ToldAll(c, Range(notify[c]), NextNominee(c))
                        /\ notify' = [notify EXCEPT ![c] = <<>>]
                   ELSE UNCHANGED <<answers, notify>>
              /\ currentNominee' = [currentNominee EXCEPT ![c] = NextNominee(c)]
              /\ nextInterval' = [nextInterval EXCEPT ![c] = "later"]
              /\ availableLeaders' = [availableLeaders EXCEPT ![c] = {}]
              /\ availableCandidates' = [availableCandidates EXCEPT ![c] = {}]
    /\ UNCHANGED <<forward, role, myInfo, fitness, nominees, heard, acked, requests, beats,
                   forwards, committing, faults>>

\* notifyCheck: now and then the one that waits longest is answered.  It is rare.
NotifyCheck(c) ==
    /\ ~Timely
    /\ notify[c] # <<>> /\ currentNominee[c] # Absent
    /\ answers' = answers \cup {Told(c, Head(notify[c]), currentNominee[c])}
    /\ notify' = [notify EXCEPT ![c] = Tail(@)]
    /\ UNCHANGED <<availableCandidates, availableLeaders, currentNominee, nextInterval, forward, role,
                   myInfo, fitness, nominees, heard, acked, requests, beats, forwards, committing, ended, waited, faults>>

\* A ForwardRequest: the forwarding is known at once and made durable before this
\* request is processed.  Another request that finds it is answered.
ServeForward(c) ==
    \E m \in Mover \cup Process :
        /\ <<c, m>> \in forwards
        /\ forwards' = forwards \ {<<c, m>>}
        /\ IF forward[c] = "no"
             THEN /\ forward' = [forward EXCEPT ![c] = "set"]
                  /\ committing' = [committing EXCEPT ![c] = {m}]
                  /\ UNCHANGED acked
             ELSE /\ acked' = [acked EXCEPT ![m] = @ \cup {c}]
                  /\ UNCHANGED <<forward, committing>>
        /\ UNCHANGED <<register, role, myInfo, fitness, nominees, heard, requests, answers, beats,
                       ended, waited, faults>>

ResetRegister(c) ==
    /\ availableCandidates' = [availableCandidates EXCEPT ![c] = {}]
    /\ availableLeaders' = [availableLeaders EXCEPT ![c] = {}]
    /\ currentNominee' = [currentNominee EXCEPT ![c] = Absent]
    /\ notify' = [notify EXCEPT ![c] = <<>>]
    /\ nextInterval' = [nextInterval EXCEPT ![c] = "off"]

\* The forwarding is durable: everybody who waits is told, and the register ends.
ForwardDurable(c) ==
    /\ committing[c] # {}
    /\ committing' = [committing EXCEPT ![c] = {}]
    /\ forward' = [forward EXCEPT ![c] = "durable"]
    /\ acked' = [m \in DOMAIN acked |-> IF m \in committing[c] THEN acked[m] \cup {c} ELSE acked[m]]
    /\ answers' = answers \cup ToldAll(c, Range(notify[c]), Forwarded)
    /\ ResetRegister(c)
    /\ UNCHANGED <<role, myInfo, fitness, nominees, heard, requests, beats, forwards, ended, waited, faults>>

\* A coordinator restarts with what it had made durable; whoever waits for it asks again.
Restarts(c) ==
    /\ ResetRegister(c)
    /\ \E f \in IF forward[c] = "set" THEN {"no", "durable"} ELSE {forward[c]} :
          forward' = [forward EXCEPT ![c] = f]
    /\ requests' = requests \cup {Asking(r, c) : r \in {r \in Requester : Parked(r, c)}}
    /\ forwards' = forwards \cup {<<c, m>> : m \in committing[c]}
    /\ committing' = [committing EXCEPT ![c] = {}]
    /\ UNCHANGED <<role, myInfo, fitness, nominees, heard, acked, answers, beats, ended, waited>>

RestartCoordinator(c) == Fault /\ Restarts(c)

\* Optional::get() throws, the error ends the coordinator, and the request comes again.
TooManyNotifications(c) ==
    /\ Timely => answers = {}
    /\ forward[c] = "no"
    /\ \E q \in requests : q.to = c /\ Fails(c, q)
    /\ Restarts(c)
    /\ UNCHANGED faults
-----------------------------------------------------------------------------
(***************************************************************************)
(* Candidates and monitors: submitCandidacy, monitorNominee.               *)
(***************************************************************************)

\* r watches the nominees v: a forwarded one, a leader, or it goes on.
Watch(r, v, info) ==
    LET elected == r \in Process /\ ~IsForwarded(v) /\ Elected(v, info.id)
        nominated == \E c \in Coord : SameChange(v[c], info)
    IN
    /\ nominees' = [nominees EXCEPT ![r] = IF elected THEN NoNominees ELSE v]
    /\ role' = [role EXCEPT ![r] = IF IsForwarded(v) THEN (IF r \in Process THEN "forwarding" ELSE "moved")
                                   ELSE IF elected THEN "leader" ELSE @]
    /\ forwards' = forwards \cup {<<c, r>> : c \in {c \in Coord : r \in Process /\ IsForwarded(v)}}
    /\ beats' = beats \cup {[to |-> c, info |-> info, prev |-> info] : c \in {c \in Coord : elected}}
    /\ heard' = IF elected THEN [heard EXCEPT ![r] = [c \in Coord |-> "none"]] ELSE heard
    /\ waited' = IF r \in Monitor THEN waited
                 ELSE [waited EXCEPT ![r] =
                        IF elected \/ IsForwarded(v) \/ ~nominated \/ Votes(v, Best(v)) >= Majority THEN 0
                        ELSE IF @ = 0 THEN 1 ELSE @]

\* A reply to a request that was not cancelled; the next request follows at once.
HearNominee(r) ==
    \E a \in answers :
        LET v == [nominees[r] EXCEPT ![a.from] = a.nominee]
            info == InfoOf(r)
        IN
        /\ Timely => HearsNext(r)
        /\ a.to = r
        /\ answers' = answers \ {a}
        /\ IF Asks(r) /\ a.id = info.id
             THEN /\ IF SameChange(a.nominee, nominees[r][a.from])
                       THEN UNCHANGED <<nominees, role, forwards, beats, heard, waited>>
                       ELSE Watch(r, v, info)
                  /\ requests' = IF role'[r] = role[r]
                        THEN requests \cup {[to |-> a.from, from |-> r, info |-> info, known |-> a.nominee]}
                        ELSE requests
             ELSE UNCHANGED <<nominees, role, forwards, beats, heard, waited, requests>>
        /\ UNCHANGED <<register, forward, myInfo, fitness, acked, committing, ended, faults>>

StartMonitor(r) ==
    /\ r \in Monitor
    /\ role[r] = "off"
    /\ role' = [role EXCEPT ![r] = "monitor"]
    /\ requests' = requests \cup {Asking(r, c) : c \in Coord}
    /\ UNCHANGED <<register, forward, myInfo, fitness, nominees, heard, acked, answers, beats, forwards,
                   committing, ended, waited, faults>>
-----------------------------------------------------------------------------
(***************************************************************************)
(* tryBecomeLeaderInternal                                                 *)
(***************************************************************************)

\* A pass of the loop that seeks candidacy: a new number, and every coordinator is asked.
Stand(p, fit) ==
    \E i \in Id \ Drawn :
        LET info == [id |-> i, fit |-> fit, who |-> p] IN
        /\ role' = [role EXCEPT ![p] = "candidate"]
        /\ myInfo' = [myInfo EXCEPT ![p] = info]
        /\ requests' = requests \cup
             {[to |-> c, from |-> p, info |-> info, known |-> nominees[p][c]] : c \in Coord}
        /\ waited' = [waited EXCEPT ![p] = 0]

StartCandidate(p) ==
    /\ role[p] = "off"
    /\ Stand(p, fitness[p])
    /\ UNCHANGED <<register, forward, fitness, nominees, heard, acked, answers, beats, forwards,
                   committing, ended, faults>>

\* It was nominated by somebody for long and there is no leader.
BadCandidateTimeout(p) ==
    /\ role[p] = "candidate"
    /\ \E c \in Coord : SameChange(nominees[p][c], myInfo[p])
    /\ Votes(nominees[p], Best(nominees[p])) < Majority
    /\ Timely => waited[p] = Patience
    /\ Stand(p, fitness[p])
    /\ UNCHANGED <<register, forward, fitness, nominees, heard, acked, answers, beats, forwards,
                   committing, ended, faults>>

SendHeartbeats(p, info) ==
    /\ myInfo' = [myInfo EXCEPT ![p] = info]
    /\ beats' = beats \cup {[to |-> c, info |-> info, prev |-> myInfo[p]] : c \in Coord}
    /\ heard' = [heard EXCEPT ![p] = [c \in Coord |-> "none"]]

\* asyncPriorityInfo: a candidate stands again, a leader sends heartbeats at once.
ChangeFitness(p) ==
    /\ Fault
    /\ \E f \in Fitness \ {fitness[p]} :
          /\ fitness' = [fitness EXCEPT ![p] = f]
          /\ CASE role[p] = "candidate" -> Stand(p, f) /\ UNCHANGED <<beats, heard>>
               [] role[p] = "leader" -> /\ SendHeartbeats(p, [myInfo[p] EXCEPT !.fit = f])
                                        /\ UNCHANGED <<role, requests, waited>>
               [] OTHER -> UNCHANGED <<role, myInfo, requests, waited, beats, heard>>
    /\ UNCHANGED <<register, forward, nominees, acked, answers, forwards, committing, ended>>

Count(p, reply) == Cardinality({c \in Coord : heard[p][c] = reply})

StillLeader(p) ==
    /\ role[p] = "leader"
    /\ Count(p, "yes") >= Majority
    /\ Timely => \E c \in Coord : myInfo[p] \notin availableLeaders[c]
    /\ SendHeartbeats(p, myInfo[p])
    /\ UNCHANGED <<register, forward, role, fitness, nominees, acked, requests, answers, forwards,
                   committing, ended, waited, faults>>

\* The call returns or its process dies.
Leave(p) ==
    /\ role' = [role EXCEPT ![p] = "off"]
    /\ myInfo' = [myInfo EXCEPT ![p] = Absent]
    /\ nominees' = [nominees EXCEPT ![p] = NoNominees]
    /\ heard' = [heard EXCEPT ![p] = [c \in Coord |-> "none"]]
    /\ waited' = [waited EXCEPT ![p] = 0]
    /\ UNCHANGED <<register, forward, fitness, acked, requests, answers, beats, forwards, committing, ended>>

ReplacedAsLeader(p) ==
    /\ role[p] = "leader"
    /\ Count(p, "no") >= Majority
    /\ Leave(p)
    /\ UNCHANGED faults

\* No majority replies the same within POLLING_FREQUENCY.
ReleaseLeadership(p) ==
    /\ role[p] = "leader"
    /\ Timely => /\ \A c \in Coord : heard[p][c] # "none"
                 /\ \A reply \in {"yes", "no"} : Count(p, reply) < Majority
    /\ Leave(p)
    /\ UNCHANGED faults

Die(p) ==
    /\ Fault
    /\ role[p] \in {"candidate", "leader"}
    /\ Leave(p)
-----------------------------------------------------------------------------
(***************************************************************************)
(* changeLeaderCoordinators                                                *)
(***************************************************************************)

\* Somebody who changes the coordinators tells the old ones.
ChangeCoordinators(m) ==
    /\ m \in Mover
    /\ role[m] = "off"
    /\ role' = [role EXCEPT ![m] = "forwarding"]
    /\ forwards' = forwards \cup {<<c, m>> : c \in Coord}
    /\ UNCHANGED <<register, forward, myInfo, fitness, nominees, heard, acked, requests, answers, beats,
                   committing, ended, waited, faults>>

\* A majority knows, or it has taken too long (processes only).
CoordinatorsChanged(m) ==
    /\ role[m] = "forwarding"
    /\ Cardinality(acked[m]) >= Majority \/ (m \in Process /\ ~Timely)
    /\ role' = [role EXCEPT ![m] = "moved"]
    /\ UNCHANGED <<register, forward, myInfo, fitness, nominees, heard, acked, requests, answers, beats,
                   forwards, committing, ended, waited, faults>>
-----------------------------------------------------------------------------
Serve(c) ==
    \/ ServeForwarded(c) \/ ServeGetLeader(c) \/ ServeCandidacy(c) \/ ServeHeartbeat(c)
    \/ ServeForward(c) \/ ForwardDurable(c) \/ TooManyNotifications(c)

Run(p) ==
    StartCandidate(p) \/ BadCandidateTimeout(p) \/ StillLeader(p) \/ ReplacedAsLeader(p) \/ ReleaseLeadership(p)

Next ==
    \/ \E c \in Coord : Serve(c) \/ EndInterval(c) \/ NotifyCheck(c) \/ RestartCoordinator(c)
    \/ \E r \in Requester : HearNominee(r) \/ StartMonitor(r)
    \/ \E p \in Process : Run(p) \/ ChangeFitness(p) \/ Die(p)
    \/ \E m \in Mover \cup Process : ChangeCoordinators(m) \/ CoordinatorsChanged(m)

Spec == Init /\ [][Next]_vars

(***************************************************************************)
(* Messages arrive, timers fire, processes take their steps.               *)
(***************************************************************************)
LiveSpec ==
    /\ Spec
    /\ \A c \in Coord : WF_vars(Serve(c)) /\ WF_vars(EndInterval(c))
    /\ \A r \in Requester : WF_vars(HearNominee(r) \/ StartMonitor(r))
    /\ \A p \in Process : WF_vars(Run(p) \/ CoordinatorsChanged(p))
-----------------------------------------------------------------------------
\* Nobody is forgotten: whoever wants to know the nominee of a coordinator has a
\* request or a reply on the way, or waits in the register (no lost notification).
NobodyForgotten ==
    \A r \in Requester, c \in Coord :
        (Asks(r) /\ nominees[r][c] # Forwarded) =>
            \/ Parked(r, c)
            \/ Asking(r, c) \in requests
            \/ \E a \in answers : a.from = c /\ a.to = r /\ a.id = InfoOf(r).id

\* The messages and registers of an election, in type and in what they owe each other.
ElectionInv == TypeOK /\ NobodyForgotten

Settled(p) ==
    /\ role[p] = "leader"
    /\ \A r \in Requester \ {p} :
          Asks(r) /\ Best(nominees[r]) = myInfo[p].id

\* Once nothing fails any more, one process is the leader for good and everybody else
\* knows it; messages are timely from the start, so no heartbeat is late for its interval.
EventuallyOneLeader == <>[](\E p \in Process : Settled(p))

\* And nobody else would be a better one.
FittestLeads == <>[](\A p, q \in Process : role[p] = "leader" => fitness[p] <= fitness[q])

=============================================================================
