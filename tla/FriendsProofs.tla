--------------------------- MODULE FriendsProofs ---------------------------
(***************************************************************************)
(* Proofs for Friends, for every number of users and threads: how far the  *)
(* limits of a friend set and of a list of requests can be passed, and     *)
(* when friendship is mutual.  The hashes play no part in them.            *)
(***************************************************************************)
EXTENDS Friends, FiniteSetTheorems, SequenceTheorems, TLAPS

\* The type of the part of the state that the proofs are about.
FType ==
    /\ friends \in [Users -> SUBSET Users]
    /\ pc \in [Threads -> Steps]
    /\ job \in [Threads -> Jobs \cup {NoJob}]
    /\ \A t \in Threads : pc[t] # "idle" => job[t] \in Jobs
    /\ clock \in 0..MaxClock

\* The threads that have found room in the set of u and not yet added to it.
Owing(u) ==
    {t \in Threads :
        \/ pc[t] \in {"checkYours", "addMine"} /\ job[t].me = u
        \/ pc[t] \in {"addMine", "addYours"} /\ job[t].you = u}

\* Who accepts himself adds himself twice, and owes until the second time:
\* what the first has added is not counted as long.
Twice(u) ==
    {w \in {u} : \E t \in Threads : /\ pc[t] = "addYours"
                                    /\ job[t].me = u /\ job[t].you = u}
Held(u) == friends[u] \ Twice(u)

\* The strengthening of FriendsBounded: whoever found room will take it.
Bounded(u) ==
    Cardinality(Held(u)) + Cardinality(Owing(u))
        <= Limit + Cardinality(Threads)

AllBounded == \A u \in Users : Bounded(u)

BInv == FType /\ AllBounded

\* The same for the list of requests.
Pushing(u) == {t \in Threads : pc[t] = "push" /\ job[t].you = u}

Lists == DOMAIN reqs = Users /\ \A u \in Users : \E S : reqs[u] \in Seq(S)

Listing(u) ==
    Len(reqs[u]) + Cardinality(Pushing(u)) <= Limit + Cardinality(Threads)

RInv == FType /\ Lists /\ \A u \in Users : Listing(u)

\* An accept and a deletion of the same pair mar it.
Apart ==
    \A u, v \in Users :
        \/ {u, v} \in marred
        \/ ~Overlaps(u, v, AcceptSteps)
        \/ ~Overlaps(u, v, DeleteSteps)

\* Half way, a request has done its first half and nobody undid it.
HalfWay ==
    \A t \in Threads :
        /\ pc[t] = "addYours" /\ Pair(t) \notin marred
             => job[t].you \in friends[job[t].me]
        /\ pc[t] = "delMine" /\ Pair(t) \notin marred
             => job[t].me \notin friends[job[t].you]

\* A one-sided friendship is the work of a request that is half way.
Witnessed ==
    \A u, v \in Users :
        {u, v} \notin marred /\ v \in friends[u] /\ u \notin friends[v]
            => \E t \in Threads : /\ pc[t] \in {"addYours", "delMine"}
                                  /\ job[t].me = u /\ job[t].you = v

MInv == FType /\ Apart /\ HalfWay /\ Witnessed

----------------------------------------------------------------------------
(* The steps that matter to neither argument: they leave the friend sets   *)
(* alone, and the thread neither finds room nor is half way.               *)
Aside(t, p, j) ==
    /\ pc' = [pc EXCEPT ![t] = p]
    /\ job' = [job EXCEPT ![t] = j]
    /\ UNCHANGED <<friends, marred, clock>>
    /\ pc[t] \notin {"addYours", "delMine"}
    /\ p \notin {"checkYours", "addMine", "addYours"} \cup DeleteSteps
    /\ p \in AcceptSteps => pc[t] \in AcceptSteps /\ j = job[t]
    /\ p # "idle" => j \in Jobs

Quiet ==
    \/ UNCHANGED <<friends, pc, job, marred>> /\ clock' \in 0..MaxClock
    \/ \E t \in Threads, p \in Steps, j \in Jobs \cup {NoJob} : Aside(t, p, j)

\* A command that only reads and finds room goes on.
Passes(t, here, next) ==
    /\ pc[t] = here
    /\ pc' = [pc EXCEPT ![t] = next]
    /\ UNCHANGED <<friends, job, marred, clock>>

Loud ==
    \E t \in Threads :
        \/ \E u, v \in Users, id \in Ids : Accept(t, u, v, id)
        \/ \E u, v \in Users : Delete(t, u, v)
        \/ /\ Passes(t, "checkMine", "checkYours")
           /\ Cardinality(friends[job[t].me]) <= Limit
        \/ /\ Passes(t, "checkYours", "addMine")
           /\ Cardinality(friends[job[t].you]) <= Limit
        \/ AddMine(t) \/ AddYours(t) \/ DelYours(t) \/ DelMine(t) \/ Crash(t)

USE DEF Steps, InviteSteps, AcceptSteps, DeleteSteps, RefuseSteps

LEMMA InitType == Init => FType
  BY FriendsAssumption DEF Init, FType

LEMMA JobOf ==
    ASSUME FType, NEW t \in Threads
    PROVE  /\ pc[t] \in Steps
           /\ pc[t] # "idle" => /\ job[t] \in Jobs
                                /\ job[t].me \in Users /\ job[t].you \in Users
                                /\ job[t].id \in Ids
  BY DEF FType, Jobs

\* A check that is refused or goes on to a step of no interest.
LEMMA CheckAside ==
    ASSUME FType, NEW t \in Threads, NEW here \in Steps \ {"idle"},
           NEW refused, NEW next \in InviteSteps,
           here \notin {"addYours", "delMine"}, Check(t, here, refused, next)
    PROVE  \E p \in Steps, j \in Jobs \cup {NoJob} : Aside(t, p, j)
<1>1. CASE refused
  <2>1. Aside(t, "idle", NoJob)
    BY <1>1 DEF Check, Leave, Aside, data
  <2>. QED
    BY <2>1
<1>2. CASE ~refused
  <2>1. job[t] \in Jobs
    BY DEF Check, FType
  <2>2. job = [job EXCEPT ![t] = job[t]]
    BY DEF FType
  <2>3. Aside(t, next, job[t])
    BY <1>2, <2>1, <2>2 DEF Check, Goto, Aside, data
  <2>. QED
    BY <2>1, <2>3
<1>. QED
  BY <1>1, <1>2

\* A step that ends its request, or passes to a step of no interest with the
\* same job.
LEMMA EndsAside ==
    ASSUME FType, NEW t \in Threads, Leave(t),
           pc[t] \notin {"addYours", "delMine"},
           UNCHANGED <<friends, marred, clock>>
    PROVE  \E p \in Steps, j \in Jobs \cup {NoJob} : Aside(t, p, j)
<1>1. Aside(t, "idle", NoJob)
  BY DEF Leave, Aside
<1>. QED
  BY <1>1

LEMMA GoesAside ==
    ASSUME FType, NEW t \in Threads, NEW p \in Steps \ {"idle"}, Goto(t, p),
           pc[t] \notin {"idle", "addYours", "delMine"},
           p \notin {"checkYours", "addMine", "addYours"} \cup DeleteSteps,
           p \in AcceptSteps => pc[t] \in AcceptSteps,
           UNCHANGED <<friends, marred, clock>>
    PROVE  \E q \in Steps, j \in Jobs \cup {NoJob} : Aside(t, q, j)
<1>1. job[t] \in Jobs /\ job = [job EXCEPT ![t] = job[t]]
  BY DEF FType
<1>2. Aside(t, p, job[t])
  BY <1>1 DEF Goto, Aside
<1>. QED
  BY <1>1, <1>2

\* A request that begins with a step of no interest.
LEMMA BeginsAside ==
    ASSUME FType, NEW t \in Threads, NEW p \in {"notYours", "refuse"},
           NEW j \in Jobs, Begin(t, p, j, {})
    PROVE  \E q \in Steps, k \in Jobs \cup {NoJob} : Aside(t, q, k)
<1>1. ~Overlaps(j.me, j.you, {})
  BY DEF Overlaps
<1>2. Aside(t, p, j)
  BY <1>1 DEF Begin, Aside, data
<1>. QED
  BY <1>2

LEMMA QuietOrLoud ==
    ASSUME FType, [Next]_vars
    PROVE  Quiet \/ Loud
<1>1. CASE UNCHANGED vars
  BY <1>1 DEF vars, Quiet, FType
<1>2. CASE Tick
  BY <1>2, FriendsAssumption DEF Tick, Quiet, FType, data
<1>3. ASSUME NEW t \in Threads, NEW u \in Users, NEW v \in Users,
             Invite(t, u, v) \/ Delete(t, u, v)
      PROVE  Quiet \/ Loud
  <2>1. [me |-> u, you |-> v, id |-> [from |-> u, ts |-> clock]] \in Jobs
    BY DEF Jobs, Ids, FType
  <2>2. CASE Invite(t, u, v)
    BY <2>1, <2>2, BeginsAside DEF Invite, Quiet
  <2>3. CASE Delete(t, u, v)
    BY <2>3 DEF Loud
  <2>. QED
    BY <1>3, <2>2, <2>3
<1>4. ASSUME NEW t \in Threads, NEW u \in Users, NEW id \in Ids,
             Refuse(t, u, id)
      PROVE  Quiet
  <2>1. [me |-> u, you |-> id.from, id |-> id] \in Jobs
    BY DEF Jobs, Ids
  <2>. QED
    BY <1>4, <2>1, BeginsAside DEF Refuse, Quiet
<1>8. ASSUME NEW t \in Threads, NEW u \in Users, NEW v \in Users, NEW id \in Ids,
             Accept(t, u, v, id)
      PROVE  Loud
  BY <1>8 DEF Loud
<1>5. ASSUME NEW t \in Threads, InviteStep(t)
      PROVE  Quiet
  <2>1. CASE NotYours(t)
    BY <2>1, CheckAside DEF NotYours, Quiet
  <2>2. CASE NotMine(t)
    BY <2>2, CheckAside DEF NotMine, Quiet
  <2>3. CASE MineFull(t)
    BY <2>3, CheckAside DEF MineFull, Quiet
  <2>4. CASE YoursFull(t)
    BY <2>4, CheckAside DEF YoursFull, Quiet
  <2>5. CASE Asked(t)
    <3>1. CASE AlreadyAsked(job[t].me, job[t].you)
      BY <2>5, <3>1, EndsAside DEF Asked, Quiet, data
    <3>2. CASE ~AlreadyAsked(job[t].me, job[t].you)
      <4>. DEFINE k == [job[t] EXCEPT !.id = [from |-> job[t].me, ts |-> clock]]
      <4>1. job[t] \in Jobs
        BY <2>5 DEF Asked, FType
      <4>2. k \in Jobs
        BY <4>1 DEF Jobs, Ids, FType
      <4>3. job' = [job EXCEPT ![t] = k]
        BY <2>5, <3>2 DEF Asked
      <4>4. Aside(t, "room", k)
        BY <2>5, <3>2, <4>2, <4>3 DEF Asked, Aside, data
      <4>. QED
        BY <4>2, <4>4 DEF Quiet
    <3>. QED
      BY <3>1, <3>2
  <2>6. CASE Room(t)
    BY <2>6, CheckAside DEF Room, Quiet
  <2>7. CASE Push(t)
    BY <2>7, GoesAside DEF Push, Quiet
  <2>8. CASE Hash(t)
    BY <2>8, EndsAside DEF Hash, Quiet
  <2>. QED
    BY <1>5, <2>1, <2>2, <2>3, <2>4, <2>5, <2>6, <2>7, <2>8 DEF InviteStep
<1>6. ASSUME NEW t \in Threads, AcceptStep(t)
      PROVE  Quiet \/ Loud
  <2>1. CASE CheckMine(t)
    <3>. DEFINE n == Cardinality(friends[job[t].me])
    <3>1. CASE Full(n)
      BY <2>1, <3>1, EndsAside DEF CheckMine, Check, Quiet, data
    <3>2. CASE ~Full(n)
      <4>1. n \in Nat
        BY <2>1, JobOf, FriendsAssumption, FS_Subset, FS_CardinalityType
           DEF FType, CheckMine, Check
      <4>2. n <= Limit
        BY <3>2, <4>1, FriendsAssumption DEF Full
      <4>. QED
        BY <2>1, <3>2, <4>2
           DEF CheckMine, Check, Goto, Loud, Passes, data
    <3>. QED
      BY <3>1, <3>2
  <2>2. CASE CheckYours(t)
    <3>. DEFINE n == Cardinality(friends[job[t].you])
    <3>1. CASE Full(n)
      BY <2>2, <3>1, EndsAside DEF CheckYours, Check, Quiet, data
    <3>2. CASE ~Full(n)
      <4>1. n \in Nat
        BY <2>2, JobOf, FriendsAssumption, FS_Subset, FS_CardinalityType
           DEF FType, CheckYours, Check
      <4>2. n <= Limit
        BY <3>2, <4>1, FriendsAssumption DEF Full
      <4>. QED
        BY <2>2, <3>2, <4>2
           DEF CheckYours, Check, Goto, Loud, Passes, data
    <3>. QED
      BY <3>1, <3>2
  <2>3. CASE AddMine(t) \/ AddYours(t)
    BY <2>3 DEF Loud
  <2>4. CASE Drop(t)
    BY <2>4, GoesAside DEF Drop, Quiet
  <2>5. CASE Unlist(t)
    BY <2>5, EndsAside DEF Unlist, Quiet
  <2>. QED
    BY <1>6, <2>1, <2>2, <2>3, <2>4, <2>5 DEF AcceptStep
<1>7. ASSUME NEW t \in Threads, OtherStep(t)
      PROVE  Quiet \/ Loud
  <2>1. CASE RefuseUnlist(t)
    BY <2>1, GoesAside DEF RefuseUnlist, Quiet
  <2>2. CASE Forget(t)
    BY <2>2, EndsAside DEF Forget, Quiet
  <2>3. CASE DelYours(t) \/ DelMine(t) \/ Crash(t)
    BY <2>3 DEF Loud
  <2>. QED
    BY <1>7, <2>1, <2>2, <2>3 DEF OtherStep
<1>. QED
  BY <1>1, <1>2, <1>3, <1>4, <1>5, <1>6, <1>7, <1>8 DEF Next

LEMMA TypeStep ==
    ASSUME FType, [Next]_vars
    PROVE  FType'
<1>1. CASE UNCHANGED <<friends, pc, job, marred>> /\ clock' \in 0..MaxClock
  BY <1>1 DEF FType
<1>2. ASSUME NEW t \in Threads, NEW p \in Steps, NEW j \in Jobs \cup {NoJob},
             Aside(t, p, j)
      PROVE  FType'
  BY <1>2 DEF FType, Aside
<1>3. ASSUME NEW t \in Threads, NEW u \in Users, NEW v \in Users, NEW id \in Ids,
             Accept(t, u, v, id)
      PROVE  FType'
  <2>. DEFINE j == [me |-> u, you |-> v, id |-> id]
  <2>1. j \in Jobs
    BY <1>3 DEF Jobs, Ids, Accept
  <2>2. /\ pc' = [pc EXCEPT ![t] = "checkMine"]
        /\ job' = [job EXCEPT ![t] = j]
        /\ UNCHANGED <<friends, clock>>
    BY <1>3 DEF Accept, Begin, data
  <2>. HIDE DEF j
  <2>. QED
    BY <2>1, <2>2 DEF FType
<1>4. ASSUME NEW t \in Threads, NEW u \in Users, NEW v \in Users, Delete(t, u, v)
      PROVE  FType'
  <2>. DEFINE j == [me |-> u, you |-> v, id |-> [from |-> u, ts |-> clock]]
  <2>1. j \in Jobs
    BY <1>4 DEF Jobs, Ids, Delete, FType
  <2>2. /\ pc' = [pc EXCEPT ![t] = "delYours"]
        /\ job' = [job EXCEPT ![t] = j]
        /\ UNCHANGED <<friends, clock>>
    BY <1>4 DEF Delete, Begin, data
  <2>. HIDE DEF j
  <2>. QED
    BY <2>1, <2>2 DEF FType
<1>5. ASSUME NEW t \in Threads,
             \/ Passes(t, "checkMine", "checkYours")
             \/ Passes(t, "checkYours", "addMine")
      PROVE  FType'
  BY <1>5 DEF FType, Passes
<1>6. ASSUME NEW t \in Threads, AddMine(t) \/ AddYours(t)
      PROVE  FType'
  BY <1>6, JobOf DEF FType, AddMine, AddYours, AddedTo, Goto
<1>7. ASSUME NEW t \in Threads, DelYours(t)
      PROVE  FType'
  BY <1>7, JobOf DEF FType, DelYours, Goto
<1>8. ASSUME NEW t \in Threads, DelMine(t)
      PROVE  FType'
  BY <1>8, JobOf DEF FType, DelMine, Leave
<1>9. ASSUME NEW t \in Threads, Crash(t)
      PROVE  FType'
  BY <1>9 DEF FType, Crash, Leave, data
<1>. QED
  BY QuietOrLoud, <1>1, <1>2, <1>3, <1>4, <1>5, <1>6, <1>7, <1>8, <1>9
     DEF Quiet, Loud

----------------------------------------------------------------------------
(* How far the limit can be passed. *)

LEMMA Counts ==
    ASSUME FType, NEW u \in Users
    PROVE  /\ IsFiniteSet(friends[u]) /\ Cardinality(friends[u]) \in Nat
           /\ IsFiniteSet(Held(u)) /\ Cardinality(Held(u)) \in Nat
           /\ Cardinality(Held(u)) <= Cardinality(friends[u])
           /\ IsFiniteSet(Owing(u)) /\ Cardinality(Owing(u)) \in Nat
           /\ Cardinality(Owing(u)) <= Cardinality(Threads)
           /\ Cardinality(Threads) \in Nat
<1>1. friends[u] \in SUBSET Users
  BY DEF FType
<1>2. Owing(u) \in SUBSET Threads
  BY DEF Owing
<1>3. IsFiniteSet(friends[u])
  BY <1>1, FriendsAssumption, FS_Subset
<1>4. IsFiniteSet(Owing(u)) /\ Cardinality(Owing(u)) <= Cardinality(Threads)
  BY <1>2, FriendsAssumption, FS_Subset
<1>5. IsFiniteSet(Held(u)) /\ Cardinality(Held(u)) <= Cardinality(friends[u])
  <2>1. Held(u) \in SUBSET friends[u]
    BY DEF Held
  <2>. QED
    BY <1>3, <2>1, FS_Subset
<1>. QED
  BY <1>3, <1>4, <1>5, FriendsAssumption, FS_CardinalityType

\* Nothing is added and no further thread finds room.
LEMMA BoundedShrinks ==
    ASSUME FType, FType', NEW u \in Users, Bounded(u),
           Held(u)' \subseteq Held(u), Owing(u)' \subseteq Owing(u)
    PROVE  Bounded(u)'
<1>1. /\ Cardinality(Held(u)') <= Cardinality(Held(u))
      /\ Cardinality(Held(u)') \in Nat
  BY Counts, FS_Subset, FS_CardinalityType
<1>2. /\ Cardinality(Owing(u)') <= Cardinality(Owing(u))
      /\ Cardinality(Owing(u)') \in Nat
  BY Counts, FS_Subset, FS_CardinalityType
<1>3. Cardinality(Held(u)) + Cardinality(Owing(u))
        <= Limit + Cardinality(Threads)
  BY DEF Bounded
<1>4. Cardinality(Held(u)') + Cardinality(Owing(u)')
        <= Limit + Cardinality(Threads)
  BY <1>1, <1>2, <1>3, Counts, FriendsAssumption
<1>. QED
  BY <1>4 DEF Bounded

\* A thread finds room: then the others owe one each at most.
LEMMA BoundedFound ==
    ASSUME FType, FType', NEW u \in Users, friends' = friends,
           Cardinality(friends[u]) <= Limit
    PROVE  Bounded(u)'
<1>1. Owing(u)' \in SUBSET Threads
  BY DEF Owing
<1>2. /\ Cardinality(Owing(u)') <= Cardinality(Threads)
      /\ Cardinality(Owing(u)') \in Nat
  BY <1>1, FriendsAssumption, FS_Subset, FS_CardinalityType
<1>3. Held(u)' \in SUBSET friends[u]
  BY DEF Held
<1>4. /\ Cardinality(Held(u)') <= Limit
      /\ Cardinality(Held(u)') \in Nat
  <2>1. IsFiniteSet(Held(u)') /\ Cardinality(Held(u)') <= Cardinality(friends[u])
    BY <1>3, Counts, FS_Subset
  <2>2. Cardinality(Held(u)') \in Nat
    BY <2>1, FS_CardinalityType
  <2>. QED
    BY <2>1, <2>2, Counts, FriendsAssumption
<1>5. Cardinality(Held(u)') + Cardinality(Owing(u)')
        <= Limit + Cardinality(Threads)
  BY <1>2, <1>4, Counts, FriendsAssumption
<1>. QED
  BY <1>5 DEF Bounded

\* A thread adds what it owes.
LEMMA BoundedAdds ==
    ASSUME FType, FType', NEW u \in Users, Bounded(u), NEW v \in Users,
           NEW t \in Owing(u),
           Held(u)' \subseteq Held(u) \cup {v}, Owing(u)' \subseteq Owing(u) \ {t}
    PROVE  Bounded(u)'
<1>1. /\ Cardinality(Held(u)') <= Cardinality(Held(u)) + 1
      /\ Cardinality(Held(u)') \in Nat
  <2>1. IsFiniteSet(Held(u)) /\ Cardinality(Held(u)) \in Nat
    BY Counts
  <2>2. /\ IsFiniteSet(Held(u) \cup {v})
        /\ Cardinality(Held(u) \cup {v})
             = IF v \in Held(u) THEN Cardinality(Held(u))
                                ELSE Cardinality(Held(u)) + 1
    BY <2>1, FS_AddElement
  <2>3. IsFiniteSet(Held(u)') /\ Cardinality(Held(u)') <= Cardinality(Held(u) \cup {v})
    BY <2>2, FS_Subset
  <2>4. Cardinality(Held(u)') \in Nat
    BY <2>3, FS_CardinalityType
  <2>. QED
    BY <2>1, <2>2, <2>3, <2>4
<1>2. /\ Cardinality(Owing(u) \ {t}) = Cardinality(Owing(u)) - 1
      /\ IsFiniteSet(Owing(u) \ {t})
  BY Counts, FS_RemoveElement
<1>3. /\ Cardinality(Owing(u)') <= Cardinality(Owing(u)) - 1
      /\ Cardinality(Owing(u)') \in Nat
  BY <1>2, FS_Subset, FS_CardinalityType
<1>4. Cardinality(Held(u)) + Cardinality(Owing(u))
        <= Limit + Cardinality(Threads)
  BY DEF Bounded
<1>5. Cardinality(Held(u)') + Cardinality(Owing(u)')
        <= Limit + Cardinality(Threads)
  BY <1>1, <1>3, <1>4, Counts, FriendsAssumption
<1>. QED
  BY <1>5 DEF Bounded

LEMMA BoundedStep ==
    ASSUME BInv, [Next]_vars, NEW u \in Users
    PROVE  Bounded(u)'
<1>0. FType /\ FType' /\ Bounded(u)
  BY TypeStep DEF BInv, AllBounded
\* The sets do not grow, and nobody finds room or comes to his second half.
<1>1. ASSUME friends'[u] \subseteq friends[u],
             Owing(u)' \subseteq Owing(u), Twice(u) \subseteq Twice(u)'
      PROVE  Bounded(u)'
  <2>1. Held(u)' \subseteq Held(u)
    BY <1>1 DEF Held
  <2>. QED
    BY <1>0, <1>1, <2>1, BoundedShrinks
<1>2. CASE UNCHANGED <<friends, pc, job, marred>> /\ clock' \in 0..MaxClock
  BY <1>1, <1>2 DEF Owing, Twice
<1>3. ASSUME NEW t \in Threads, NEW p \in Steps, NEW j \in Jobs \cup {NoJob},
             Aside(t, p, j)
      PROVE  Bounded(u)'
  <2>1. Owing(u)' \subseteq Owing(u)
    BY <1>0, <1>3 DEF Owing, Aside, FType
  <2>2. Twice(u) \subseteq Twice(u)'
    BY <1>0, <1>3 DEF Twice, Aside, FType
  <2>. QED
    BY <1>1, <1>3, <2>1, <2>2 DEF Aside
<1>4. ASSUME NEW t \in Threads, NEW p \in {"checkMine", "delYours"}, NEW j,
             NEW other, Begin(t, p, j, other)
      PROVE  Bounded(u)'
  <2>1. Owing(u)' \subseteq Owing(u)
    BY <1>0, <1>4 DEF Owing, Begin, FType
  <2>2. Twice(u) \subseteq Twice(u)'
    BY <1>0, <1>4 DEF Twice, Begin, FType
  <2>. QED
    BY <1>1, <1>4, <2>1, <2>2 DEF Begin, data
<1>5. ASSUME NEW t \in Threads, Passes(t, "checkMine", "checkYours"),
             Cardinality(friends[job[t].me]) <= Limit
      PROVE  Bounded(u)'
  <2>1. CASE job[t].me = u
    BY <1>0, <1>5, <2>1, BoundedFound DEF Passes
  <2>2. CASE job[t].me # u
    <3>1. Owing(u)' \subseteq Owing(u)
      BY <1>0, <1>5, <2>2 DEF Owing, Passes, FType
    <3>2. Twice(u) \subseteq Twice(u)'
      BY <1>0, <1>5 DEF Twice, Passes, FType
    <3>. QED
      BY <1>1, <1>5, <3>1, <3>2 DEF Passes
  <2>. QED
    BY <2>1, <2>2
<1>6. ASSUME NEW t \in Threads, Passes(t, "checkYours", "addMine"),
             Cardinality(friends[job[t].you]) <= Limit
      PROVE  Bounded(u)'
  <2>1. CASE job[t].you = u
    BY <1>0, <1>6, <2>1, BoundedFound DEF Passes
  <2>2. CASE job[t].you # u
    <3>1. Owing(u)' \subseteq Owing(u)
      BY <1>0, <1>6, <2>2 DEF Owing, Passes, FType
    <3>2. Twice(u) \subseteq Twice(u)'
      BY <1>0, <1>6 DEF Twice, Passes, FType
    <3>. QED
      BY <1>1, <1>6, <3>1, <3>2 DEF Passes
  <2>. QED
    BY <2>1, <2>2
<1>7. ASSUME NEW t \in Threads, AddMine(t)
      PROVE  Bounded(u)'
  <2>0. /\ job[t].me \in Users /\ job[t].you \in Users /\ job' = job
        /\ pc[t] = "addMine" /\ pc' = [pc EXCEPT ![t] = "addYours"]
        /\ friends' = [friends EXCEPT ![job[t].me] = @ \cup {job[t].you}]
    BY <1>0, <1>7, JobOf DEF AddMine, Goto
  <2>1. CASE job[t].me = u /\ job[t].you # u
    <3>1. t \in Owing(u) /\ Owing(u)' \subseteq Owing(u) \ {t}
      BY <1>0, <2>0, <2>1 DEF Owing, FType
    <3>2. friends'[u] = friends[u] \cup {job[t].you}
      BY <1>0, <2>0, <2>1 DEF FType
    <3>3. Twice(u) \subseteq Twice(u)'
      BY <1>0, <2>0 DEF Twice, FType
    <3>4. Held(u)' \subseteq Held(u) \cup {job[t].you}
      BY <3>2, <3>3 DEF Held
    <3>. QED
      BY <1>0, <2>0, <3>1, <3>4, BoundedAdds
  <2>2. CASE job[t].me = u /\ job[t].you = u
    <3>1. Owing(u)' \subseteq Owing(u)
      BY <1>0, <2>0, <2>2 DEF Owing, FType
    <3>2. friends'[u] = friends[u] \cup {u}
      BY <1>0, <2>0, <2>2 DEF FType
    <3>3. u \in Twice(u)'
      BY <1>0, <2>0, <2>2 DEF Twice, FType
    <3>4. Twice(u) \subseteq {u}
      BY DEF Twice
    <3>5. Held(u)' \subseteq Held(u)
      BY <3>2, <3>3, <3>4 DEF Held
    <3>. QED
      BY <1>0, <3>1, <3>5, BoundedShrinks
  <2>3. CASE job[t].me # u
    <3>1. Owing(u)' \subseteq Owing(u)
      BY <1>0, <2>0, <2>3 DEF Owing, FType
    <3>2. friends'[u] = friends[u]
      BY <1>0, <2>0, <2>3 DEF FType
    <3>3. Twice(u) \subseteq Twice(u)'
      BY <1>0, <2>0 DEF Twice, FType
    <3>. QED
      BY <1>1, <3>1, <3>2, <3>3
  <2>. QED
    BY <2>1, <2>2, <2>3
<1>8. ASSUME NEW t \in Threads, AddYours(t)
      PROVE  Bounded(u)'
  <2>0. /\ job[t].me \in Users /\ job[t].you \in Users /\ job' = job
        /\ pc[t] = "addYours" /\ pc' = [pc EXCEPT ![t] = "drop"]
        /\ friends' = [friends EXCEPT ![job[t].you] = @ \cup {job[t].me}]
    BY <1>0, <1>8, JobOf DEF AddYours, AddedTo, Goto
  <2>1. CASE job[t].you = u
    <3>1. t \in Owing(u) /\ Owing(u)' \subseteq Owing(u) \ {t}
      BY <1>0, <2>0, <2>1 DEF Owing, FType
    <3>2. friends'[u] = friends[u] \cup {job[t].me}
      BY <1>0, <2>0, <2>1 DEF FType
    <3>3. CASE job[t].me = u
      <4>1. Twice(u) \subseteq {u}
        BY DEF Twice
      <4>2. Held(u)' \subseteq Held(u) \cup {job[t].me}
        BY <3>2, <3>3, <4>1 DEF Held
      <4>. QED
        BY <1>0, <2>0, <3>1, <4>2, BoundedAdds
    <3>4. CASE job[t].me # u
      <4>1. Twice(u) \subseteq Twice(u)'
        BY <1>0, <2>0, <3>4 DEF Twice, FType
      <4>2. Held(u)' \subseteq Held(u) \cup {job[t].me}
        BY <3>2, <4>1 DEF Held
      <4>. QED
        BY <1>0, <2>0, <3>1, <4>2, BoundedAdds
    <3>. QED
      BY <3>3, <3>4
  <2>2. CASE job[t].you # u
    <3>1. Owing(u)' \subseteq Owing(u)
      BY <1>0, <2>0, <2>2 DEF Owing, FType
    <3>2. friends'[u] = friends[u]
      BY <1>0, <2>0, <2>2 DEF FType
    <3>3. Twice(u) \subseteq Twice(u)'
      BY <1>0, <2>0, <2>2 DEF Twice, FType
    <3>. QED
      BY <1>1, <3>1, <3>2, <3>3
  <2>. QED
    BY <2>1, <2>2
<1>9. ASSUME NEW t \in Threads, DelYours(t) \/ DelMine(t)
      PROVE  Bounded(u)'
  <2>1. Owing(u)' \subseteq Owing(u)
    BY <1>0, <1>9 DEF Owing, DelYours, DelMine, Leave, Goto, FType
  <2>2. friends'[u] \subseteq friends[u]
    BY <1>0, <1>9, JobOf DEF DelYours, DelMine, FType
  <2>3. Twice(u) \subseteq Twice(u)'
    BY <1>0, <1>9 DEF Twice, DelYours, DelMine, Leave, Goto, FType
  <2>. QED
    BY <1>1, <2>1, <2>2, <2>3
\* Who dies before his second half leaves what the first has added.
<1>10. ASSUME NEW t \in Threads, Crash(t)
       PROVE  Bounded(u)'
  <2>0. friends' = friends /\ Leave(t) /\ pc[t] # "idle"
    BY <1>10 DEF Crash, data
  <2>1. Owing(u)' \subseteq Owing(u) \ {t}
    BY <1>0, <2>0 DEF Owing, Leave, FType
  <2>2. CASE pc[t] = "addYours" /\ job[t].me = u /\ job[t].you = u
    <3>1. t \in Owing(u)
      BY <2>2 DEF Owing
    <3>2. Twice(u) \subseteq {u}
      BY DEF Twice
    <3>3. Held(u)' \subseteq Held(u) \cup {u}
      BY <2>0, <3>2 DEF Held
    <3>. QED
      BY <1>0, <2>1, <3>1, <3>3, BoundedAdds
  <2>3. CASE ~(pc[t] = "addYours" /\ job[t].me = u /\ job[t].you = u)
    <3>1. Twice(u) \subseteq Twice(u)'
      BY <1>0, <2>0, <2>3 DEF Twice, Leave, FType
    <3>. QED
      BY <1>1, <2>0, <2>1, <3>1
  <2>. QED
    BY <2>2, <2>3
<1>. QED
  BY <1>0, QuietOrLoud, <1>2, <1>3, <1>4, <1>5, <1>6, <1>7, <1>8, <1>9, <1>10
     DEF Quiet, Loud, Accept, Delete

LEMMA BoundedInit == Init => AllBounded
<1>. SUFFICES ASSUME Init, NEW u \in Users PROVE Bounded(u)
  BY DEF AllBounded
<1>1. FType
  BY InitType
<1>2. Owing(u) = {} /\ Held(u) = {}
  BY DEF Init, Owing, Held
<1>. QED
  BY <1>1, <1>2, FS_EmptySet, Counts, FriendsAssumption DEF Bounded

(***************************************************************************)
(* However many handlers check the limit of a friend set at the same time, *)
(* the set never holds more than Limit elements and one for each thread.   *)
(***************************************************************************)
THEOREM FriendLimit == Spec => []FriendsBounded
<1>1. Init => BInv
  BY InitType, BoundedInit DEF BInv
<1>2. BInv /\ [Next]_vars => BInv'
  <2>. SUFFICES ASSUME BInv, [Next]_vars PROVE BInv'
    OBVIOUS
  <2>1. \A u \in Users : Bounded(u)'
    BY BoundedStep
  <2>2. FType'
    BY TypeStep DEF BInv
  <2>. QED
    BY <2>1, <2>2 DEF BInv, AllBounded
<1>3. BInv => FriendsBounded
  <2>. SUFFICES ASSUME BInv, NEW u \in Users
                PROVE  Cardinality(friends[u]) <= Limit + Cardinality(Threads)
    BY DEF FriendsBounded
  <2>1. Cardinality(Held(u)) + Cardinality(Owing(u))
          <= Limit + Cardinality(Threads)
    BY DEF BInv, AllBounded, Bounded
  <2>2. CASE Twice(u) = {}
    <3>1. Held(u) = friends[u]
      BY <2>2 DEF Held
    <3>. QED
      BY <2>1, <3>1, Counts, FriendsAssumption DEF BInv
  <2>3. CASE Twice(u) # {}
    <3>1. PICK t \in Threads : /\ pc[t] = "addYours"
                               /\ job[t].me = u /\ job[t].you = u
      BY <2>3 DEF Twice
    <3>2. /\ IsFiniteSet(Owing(u)) /\ Cardinality(Owing(u)) \in Nat
          /\ IsFiniteSet(Held(u)) /\ Cardinality(Held(u)) \in Nat
          /\ Cardinality(friends[u]) \in Nat /\ Cardinality(Threads) \in Nat
      BY Counts DEF BInv
    <3>3. Owing(u) # {}
      BY <3>1 DEF Owing
    <3>4. Cardinality(Owing(u)) >= 1
      BY <3>2, <3>3, FS_EmptySet
    <3>5. friends[u] \subseteq Held(u) \cup {u}
      BY DEF Held, Twice
    <3>6. /\ IsFiniteSet(Held(u) \cup {u})
          /\ Cardinality(Held(u) \cup {u}) <= Cardinality(Held(u)) + 1
          /\ Cardinality(Held(u) \cup {u}) \in Nat
      <4>1. /\ IsFiniteSet(Held(u) \cup {u})
            /\ Cardinality(Held(u) \cup {u})
                 = IF u \in Held(u) THEN Cardinality(Held(u))
                                    ELSE Cardinality(Held(u)) + 1
        BY <3>2, FS_AddElement
      <4>. QED
        BY <3>2, <4>1
    <3>7. Cardinality(friends[u]) <= Cardinality(Held(u) \cup {u})
      BY <3>5, <3>6, FS_Subset
    <3>. QED
      BY <2>1, <3>2, <3>4, <3>6, <3>7, FriendsAssumption
  <2>. QED
    BY <2>2, <2>3
<1>. QED
  BY <1>1, <1>2, <1>3, PTL DEF Spec

----------------------------------------------------------------------------
(* When friendship is mutual. *)

\* A pair that a step leaves without new requests stays apart.
LEMMA ApartKeeps ==
    ASSUME NEW u \in Users, NEW v \in Users, Apart,
           marred \subseteq marred',
           Overlaps(u, v, AcceptSteps)' => Overlaps(u, v, AcceptSteps),
           Overlaps(u, v, DeleteSteps)' => Overlaps(u, v, DeleteSteps)
    PROVE  \/ {u, v} \in marred'
           \/ ~Overlaps(u, v, AcceptSteps)'
           \/ ~Overlaps(u, v, DeleteSteps)'
  BY DEF Apart

LEMMA MarredGrows ==
    ASSUME FType, [Next]_vars
    PROVE  marred \subseteq marred'
<1>1. CASE Quiet
  BY <1>1 DEF Quiet, Aside
<1>2. ASSUME NEW t \in Threads, NEW u \in Users, NEW v \in Users, NEW id \in Ids,
             Accept(t, u, v, id)
      PROVE  marred \subseteq marred'
  BY <1>2 DEF Accept, Begin
<1>3. ASSUME NEW t \in Threads, NEW u \in Users, NEW v \in Users, Delete(t, u, v)
      PROVE  marred \subseteq marred'
  BY <1>3 DEF Delete, Begin
<1>4. ASSUME NEW t \in Threads,
             \/ Passes(t, "checkMine", "checkYours")
             \/ Passes(t, "checkYours", "addMine")
             \/ AddMine(t) \/ AddYours(t) \/ DelYours(t) \/ DelMine(t)
      PROVE  marred \subseteq marred'
  BY <1>4 DEF Passes, AddMine, AddYours, DelYours, DelMine
<1>5. ASSUME NEW t \in Threads, Crash(t)
      PROVE  marred \subseteq marred'
  BY <1>5 DEF Crash
<1>. QED
  BY QuietOrLoud, <1>1, <1>2, <1>3, <1>4, <1>5 DEF Loud

LEMMA ApartStep ==
    ASSUME FType, Apart, [Next]_vars
    PROVE  Apart'
<1>. SUFFICES ASSUME NEW u \in Users, NEW v \in Users
              PROVE  \/ {u, v} \in marred'
                     \/ ~Overlaps(u, v, AcceptSteps)'
                     \/ ~Overlaps(u, v, DeleteSteps)'
  BY DEF Apart
<1>0. marred \subseteq marred'
  BY MarredGrows
<1>1. CASE UNCHANGED <<friends, pc, job, marred>> /\ clock' \in 0..MaxClock
  BY <1>0, <1>1, ApartKeeps DEF Overlaps, Pair
<1>2. ASSUME NEW t \in Threads, NEW p \in Steps, NEW j \in Jobs \cup {NoJob},
             Aside(t, p, j)
      PROVE  \/ {u, v} \in marred'
             \/ ~Overlaps(u, v, AcceptSteps)'
             \/ ~Overlaps(u, v, DeleteSteps)'
  <2>1. Overlaps(u, v, AcceptSteps)' => Overlaps(u, v, AcceptSteps)
    BY <1>2 DEF Overlaps, Pair, Aside, FType
  <2>2. Overlaps(u, v, DeleteSteps)' => Overlaps(u, v, DeleteSteps)
    BY <1>2 DEF Overlaps, Pair, Aside, FType
  <2>. QED
    BY <1>0, <2>1, <2>2, ApartKeeps
<1>3. ASSUME NEW t \in Threads, NEW w \in Users, NEW x \in Users, NEW id \in Ids,
             Accept(t, w, x, id)
      PROVE  \/ {u, v} \in marred'
             \/ ~Overlaps(u, v, AcceptSteps)'
             \/ ~Overlaps(u, v, DeleteSteps)'
  <2>. DEFINE j == [me |-> w, you |-> x, id |-> id]
  <2>1. /\ pc' = [pc EXCEPT ![t] = "checkMine"]
        /\ job' = [job EXCEPT ![t] = j]
        /\ Overlaps(j.me, j.you, DeleteSteps) => {j.me, j.you} \in marred'
    BY <1>3 DEF Accept, Begin
  <2>. HIDE DEF j
  <2>2. Overlaps(u, v, DeleteSteps)' => Overlaps(u, v, DeleteSteps)
    BY <2>1 DEF Overlaps, Pair, FType
  <2>3. CASE {j.me, j.you} = {u, v}
    <3>1. Overlaps(u, v, DeleteSteps) => {u, v} \in marred'
      BY <2>1, <2>3 DEF Overlaps
    <3>. QED
      BY <2>2, <3>1
  <2>4. CASE {j.me, j.you} # {u, v}
    <3>1. Overlaps(u, v, AcceptSteps)' => Overlaps(u, v, AcceptSteps)
      BY <2>1, <2>4 DEF Overlaps, Pair, FType
    <3>. QED
      BY <1>0, <2>2, <3>1, ApartKeeps
  <2>. QED
    BY <2>3, <2>4
<1>4. ASSUME NEW t \in Threads, NEW w \in Users, NEW x \in Users, Delete(t, w, x)
      PROVE  \/ {u, v} \in marred'
             \/ ~Overlaps(u, v, AcceptSteps)'
             \/ ~Overlaps(u, v, DeleteSteps)'
  <2>. DEFINE j == [me |-> w, you |-> x, id |-> [from |-> w, ts |-> clock]]
  <2>1. /\ pc' = [pc EXCEPT ![t] = "delYours"]
        /\ job' = [job EXCEPT ![t] = j]
        /\ Overlaps(j.me, j.you, AcceptSteps) => {j.me, j.you} \in marred'
    BY <1>4 DEF Delete, Begin
  <2>. HIDE DEF j
  <2>2. Overlaps(u, v, AcceptSteps)' => Overlaps(u, v, AcceptSteps)
    BY <2>1 DEF Overlaps, Pair, FType
  <2>3. CASE {j.me, j.you} = {u, v}
    <3>1. Overlaps(u, v, AcceptSteps) => {u, v} \in marred'
      BY <2>1, <2>3 DEF Overlaps
    <3>. QED
      BY <2>2, <3>1
  <2>4. CASE {j.me, j.you} # {u, v}
    <3>1. Overlaps(u, v, DeleteSteps)' => Overlaps(u, v, DeleteSteps)
      BY <2>1, <2>4 DEF Overlaps, Pair, FType
    <3>. QED
      BY <1>0, <2>2, <3>1, ApartKeeps
  <2>. QED
    BY <2>3, <2>4
<1>5. ASSUME NEW t \in Threads,
             \/ Passes(t, "checkMine", "checkYours")
             \/ Passes(t, "checkYours", "addMine")
             \/ AddMine(t) \/ AddYours(t) \/ DelYours(t)
             \/ DelMine(t) \/ Crash(t)
      PROVE  \/ {u, v} \in marred'
             \/ ~Overlaps(u, v, AcceptSteps)'
             \/ ~Overlaps(u, v, DeleteSteps)'
  <2>1. \/ /\ job' = job
           /\ \E p \in Steps : /\ pc' = [pc EXCEPT ![t] = p]
                               /\ p \in AcceptSteps => pc[t] \in AcceptSteps
                               /\ p \in DeleteSteps => pc[t] \in DeleteSteps
        \/ Leave(t)
    <3>1. CASE Passes(t, "checkMine", "checkYours")
      BY <3>1 DEF Passes
    <3>2. CASE Passes(t, "checkYours", "addMine")
      BY <3>2 DEF Passes
    <3>3. CASE AddMine(t)
      BY <3>3 DEF AddMine, Goto
    <3>4. CASE AddYours(t)
      BY <3>4 DEF AddYours, Goto
    <3>5. CASE DelYours(t)
      BY <3>5 DEF DelYours, Goto
    <3>6. CASE DelMine(t) \/ Crash(t)
      BY <3>6 DEF DelMine, Crash
    <3>. QED
      BY <1>5, <3>1, <3>2, <3>3, <3>4, <3>5, <3>6
  <2>2. CASE Leave(t)
    <3>1. Overlaps(u, v, AcceptSteps)' => Overlaps(u, v, AcceptSteps)
      BY <2>2 DEF Overlaps, Pair, FType, Leave
    <3>2. Overlaps(u, v, DeleteSteps)' => Overlaps(u, v, DeleteSteps)
      BY <2>2 DEF Overlaps, Pair, FType, Leave
    <3>. QED
      BY <1>0, <3>1, <3>2, ApartKeeps
  <2>3. ASSUME NEW p \in Steps, job' = job, pc' = [pc EXCEPT ![t] = p],
               p \in AcceptSteps => pc[t] \in AcceptSteps,
               p \in DeleteSteps => pc[t] \in DeleteSteps
        PROVE  \/ {u, v} \in marred'
               \/ ~Overlaps(u, v, AcceptSteps)'
               \/ ~Overlaps(u, v, DeleteSteps)'
    <3>0. \A s \in Threads : /\ pc'[s] \in AcceptSteps => pc[s] \in AcceptSteps
                             /\ pc'[s] \in DeleteSteps => pc[s] \in DeleteSteps
      BY <2>3 DEF FType
    <3>1. Overlaps(u, v, AcceptSteps)' => Overlaps(u, v, AcceptSteps)
      BY <2>3, <3>0 DEF Overlaps, Pair
    <3>2. Overlaps(u, v, DeleteSteps)' => Overlaps(u, v, DeleteSteps)
      BY <2>3, <3>0 DEF Overlaps, Pair
    <3>. QED
      BY <1>0, <3>1, <3>2, ApartKeeps
  <2>4. CASE ~Leave(t)
    <3>1. PICK p \in Steps : /\ pc' = [pc EXCEPT ![t] = p]
                             /\ p \in AcceptSteps => pc[t] \in AcceptSteps
                             /\ p \in DeleteSteps => pc[t] \in DeleteSteps
      BY <2>1, <2>4
    <3>2. job' = job
      BY <2>1, <2>4
    <3>. QED
      BY <2>3, <3>1, <3>2
  <2>. QED
    BY <2>2, <2>4
<1>. QED
  BY QuietOrLoud, <1>1, <1>2, <1>3, <1>4, <1>5 DEF Quiet, Loud

\* What has been done half way is not undone, as the pair is apart.
LEMMA HalfWayStep ==
    ASSUME FType, FType', Apart, HalfWay, [Next]_vars
    PROVE  HalfWay'
<1>. DEFINE Half(s) ==
       /\ pc[s] = "addYours" /\ Pair(s) \notin marred
            => job[s].you \in friends[job[s].me]
       /\ pc[s] = "delMine" /\ Pair(s) \notin marred
            => job[s].me \notin friends[job[s].you]
<1>. SUFFICES ASSUME NEW s \in Threads PROVE Half(s)'
  BY DEF HalfWay
<1>0. marred \subseteq marred' /\ Half(s)
  BY MarredGrows DEF HalfWay
<1>1. CASE UNCHANGED <<friends, pc, job, marred>> /\ clock' \in 0..MaxClock
  BY <1>0, <1>1 DEF Pair
<1>2. ASSUME NEW t \in Threads, NEW p \in Steps, NEW j \in Jobs \cup {NoJob},
             Aside(t, p, j)
      PROVE  Half(s)'
  BY <1>0, <1>2 DEF Pair, Aside, FType
<1>3. ASSUME NEW t \in Threads, NEW w \in Users, NEW x \in Users, NEW id \in Ids,
             Accept(t, w, x, id)
      PROVE  Half(s)'
  BY <1>0, <1>3 DEF Pair, Accept, Begin, FType, data
<1>4. ASSUME NEW t \in Threads, NEW w \in Users, NEW x \in Users, Delete(t, w, x)
      PROVE  Half(s)'
  BY <1>0, <1>4 DEF Pair, Delete, Begin, FType, data
<1>5. ASSUME NEW t \in Threads,
             \/ Passes(t, "checkMine", "checkYours")
             \/ Passes(t, "checkYours", "addMine")
      PROVE  Half(s)'
  BY <1>0, <1>5 DEF Pair, Passes, FType
<1>6. ASSUME NEW t \in Threads, Crash(t)
      PROVE  Half(s)'
  BY <1>0, <1>6 DEF Pair, Crash, Leave, FType, data
<1>7. ASSUME NEW t \in Threads, AddMine(t) \/ AddYours(t)
      PROVE  Half(s)'
  <2>1. job' = job /\ marred' = marred /\ pc[t] \in AcceptSteps
    BY <1>7 DEF AddMine, AddYours, Goto
  <2>2. job[t].me \in Users /\ job[t].you \in Users
    BY <1>7, JobOf DEF AddMine, AddYours
  <2>3. CASE s = t
    BY <1>7, <2>1, <2>2, <2>3 DEF AddMine, AddYours, Goto, FType
  <2>4. CASE s # t
    <3>1. pc'[s] = pc[s]
      BY <1>7, <2>4 DEF AddMine, AddYours, Goto, FType
    <3>2. CASE pc[s] = "addYours"
      <4>1. job[s].me \in Users
        BY <3>2, JobOf
      <4>2. friends[job[s].me] \subseteq friends'[job[s].me]
        BY <1>7, <2>2, <4>1 DEF AddMine, AddYours, AddedTo, FType
      <4>. QED
        BY <1>0, <2>1, <3>1, <3>2, <4>2 DEF Pair
    <3>3. CASE pc[s] = "delMine" /\ Pair(s) \notin marred
      <4>0. job[s].me \in Users /\ job[s].you \in Users
        BY <3>3, JobOf
      <4>1. Overlaps(job[s].me, job[s].you, DeleteSteps)
        BY <3>3 DEF Overlaps, Pair
      <4>2. ~Overlaps(job[s].me, job[s].you, AcceptSteps)
        BY <3>3, <4>0, <4>1 DEF Apart, Pair
      <4>3. Pair(t) # {job[s].me, job[s].you}
        BY <2>1, <4>2 DEF Overlaps
      <4>4. job[s].me \notin friends'[job[s].you]
        BY <1>0, <1>7, <2>2, <3>3, <4>0, <4>3
           DEF Pair, AddMine, AddYours, AddedTo, FType
      <4>. QED
        BY <2>1, <3>1, <3>3, <4>4
    <3>. QED
      BY <2>1, <3>1, <3>2, <3>3 DEF Pair
  <2>. QED
    BY <2>3, <2>4
<1>8. ASSUME NEW t \in Threads, DelYours(t) \/ DelMine(t)
      PROVE  Half(s)'
  <2>1. marred' = marred /\ pc[t] \in DeleteSteps
    BY <1>8 DEF DelYours, DelMine
  <2>2. job[t].me \in Users /\ job[t].you \in Users
    BY <1>8, JobOf DEF DelYours, DelMine
  <2>3. CASE s = t
    BY <1>8, <2>1, <2>2, <2>3 DEF DelYours, DelMine, Goto, Leave, FType
  <2>4. CASE s # t
    <3>1. pc'[s] = pc[s] /\ job'[s] = job[s]
      BY <1>8, <2>4 DEF DelYours, DelMine, Goto, Leave, FType
    <3>2. CASE pc[s] = "delMine"
      <4>1. job[s].you \in Users
        BY <3>2, JobOf
      <4>2. friends'[job[s].you] \subseteq friends[job[s].you]
        BY <1>8, <2>2, <4>1 DEF DelYours, DelMine, FType
      <4>. QED
        BY <1>0, <2>1, <3>1, <3>2, <4>2 DEF Pair
    <3>3. CASE pc[s] = "addYours" /\ Pair(s) \notin marred
      <4>0. job[s].me \in Users /\ job[s].you \in Users
        BY <3>3, JobOf
      <4>1. Overlaps(job[s].me, job[s].you, AcceptSteps)
        BY <3>3 DEF Overlaps, Pair
      <4>2. ~Overlaps(job[s].me, job[s].you, DeleteSteps)
        BY <3>3, <4>0, <4>1 DEF Apart, Pair
      <4>3. Pair(t) # {job[s].me, job[s].you}
        BY <2>1, <4>2 DEF Overlaps
      <4>4. job[s].you \in friends'[job[s].me]
        BY <1>0, <1>8, <2>2, <3>3, <4>0, <4>3
           DEF Pair, DelYours, DelMine, FType
      <4>. QED
        BY <2>1, <3>1, <3>3, <4>4
    <3>. QED
      BY <2>1, <3>1, <3>2, <3>3 DEF Pair
  <2>. QED
    BY <2>3, <2>4
<1>. QED
  BY QuietOrLoud, <1>1, <1>2, <1>3, <1>4, <1>5, <1>6, <1>7, <1>8 DEF Quiet, Loud

LEMMA WitnessedStep ==
    ASSUME FType, FType', Apart, HalfWay, Witnessed, [Next]_vars
    PROVE  Witnessed'
<1>. SUFFICES ASSUME NEW u \in Users, NEW v \in Users,
                     {u, v} \notin marred', v \in friends'[u], u \notin friends'[v]
              PROVE  \E s \in Threads :
                        /\ pc'[s] \in {"addYours", "delMine"}
                        /\ job'[s].me = u /\ job'[s].you = v
  BY DEF Witnessed
<1>. DEFINE Goal == \E s \in Threads :
                        /\ pc'[s] \in {"addYours", "delMine"}
                        /\ job'[s].me = u /\ job'[s].you = v
<1>0. {u, v} \notin marred /\ u # v
  BY MarredGrows
\* As long as the sets do not change, the old witness is still there, if the
\* step is not its own.
<1>1. ASSUME friends' = friends,
             \A s \in Threads : pc[s] \in {"addYours", "delMine"}
                                 => pc'[s] = pc[s] /\ job'[s] = job[s]
      PROVE  Goal
  BY <1>0, <1>1 DEF Witnessed
<1>2. CASE UNCHANGED <<friends, pc, job, marred>> /\ clock' \in 0..MaxClock
  BY <1>1, <1>2
<1>3. ASSUME NEW t \in Threads, NEW p \in Steps, NEW j \in Jobs \cup {NoJob},
             Aside(t, p, j)
      PROVE  Goal
  <2>1. \A s \in Threads : pc[s] \in {"addYours", "delMine"}
                              => pc'[s] = pc[s] /\ job'[s] = job[s]
    BY <1>3 DEF Aside, FType
  <2>. QED
    BY <1>1, <1>3, <2>1 DEF Aside
<1>4. ASSUME NEW t \in Threads, NEW w \in Users, NEW x \in Users, NEW id \in Ids,
             Accept(t, w, x, id)
      PROVE  Goal
  <2>1. \A s \in Threads : pc[s] \in {"addYours", "delMine"}
                              => pc'[s] = pc[s] /\ job'[s] = job[s]
    BY <1>4 DEF Accept, Begin, FType
  <2>. QED
    BY <1>1, <1>4, <2>1 DEF Accept, Begin, data
<1>5. ASSUME NEW t \in Threads, NEW w \in Users, NEW x \in Users, Delete(t, w, x)
      PROVE  Goal
  <2>1. \A s \in Threads : pc[s] \in {"addYours", "delMine"}
                              => pc'[s] = pc[s] /\ job'[s] = job[s]
    BY <1>5 DEF Delete, Begin, FType
  <2>. QED
    BY <1>1, <1>5, <2>1 DEF Delete, Begin, data
<1>6. ASSUME NEW t \in Threads,
             \/ Passes(t, "checkMine", "checkYours")
             \/ Passes(t, "checkYours", "addMine")
      PROVE  Goal
  <2>1. \A s \in Threads : pc[s] \in {"addYours", "delMine"}
                              => pc'[s] = pc[s] /\ job'[s] = job[s]
    BY <1>6 DEF Passes, FType
  <2>. QED
    BY <1>1, <1>6, <2>1 DEF Passes
<1>7. ASSUME NEW t \in Threads, Crash(t)
      PROVE  Goal
  <2>1. PICK s \in Threads : /\ pc[s] \in {"addYours", "delMine"}
                             /\ job[s].me = u /\ job[s].you = v
    BY <1>0, <1>7 DEF Crash, data, Witnessed
  <2>2. s # t
    BY <1>7, <2>1 DEF Crash, Pair
  <2>. QED
    BY <1>7, <2>1, <2>2 DEF Crash, Leave, FType
<1>8. ASSUME NEW t \in Threads, AddMine(t)
      PROVE  Goal
  <2>0. job[t].me \in Users /\ job[t].you \in Users
    BY <1>8, JobOf DEF AddMine
  <2>1. CASE job[t].me = u /\ job[t].you = v
    BY <1>8, <2>1 DEF AddMine, Goto, FType
  <2>2. CASE ~(job[t].me = u /\ job[t].you = v)
    <3>1. v \in friends[u] /\ u \notin friends[v]
      BY <1>8, <2>0, <2>2 DEF AddMine, FType
    <3>2. PICK s \in Threads : /\ pc[s] \in {"addYours", "delMine"}
                               /\ job[s].me = u /\ job[s].you = v
      BY <1>0, <3>1 DEF Witnessed
    <3>. QED
      BY <1>8, <3>2 DEF AddMine, Goto, FType
  <2>. QED
    BY <2>1, <2>2
<1>9. ASSUME NEW t \in Threads, AddYours(t)
      PROVE  Goal
  <2>0. /\ job[t].me \in Users /\ job[t].you \in Users
        /\ job' = job
    BY <1>9, JobOf DEF AddYours, Goto, FType
  <2>1. ~(job[t].me = v /\ job[t].you = u)
    <3>. SUFFICES ASSUME job[t].me = v /\ job[t].you = u PROVE FALSE
      OBVIOUS
    <3>1. Pair(t) \notin marred
      BY <1>0 DEF Pair
    <3>2. u \in friends[v]
      BY <1>9, <3>1 DEF HalfWay, AddYours
    <3>. QED
      BY <1>9, <2>0, <3>2 DEF AddYours, AddedTo, FType
  <2>2. v \in friends[u] /\ u \notin friends[v]
    BY <1>9, <2>0, <2>1 DEF AddYours, AddedTo, FType
  <2>3. PICK s \in Threads : /\ pc[s] \in {"addYours", "delMine"}
                             /\ job[s].me = u /\ job[s].you = v
    BY <1>0, <2>2 DEF Witnessed
  <2>4. s # t
    BY <1>0, <1>9, <2>0, <2>3 DEF AddYours, AddedTo, FType
  <2>. QED
    BY <1>9, <2>0, <2>3, <2>4 DEF AddYours, Goto, FType
<1>10. ASSUME NEW t \in Threads, DelYours(t)
       PROVE  Goal
  <2>0. job[t].me \in Users /\ job[t].you \in Users
    BY <1>10, JobOf DEF DelYours
  <2>1. CASE job[t].me = u /\ job[t].you = v
    BY <1>10, <2>1 DEF DelYours, Goto, FType
  <2>2. CASE ~(job[t].me = u /\ job[t].you = v)
    <3>1. v \in friends[u] /\ u \notin friends[v]
      BY <1>10, <2>0, <2>2 DEF DelYours, FType
    <3>2. PICK s \in Threads : /\ pc[s] \in {"addYours", "delMine"}
                               /\ job[s].me = u /\ job[s].you = v
      BY <1>0, <3>1 DEF Witnessed
    <3>. QED
      BY <1>10, <3>2 DEF DelYours, Goto, FType
  <2>. QED
    BY <2>1, <2>2
<1>11. ASSUME NEW t \in Threads, DelMine(t)
       PROVE  Goal
  <2>0. /\ job[t].me \in Users /\ job[t].you \in Users
    BY <1>11, JobOf DEF DelMine, FType
  <2>1. ~(job[t].me = v /\ job[t].you = u)
    <3>. SUFFICES ASSUME job[t].me = v /\ job[t].you = u PROVE FALSE
      OBVIOUS
    <3>1. Pair(t) \notin marred
      BY <1>0 DEF Pair
    <3>2. v \notin friends[u]
      BY <1>11, <3>1 DEF HalfWay, DelMine
    <3>. QED
      BY <1>11, <2>0, <3>2 DEF DelMine, FType
  <2>2. v \in friends[u] /\ u \notin friends[v]
    BY <1>11, <2>0, <2>1 DEF DelMine, FType
  <2>3. PICK s \in Threads : /\ pc[s] \in {"addYours", "delMine"}
                             /\ job[s].me = u /\ job[s].you = v
    BY <1>0, <2>2 DEF Witnessed
  <2>4. s # t
    BY <1>0, <1>11, <2>0, <2>3 DEF DelMine, FType
  <2>. QED
    BY <1>11, <2>3, <2>4 DEF DelMine, Leave, FType
<1>. QED
  BY QuietOrLoud, <1>2, <1>3, <1>4, <1>5, <1>6, <1>7, <1>8, <1>9, <1>10, <1>11
     DEF Quiet, Loud

(***************************************************************************)
(* Friendship is written to two sets by two commands, by accepts and       *)
(* deletions of many threads at once.  It is nevertheless mutual whenever  *)
(* no request for the pair is under way, except for pairs with a dead      *)
(* worker or with a deletion that overlapped an accept.                    *)
(***************************************************************************)
THEOREM FriendshipMutual == Spec => []MutualUnlessMarred
<1>1. Init => MInv
  <2>. SUFFICES ASSUME Init PROVE MInv
    OBVIOUS
  <2>1. FType
    BY InitType
  <2>2. Apart /\ HalfWay
    BY DEF Init, Apart, HalfWay, Overlaps
  <2>3. Witnessed
    BY DEF Init, Witnessed
  <2>. QED
    BY <2>1, <2>2, <2>3 DEF MInv
<1>2. MInv /\ [Next]_vars => MInv'
  <2>. SUFFICES ASSUME MInv, [Next]_vars PROVE MInv'
    OBVIOUS
  <2>1. FType /\ FType' /\ Apart /\ HalfWay /\ Witnessed
    BY TypeStep DEF MInv
  <2>2. Apart'
    BY <2>1, ApartStep
  <2>3. HalfWay'
    BY <2>1, HalfWayStep
  <2>4. Witnessed'
    BY <2>1, WitnessedStep
  <2>. QED
    BY <2>1, <2>2, <2>3, <2>4 DEF MInv
<1>3. MInv => MutualUnlessMarred
  <2>. SUFFICES ASSUME MInv, NEW u \in Users, NEW v \in Users,
                       {u, v} \notin marred,
                       ~\E t \in Threads : pc[t] # "idle" /\ Pair(t) = {u, v}
                PROVE  v \in friends[u] <=> u \in friends[v]
    BY DEF MutualUnlessMarred
  <2>1. CASE v \in friends[u] /\ u \notin friends[v]
    <3>1. PICK t \in Threads : /\ pc[t] \in {"addYours", "delMine"}
                               /\ job[t].me = u /\ job[t].you = v
      BY <2>1 DEF MInv, Witnessed
    <3>. QED
      BY <3>1 DEF Pair
  <2>2. CASE u \in friends[v] /\ v \notin friends[u]
    <3>0. {v, u} = {u, v}
      OBVIOUS
    <3>1. PICK t \in Threads : /\ pc[t] \in {"addYours", "delMine"}
                               /\ job[t].me = v /\ job[t].you = u
      BY <2>2, <3>0 DEF MInv, Witnessed
    <3>. QED
      BY <3>0, <3>1 DEF Pair
  <2>. QED
    BY <2>1, <2>2
<1>. QED
  BY <1>1, <1>2, <1>3, PTL DEF Spec

----------------------------------------------------------------------------
(* How long the list of requests can grow. *)

\* LREM makes a list no longer.
LEMMA WithoutShortens ==
    ASSUME NEW S, NEW s \in Seq(S), NEW id
    PROVE  /\ \E T : Without(s, id) \in Seq(T)
           /\ Len(Without(s, id)) \in Nat /\ Len(Without(s, id)) <= Len(s)
<1>. DEFINE kept == {n \in 1..Len(s) : s[n] # id}
            c == Cardinality(kept)
            f == Without(s, id)
<1>1. Len(s) \in Nat
  BY LenProperties
<1>2. IsFiniteSet(1..Len(s)) /\ Cardinality(1..Len(s)) = Len(s)
  BY <1>1, FS_Interval
<1>3. IsFiniteSet(kept) /\ c <= Len(s)
  BY <1>2, FS_Subset
<1>4. c \in Nat
  BY <1>3, FS_CardinalityType
<1>5. f = [k \in 1..c |-> s[Nth(kept, k)]]
  BY DEF Without
<1>. HIDE DEF kept, c, f
<1>6. f \in [1..c -> {f[k] : k \in 1..c}]
  BY <1>5
<1>7. f \in Seq({f[k] : k \in 1..c})
  BY <1>4, <1>6, SeqDef
<1>8. Len(f) \in Nat /\ DOMAIN f = 1..Len(f)
  BY <1>7, LenProperties
<1>9. 1..Len(f) = 1..c
  BY <1>6, <1>8
<1>10. Len(f) = c
  <2>1. \A n \in Nat : Cardinality(1..n) = n
    <3>. TAKE n \in Nat
    <3>. QED
      BY FS_Interval
  <2>. QED
    BY <1>4, <1>8, <1>9, <2>1
<1>. QED
  BY <1>3, <1>7, <1>8, <1>10 DEF f

LEMMA ListType ==
    ASSUME Lists, NEW u \in Users
    PROVE  Len(reqs[u]) \in Nat
<1>1. PICK S : reqs[u] \in Seq(S)
  BY DEF Lists
<1>. QED
  BY <1>1, LenProperties

\* What a step of one thread does to those who will push to the list of u.
LEMMA PushingStep ==
    ASSUME NEW t \in Threads, NEW u,
           \A s \in Threads : s # t => pc'[s] = pc[s] /\ job'[s] = job[s]
    PROVE  /\ Cardinality(Pushing(u)) \in Nat /\ Cardinality(Pushing(u)') \in Nat
           /\ Cardinality(Pushing(u)') <= Cardinality(Threads)
           /\ t \notin Pushing(u)' =>
                 Cardinality(Pushing(u)') <= Cardinality(Pushing(u))
           /\ t \in Pushing(u) /\ t \notin Pushing(u)' =>
                 Cardinality(Pushing(u)') = Cardinality(Pushing(u)) - 1
<1>1. Pushing(u) \subseteq Threads /\ Pushing(u)' \subseteq Threads
  BY DEF Pushing
<1>2. IsFiniteSet(Pushing(u)) /\ IsFiniteSet(Pushing(u)')
      /\ Cardinality(Pushing(u)') <= Cardinality(Threads)
  BY <1>1, FriendsAssumption, FS_Subset
<1>3. Cardinality(Pushing(u)) \in Nat /\ Cardinality(Pushing(u)') \in Nat
  BY <1>2, FS_CardinalityType
<1>4. t \notin Pushing(u)' => Pushing(u)' = Pushing(u) \ {t}
  BY DEF Pushing
<1>5. /\ t \in Pushing(u) => Cardinality(Pushing(u) \ {t}) = Cardinality(Pushing(u)) - 1
      /\ t \notin Pushing(u) => Pushing(u) \ {t} = Pushing(u)
  BY <1>2, FS_RemoveElement
<1>. QED
  BY <1>2, <1>3, <1>4, <1>5

\* A thread that does not begin to push leaves the bound as it is, unless the
\* list grows; one that has found room may begin.
LEMMA ListingStep ==
    ASSUME RInv, NEW t \in Threads, NEW u \in Users,
           \A s \in Threads : s # t => pc'[s] = pc[s] /\ job'[s] = job[s],
           Len(reqs'[u]) \in Nat,
           \/ Len(reqs'[u]) <= Len(reqs[u]) /\ t \notin Pushing(u)'
           \/ Len(reqs'[u]) <= Limit
           \/ /\ Len(reqs'[u]) = Len(reqs[u]) + 1
              /\ t \in Pushing(u) /\ t \notin Pushing(u)'
    PROVE  Listing(u)'
<1>1. Len(reqs[u]) \in Nat /\ Listing(u) /\ Limit \in Nat
      /\ Cardinality(Threads) \in Nat
  BY ListType, FriendsAssumption, FS_CardinalityType DEF RInv
<1>2. CASE Len(reqs'[u]) <= Len(reqs[u]) /\ t \notin Pushing(u)'
  BY <1>1, <1>2, PushingStep DEF Listing
<1>3. CASE Len(reqs'[u]) <= Limit
  <2>1. Cardinality(Pushing(u)') \in Nat
        /\ Cardinality(Pushing(u)') <= Cardinality(Threads)
    BY PushingStep
  <2>. QED
    BY <1>1, <1>3, <2>1 DEF Listing
<1>4. CASE /\ Len(reqs'[u]) = Len(reqs[u]) + 1
           /\ t \in Pushing(u) /\ t \notin Pushing(u)'
  <2>1. Cardinality(Pushing(u)') = Cardinality(Pushing(u)) - 1
        /\ Cardinality(Pushing(u)) \in Nat
    BY <1>4, PushingStep
  <2>. QED
    BY <1>1, <1>4, <2>1 DEF Listing
<1>. QED
  BY <1>2, <1>3, <1>4

LEMMA ListingNext == RInv /\ [Next]_vars => RInv'
<1> SUFFICES ASSUME RInv, [Next]_vars PROVE RInv'
  OBVIOUS
<1>0. FType /\ Lists /\ FType' /\ Limit \in Nat
      /\ \A u \in Users : Len(reqs[u]) \in Nat
  BY TypeStep, ListType, FriendsAssumption DEF RInv
<1>1. CASE UNCHANGED <<reqs, pc, job>>
  <2>1. \A u \in Users : Pushing(u)' = Pushing(u)
    BY <1>1 DEF Pushing
  <2>. QED
    BY <1>0, <1>1, <2>1 DEF RInv, Lists, Listing
<1>2. CASE UNCHANGED vars
  BY <1>1, <1>2 DEF vars
<1>3. CASE Tick
  BY <1>1, <1>3 DEF Tick, data
<1>4. ASSUME NEW t \in Threads, reqs' = reqs,
             \A s \in Threads : s # t => pc'[s] = pc[s] /\ job'[s] = job[s],
             \A u \in Users : t \in Pushing(u)' => Len(reqs[u]) <= Limit
      PROVE  RInv'
  <2>1. \A u \in Users : Listing(u)'
    BY <1>0, <1>4, ListingStep
  <2>. QED
    BY <1>0, <1>4, <2>1 DEF RInv, Lists
<1>5. ASSUME NEW t \in Threads, NEW p, NEW j, p # "push",
             pc' = [pc EXCEPT ![t] = p], job' = [job EXCEPT ![t] = j],
             reqs' = reqs
      PROVE  RInv'
  <2>1. /\ \A s \in Threads : s # t => pc'[s] = pc[s] /\ job'[s] = job[s]
        /\ pc'[t] = p
    BY <1>0, <1>5 DEF FType
  <2>2. \A u \in Users : t \notin Pushing(u)'
    BY <1>5, <2>1 DEF Pushing
  <2>. QED
    BY <1>4, <1>5, <2>1, <2>2
<1>6. ASSUME NEW t \in Threads, NEW p, p # "push", Goto(t, p), reqs' = reqs
      PROVE  RInv'
  <2>1. job' = [job EXCEPT ![t] = job[t]]
    BY <1>0, <1>6 DEF Goto, FType
  <2>. QED
    BY <1>5, <1>6, <2>1 DEF Goto
<1>7. ASSUME NEW t \in Threads, Leave(t), reqs' = reqs PROVE RInv'
  BY <1>5, <1>7 DEF Leave
<1>8. ASSUME NEW t \in Threads, NEW here, NEW refused, NEW p, p # "push",
             Check(t, here, refused, p)
      PROVE  RInv'
  BY <1>6, <1>7, <1>8 DEF Check, data
<1>9. ASSUME NEW t \in Threads, NEW u \in Users, NEW v \in Users,
             Invite(t, u, v) \/ Delete(t, u, v)
      PROVE  RInv'
  BY <1>5, <1>9 DEF Invite, Delete, Begin, data
<1>10. ASSUME NEW t \in Threads, NEW u \in Users, NEW v \in Users, NEW id \in Ids,
              Accept(t, u, v, id) \/ Refuse(t, u, id)
       PROVE  RInv'
  BY <1>5, <1>10 DEF Accept, Refuse, Begin, data
<1>11. ASSUME NEW t \in Threads,
              NotYours(t) \/ NotMine(t) \/ MineFull(t) \/ YoursFull(t)
       PROVE  RInv'
  BY <1>8, <1>11 DEF NotYours, NotMine, MineFull, YoursFull
<1>12. ASSUME NEW t \in Threads, Asked(t) PROVE RInv'
  BY <1>5, <1>7, <1>12 DEF Asked, data
<1>13. ASSUME NEW t \in Threads, Room(t) PROVE RInv'
  <2>1. CASE Full(Len(reqs[job[t].you]))
    BY <1>7, <1>13, <2>1 DEF Room, Check, data
  <2>2. CASE ~Full(Len(reqs[job[t].you]))
    <3>1. /\ job' = job /\ reqs' = reqs /\ job[t].you \in Users
          /\ \A s \in Threads : s # t => pc'[s] = pc[s]
      BY <1>0, <1>13, <2>2, JobOf DEF Room, Check, Goto, data, FType
    <3>2. Len(reqs[job[t].you]) <= Limit
      BY <1>0, <2>2, <3>1 DEF Full
    <3>3. \A u \in Users : t \in Pushing(u)' => Len(reqs[u]) <= Limit
      BY <3>1, <3>2 DEF Pushing
    <3>. QED
      BY <1>4, <3>1, <3>3
  <2>. QED
    BY <2>1, <2>2
<1>14. ASSUME NEW t \in Threads, Push(t) PROVE RInv'
  <2>. DEFINE v == job[t].you
  <2>1. /\ pc[t] = "push" /\ v \in Users /\ job' = job /\ pc'[t] = "hash"
        /\ \A s \in Threads : s # t => pc'[s] = pc[s]
        /\ reqs' = [reqs EXCEPT ![v] = <<job[t].id>> \o @]
    BY <1>0, <1>14, JobOf DEF Push, Goto, FType
  <2>2. PICK S : reqs[v] \in Seq(S)
    BY <1>0, <2>1 DEF Lists
  <2>3. reqs[v] \in Seq(S \cup {job[t].id}) /\ <<job[t].id>> \in Seq(S \cup {job[t].id})
    BY <2>2, SeqMonotonic
  <2>4. /\ <<job[t].id>> \o reqs[v] \in Seq(S \cup {job[t].id})
        /\ Len(<<job[t].id>> \o reqs[v]) = Len(reqs[v]) + 1
    BY <2>3
  <2>5. /\ reqs'[v] = <<job[t].id>> \o reqs[v]
        /\ \A u \in Users : u # v => reqs'[u] = reqs[u]
        /\ DOMAIN reqs' = Users
    BY <1>0, <2>1 DEF Lists
  <2>6. Lists'
    BY <1>0, <2>1, <2>4, <2>5 DEF Lists
  <2>7. ASSUME NEW u \in Users PROVE Listing(u)'
    <3>1. t \notin Pushing(u)'
      BY <2>1 DEF Pushing
    <3>2. CASE u = v
      <4>1. t \in Pushing(u)
        BY <2>1, <3>2 DEF Pushing
      <4>2. Len(reqs'[u]) = Len(reqs[u]) + 1 /\ Len(reqs'[u]) \in Nat
        BY <1>0, <2>4, <2>5, <3>2
      <4>. QED
        BY <2>1, <3>1, <4>1, <4>2, ListingStep
    <3>3. CASE u # v
      BY <1>0, <2>1, <2>5, <3>1, <3>3, ListingStep
    <3>. QED
      BY <3>2, <3>3
  <2>. QED
    BY <1>0, <2>6, <2>7 DEF RInv
<1>15. ASSUME NEW t \in Threads, Unlist(t) \/ RefuseUnlist(t) PROVE RInv'
  <2>. DEFINE w == job[t].me
  <2>1. /\ w \in Users /\ pc'[t] # "push"
        /\ \A s \in Threads : s # t => pc'[s] = pc[s] /\ job'[s] = job[s]
        /\ reqs' = [reqs EXCEPT ![w] = Without(@, job[t].id)]
    BY <1>0, <1>15, JobOf DEF Unlist, RefuseUnlist, Goto, Leave, FType
  <2>2. PICK S : reqs[w] \in Seq(S)
    BY <1>0, <2>1 DEF Lists
  <2>3. /\ reqs'[w] = Without(reqs[w], job[t].id)
        /\ \A u \in Users : u # w => reqs'[u] = reqs[u]
        /\ DOMAIN reqs' = Users
    BY <1>0, <2>1 DEF Lists
  <2>4. /\ \E T : reqs'[w] \in Seq(T)
        /\ Len(reqs'[w]) \in Nat /\ Len(reqs'[w]) <= Len(reqs[w])
    BY <2>2, <2>3, WithoutShortens
  <2>. HIDE DEF w
  <2>5. Lists'
    BY <1>0, <2>3, <2>4 DEF Lists
  <2>6. ASSUME NEW u \in Users PROVE Listing(u)'
    <3>1. t \notin Pushing(u)'
      BY <2>1 DEF Pushing
    <3>2. Len(reqs'[u]) \in Nat /\ Len(reqs'[u]) <= Len(reqs[u])
      BY <1>0, <2>3, <2>4
    <3>. QED
      BY <2>1, <3>1, <3>2, ListingStep
  <2>. QED
    BY <1>0, <2>5, <2>6 DEF RInv
<1>16. ASSUME NEW t \in Threads, Hash(t) \/ Forget(t) \/ DelMine(t) \/ Crash(t)
       PROVE  RInv'
  BY <1>7, <1>16 DEF Hash, Forget, DelMine, Crash, data
<1>17. ASSUME NEW t \in Threads,
              AddMine(t) \/ AddYours(t) \/ Drop(t) \/ DelYours(t)
       PROVE  RInv'
  BY <1>6, <1>17 DEF AddMine, AddYours, Drop, DelYours
<1>18. ASSUME NEW t \in Threads, CheckMine(t) \/ CheckYours(t) PROVE RInv'
  BY <1>8, <1>18 DEF CheckMine, CheckYours
<1>. QED
  BY <1>2, <1>3, <1>9, <1>10, <1>11, <1>12, <1>13, <1>14, <1>15, <1>16, <1>17,
     <1>18 DEF Next, InviteStep, AcceptStep, OtherStep

(***************************************************************************)
(* The length of a list of requests is compared by one command and the     *)
(* request pushed by another: the list holds at most Limit requests and    *)
(* one for each thread.                                                    *)
(***************************************************************************)
THEOREM RequestLimit == Spec => []RequestsBounded
<1>1. Init => RInv
  <2>. SUFFICES ASSUME Init PROVE RInv
    OBVIOUS
  <2>1. FType /\ Limit + Cardinality(Threads) \in Nat
    BY InitType, FriendsAssumption, FS_CardinalityType
  <2>2. DOMAIN reqs = Users /\ \A u \in Users : reqs[u] = <<>>
    BY DEF Init
  <2>3. Lists
    <3>1. <<>> \in Seq(Users)
      BY EmptySeq
    <3>. QED
      BY <2>2, <3>1 DEF Lists
  <2>4. \A u \in Users : Pushing(u) = {}
    BY DEF Init, Pushing
  <2>5. ASSUME NEW u \in Users PROVE Listing(u)
    <3>1. Len(reqs[u]) = 0
      BY <2>2
    <3>2. Cardinality(Pushing(u)) = 0
      BY <2>4, FS_EmptySet
    <3>. QED
      BY <2>1, <3>1, <3>2 DEF Listing
  <2>. QED
    BY <2>1, <2>3, <2>5 DEF RInv
<1>2. RInv => RequestsBounded
  <2>. SUFFICES ASSUME RInv, NEW u \in Users
                PROVE  Len(reqs[u]) <= Limit + Cardinality(Threads)
    BY DEF RequestsBounded
  <2>1. Pushing(u) \subseteq Threads
    BY DEF Pushing
  <2>2. IsFiniteSet(Pushing(u))
    BY <2>1, FriendsAssumption, FS_Subset
  <2>3. Cardinality(Pushing(u)) \in Nat
    BY <2>2, FS_CardinalityType
  <2>4. /\ Len(reqs[u]) \in Nat /\ Limit \in Nat /\ Cardinality(Threads) \in Nat
        /\ Len(reqs[u]) + Cardinality(Pushing(u)) <= Limit + Cardinality(Threads)
    BY ListType, FriendsAssumption, FS_CardinalityType DEF RInv, Listing
  <2>. QED
    BY <2>3, <2>4
<1>. QED
  BY <1>1, <1>2, ListingNext, PTL DEF Spec
============================================================================
