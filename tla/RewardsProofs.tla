--------------------------- MODULE RewardsProofs ---------------------------
(***************************************************************************)
(* Rewards are credited as often as their marks and the accidents allow,   *)
(* for every number of players, threads, days, goals and requests.         *)
(***************************************************************************)
EXTENDS Rewards, FiniteSetTheorems, TLAPS

SignSteps == {"read", "enlist", "reread", "number", "count", "grant"}
MonthSteps == {"goals", "ripe", "credit", "store"}

\* What a request may be at which step.
Fits(step, j, today) ==
    /\ step \in {"look", "pay"} => j.key[1] \in ClaimKinds \cup {"quiz"}
    /\ step = "mark" => j.key[1] = "code"
    /\ step \in {"stock", "draw"} => j.key[1] = "quiz"
    /\ step \in SignSteps => j.key[1] = "sign" /\ j.seen \subseteq Users
    /\ step \in MonthSteps => j.key[1] = "month" /\ j.seen \subseteq Goals
    /\ j.key[1] = "quiz" => j.n <= MaxCorrect /\ j.key[3] <= today
    /\ step = "draw" => j.n \in 1..Smaller(Max, MaxCorrect)

\* A step with its request.
Sound(step, j, today) ==
    \/ step = "idle" /\ j = NoJob
    \/ step \in Steps \ {"idle"} /\ j \in Jobs /\ Fits(step, j, today)

StoreInv ==
    /\ marks \subseteq ClaimKeys
    /\ ready \subseteq Users
    /\ quizDate \in [Users -> 0..MaxDay]
    /\ given \in [Days -> Nat]
    /\ signed \in [Days -> SUBSET Users]
    /\ number \in [Users -> Nat]
    /\ receive \in [Users -> SUBSET Goals]

HistoryInv ==
    /\ day \in Days
    /\ paid \in [Keys -> Nat]
    /\ excuse \in [Keys -> Nat]
    /\ lost \in [Keys -> Nat]
    /\ served \in 0..MaxOps

ThreadInv ==
    /\ pc \in [Threads -> Steps]
    /\ job \in [Threads -> Jobs \cup {NoJob}]
    /\ \A t \in Threads : Sound(pc[t], job[t], day)

\* Types, with what each step knows of its request.
TInv == StoreInv /\ HistoryInv /\ ThreadInv

\* The rewards of the sets and of the hash are marked once they are paid, and
\* nothing takes their marks away.
ClaimInv ==
    /\ \A k \in ClaimKeys : paid[k] > 0 => k \in marks
    /\ \A t \in Threads :
         pc[t] = "pay" /\ job[t].key[1] = "code" => job[t].key \in marks

----------------------------------------------------------------------------
(* Second credits *)

IsMarked(k) ==
    \/ k[1] \in ClaimKinds /\ k \in marks
    \/ k[1] = "quiz" /\ quizDate[k[2]] = k[3]
    \/ k[1] = "sign" /\ k[2] \in signed[k[3]]
    \/ k[1] = "month" /\ k[3] \in receive[k[2]]

\* The requests that are under way for rewards marked in the same place, those
\* for the reward itself, and those that have not credited it yet.
Near(k) == {t \in Threads : pc[t] # "idle" /\ job[t].key \in Group(k)}
Mine(k) == {t \in Threads : pc[t] # "idle" /\ job[t].key = k}
Open(k) == {t \in Near(k) : ~(job[t].key = k /\ pc[t] = "store")}

\* The requests that have enlisted the player and will not do so surely again.
Late(k) == {t \in Mine(k) : pc[t] \in {"reread", "number", "count", "grant"}}

\* A request that neither credits the marked reward k nor takes the mark away.
Harmless(t, k) ==
    \/ job[t].key = k /\ pc[t] \in {"look", "read"}
    \/ /\ k[1] = "sign" /\ job[t].key # k
       /\ pc[t] \in {"enlist", "number", "count", "grant"} =>
            k[2] \in job[t].seen \/ (pc[t] # "enlist" /\ ~job[t].own)
    \/ /\ k[1] = "month"
       /\ \/ pc[t] = "goals"
          \/ k[3] \in job[t].seen /\ (job[t].key = k => pc[t] = "ripe")

Calm(k) == IsMarked(k) /\ \A t \in Near(k) : Harmless(t, k)

\* A credit beyond the first needs an excuse; so does every request under way
\* beyond the first, unless the mark turns all of them away.  If the mark was
\* lost and nobody is left to set it, one request less is allowed.
Budget(k) ==
    /\ paid[k] + Cardinality(Open(k)) <= 1 + excuse[k]
    /\ ~IsMarked(k) /\ Near(k) \subseteq Late(k) =>
         paid[k] + Cardinality(Open(k)) <= excuse[k]

\* The date of the last answer marks the quiz of one day only: what holds until
\* the day is over, and what afterwards.
QuizBudget(k) ==
    \/ Calm(k) /\ paid[k] + Cardinality(Near(k)) <= 2 + excuse[k]
    \/ k[3] < day /\ paid[k] + Cardinality(Mine(k)) <= 1 + excuse[k]
    \/ k[3] >= day /\ Budget(k)

Second(k) ==
    /\ paid[k] <= 1 + excuse[k]
    /\ IF k[1] = "quiz" THEN QuizBudget(k) ELSE Calm(k) \/ Budget(k)

\* The quiz of a day to come has not been answered.
DateInv ==
    /\ \A u \in Users : quizDate[u] <= day
    /\ \A k \in Keys : k[1] = "quiz" /\ k[3] > day => paid[k] = 0

SecondInv == DateInv /\ \A k \in Keys : Second(k)

----------------------------------------------------------------------------
(* Marks without a credit *)

\* A mark of the reward is justified.
Backed(k) == paid[k] > 0 \/ PastMark(k) # {} \/ lost[k] > 0

\* What a request remembers of a list is backed, too.
Remembers(t) ==
    /\ pc[t] \in SignSteps =>
         \A u \in job[t].seen : Backed(<<"sign", u, Day(t)>>)
    /\ pc[t] \in MonthSteps =>
         \A g \in job[t].seen : Backed(<<"month", User(t), g>>)
    /\ pc[t] = "store" => paid[job[t].key] > 0

BackedInv ==
    /\ \A k \in Keys : IsMarked(k) => Backed(k)
    /\ \A t \in Threads : Remembers(t)

----------------------------------------------------------------------------
(* Goals *)

\* What p counts for the sign-ins of a player, each as an element of its own.
SignCredits(p, u) == UNION {{d} \X (1..p[<<"sign", u, d>>]) : d \in Days}

\* The requests that have counted the sign-in and not credited it yet.
Granting(u) == {t \in Threads : /\ pc[t] = "grant"
                                /\ job[t].key[1] = "sign" /\ User(t) = u}

\* The sign-ins of a player that have been counted.
Counts(u) == Cardinality(SignCredits(paid, u)) + Cardinality(Granting(u))
               + Cardinality(SignCredits(lost, u))

GoalInv ==
    /\ \A u \in Users : number[u] <= Counts(u)
    /\ \A t \in Threads : pc[t] = "credit" => Day(t) <= Counts(User(t))
    /\ \A u \in Users : \A g \in Goals :
         paid[<<"month", u, g>>] > 0 => g <= Counts(u)

----------------------------------------------------------------------------
(* Prizes *)

\* The prizes that may still be drawn on a day from the pools made so far.
Pool(d) == {e \in Threads \X (1..Smaller(Max, MaxCorrect)) :
                /\ pc[e[1]] = "draw" /\ Day(e[1]) = d
                /\ e[2] <= job[e[1]].n}

PrizeInv ==
    \A d \in Days :
        given[d] + Cardinality(Pool(d)) <=
            Max + (Cardinality(Threads) - 1) * Smaller(Max, MaxCorrect)

IInv == TInv /\ ClaimInv /\ SecondInv /\ BackedInv /\ GoalInv /\ PrizeInv

----------------------------------------------------------------------------
(* Keys and sets of threads *)

\* What a reward looks like.
LEMMA KeyForm ==
    ASSUME NEW k \in Keys
    PROVE  /\ k = <<k[1], k[2], k[3]>>
           /\ k[1] \in DailyKinds \cup OnceKinds \cup {"month"}
           /\ k[2] \in Users
           /\ k[1] \in DailyKinds => k[3] \in Days
           /\ k[1] \in OnceKinds => k[3] = 0
           /\ k[1] = "month" => k[3] \in Goals
<1>1. CASE \E x \in DailyKinds, u \in Users, d \in Days : k = <<x, u, d>>
  BY <1>1 DEF DailyKinds, OnceKinds
<1>2. CASE \E x \in OnceKinds, u \in Users : k = <<x, u, 0>>
  BY <1>2 DEF DailyKinds, OnceKinds
<1>3. CASE \E u \in Users, g \in Goals : k = <<"month", u, g>>
  BY <1>3 DEF DailyKinds, OnceKinds
<1>4. QED
  BY <1>1, <1>2, <1>3 DEF Keys

\* What is a reward.
LEMMA KeyMade ==
    ASSUME NEW u \in Users
    PROVE  /\ \A x \in DailyKinds, d \in Days : <<x, u, d>> \in Keys
           /\ \A x \in OnceKinds : <<x, u, 0>> \in Keys
           /\ \A g \in Goals : <<"month", u, g>> \in Keys
BY DEF Keys

\* Rewards marked in the same place form a class.
LEMMA GroupClass ==
    ASSUME NEW k \in Keys, NEW x \in Group(k)
    PROVE  x \in Keys /\ k \in Group(k) /\ k \in Group(x) /\ Group(x) = Group(k)
BY DEF Group

\* Rewards of one group are of one kind.
LEMMA GroupKind ==
    ASSUME NEW k \in Keys, NEW x \in Group(k)
    PROVE  x[1] = k[1]
BY DEF Group

\* Sets of threads are finite.
LEMMA ThreadSets ==
    ASSUME NEW S \in SUBSET Threads
    PROVE  IsFiniteSet(S) /\ Cardinality(S) \in Nat
BY RewardsAssumption, FS_Subset, FS_CardinalityType

LEMMA SubsetNumber ==
    ASSUME NEW S \in SUBSET Threads, NEW R \in SUBSET S
    PROVE  Cardinality(R) <= Cardinality(S)
BY ThreadSets, FS_Subset

LEMMA ThreadMore ==
    ASSUME NEW S \in SUBSET Threads, NEW t \in Threads, t \notin S
    PROVE  Cardinality(S \cup {t}) = Cardinality(S) + 1
BY ThreadSets, FS_AddElement

LEMMA ThreadLess ==
    ASSUME NEW S \in SUBSET Threads, NEW t \in S
    PROVE  Cardinality(S \ {t}) = Cardinality(S) - 1
BY ThreadSets, FS_RemoveElement

----------------------------------------------------------------------------
(* Types *)

\* What is known of a busy thread.
LEMMA Busily ==
    ASSUME ThreadInv, NEW t \in Threads, pc[t] # "idle"
    PROVE  /\ job[t] \in Jobs /\ Fits(pc[t], job[t], day)
           /\ job[t].key \in Keys /\ job[t].n \in Nat /\ job[t].own \in BOOLEAN
           /\ job[t].seen \subseteq Users \cup Goals
BY DEF ThreadInv, Sound, Jobs

\* A thread takes a step, the others do not.
LEMMA Moved ==
    ASSUME ThreadInv, day' = day, NEW t \in Threads, NEW s, NEW j,
           pc' = [pc EXCEPT ![t] = s], job' = [job EXCEPT ![t] = j],
           Sound(s, j, day)
    PROVE  ThreadInv'
<1>1. s \in Steps /\ j \in Jobs \cup {NoJob}
  BY DEF Sound, Steps
<1>2. pc' \in [Threads -> Steps] /\ job' \in [Threads -> Jobs \cup {NoJob}]
  BY <1>1 DEF ThreadInv
<1>3. ASSUME NEW x \in Threads
      PROVE  Sound(pc'[x], job'[x], day')
  BY DEF ThreadInv
<1>4. QED
  BY <1>2, <1>3 DEF ThreadInv

\* A request that ends leaves a sound thread.
LEMMA LeaveSound ==
    ASSUME ThreadInv, day' = day, NEW t \in Threads, Leave(t)
    PROVE  ThreadInv'
<1>1. Sound("idle", NoJob, day)
  BY DEF Sound
<1>2. QED
  BY <1>1, Moved DEF Leave

\* A request that goes on with what it has.
LEMMA GotoSound ==
    ASSUME ThreadInv, day' = day, NEW t \in Threads, pc[t] # "idle",
           NEW s \in Steps \ {"idle"}, Goto(t, s), UNCHANGED job,
           Fits(s, job[t], day)
    PROVE  ThreadInv'
<1>1. Sound(s, job[t], day)
  BY Busily DEF Sound
<1>2. job' = [job EXCEPT ![t] = job[t]]
  BY DEF ThreadInv
<1>3. QED
  BY <1>1, <1>2, Moved DEF Goto

\* A request begins.
LEMMA BeginTypes ==
    ASSUME TInv, NEW t \in Threads, NEW k \in Keys, NEW n \in Nat,
           NEW s \in {"look", "read", "goals"}, Begin(t, k, n, s),
           s = "look" => k[1] \in ClaimKinds \cup {"quiz"},
           s = "read" => k[1] = "sign",
           s = "goals" => k[1] = "month",
           k[1] = "quiz" => n <= MaxCorrect /\ k[3] <= day
    PROVE  TInv'
<1> DEFINE j == [key |-> k, seen |-> {}, n |-> n, own |-> FALSE,
                 tools |-> FALSE]
<1>1. j \in Jobs /\ j.key = k /\ j.seen = {} /\ j.n = n
  BY DEF Jobs
<1>2. Fits(s, j, day)
  BY <1>1 DEF Fits, SignSteps, MonthSteps
<1>3. Sound(s, j, day)
  BY <1>1, <1>2 DEF Sound, Steps
<1>4. day' = day /\ pc' = [pc EXCEPT ![t] = s] /\ job' = [job EXCEPT ![t] = j]
  BY DEF Begin
<1> HIDE DEF j
<1>5. ThreadInv'
  BY <1>3, <1>4, Moved DEF TInv
<1>6. StoreInv'
  BY DEF Begin, store, TInv, StoreInv
<1>7. excuse' \in [Keys -> Nat]
  BY DEF Begin, Excused, TInv, HistoryInv
<1>8. HistoryInv'
  BY <1>7, RewardsAssumption DEF Begin, TInv, HistoryInv
<1>9. QED
  BY <1>5, <1>6, <1>8 DEF TInv

\* Quiet steps leave the histories alone.
LEMMA QuietHistory ==
    ASSUME HistoryInv, Quiet
    PROVE  HistoryInv' /\ day' = day
BY DEF HistoryInv, Quiet, history

LEMMA CreditHistory ==
    ASSUME TInv, NEW t \in Threads, pc[t] # "idle", Credit(t)
    PROVE  HistoryInv' /\ day' = day
<1>1. job[t].key \in Keys
  BY Busily DEF TInv
<1>2. paid' \in [Keys -> Nat]
  BY <1>1 DEF Credit, TInv, HistoryInv
<1>3. QED
  BY <1>2 DEF Credit, TInv, HistoryInv

LEMMA StoreSame ==
    ASSUME StoreInv, UNCHANGED store
    PROVE  StoreInv'
BY DEF StoreInv, store

\* The prizes that a request may draw.
LEMMA Prizes ==
    ASSUME NEW n \in Nat, NEW m \in Nat
    PROVE  /\ Smaller(n, m) \in Nat
           /\ Smaller(n, m) <= n /\ Smaller(n, m) <= m
           /\ \A x \in Nat : x <= n /\ x <= m => x <= Smaller(n, m)
BY DEF Smaller

LEMMA LookTypes ==
    ASSUME TInv, NEW t \in Threads, Look(t)
    PROVE  TInv'
<1>1. /\ pc[t] = "look" /\ job[t].key[1] \in ClaimKinds \cup {"quiz"}
      /\ Fits("look", job[t], day)
  BY Busily DEF Look, TInv, Fits
<1>2. HistoryInv' /\ StoreInv' /\ day' = day
  BY QuietHistory, StoreSame DEF Look, TInv
<1>3. ThreadInv'
  <2>1. CASE Leave(t)
    BY <1>2, <2>1, LeaveSound DEF TInv
  <2>2. CASE Goto(t, AfterLook(job[t].key[1])) /\ UNCHANGED job
    <3>1. /\ AfterLook(job[t].key[1]) \in {"mark", "stock", "pay"}
          /\ Fits(AfterLook(job[t].key[1]), job[t], day)
      BY <1>1 DEF AfterLook, Fits, SignSteps, MonthSteps
    <3>2. AfterLook(job[t].key[1]) \in Steps \ {"idle"}
      BY <3>1 DEF Steps
    <3>3. QED
      BY <1>1, <1>2, <2>2, <3>1, <3>2, GotoSound DEF TInv
  <2>3. QED
    BY <2>1, <2>2 DEF Look
<1>4. QED
  BY <1>2, <1>3 DEF TInv

LEMMA MarkTypes ==
    ASSUME TInv, NEW t \in Threads, Mark(t)
    PROVE  TInv'
<1>1. /\ pc[t] = "mark" /\ job[t].key \in Keys /\ job[t].key[1] = "code"
      /\ Fits("mark", job[t], day)
  BY Busily DEF Mark, TInv, Fits
<1>2. HistoryInv' /\ day' = day
  BY QuietHistory DEF Mark, TInv
<1>3. job[t].key \in ClaimKeys
  BY <1>1 DEF ClaimKeys, ClaimKinds
<1>4. StoreInv'
  BY <1>3 DEF Mark, TInv, StoreInv
<1>5. Fits("pay", job[t], day)
  BY <1>1 DEF Fits, SignSteps, MonthSteps, ClaimKinds
<1>6. ThreadInv'
  BY <1>1, <1>2, <1>5, GotoSound DEF Mark, TInv, Steps
<1>7. QED
  BY <1>2, <1>4, <1>6 DEF TInv

LEMMA PayTypes ==
    ASSUME TInv, NEW t \in Threads, Pay(t)
    PROVE  TInv'
<1> DEFINE k == job[t].key
<1>1. /\ pc[t] = "pay" /\ k \in Keys /\ k[1] \in ClaimKinds \cup {"quiz"}
  BY Busily DEF Pay, TInv, Fits
<1>2. HistoryInv' /\ day' = day
  BY <1>1, CreditHistory DEF Pay
<1>3. k[2] \in Users /\ (k[1] = "quiz" => k[3] \in 0..MaxDay)
  BY <1>1, KeyForm DEF DailyKinds, Days
<1>4. k[1] # "quiz" => k \in ClaimKeys
  BY <1>1 DEF ClaimKeys
<1>5. /\ marks' = (IF k[1] \in {"quiz", "code"} THEN marks ELSE marks \cup {k})
      /\ quizDate' = (IF k[1] = "quiz" THEN [quizDate EXCEPT ![k[2]] = k[3]]
                                       ELSE quizDate)
      /\ ready' = (IF k[1] = "share" THEN ready \ {k[2]}
                   ELSE IF k[1] = "callback" THEN ready \cup {k[2]} ELSE ready)
      /\ UNCHANGED <<given, signed, number, receive>>
      /\ Leave(t)
  BY DEF Pay
<1> HIDE DEF k
<1>6. StoreInv'
  BY <1>3, <1>4, <1>5 DEF TInv, StoreInv
<1>7. ThreadInv'
  BY <1>2, <1>5, LeaveSound DEF TInv
<1>8. QED
  BY <1>2, <1>6, <1>7 DEF TInv

LEMMA StockTypes ==
    ASSUME TInv, NEW t \in Threads, Stock(t)
    PROVE  TInv'
<1> DEFINE n == Smaller(job[t].n, PrizesLeft(Day(t)))
           j == [job[t] EXCEPT !.n = n]
           s == IF n = 0 THEN "pay" ELSE "draw"
<1>1. /\ pc[t] = "stock" /\ job[t] \in Jobs /\ job[t].n \in Nat
      /\ job[t].key \in Keys /\ job[t].key[1] = "quiz"
      /\ job[t].n <= MaxCorrect /\ job[t].key[3] <= day
  BY Busily DEF Stock, TInv, Fits
<1>2. HistoryInv' /\ StoreInv' /\ day' = day
  BY QuietHistory, StoreSame DEF Stock, TInv
<1>3. Day(t) \in Days
  BY <1>1, KeyForm DEF Day, DailyKinds
<1>4. PrizesLeft(Day(t)) \in Nat /\ PrizesLeft(Day(t)) <= Max
  BY <1>3, RewardsAssumption DEF PrizesLeft, TInv, StoreInv
<1>5. n \in Nat /\ n <= job[t].n /\ n <= Max
  BY <1>1, <1>4, RewardsAssumption DEF Smaller
<1>6. n <= Smaller(Max, MaxCorrect)
  BY <1>1, <1>5, RewardsAssumption DEF Smaller
<1>7. pc' = [pc EXCEPT ![t] = s] /\ job' = [job EXCEPT ![t] = j]
  BY DEF Stock, Goto
<1>8. s \in {"pay", "draw"} /\ (s = "draw" => n # 0)
  OBVIOUS
<1> HIDE DEF n, s
<1>9. j \in Jobs /\ j.key = job[t].key /\ j.n = n
  BY <1>1, <1>5 DEF Jobs
<1> HIDE DEF j
<1>10. Fits(s, j, day)
  BY <1>1, <1>5, <1>6, <1>8, <1>9, RewardsAssumption
  DEF Fits, SignSteps, MonthSteps
<1>11. Sound(s, j, day)
  BY <1>8, <1>9, <1>10 DEF Sound, Steps
<1>12. ThreadInv'
  BY <1>2, <1>7, <1>11, Moved DEF TInv
<1>13. QED
  BY <1>2, <1>12 DEF TInv

LEMMA DrawTypes ==
    ASSUME TInv, NEW t \in Threads, Draw(t)
    PROVE  TInv'
<1> DEFINE j == [job[t] EXCEPT !.n = job[t].n - 1]
           s == IF job[t].n = 1 THEN "pay" ELSE "draw"
<1>1. /\ pc[t] = "draw" /\ job[t] \in Jobs /\ job[t].n \in Nat
      /\ job[t].key \in Keys /\ job[t].key[1] = "quiz"
      /\ job[t].n <= MaxCorrect /\ job[t].key[3] <= day
      /\ job[t].n \in 1..Smaller(Max, MaxCorrect)
  BY Busily DEF Draw, TInv, Fits
<1>2. HistoryInv' /\ day' = day
  BY QuietHistory DEF Draw, TInv
<1>3. Day(t) \in Days
  BY <1>1, KeyForm DEF Day, DailyKinds
<1>4. StoreInv'
  BY <1>3 DEF Draw, TInv, StoreInv
<1>5. pc' = [pc EXCEPT ![t] = s] /\ job' = [job EXCEPT ![t] = j]
  BY DEF Draw, Goto
<1>6. s \in {"pay", "draw"} /\ (s = "draw" => job[t].n # 1)
  OBVIOUS
<1> HIDE DEF s
<1>7. j \in Jobs /\ j.key = job[t].key /\ j.n = job[t].n - 1
  BY <1>1 DEF Jobs
<1> HIDE DEF j
<1>8. Smaller(Max, MaxCorrect) \in Nat
  BY Prizes, RewardsAssumption
<1>9. Fits(s, j, day)
  BY <1>1, <1>6, <1>7, <1>8, RewardsAssumption DEF Fits, SignSteps, MonthSteps
<1>10. Sound(s, j, day)
  BY <1>6, <1>7, <1>9 DEF Sound, Steps
<1>11. ThreadInv'
  BY <1>2, <1>5, <1>10, Moved DEF TInv
<1>12. QED
  BY <1>2, <1>4, <1>11 DEF TInv

LEMMA ReadTypes ==
    ASSUME TInv, NEW t \in Threads, Read(t)
    PROVE  TInv'
<1>1. /\ pc[t] = "read" /\ job[t] \in Jobs
      /\ job[t].key \in Keys /\ job[t].key[1] = "sign"
  BY Busily DEF Read, TInv, Fits, SignSteps
<1>2. HistoryInv' /\ StoreInv' /\ day' = day
  BY QuietHistory, StoreSame DEF Read, TInv
<1>3. Day(t) \in Days
  BY <1>1, KeyForm DEF Day, DailyKinds
<1>4. signed[Day(t)] \subseteq Users
  BY <1>3 DEF TInv, StoreInv
<1>5. ThreadInv'
  <2>1. CASE Leave(t)
    BY <1>2, <2>1, LeaveSound DEF TInv
  <2>2. ASSUME NEW tools \in BOOLEAN,
               Goto(t, "enlist"),
               job' = [job EXCEPT ![t] = [job[t] EXCEPT !.seen = signed[Day(t)],
                                                        !.tools = tools]]
        PROVE  ThreadInv'
    <3> DEFINE j == [job[t] EXCEPT !.seen = signed[Day(t)], !.tools = tools]
    <3>1. j \in Jobs /\ j.key = job[t].key /\ j.seen = signed[Day(t)]
      BY <1>1, <1>4, <2>2 DEF Jobs
    <3>2. pc' = [pc EXCEPT ![t] = "enlist"] /\ job' = [job EXCEPT ![t] = j]
      BY <2>2 DEF Goto
    <3> HIDE DEF j
    <3>3. Fits("enlist", j, day)
      BY <1>1, <1>4, <3>1 DEF Fits, SignSteps, MonthSteps
    <3>4. Sound("enlist", j, day)
      BY <3>1, <3>3 DEF Sound, Steps
    <3>5. QED
      BY <1>2, <3>2, <3>4, Moved DEF TInv
  <2>3. QED
    BY <2>1, <2>2 DEF Read
<1>6. QED
  BY <1>2, <1>5 DEF TInv

\* What a request for a day's sign-in knows.
LEMMA SignKnows ==
    ASSUME TInv, NEW t \in Threads, pc[t] \in SignSteps
    PROVE  /\ pc[t] # "idle" /\ job[t] \in Jobs
           /\ job[t].key \in Keys /\ job[t].key[1] = "sign"
           /\ User(t) \in Users /\ Day(t) \in Days
           /\ job[t].seen \subseteq Users
           /\ job[t].key = <<"sign", User(t), Day(t)>>
           /\ Fits(pc[t], job[t], day)
<1>1. pc[t] # "idle"
  BY DEF SignSteps
<1>2. /\ job[t] \in Jobs /\ job[t].key \in Keys /\ job[t].key[1] = "sign"
      /\ job[t].seen \subseteq Users /\ Fits(pc[t], job[t], day)
  BY <1>1, Busily DEF TInv, Fits
<1>3. QED
  BY <1>1, <1>2, KeyForm DEF User, Day, DailyKinds

LEMMA EnlistTypes ==
    ASSUME TInv, NEW t \in Threads, Enlist(t)
    PROVE  TInv'
<1>1. /\ pc[t] = "enlist" /\ pc[t] # "idle" /\ job[t].key[1] = "sign"
      /\ User(t) \in Users /\ Day(t) \in Days /\ job[t].seen \subseteq Users
  BY SignKnows DEF Enlist, SignSteps
<1>2. HistoryInv' /\ day' = day
  BY QuietHistory DEF Enlist, TInv
<1>3. StoreInv'
  BY <1>1 DEF Enlist, Enlisted, TInv, StoreInv
<1>4. Fits("reread", job[t], day) /\ Fits("number", job[t], day)
  BY <1>1 DEF Fits, SignSteps, MonthSteps
<1>5. ThreadInv'
  <2>1. PICK s \in {"reread", "number"} : Goto(t, s)
    BY DEF Enlist
  <2>2. QED
    BY <1>1, <1>2, <1>4, <2>1, GotoSound DEF Enlist, TInv, Steps
<1>6. QED
  BY <1>2, <1>3, <1>5 DEF TInv

LEMMA RereadTypes ==
    ASSUME TInv, NEW t \in Threads, Reread(t)
    PROVE  TInv'
<1> DEFINE j == [job[t] EXCEPT !.seen = signed[Day(t)], !.own = (Day(t) = day)]
<1>1. /\ pc[t] = "reread" /\ job[t] \in Jobs
      /\ job[t].key[1] = "sign" /\ Day(t) \in Days
  BY SignKnows DEF Reread, SignSteps
<1>2. HistoryInv' /\ StoreInv' /\ day' = day
  BY QuietHistory, StoreSame DEF Reread, TInv
<1>3. signed[Day(t)] \subseteq Users
  BY <1>1 DEF TInv, StoreInv
<1>4. j \in Jobs /\ j.key = job[t].key /\ j.seen = signed[Day(t)]
  BY <1>1, <1>3 DEF Jobs
<1>5. pc' = [pc EXCEPT ![t] = "number"] /\ job' = [job EXCEPT ![t] = j]
  BY DEF Reread, Goto
<1> HIDE DEF j
<1>6. Fits("number", j, day)
  BY <1>1, <1>3, <1>4 DEF Fits, SignSteps, MonthSteps
<1>7. Sound("number", j, day)
  BY <1>4, <1>6 DEF Sound, Steps
<1>8. ThreadInv'
  BY <1>2, <1>5, <1>7, Moved DEF TInv
<1>9. QED
  BY <1>2, <1>8 DEF TInv

LEMMA NumberTypes ==
    ASSUME TInv, NEW t \in Threads, Number(t)
    PROVE  TInv'
<1> DEFINE j == [job[t] EXCEPT !.n = number[User(t)]]
<1>1. /\ pc[t] = "number" /\ job[t] \in Jobs /\ job[t].key[1] = "sign"
      /\ User(t) \in Users /\ job[t].seen \subseteq Users
  BY SignKnows DEF Number, SignSteps
<1>2. HistoryInv' /\ StoreInv' /\ day' = day
  BY QuietHistory, StoreSame DEF Number, TInv
<1>3. number[User(t)] \in Nat
  BY <1>1 DEF TInv, StoreInv
<1>4. j \in Jobs /\ j.key = job[t].key /\ j.seen = job[t].seen
  BY <1>1, <1>3 DEF Jobs
<1>5. pc' = [pc EXCEPT ![t] = "count"] /\ job' = [job EXCEPT ![t] = j]
  BY DEF Number, Goto
<1> HIDE DEF j
<1>6. Fits("count", j, day)
  BY <1>1, <1>4 DEF Fits, SignSteps, MonthSteps
<1>7. Sound("count", j, day)
  BY <1>4, <1>6 DEF Sound, Steps
<1>8. ThreadInv'
  BY <1>2, <1>5, <1>7, Moved DEF TInv
<1>9. QED
  BY <1>2, <1>8 DEF TInv

LEMMA CountTypes ==
    ASSUME TInv, NEW t \in Threads, Count(t)
    PROVE  TInv'
<1>1. /\ pc[t] = "count" /\ pc[t] # "idle" /\ job[t].key[1] = "sign"
      /\ User(t) \in Users /\ job[t].seen \subseteq Users
  BY SignKnows DEF Count, SignSteps
<1>2. HistoryInv' /\ day' = day
  BY QuietHistory DEF Count, TInv
<1>3. StoreInv'
  BY <1>1 DEF Count, Counted, TInv, StoreInv
<1>4. Fits("grant", job[t], day)
  BY <1>1 DEF Fits, SignSteps, MonthSteps
<1>5. ThreadInv'
  BY <1>1, <1>2, <1>4, GotoSound DEF Count, TInv, Steps
<1>6. QED
  BY <1>2, <1>3, <1>5 DEF TInv

LEMMA GrantTypes ==
    ASSUME TInv, NEW t \in Threads, Grant(t)
    PROVE  TInv'
<1>1. /\ pc[t] = "grant" /\ pc[t] # "idle"
      /\ User(t) \in Users /\ Day(t) \in Days /\ job[t].seen \subseteq Users
  BY SignKnows DEF Grant, SignSteps
<1>2. HistoryInv' /\ day' = day
  BY <1>1, CreditHistory DEF Grant
<1>3. StoreInv'
  BY <1>1 DEF Grant, Enlisted, TInv, StoreInv
<1>4. ThreadInv'
  BY <1>2, LeaveSound DEF Grant, TInv
<1>5. QED
  BY <1>2, <1>3, <1>4 DEF TInv

LEMMA GrantToolsTypes ==
    ASSUME TInv, NEW t \in Threads, GrantTools(t)
    PROVE  TInv'
<1>1. job[t].key \in Keys
  BY SignKnows DEF GrantTools, SignSteps
<1>2. StoreInv' /\ day' = day
  BY StoreSame DEF GrantTools, TInv
<1>3. HistoryInv'
  BY <1>1 DEF GrantTools, Forfeit, TInv, HistoryInv
<1>4. ThreadInv'
  BY <1>2, LeaveSound DEF GrantTools, TInv
<1>5. QED
  BY <1>2, <1>3, <1>4 DEF TInv

\* What a request for a goal of the month knows.
LEMMA MonthKnows ==
    ASSUME TInv, NEW t \in Threads, pc[t] \in MonthSteps
    PROVE  /\ pc[t] # "idle" /\ job[t] \in Jobs
           /\ job[t].key \in Keys /\ job[t].key[1] = "month"
           /\ User(t) \in Users /\ Day(t) \in Goals
           /\ job[t].seen \subseteq Goals
           /\ job[t].key = <<"month", User(t), Day(t)>>
           /\ Fits(pc[t], job[t], day)
<1>1. pc[t] # "idle"
  BY DEF MonthSteps
<1>2. /\ job[t] \in Jobs /\ job[t].key \in Keys /\ job[t].key[1] = "month"
      /\ job[t].seen \subseteq Goals /\ Fits(pc[t], job[t], day)
  BY <1>1, Busily DEF TInv, Fits
<1>3. QED
  BY <1>1, <1>2, KeyForm DEF User, Day, DailyKinds

LEMMA ReadGoalsTypes ==
    ASSUME TInv, NEW t \in Threads, ReadGoals(t)
    PROVE  TInv'
<1> DEFINE j == [job[t] EXCEPT !.seen = receive[User(t)]]
<1>1. /\ pc[t] = "goals" /\ job[t] \in Jobs /\ job[t].key[1] = "month"
      /\ User(t) \in Users
  BY MonthKnows DEF ReadGoals, MonthSteps
<1>2. HistoryInv' /\ StoreInv' /\ day' = day
  BY QuietHistory, StoreSame DEF ReadGoals, TInv
<1>3. receive[User(t)] \subseteq Goals
  BY <1>1 DEF TInv, StoreInv
<1>4. j \in Jobs /\ j.key = job[t].key /\ j.seen = receive[User(t)]
  BY <1>1, <1>3 DEF Jobs
<1>5. pc' = [pc EXCEPT ![t] = "ripe"] /\ job' = [job EXCEPT ![t] = j]
  BY DEF ReadGoals, Goto
<1> HIDE DEF j
<1>6. Fits("ripe", j, day)
  BY <1>1, <1>3, <1>4 DEF Fits, SignSteps, MonthSteps
<1>7. Sound("ripe", j, day)
  BY <1>4, <1>6 DEF Sound, Steps
<1>8. ThreadInv'
  BY <1>2, <1>5, <1>7, Moved DEF TInv
<1>9. QED
  BY <1>2, <1>8 DEF TInv

LEMMA RipeTypes ==
    ASSUME TInv, NEW t \in Threads, Ripe(t)
    PROVE  TInv'
<1>1. /\ pc[t] = "ripe" /\ pc[t] # "idle" /\ job[t].key[1] = "month"
      /\ job[t].seen \subseteq Goals
  BY MonthKnows DEF Ripe, MonthSteps
<1>2. HistoryInv' /\ StoreInv' /\ day' = day
  BY QuietHistory, StoreSame DEF Ripe, TInv
<1>3. Fits("credit", job[t], day)
  BY <1>1 DEF Fits, SignSteps, MonthSteps
<1>4. ThreadInv'
  <2>1. CASE Leave(t)
    BY <1>2, <2>1, LeaveSound DEF TInv
  <2>2. CASE Goto(t, "credit") /\ UNCHANGED job
    BY <1>1, <1>2, <1>3, <2>2, GotoSound DEF TInv, Steps
  <2>3. QED
    BY <2>1, <2>2 DEF Ripe
<1>5. QED
  BY <1>2, <1>4 DEF TInv

LEMMA CreditGoalTypes ==
    ASSUME TInv, NEW t \in Threads, CreditGoal(t)
    PROVE  TInv'
<1>1. /\ pc[t] = "credit" /\ pc[t] # "idle" /\ job[t].key[1] = "month"
      /\ job[t].seen \subseteq Goals
  BY MonthKnows DEF CreditGoal, MonthSteps
<1>2. HistoryInv' /\ StoreInv' /\ day' = day
  BY <1>1, CreditHistory, StoreSame DEF CreditGoal, TInv
<1>3. Fits("store", job[t], day)
  BY <1>1 DEF Fits, SignSteps, MonthSteps
<1>4. ThreadInv'
  BY <1>1, <1>2, <1>3, GotoSound DEF CreditGoal, TInv, Steps
<1>5. QED
  BY <1>2, <1>4 DEF TInv

LEMMA StoreGoalsTypes ==
    ASSUME TInv, NEW t \in Threads, StoreGoals(t)
    PROVE  TInv'
<1>1. /\ pc[t] = "store" /\ User(t) \in Users /\ Day(t) \in Goals
      /\ job[t].seen \subseteq Goals
  BY MonthKnows DEF StoreGoals, MonthSteps
<1>2. HistoryInv' /\ day' = day
  BY QuietHistory DEF StoreGoals, TInv
<1>3. StoreInv'
  BY <1>1 DEF StoreGoals, GoalsMarked, TInv, StoreInv
<1>4. ThreadInv'
  BY <1>2, LeaveSound DEF StoreGoals, TInv
<1>5. QED
  BY <1>2, <1>3, <1>4 DEF TInv

LEMMA MidnightTypes ==
    ASSUME TInv, Midnight
    PROVE  TInv'
<1>1. StoreInv' /\ UNCHANGED <<pc, job, paid, excuse, lost, served>>
  BY StoreSame DEF Midnight, TInv, history
<1>2. HistoryInv' /\ day \in Nat /\ day' = day + 1
  BY <1>1, RewardsAssumption DEF Midnight, TInv, HistoryInv, Days
<1>3. ASSUME NEW t \in Threads, pc[t] # "idle"
      PROVE  Fits(pc[t], job[t], day + 1)
  <2>1. Fits(pc[t], job[t], day) /\ job[t].key \in Keys
    BY <1>3, Busily DEF TInv
  <2>2. job[t].key[1] = "quiz" => job[t].key[3] \in Nat
    BY <2>1, KeyForm DEF DailyKinds, Days
  <2>3. QED
    BY <1>2, <2>1, <2>2 DEF Fits
<1>4. ASSUME NEW t \in Threads
      PROVE  Sound(pc[t], job[t], day + 1)
  BY <1>3, <1>4 DEF Sound, TInv, ThreadInv
<1>5. ThreadInv'
  BY <1>1, <1>2, <1>4 DEF TInv, ThreadInv
<1>6. QED
  BY <1>1, <1>2, <1>5 DEF TInv

LEMMA CrashTypes ==
    ASSUME TInv, NEW t \in Threads, Crash(t)
    PROVE  TInv'
<1>1. job[t].key \in Keys
  BY Busily DEF Crash, TInv
<1>2. StoreInv' /\ day' = day
  BY StoreSame DEF Crash, TInv
<1>3. excuse' \in [Keys -> Nat]
  BY DEF Crash, Excused, TInv, HistoryInv
<1>4. HistoryInv'
  BY <1>1, <1>3 DEF Crash, Forfeit, TInv, HistoryInv
<1>5. ThreadInv'
  BY <1>2, LeaveSound DEF Crash, TInv
<1>6. QED
  BY <1>2, <1>4, <1>5 DEF TInv

\* The request with which a thread begins, whatever the handler.
Asked(t, k, n, s) ==
    /\ k \in Keys /\ n \in Nat /\ s \in {"look", "read", "goals"}
    /\ Begin(t, k, n, s)
    /\ s = "look" => k[1] \in ClaimKinds \cup {"quiz"}
    /\ s = "read" => k[1] = "sign"
    /\ s = "goals" => k[1] = "month"
    /\ k[1] = "quiz" => n <= MaxCorrect /\ k[3] = day

LEMMA AskBegins ==
    ASSUME TInv, NEW t \in Threads, Ask(t)
    PROVE  \E k, n, s : Asked(t, k, n, s)
<1>1. PICK u \in Users :
        \/ GetShareReward(t, u)
        \/ ShareCallback(t, u)
        \/ SurverAnswer(t, u)
        \/ ExchageCode(t, u)
        \/ \E c \in 1..MaxCorrect : QuestionAnswer(t, u, c)
        \/ \E d \in Days : DoSign(t, u, d)
        \/ \E g \in Goals : DoSignMonth(t, u, g)
  BY DEF Ask
<1>2. /\ \A x \in {"share", "callback", "quiz"} : <<x, u, day>> \in Keys
      /\ \A d \in Days : <<"sign", u, d>> \in Keys
      /\ \A x \in {"survey", "code"} : <<x, u, 0>> \in Keys
      /\ \A g \in Goals : <<"month", u, g>> \in Keys
  BY KeyMade DEF DailyKinds, OnceKinds, TInv, HistoryInv
<1>3. CASE GetShareReward(t, u)
  <2>1. Asked(t, <<"share", u, day>>, 0, "look")
    BY <1>2, <1>3 DEF GetShareReward, Asked, ClaimKinds
  <2>2. QED
    BY <2>1
<1>4. CASE ShareCallback(t, u)
  <2>1. Asked(t, <<"callback", u, day>>, 0, "look")
    BY <1>2, <1>4 DEF ShareCallback, Asked, ClaimKinds
  <2>2. QED
    BY <2>1
<1>5. CASE SurverAnswer(t, u)
  <2>1. Asked(t, <<"survey", u, 0>>, 0, "look")
    BY <1>2, <1>5 DEF SurverAnswer, Asked, ClaimKinds
  <2>2. QED
    BY <2>1
<1>6. CASE ExchageCode(t, u)
  <2>1. Asked(t, <<"code", u, 0>>, 0, "look")
    BY <1>2, <1>6 DEF ExchageCode, Asked, ClaimKinds
  <2>2. QED
    BY <2>1
<1>7. ASSUME NEW c \in 1..MaxCorrect, QuestionAnswer(t, u, c)
      PROVE  Asked(t, <<"quiz", u, day>>, c, "look")
  BY <1>2, <1>7, RewardsAssumption DEF QuestionAnswer, Asked
<1>8. ASSUME NEW d \in Days, DoSign(t, u, d)
      PROVE  Asked(t, <<"sign", u, d>>, 0, "read")
  BY <1>2, <1>8 DEF DoSign, Asked
<1>9. ASSUME NEW g \in Goals, DoSignMonth(t, u, g)
      PROVE  Asked(t, <<"month", u, g>>, 0, "goals")
  BY <1>2, <1>9 DEF DoSignMonth, Asked
<1>10. QED
  BY <1>1, <1>3, <1>4, <1>5, <1>6, <1>7, <1>8, <1>9

LEMMA AskedTypes ==
    ASSUME TInv, NEW t \in Threads, NEW k, NEW n, NEW s, Asked(t, k, n, s)
    PROVE  TInv'
<1>1. day \in Nat
  BY RewardsAssumption DEF TInv, HistoryInv, Days
<1>2. k[1] = "quiz" => n <= MaxCorrect /\ k[3] <= day
  BY <1>1 DEF Asked
<1>3. QED
  BY <1>2, BeginTypes DEF Asked

LEMMA InitTypes == Init => TInv
<1>1. SUFFICES ASSUME Init PROVE TInv
  OBVIOUS
<1>2. ASSUME NEW t \in Threads
      PROVE  Sound(pc[t], job[t], day)
  BY <1>1 DEF Init, Sound
<1>3. ThreadInv
  BY <1>1, <1>2 DEF Init, ThreadInv, Steps
<1>4. StoreInv
  BY <1>1, RewardsAssumption DEF Init, StoreInv
<1>5. HistoryInv
  BY <1>1, RewardsAssumption DEF Init, HistoryInv, Days
<1>6. QED
  BY <1>3, <1>4, <1>5 DEF TInv

LEMMA TInvNext == TInv /\ [Next]_vars => TInv'
<1>1. SUFFICES ASSUME TInv, [Next]_vars PROVE TInv'
  OBVIOUS
<1>2. CASE UNCHANGED vars
  BY <1>1, <1>2 DEF vars, store, history, TInv, StoreInv, HistoryInv, ThreadInv
<1>3. CASE Midnight
  BY <1>1, <1>3, MidnightTypes
<1>4. ASSUME NEW t \in Threads, Ask(t)
      PROVE  TInv'
  BY <1>1, <1>4, AskBegins, AskedTypes
<1>5. ASSUME NEW t \in Threads, Work(t)
      PROVE  TInv'
  BY <1>1, <1>5, LookTypes, MarkTypes, PayTypes, StockTypes, DrawTypes,
     ReadTypes, EnlistTypes, RereadTypes, NumberTypes, CountTypes, GrantTypes,
     GrantToolsTypes, ReadGoalsTypes, RipeTypes, CreditGoalTypes, StoreGoalsTypes DEF Work
<1>6. ASSUME NEW t \in Threads, Crash(t)
      PROVE  TInv'
  BY <1>1, <1>6, CrashTypes
<1>7. QED
  BY <1>1, <1>2, <1>3, <1>4, <1>5, <1>6 DEF Next

----------------------------------------------------------------------------
(* What each step changes *)

\* Only thread t moves.
Only(t) == \A x \in Threads : x # t => pc'[x] = pc[x] /\ job'[x] = job[x]

\* Thread t moves to step s with its request unchanged, or ends it.
At(t, s) == Only(t) /\ pc'[t] = s /\ job'[t] = job[t]
Over(t) == Only(t) /\ pc'[t] = "idle" /\ job'[t] = NoJob

\* Thread t moves to step s, and remembers something.
On(t, s) == Only(t) /\ pc'[t] = s /\ job'[t].key = job[t].key

LEMMA GotoAt ==
    ASSUME ThreadInv, NEW t \in Threads, NEW s, Goto(t, s), UNCHANGED job
    PROVE  At(t, s)
BY DEF Goto, At, Only, ThreadInv

LEMMA LeaveOver ==
    ASSUME ThreadInv, NEW t \in Threads, Leave(t)
    PROVE  Over(t)
BY DEF Leave, Over, Only, ThreadInv

LEMMA LookDoes ==
    ASSUME TInv, NEW t \in Threads, Look(t)
    PROVE  /\ pc[t] = "look" /\ UNCHANGED store /\ Quiet
           /\ job[t].key \in Keys /\ job[t].key[1] \in ClaimKinds \cup {"quiz"}
           /\ \/ IsMarked(job[t].key) /\ Over(t)
              \/ /\ ~IsMarked(job[t].key)
                 /\ At(t, AfterLook(job[t].key[1]))
<1>1. /\ pc[t] = "look" /\ job[t].key \in Keys
      /\ job[t].key[1] \in ClaimKinds \cup {"quiz"}
  BY Busily DEF Look, TInv, Fits
<1>2. IsMarked(job[t].key) <=> Marked(job[t].key)
  BY <1>1 DEF IsMarked, Marked, ClaimKinds
<1>3. Marked(job[t].key) => Over(t)
  BY LeaveOver DEF Look, TInv
<1>4. ~Marked(job[t].key) => At(t, AfterLook(job[t].key[1]))
  BY GotoAt DEF Look, TInv
<1>5. QED
  BY <1>1, <1>2, <1>3, <1>4 DEF Look

LEMMA MarkDoes ==
    ASSUME TInv, NEW t \in Threads, Mark(t)
    PROVE  /\ pc[t] = "mark" /\ Quiet /\ At(t, "pay")
           /\ job[t].key \in Keys /\ job[t].key[1] = "code"
           /\ marks' = marks \cup {job[t].key}
           /\ UNCHANGED <<quizDate, given, signed, number, receive>>
<1>1. pc[t] = "mark" /\ job[t].key \in Keys /\ job[t].key[1] = "code"
  BY Busily DEF Mark, TInv, Fits
<1>2. QED
  BY <1>1, GotoAt DEF Mark, TInv

LEMMA PayDoes ==
    ASSUME TInv, NEW t \in Threads, Pay(t)
    PROVE  /\ pc[t] = "pay" /\ Credit(t) /\ Over(t)
           /\ job[t].key \in Keys /\ job[t].key[1] \in ClaimKinds \cup {"quiz"}
           /\ marks' = IF job[t].key[1] \in {"quiz", "code"}
                         THEN marks ELSE marks \cup {job[t].key}
           /\ quizDate' = IF job[t].key[1] = "quiz"
                            THEN [quizDate EXCEPT ![User(t)] = Day(t)]
                            ELSE quizDate
           /\ UNCHANGED <<given, signed, number, receive>>
<1>1. /\ pc[t] = "pay" /\ job[t].key \in Keys
      /\ job[t].key[1] \in ClaimKinds \cup {"quiz"}
  BY Busily DEF Pay, TInv, Fits
<1>2. QED
  BY <1>1, LeaveOver DEF Pay, TInv, User, Day

LEMMA StockDoes ==
    ASSUME TInv, NEW t \in Threads, Stock(t)
    PROVE  /\ pc[t] = "stock" /\ UNCHANGED store /\ Quiet
           /\ job[t].key \in Keys /\ job[t].key[1] = "quiz"
           /\ LET n == Smaller(job[t].n, PrizesLeft(Day(t)))
              IN job'[t].n = n /\ On(t, IF n = 0 THEN "pay" ELSE "draw")
<1> DEFINE n == Smaller(job[t].n, PrizesLeft(Day(t)))
<1>1. pc[t] = "stock" /\ job[t].key \in Keys /\ job[t].key[1] = "quiz"
  BY Busily DEF Stock, TInv, Fits
<1>2. /\ pc' = [pc EXCEPT ![t] = IF n = 0 THEN "pay" ELSE "draw"]
      /\ job' = [job EXCEPT ![t] = [job[t] EXCEPT !.n = n]]
  BY DEF Stock, Goto
<1>3. job[t] \in Jobs
  BY <1>1, Busily DEF TInv
<1> HIDE DEF n
<1>4. job'[t] = [job[t] EXCEPT !.n = n]
  BY <1>2 DEF TInv, ThreadInv
<1>5. job'[t].n = n /\ job'[t].key = job[t].key
  BY <1>3, <1>4 DEF Jobs
<1>6. pc'[t] = (IF n = 0 THEN "pay" ELSE "draw") /\ Only(t)
  BY <1>2 DEF Only, TInv, ThreadInv
<1>7. On(t, IF n = 0 THEN "pay" ELSE "draw")
  BY <1>5, <1>6 DEF On
<1>8. QED
  BY <1>1, <1>5, <1>7 DEF Stock, n

LEMMA DrawDoes ==
    ASSUME TInv, NEW t \in Threads, Draw(t)
    PROVE  /\ pc[t] = "draw" /\ Quiet
           /\ job[t].key \in Keys /\ job[t].key[1] = "quiz"
           /\ job'[t].n = job[t].n - 1
           /\ On(t, IF job[t].n = 1 THEN "pay" ELSE "draw")
           /\ given' = [given EXCEPT ![Day(t)] = @ + 1]
           /\ UNCHANGED <<marks, quizDate, signed, number, receive>>
<1>1. pc[t] = "draw" /\ job[t].key \in Keys /\ job[t].key[1] = "quiz"
  BY Busily DEF Draw, TInv, Fits
<1>2. /\ pc' = [pc EXCEPT ![t] = IF job[t].n = 1 THEN "pay" ELSE "draw"]
      /\ job' = [job EXCEPT ![t] = [job[t] EXCEPT !.n = job[t].n - 1]]
  BY DEF Draw, Goto
<1>3. job[t] \in Jobs
  BY <1>1, Busily DEF TInv
<1>4. job'[t] = [job[t] EXCEPT !.n = job[t].n - 1]
  BY <1>2 DEF TInv, ThreadInv
<1>5. job'[t].n = job[t].n - 1 /\ job'[t].key = job[t].key
  BY <1>3, <1>4 DEF Jobs
<1>6. pc'[t] = (IF job[t].n = 1 THEN "pay" ELSE "draw") /\ Only(t)
  BY <1>2 DEF Only, TInv, ThreadInv
<1>7. QED
  BY <1>1, <1>5, <1>6 DEF Draw, On

LEMMA ReadDoes ==
    ASSUME TInv, NEW t \in Threads, Read(t)
    PROVE  /\ pc[t] = "read" /\ UNCHANGED store /\ Quiet
           /\ \/ User(t) \in signed[Day(t)] /\ Over(t)
              \/ /\ User(t) \notin signed[Day(t)]
                 /\ On(t, "enlist") /\ job'[t].seen = signed[Day(t)]
<1>1. pc[t] = "read" /\ job[t] \in Jobs
  BY SignKnows DEF Read, SignSteps
<1>2. User(t) \in signed[Day(t)] => Over(t)
  BY LeaveOver DEF Read, TInv
<1>3. CASE User(t) \notin signed[Day(t)]
  <2>1. /\ pc' = [pc EXCEPT ![t] = "enlist"]
        /\ \E tools \in BOOLEAN :
             job' = [job EXCEPT ![t] = [job[t] EXCEPT !.seen = signed[Day(t)],
                                                      !.tools = tools]]
    BY <1>3 DEF Read, Goto
  <2>2. PICK tools \in BOOLEAN :
          job'[t] = [job[t] EXCEPT !.seen = signed[Day(t)], !.tools = tools]
    BY <2>1 DEF TInv, ThreadInv
  <2>3. job'[t].seen = signed[Day(t)] /\ job'[t].key = job[t].key
    BY <1>1, <2>2 DEF Jobs
  <2>4. pc'[t] = "enlist" /\ Only(t)
    BY <2>1 DEF Only, TInv, ThreadInv
  <2>5. QED
    BY <1>1, <1>3, <2>3, <2>4 DEF Read, On
<1>4. QED
  BY <1>1, <1>2, <1>3 DEF Read

LEMMA EnlistDoes ==
    ASSUME TInv, NEW t \in Threads, Enlist(t)
    PROVE  /\ pc[t] = "enlist" /\ Quiet
           /\ At(t, "reread") \/ At(t, "number")
           /\ signed' = [signed EXCEPT ![Day(t)] = job[t].seen \cup {User(t)}]
           /\ UNCHANGED <<marks, quizDate, given, number, receive>>
<1>1. PICK s \in {"reread", "number"} : Goto(t, s)
  BY DEF Enlist
<1>2. At(t, s)
  BY <1>1, GotoAt DEF Enlist, TInv
<1>3. QED
  BY <1>2 DEF Enlist, Enlisted

LEMMA RereadDoes ==
    ASSUME TInv, NEW t \in Threads, Reread(t)
    PROVE  /\ pc[t] = "reread" /\ UNCHANGED store /\ Quiet
           /\ On(t, "number") /\ job'[t].seen = signed[Day(t)]
<1>1. pc[t] = "reread" /\ job[t] \in Jobs
  BY SignKnows DEF Reread, SignSteps
<1>2. /\ pc' = [pc EXCEPT ![t] = "number"]
      /\ job' = [job EXCEPT ![t] = [job[t] EXCEPT !.seen = signed[Day(t)],
                                                  !.own = (Day(t) = day)]]
  BY DEF Reread, Goto
<1>3. job'[t] = [job[t] EXCEPT !.seen = signed[Day(t)], !.own = (Day(t) = day)]
  BY <1>2 DEF TInv, ThreadInv
<1>4. job'[t].seen = signed[Day(t)] /\ job'[t].key = job[t].key
  BY <1>1, <1>3 DEF Jobs
<1>5. pc'[t] = "number" /\ Only(t)
  BY <1>2 DEF Only, TInv, ThreadInv
<1>6. QED
  BY <1>1, <1>4, <1>5 DEF Reread, On

LEMMA NumberDoes ==
    ASSUME TInv, NEW t \in Threads, Number(t)
    PROVE  /\ pc[t] = "number" /\ UNCHANGED store /\ Quiet
           /\ On(t, "count") /\ job'[t].seen = job[t].seen
           /\ job'[t].own = job[t].own
<1>1. pc[t] = "number" /\ job[t] \in Jobs
  BY SignKnows DEF Number, SignSteps
<1>2. /\ pc' = [pc EXCEPT ![t] = "count"]
      /\ job' = [job EXCEPT ![t] = [job[t] EXCEPT !.n = number[User(t)]]]
  BY DEF Number, Goto
<1>3. job'[t] = [job[t] EXCEPT !.n = number[User(t)]]
  BY <1>2 DEF TInv, ThreadInv
<1>4. /\ job'[t].seen = job[t].seen /\ job'[t].key = job[t].key
      /\ job'[t].own = job[t].own
  BY <1>1, <1>3 DEF Jobs
<1>5. pc'[t] = "count" /\ Only(t)
  BY <1>2 DEF Only, TInv, ThreadInv
<1>6. QED
  BY <1>1, <1>4, <1>5 DEF Number, On

LEMMA CountDoes ==
    ASSUME TInv, NEW t \in Threads, Count(t)
    PROVE  /\ pc[t] = "count" /\ Quiet /\ At(t, "grant")
           /\ number' = [number EXCEPT ![User(t)] = Counted(t)]
           /\ UNCHANGED <<marks, quizDate, given, signed, receive>>
BY GotoAt DEF Count, TInv

LEMMA GrantDoes ==
    ASSUME TInv, NEW t \in Threads, Grant(t)
    PROVE  /\ pc[t] = "grant" /\ Credit(t) /\ Over(t)
           /\ signed' = IF job[t].own
                THEN [signed EXCEPT ![Day(t)] = job[t].seen \cup {User(t)}]
                ELSE signed
           /\ UNCHANGED <<marks, quizDate, given, number, receive>>
BY LeaveOver DEF Grant, Enlisted, TInv

LEMMA GrantToolsDoes ==
    ASSUME TInv, NEW t \in Threads, GrantTools(t)
    PROVE  /\ pc[t] = "grant" /\ Over(t) /\ UNCHANGED store
           /\ job[t].key \in Keys /\ Forfeit(t)
           /\ UNCHANGED <<day, paid, excuse>>
<1>1. job[t].key \in Keys
  BY SignKnows DEF GrantTools, SignSteps
<1>2. QED
  BY <1>1, LeaveOver DEF GrantTools, TInv

LEMMA ReadGoalsDoes ==
    ASSUME TInv, NEW t \in Threads, ReadGoals(t)
    PROVE  /\ pc[t] = "goals" /\ UNCHANGED store /\ Quiet
           /\ On(t, "ripe") /\ job'[t].seen = receive[User(t)]
<1>1. pc[t] = "goals" /\ job[t] \in Jobs
  BY MonthKnows DEF ReadGoals, MonthSteps
<1>2. /\ pc' = [pc EXCEPT ![t] = "ripe"]
      /\ job' = [job EXCEPT ![t] = [job[t] EXCEPT !.seen = receive[User(t)]]]
  BY DEF ReadGoals, Goto
<1>3. job'[t] = [job[t] EXCEPT !.seen = receive[User(t)]]
  BY <1>2 DEF TInv, ThreadInv
<1>4. job'[t].seen = receive[User(t)] /\ job'[t].key = job[t].key
  BY <1>1, <1>3 DEF Jobs
<1>5. pc'[t] = "ripe" /\ Only(t)
  BY <1>2 DEF Only, TInv, ThreadInv
<1>6. QED
  BY <1>1, <1>4, <1>5 DEF ReadGoals, On

LEMMA RipeDoes ==
    ASSUME TInv, NEW t \in Threads, Ripe(t)
    PROVE  /\ pc[t] = "ripe" /\ UNCHANGED store /\ Quiet
           /\ \/ IsRipe(t) /\ At(t, "credit")
              \/ ~IsRipe(t) /\ Over(t)
BY GotoAt, LeaveOver DEF Ripe, TInv

LEMMA CreditGoalDoes ==
    ASSUME TInv, NEW t \in Threads, CreditGoal(t)
    PROVE  /\ pc[t] = "credit" /\ UNCHANGED store
           /\ Credit(t) /\ At(t, "store")
BY GotoAt DEF CreditGoal, TInv

LEMMA StoreGoalsDoes ==
    ASSUME TInv, NEW t \in Threads, StoreGoals(t)
    PROVE  /\ pc[t] = "store" /\ Quiet /\ Over(t)
           /\ receive' = [receive EXCEPT ![User(t)] = job[t].seen \cup {Day(t)}]
           /\ UNCHANGED <<marks, quizDate, given, signed, number>>
BY LeaveOver DEF StoreGoals, GoalsMarked, TInv

LEMMA CrashDoes ==
    ASSUME TInv, NEW t \in Threads, Crash(t)
    PROVE  /\ pc[t] # "idle" /\ Over(t) /\ UNCHANGED store
           /\ job[t].key \in Keys
           /\ Forfeit(t) /\ excuse' = Excused(job[t].key)
           /\ UNCHANGED <<day, paid>>
<1>1. job[t].key \in Keys
  BY Busily DEF Crash, TInv
<1>2. QED
  BY <1>1, LeaveOver DEF Crash, TInv

LEMMA AskedDoes ==
    ASSUME TInv, NEW t \in Threads, NEW k, NEW n, NEW s, Asked(t, k, n, s)
    PROVE  /\ pc[t] = "idle" /\ Only(t) /\ pc'[t] = s
           /\ job'[t] = [key |-> k, seen |-> {}, n |-> n, own |-> FALSE,
                         tools |-> FALSE]
           /\ job'[t].key = k /\ job'[t].seen = {}
           /\ excuse' = IF Busy(k) THEN Excused(k) ELSE excuse
           /\ UNCHANGED store /\ UNCHANGED <<day, paid, lost>>
<1> DEFINE j == [key |-> k, seen |-> {}, n |-> n, own |-> FALSE,
                 tools |-> FALSE]
<1>1. Begin(t, k, n, s)
  BY DEF Asked
<1>2. pc' = [pc EXCEPT ![t] = s] /\ job' = [job EXCEPT ![t] = j]
  BY <1>1 DEF Begin
<1>3. j.key = k /\ j.seen = {}
  OBVIOUS
<1> HIDE DEF j
<1>4. job'[t] = j /\ pc'[t] = s /\ Only(t)
  BY <1>2 DEF Only, TInv, ThreadInv
<1>5. QED
  BY <1>1, <1>3, <1>4 DEF Begin, j

----------------------------------------------------------------------------
(* Marks that stay *)

\* Steps that credit no such reward and take no mark away.
LEMMA ClaimSame ==
    ASSUME ClaimInv, NEW t \in Threads, Only(t), marks \subseteq marks',
           \A k \in ClaimKeys : paid'[k] = paid[k],
           pc'[t] = "pay" /\ job'[t].key[1] = "code" => job'[t].key \in marks'
    PROVE  ClaimInv'
BY DEF ClaimInv, Only

\* What a credit adds.
LEMMA CreditAdds ==
    ASSUME TInv, NEW t \in Threads, job[t].key \in Keys, Credit(t)
    PROVE  /\ \A k \in Keys :
                paid'[k] = IF k = job[t].key THEN paid[k] + 1 ELSE paid[k]
           /\ UNCHANGED <<day, excuse, lost>>
BY DEF Credit, TInv, HistoryInv

\* What a request without its credit adds.
LEMMA ForfeitAdds ==
    ASSUME TInv, NEW t \in Threads, job[t].key \in Keys, Forfeit(t)
    PROVE  \A k \in Keys :
             lost'[k] = IF k = job[t].key THEN lost[k] + 1 ELSE lost[k]
BY DEF Forfeit, TInv, HistoryInv

LEMMA ClaimNext ==
    ASSUME TInv, ClaimInv, [Next]_vars
    PROVE  ClaimInv'
<1>0. ClaimKeys \subseteq Keys
  BY DEF ClaimKeys
<1> USE DEF store, history, Quiet
<1>1. CASE UNCHANGED vars
  BY <1>1 DEF vars, ClaimInv
<1>2. CASE Midnight
  BY <1>2 DEF Midnight, ClaimInv
<1>3. ASSUME NEW t \in Threads, Ask(t)
      PROVE  ClaimInv'
  <2>1. PICK k, n, s : Asked(t, k, n, s)
    BY <1>3, AskBegins
  <2>2. s # "pay"
    BY <2>1 DEF Asked
  <2>3. pc'[t] = s /\ Only(t) /\ marks' = marks /\ paid' = paid
    BY <2>1, AskedDoes
  <2>4. QED
    BY <2>2, <2>3, ClaimSame
<1>4. ASSUME NEW t \in Threads, Crash(t)
      PROVE  ClaimInv'
  BY <1>4, CrashDoes, ClaimSame DEF Over
<1>5. ASSUME NEW t \in Threads, Work(t)
      PROVE  ClaimInv'
  <2>1. CASE Look(t)
    <3>1. pc'[t] = "pay" => job'[t].key[1] # "code"
      BY <2>1, LookDoes DEF At, Over, AfterLook
    <3>2. QED
      BY <2>1, <3>1, LookDoes, ClaimSame DEF At, Over
  <2>2. CASE Mark(t)
    BY <2>2, MarkDoes, ClaimSame DEF At
  <2>3. CASE Pay(t)
    <3>1. /\ \A k \in Keys :
               paid'[k] = IF k = job[t].key THEN paid[k] + 1 ELSE paid[k]
          /\ marks \subseteq marks'
          /\ job[t].key \in ClaimKeys => job[t].key \in marks'
          /\ pc'[t] = "idle" /\ Only(t)
      <4>1. pc[t] = "pay" /\ job[t].key \in Keys /\ Credit(t)
        BY <2>3, PayDoes
      <4>2. /\ \A k \in Keys :
                 paid'[k] = IF k = job[t].key THEN paid[k] + 1 ELSE paid[k]
        BY <4>1, CreditAdds
      <4>3. marks \subseteq marks' /\ pc'[t] = "idle" /\ Only(t)
        BY <2>3, PayDoes DEF Over
      <4>4. job[t].key \in ClaimKeys => job[t].key \in marks'
        BY <2>3, <4>1, PayDoes DEF ClaimInv, ClaimKeys, ClaimKinds
      <4>5. QED
        BY <4>2, <4>3, <4>4
    <3>2. QED
      BY <1>0, <3>1 DEF ClaimInv, Only, TInv, HistoryInv
  <2>4. CASE Stock(t)
    BY <2>4, StockDoes, ClaimSame DEF On
  <2>5. CASE Draw(t)
    BY <2>5, DrawDoes, ClaimSame DEF On
  <2>6. CASE Read(t)
    BY <2>6, ReadDoes, ClaimSame DEF On, Over
  <2>7. CASE Enlist(t)
    BY <2>7, EnlistDoes, ClaimSame DEF At
  <2>8. CASE Reread(t)
    BY <2>8, RereadDoes, ClaimSame DEF On
  <2>9. CASE Number(t)
    BY <2>9, NumberDoes, ClaimSame DEF On
  <2>10. CASE Count(t)
    BY <2>10, CountDoes, ClaimSame DEF At
  <2>11. CASE Grant(t)
    <3>1. pc[t] = "grant" /\ Credit(t) /\ pc'[t] = "idle" /\ Only(t) /\ marks' = marks
      BY <2>11, GrantDoes DEF Over
    <3>2. job[t].key \in Keys /\ job[t].key \notin ClaimKeys
      BY <3>1, SignKnows DEF SignSteps, ClaimKeys, ClaimKinds
    <3>3. \A k \in ClaimKeys : paid'[k] = paid[k]
      BY <1>0, <3>1, <3>2, CreditAdds
    <3>4. QED
      BY <3>1, <3>3, ClaimSame
  <2>12. CASE ReadGoals(t)
    BY <2>12, ReadGoalsDoes, ClaimSame DEF On
  <2>13. CASE Ripe(t)
    BY <2>13, RipeDoes, ClaimSame DEF At, Over
  <2>14. CASE CreditGoal(t)
    <3>1. /\ pc[t] = "credit" /\ Credit(t) /\ pc'[t] = "store" /\ Only(t)
          /\ marks' = marks
      BY <2>14, CreditGoalDoes DEF At
    <3>2. job[t].key \in Keys /\ job[t].key \notin ClaimKeys
      BY <3>1, MonthKnows DEF MonthSteps, ClaimKeys, ClaimKinds
    <3>3. \A k \in ClaimKeys : paid'[k] = paid[k]
      BY <1>0, <3>1, <3>2, CreditAdds
    <3>4. QED
      BY <3>1, <3>3, ClaimSame
  <2>15. CASE StoreGoals(t)
    BY <2>15, StoreGoalsDoes, ClaimSame DEF Over
  <2>16. CASE GrantTools(t)
    BY <2>16, GrantToolsDoes, ClaimSame DEF Over
  <2>17. QED
    BY <1>5, <2>1, <2>2, <2>3, <2>4, <2>5, <2>6, <2>7, <2>8, <2>9, <2>10,
       <2>11, <2>12, <2>13, <2>14, <2>15, <2>16 DEF Work
<1>6. QED
  BY <1>1, <1>2, <1>3, <1>4, <1>5 DEF Next

----------------------------------------------------------------------------
(* Second credits *)

\* The sets of requests and their numbers.
LEMMA Sets ==
    ASSUME NEW k
    PROVE  /\ Near(k) \subseteq Threads /\ Mine(k) \subseteq Threads
           /\ Open(k) \subseteq Near(k) /\ Late(k) \subseteq Mine(k)
           /\ Open(k) \subseteq Threads
           /\ Cardinality(Near(k)) \in Nat /\ Cardinality(Mine(k)) \in Nat
           /\ Cardinality(Open(k)) \in Nat
<1>1. /\ Near(k) \subseteq Threads /\ Mine(k) \subseteq Threads
      /\ Open(k) \subseteq Near(k) /\ Late(k) \subseteq Mine(k)
  BY DEF Near, Mine, Open, Late
<1>2. QED
  BY <1>1, ThreadSets

LEMMA MineNear ==
    ASSUME NEW k \in Keys
    PROVE  Mine(k) \subseteq Near(k) /\ Cardinality(Mine(k)) <= Cardinality(Near(k))
<1>1. Mine(k) \subseteq Near(k)
  BY DEF Mine, Near, Group
<1>2. QED
  BY <1>1, Sets, SubsetNumber

LEMMA OpenNear ==
    ASSUME NEW k
    PROVE  Cardinality(Open(k)) <= Cardinality(Near(k))
BY Sets, SubsetNumber

\* A thread that serves rewards of another place, before and after.
LEMMA SetsApart ==
    ASSUME NEW k \in Keys, NEW t \in Threads, Only(t),
           pc[t] = "idle" \/ job[t].key \notin Group(k),
           pc'[t] = "idle" \/ job'[t].key \notin Group(k)
    PROVE  /\ Near(k)' = Near(k) /\ Mine(k)' = Mine(k)
           /\ Open(k)' = Open(k) /\ Late(k)' = Late(k)
           /\ \A x \in Near(k) : Harmless(x, k)' <=> Harmless(x, k)
<1>1. k \in Group(k)
  BY DEF Group
<1>2. Near(k)' = Near(k) /\ t \notin Near(k)
  BY DEF Only, Near
<1>3. Mine(k)' = Mine(k) /\ t \notin Mine(k)
  BY <1>1 DEF Only, Mine
<1>4. Open(k)' = Open(k)
  BY <1>2 DEF Only, Near, Open
<1>5. Late(k)' = Late(k)
  BY <1>3 DEF Only, Mine, Late
<1>6. ASSUME NEW x \in Near(k)
      PROVE  Harmless(x, k)' <=> Harmless(x, k)
  <2>1. pc'[x] = pc[x] /\ job'[x] = job[x]
    BY <1>2, <1>6 DEF Only, Near
  <2>2. QED
    BY <2>1 DEF Harmless
<1>7. QED
  BY <1>2, <1>3, <1>4, <1>5, <1>6

\* A request of the group ends.
LEMMA SetsOver ==
    ASSUME NEW k \in Keys, NEW t \in Near(k), Over(t)
    PROVE  /\ Near(k)' = Near(k) \ {t} /\ Mine(k)' = Mine(k) \ {t}
           /\ Open(k)' = Open(k) \ {t} /\ Late(k)' = Late(k) \ {t}
           /\ \A x \in Near(k) \ {t} : Harmless(x, k)' <=> Harmless(x, k)
<1>1. /\ \A x \in Threads \ {t} : pc'[x] = pc[x] /\ job'[x] = job[x]
      /\ pc'[t] = "idle" /\ t \in Threads
  BY DEF Over, Only, Near
<1>2. Near(k)' = Near(k) \ {t}
  BY <1>1 DEF Near
<1>3. Mine(k)' = Mine(k) \ {t}
  BY <1>1 DEF Mine
<1>4. Open(k)' = Open(k) \ {t}
  BY <1>1, <1>2 DEF Near, Open
<1>5. Late(k)' = Late(k) \ {t}
  BY <1>1, <1>3 DEF Mine, Late
<1>6. ASSUME NEW x \in Near(k) \ {t}
      PROVE  Harmless(x, k)' <=> Harmless(x, k)
  <2>1. pc'[x] = pc[x] /\ job'[x] = job[x]
    BY <1>1, <1>6 DEF Near
  <2>2. QED
    BY <2>1 DEF Harmless
<1>7. QED
  BY <1>2, <1>3, <1>4, <1>5, <1>6

\* A request of the group goes on.
LEMMA SetsOn ==
    ASSUME NEW k \in Keys, NEW t \in Near(k), Only(t), pc'[t] # "idle",
           job'[t].key = job[t].key
    PROVE  /\ Near(k)' = Near(k) /\ Mine(k)' = Mine(k)
           /\ Open(k)' \ {t} = Open(k) \ {t} /\ Late(k)' \ {t} = Late(k) \ {t}
           /\ \A x \in Near(k) \ {t} : Harmless(x, k)' <=> Harmless(x, k)
<1>1. /\ \A x \in Threads \ {t} : pc'[x] = pc[x] /\ job'[x] = job[x]
      /\ pc[t] # "idle" /\ t \in Threads
  BY DEF Only, Near
<1>2. Near(k)' = Near(k)
  BY <1>1 DEF Near
<1>3. Mine(k)' = Mine(k)
  BY <1>1 DEF Mine
<1>4. Open(k)' \ {t} = Open(k) \ {t}
  BY <1>1, <1>2 DEF Near, Open
<1>5. Late(k)' \ {t} = Late(k) \ {t}
  BY <1>1, <1>3 DEF Mine, Late
<1>6. ASSUME NEW x \in Near(k) \ {t}
      PROVE  Harmless(x, k)' <=> Harmless(x, k)
  <2>1. pc'[x] = pc[x] /\ job'[x] = job[x]
    BY <1>1, <1>6 DEF Near
  <2>2. QED
    BY <2>1 DEF Harmless
<1>7. QED
  BY <1>2, <1>3, <1>4, <1>5, <1>6

\* A request of the group begins.
LEMMA SetsNew ==
    ASSUME NEW k \in Keys, NEW t \in Threads, Only(t), pc[t] = "idle",
           pc'[t] \in {"look", "read", "goals"}, job'[t].key \in Group(k)
    PROVE  /\ Near(k)' = Near(k) \cup {t} /\ t \notin Near(k)
           /\ Mine(k)' \subseteq Mine(k) \cup {t} /\ t \notin Mine(k)
           /\ job'[t].key # k => Mine(k)' = Mine(k)
           /\ Open(k)' = Open(k) \cup {t} /\ t \notin Open(k)
           /\ t \notin Late(k)'
           /\ \A x \in Near(k) : Harmless(x, k)' <=> Harmless(x, k)
<1>1. \A x \in Threads \ {t} : pc'[x] = pc[x] /\ job'[x] = job[x]
  BY DEF Only
<1>2. Near(k)' = Near(k) \cup {t} /\ t \notin Near(k)
  BY <1>1 DEF Near
<1>3. /\ Mine(k)' \subseteq Mine(k) \cup {t} /\ t \notin Mine(k)
      /\ job'[t].key # k => Mine(k)' = Mine(k)
  BY <1>1 DEF Mine
<1>4. Open(k)' = Open(k) \cup {t} /\ t \notin Open(k)
  BY <1>1, <1>2 DEF Near, Open
<1>5. t \notin Late(k)'
  BY DEF Late
<1>6. ASSUME NEW x \in Near(k)
      PROVE  Harmless(x, k)' <=> Harmless(x, k)
  <2>1. pc'[x] = pc[x] /\ job'[x] = job[x]
    BY <1>1, <1>2, <1>6 DEF Near
  <2>2. QED
    BY <2>1 DEF Harmless
<1>7. QED
  BY <1>2, <1>3, <1>4, <1>5, <1>6

\* The histories count.
LEMMA Histories ==
    ASSUME TInv, NEW k \in Keys
    PROVE  paid[k] \in Nat /\ excuse[k] \in Nat /\ day \in Nat
BY DEF TInv, HistoryInv, Days

\* The day of a quiz is a number.
LEMMA QuizDay ==
    ASSUME NEW k \in Keys, k[1] = "quiz"
    PROVE  k[3] \in Nat
BY KeyForm DEF DailyKinds, Days

\* Whoever serves other rewards does no harm.
LEMMA SecondApart ==
    ASSUME NEW k \in Keys, Second(k), NEW t \in Threads, Only(t),
           pc[t] = "idle" \/ job[t].key \notin Group(k),
           pc'[t] = "idle" \/ job'[t].key \notin Group(k),
           IsMarked(k)' <=> IsMarked(k), paid'[k] = paid[k],
           excuse'[k] = excuse[k], day' = day
    PROVE  Second(k)'
<1>1. /\ Near(k)' = Near(k) /\ Mine(k)' = Mine(k)
      /\ Open(k)' = Open(k) /\ Late(k)' = Late(k)
      /\ \A x \in Near(k) : Harmless(x, k)' <=> Harmless(x, k)
  BY SetsApart
<1>2. Calm(k) => Calm(k)'
  BY <1>1 DEF Calm
<1>3. Budget(k) => Budget(k)'
  BY <1>1 DEF Budget
<1>4. QED
  BY <1>1, <1>2, <1>3 DEF Second, QuizBudget

\* A request of the group ends, and has not credited reward k.
LEMMA SecondLose ==
    ASSUME TInv, TInv', NEW k \in Keys, Second(k), NEW t \in Near(k), Over(t),
           paid'[k] = paid[k], day' = day,
           \/ excuse'[k] = excuse[k] + 1
           \/ excuse'[k] = excuse[k] /\ t \in Open(k),
           Calm(k) => IsMarked(k)'
    PROVE  Second(k)'
<1>1. /\ Near(k)' = Near(k) \ {t} /\ Mine(k)' = Mine(k) \ {t}
      /\ Open(k)' = Open(k) \ {t} /\ Late(k)' = Late(k) \ {t}
      /\ \A x \in Near(k) \ {t} : Harmless(x, k)' <=> Harmless(x, k)
  BY SetsOver
<1>2. /\ Cardinality(Near(k)') \in Nat /\ Cardinality(Mine(k)') \in Nat
      /\ Cardinality(Open(k)') \in Nat
      /\ Cardinality(Near(k)) \in Nat /\ Cardinality(Mine(k)) \in Nat
      /\ Cardinality(Open(k)) \in Nat
  BY <1>1, Sets, ThreadSets
<1>3. /\ Cardinality(Near(k)') <= Cardinality(Near(k))
      /\ Cardinality(Mine(k)') <= Cardinality(Mine(k))
      /\ Cardinality(Open(k)') <= Cardinality(Open(k))
  BY <1>1, Sets, SubsetNumber
<1>4. t \in Open(k) => Cardinality(Open(k)') = Cardinality(Open(k)) - 1
  BY <1>1, Sets, ThreadLess
<1>5. paid[k] \in Nat /\ excuse[k] \in Nat /\ day \in Nat
  BY Histories
<1>6. Calm(k) => Calm(k)'
  BY <1>1 DEF Calm
<1>7. Budget(k) => Budget(k)'
  <2>1. SUFFICES ASSUME Budget(k) PROVE Budget(k)'
    OBVIOUS
  <2>2. /\ paid[k] + Cardinality(Open(k)') <= 1 + excuse'[k]
        /\ paid[k] + Cardinality(Open(k)') <= excuse'[k]
    BY <1>2, <1>3, <1>4, <1>5, <2>1 DEF Budget
  <2>3. QED
    BY <2>2 DEF Budget
<1>8. QuizBudget(k) => QuizBudget(k)'
  BY <1>2, <1>3, <1>5, <1>6, <1>7 DEF QuizBudget
<1>9. paid'[k] <= 1 + excuse'[k]
  BY <1>5 DEF Second
<1>10. QED
  BY <1>6, <1>7, <1>8, <1>9 DEF Second

\* A request of the group goes on without a credit of reward k.
LEMMA SecondWalk ==
    ASSUME NEW k \in Keys, Second(k), NEW t \in Near(k), Only(t),
           pc'[t] # "idle", job'[t].key = job[t].key,
           paid'[k] = paid[k], excuse'[k] = excuse[k], day' = day,
           t \in Open(k)' <=> t \in Open(k),
           Calm(k) => IsMarked(k)' /\ Harmless(t, k)',
           \/ IsMarked(k)'
           \/ t \notin Late(k)'
           \/ ~IsMarked(k) /\ t \in Late(k)
    PROVE  Second(k)'
<1>1. /\ Near(k)' = Near(k) /\ Mine(k)' = Mine(k)
      /\ Open(k)' \ {t} = Open(k) \ {t} /\ Late(k)' \ {t} = Late(k) \ {t}
      /\ \A x \in Near(k) \ {t} : Harmless(x, k)' <=> Harmless(x, k)
  BY SetsOn
<1>2. Open(k)' = Open(k)
  BY <1>1
<1>3. Calm(k) => Calm(k)'
  BY <1>1 DEF Calm
<1>4. ~IsMarked(k)' /\ Near(k)' \subseteq Late(k)'
        => ~IsMarked(k) /\ Near(k) \subseteq Late(k)
  BY <1>1
<1>5. Budget(k) => Budget(k)'
  BY <1>2, <1>4 DEF Budget
<1>6. QED
  BY <1>1, <1>3, <1>5 DEF Second, QuizBudget

\* A request credits reward k and ends.
LEMMA SecondPaid ==
    ASSUME TInv, TInv', NEW k \in Keys, Second(k), NEW t \in Mine(k), Over(t),
           t \in Open(k), ~Harmless(t, k),
           paid'[k] = paid[k] + 1, excuse'[k] = excuse[k], day' = day,
           IsMarked(k)' \/ (~IsMarked(k) /\ t \in Late(k))
    PROVE  Second(k)'
<1>1. t \in Near(k) /\ ~Calm(k)
  BY MineNear DEF Calm
<1>2. /\ Near(k)' = Near(k) \ {t} /\ Mine(k)' = Mine(k) \ {t}
      /\ Open(k)' = Open(k) \ {t} /\ Late(k)' = Late(k) \ {t}
  BY <1>1, SetsOver
<1>3. Cardinality(Mine(k)) \in Nat /\ Cardinality(Open(k)) \in Nat
  BY Sets
<1>4. /\ Cardinality(Mine(k)') = Cardinality(Mine(k)) - 1
      /\ Cardinality(Open(k)') = Cardinality(Open(k)) - 1
  BY <1>2, Sets, ThreadLess
<1>5. Cardinality(Mine(k)') \in Nat /\ Cardinality(Open(k)') \in Nat
  BY <1>2, Sets, ThreadSets
<1>6. paid[k] \in Nat /\ excuse[k] \in Nat
  BY Histories
<1>7. Budget(k) => Budget(k)' /\ paid'[k] <= 1 + excuse'[k]
  <2>1. SUFFICES ASSUME Budget(k)
                 PROVE  Budget(k)' /\ paid'[k] <= 1 + excuse'[k]
    OBVIOUS
  <2>2. paid'[k] + Cardinality(Open(k)') <= 1 + excuse'[k]
    BY <1>3, <1>4, <1>6, <2>1 DEF Budget
  <2>3. paid'[k] <= 1 + excuse'[k]
    BY <1>5, <1>6, <2>2
  <2>4. ASSUME ~IsMarked(k)', Near(k)' \subseteq Late(k)'
        PROVE  paid'[k] + Cardinality(Open(k)') <= excuse'[k]
    <3>1. ~IsMarked(k) /\ Near(k) \subseteq Late(k)
      BY <1>2, <2>4
    <3>2. QED
      BY <1>3, <1>4, <1>6, <2>1, <3>1 DEF Budget
  <2>5. QED
    BY <2>2, <2>3, <2>4 DEF Budget
<1>8. k[3] < day /\ paid[k] + Cardinality(Mine(k)) <= 1 + excuse[k]
        => /\ k[3] < day' /\ paid'[k] + Cardinality(Mine(k)') <= 1 + excuse'[k]
           /\ paid'[k] <= 1 + excuse'[k]
  BY <1>3, <1>4, <1>5, <1>6
<1>9. QED
  BY <1>1, <1>7, <1>8 DEF Second, QuizBudget

\* A goal is credited, before it is marked.
LEMMA SecondCredited ==
    ASSUME TInv, TInv', NEW k \in Keys, k[1] # "quiz", Second(k),
           NEW t \in Mine(k), Only(t), job'[t].key = job[t].key,
           pc'[t] = "store", t \in Open(k), ~Harmless(t, k),
           paid'[k] = paid[k] + 1, excuse'[k] = excuse[k]
    PROVE  Second(k)'
<1>1. t \in Near(k) /\ ~Calm(k)
  BY MineNear DEF Calm
<1>2. Near(k)' = Near(k) /\ Open(k)' \ {t} = Open(k) \ {t}
  BY <1>1, SetsOn
<1>3. t \notin Open(k)' /\ t \notin Late(k)'
  BY DEF Mine, Open, Late
<1>4. Open(k)' = Open(k) \ {t}
  BY <1>2, <1>3
<1>5. Cardinality(Open(k)) \in Nat /\ Cardinality(Open(k)') \in Nat
  BY <1>4, Sets, ThreadSets
<1>6. Cardinality(Open(k)') = Cardinality(Open(k)) - 1
  BY <1>4, Sets, ThreadLess
<1>7. paid[k] \in Nat /\ excuse[k] \in Nat
  BY Histories
<1>8. Budget(k)
  BY <1>1 DEF Second
<1>9. paid'[k] + Cardinality(Open(k)') <= 1 + excuse'[k]
  BY <1>5, <1>6, <1>7, <1>8 DEF Budget
<1>10. Budget(k)' /\ paid'[k] <= 1 + excuse'[k]
  BY <1>1, <1>2, <1>3, <1>5, <1>7, <1>9 DEF Budget
<1>11. QED
  BY <1>10 DEF Second

\* A goal that was credited is marked.
LEMMA SecondStored ==
    ASSUME TInv, NEW k \in Keys, k[1] # "quiz", Second(k),
           NEW t \in Mine(k), Over(t), pc[t] = "store",
           paid'[k] = paid[k], excuse'[k] = excuse[k], IsMarked(k)'
    PROVE  Second(k)'
<1>1. t \in Near(k) /\ t \notin Open(k) /\ job[t].key = k
  BY MineNear DEF Mine, Open
<1>2. Open(k)' = Open(k)
  <2>1. Open(k)' = Open(k) \ {t}
    BY <1>1, SetsOver
  <2>2. QED
    BY <1>1, <2>1
<1>3. ~Harmless(t, k)
  BY <1>1 DEF Harmless
<1>4. Budget(k)
  BY <1>1, <1>3 DEF Second, Calm
<1>5. Budget(k)'
  BY <1>2, <1>4 DEF Budget
<1>6. QED
  BY <1>5 DEF Second

\* Requests for rewards marked in the same place are excused together.
LEMMA ExcusedFor ==
    ASSUME TInv, NEW k \in Keys, NEW x \in Keys
    PROVE  /\ x \in Group(k) => Excused(x)[k] = excuse[k] + 1
           /\ x \notin Group(k) => Excused(x)[k] = excuse[k]
           /\ x \in Group(k) => (Busy(x) <=> Near(k) # {})
<1>1. x \in Group(k) <=> k \in Group(x)
  BY DEF Group
<1>2. x \in Group(k) => Group(x) = Group(k)
  BY GroupClass
<1>3. QED
  BY <1>1, <1>2 DEF Excused, Busy, Near

\* Marks are where they were if the store is.
LEMMA MarkSame ==
    ASSUME NEW k, UNCHANGED <<marks, quizDate, signed, receive>>
    PROVE  IsMarked(k)' <=> IsMarked(k)
BY DEF IsMarked

\* A request of the group begins.
LEMMA SecondJoin ==
    ASSUME TInv, TInv', DateInv, NEW k \in Keys, Second(k), NEW t \in Threads,
           NEW x, NEW n, NEW s, Asked(t, x, n, s), x \in Group(k)
    PROVE  Second(k)'
<1>1. /\ pc[t] = "idle" /\ Only(t) /\ pc'[t] = s /\ job'[t].key = x
      /\ excuse' = (IF Busy(x) THEN Excused(x) ELSE excuse)
      /\ UNCHANGED store /\ UNCHANGED <<day, paid>>
  BY AskedDoes
<1>2. /\ x \in Keys /\ s \in {"look", "read", "goals"}
      /\ s = "look" => x[1] \in ClaimKinds \cup {"quiz"}
      /\ s = "read" => x[1] = "sign"
      /\ s = "goals" => x[1] = "month"
      /\ x[1] = "quiz" => x[3] = day
  BY DEF Asked
<1>3. x[1] = k[1]
  BY GroupKind
<1>4. /\ Near(k)' = Near(k) \cup {t} /\ t \notin Near(k)
      /\ x # k => Mine(k)' = Mine(k)
      /\ Open(k)' = Open(k) \cup {t} /\ t \notin Open(k)
      /\ t \notin Late(k)'
      /\ \A y \in Near(k) : Harmless(y, k)' <=> Harmless(y, k)
  BY <1>1, <1>2, SetsNew
<1>5. excuse'[k] = IF Near(k) = {} THEN excuse[k] ELSE excuse[k] + 1
  BY <1>1, <1>2, ExcusedFor
<1>6. IsMarked(k)' <=> IsMarked(k)
  BY <1>1, MarkSame DEF store
<1>7. /\ Cardinality(Near(k)) \in Nat /\ Cardinality(Open(k)) \in Nat
      /\ Cardinality(Mine(k)) \in Nat
      /\ Cardinality(Mine(k)) <= Cardinality(Near(k))
      /\ Cardinality(Open(k)) <= Cardinality(Near(k))
  BY Sets, MineNear, OpenNear
<1>8. /\ Cardinality(Near(k)') = Cardinality(Near(k)) + 1
      /\ Cardinality(Open(k)') = Cardinality(Open(k)) + 1
  BY <1>4, Sets, ThreadMore
<1>9. Near(k) = {} => Cardinality(Near(k)) = 0
  BY FS_EmptySet
<1>10. paid[k] \in Nat /\ excuse[k] \in Nat /\ day \in Nat
  BY Histories
<1>11. paid'[k] = paid[k] /\ day' = day
  BY <1>1
<1>12. k[1] # "quiz" \/ x = k => Harmless(t, k)'
  <2>1. CASE x = k
    BY <1>1, <1>2, <2>1 DEF Harmless
  <2>2. CASE x # k /\ k[1] # "quiz"
    <3>1. k[1] \in {"sign", "month"}
      BY <2>2 DEF Group
    <3>2. QED
      BY <1>1, <1>2, <1>3, <2>2, <3>1 DEF Harmless, ClaimKinds
  <2>3. QED
    BY <2>1, <2>2
<1>13. Calm(k) /\ (k[1] # "quiz" \/ x = k) => Calm(k)'
  BY <1>4, <1>6, <1>12 DEF Calm
<1>14. IsMarked(k) /\ Near(k) = {} /\ (k[1] # "quiz" \/ x = k) => Calm(k)'
  BY <1>4, <1>6, <1>12 DEF Calm
<1>15. Budget(k) => Budget(k)' \/ (IsMarked(k) /\ Near(k) = {})
  <2>1. SUFFICES ASSUME Budget(k), ~(IsMarked(k) /\ Near(k) = {})
                 PROVE  Budget(k)'
    OBVIOUS
  <2>2. ~(Near(k)' \subseteq Late(k)')
    BY <1>4
  <2>3. paid[k] + Cardinality(Open(k)') <= 1 + excuse'[k]
    <3>1. CASE Near(k) = {}
      BY <1>5, <1>7, <1>8, <1>10, <2>1, <3>1 DEF Budget
    <3>2. CASE Near(k) # {}
      BY <1>5, <1>7, <1>8, <1>10, <2>1, <3>2 DEF Budget
    <3>3. QED
      BY <3>1, <3>2
  <2>4. QED
    BY <1>11, <2>2, <2>3 DEF Budget
<1>16. paid'[k] <= 1 + excuse'[k]
  BY <1>5, <1>10, <1>11 DEF Second
<1>17. CASE k[1] # "quiz"
  BY <1>13, <1>14, <1>15, <1>16, <1>17 DEF Second
<1>18. CASE k[1] = "quiz"
  <2>1. k[3] \in Nat /\ x[3] = day
    BY <1>2, <1>3, <1>18, QuizDay
  <2>2. x # k => k[3] # day
    <3>1. x[2] = k[2]
      BY <1>18 DEF Group
    <3>2. x = <<x[1], x[2], x[3]>> /\ k = <<k[1], k[2], k[3]>>
      BY <1>2, KeyForm
    <3>3. QED
      BY <1>3, <2>1, <3>1, <3>2
  <2>3. IsMarked(k) => k[3] <= day
    <3>1. k[2] \in Users
      BY KeyForm
    <3>2. QED
      BY <1>18, <3>1 DEF IsMarked, DateInv, ClaimKinds
  <2>4. QuizBudget(k)
    BY <1>18 DEF Second
  <2>5. CASE Calm(k) /\ paid[k] + Cardinality(Near(k)) <= 2 + excuse[k]
    <3>1. CASE x = k
      <4>1. paid[k] + Cardinality(Near(k)') <= 2 + excuse'[k]
        BY <1>5, <1>7, <1>8, <1>9, <1>10, <2>5 DEF Second
      <4>2. QED
        BY <1>11, <1>13, <1>16, <1>18, <2>5, <3>1, <4>1 DEF Second, QuizBudget
    <3>2. CASE x # k
      <4>1. k[3] < day'
        BY <1>10, <1>11, <2>1, <2>2, <2>3, <2>5, <3>2 DEF Calm
      <4>2. paid[k] + Cardinality(Mine(k)') <= 1 + excuse'[k]
        BY <1>4, <1>5, <1>7, <1>9, <1>10, <2>5, <3>2 DEF Second
      <4>3. QED
        BY <1>11, <1>16, <1>18, <4>1, <4>2 DEF Second, QuizBudget
    <3>3. QED
      BY <3>1, <3>2
  <2>6. CASE k[3] < day /\ paid[k] + Cardinality(Mine(k)) <= 1 + excuse[k]
    <3>1. x # k
      BY <1>10, <2>1, <2>6
    <3>2. paid[k] + Cardinality(Mine(k)') <= 1 + excuse'[k]
      BY <1>4, <1>5, <1>7, <1>10, <2>6, <3>1
    <3>3. QED
      BY <1>11, <1>16, <1>18, <2>6, <3>2 DEF Second, QuizBudget
  <2>7. CASE k[3] >= day /\ Budget(k)
    <3>1. CASE Budget(k)'
      BY <1>11, <1>16, <1>18, <2>7, <3>1 DEF Second, QuizBudget
    <3>2. CASE IsMarked(k) /\ Near(k) = {}
      <4>1. x = k
        BY <1>10, <2>1, <2>2, <2>3, <2>7, <3>2
      <4>2. paid[k] + Cardinality(Near(k)') <= 2 + excuse'[k]
        BY <1>5, <1>7, <1>8, <1>9, <1>10, <3>2 DEF Second
      <4>3. QED
        BY <1>11, <1>14, <1>16, <1>18, <3>2, <4>1, <4>2 DEF Second, QuizBudget
    <3>3. QED
      BY <1>15, <2>7, <3>1, <3>2
  <2>8. QED
    BY <2>4, <2>5, <2>6, <2>7 DEF QuizBudget
<1>19. QED
  BY <1>17, <1>18

\* A busy thread is in the sets of the rewards of its group.
LEMMA InSets ==
    ASSUME NEW k \in Keys, NEW t \in Threads, pc[t] # "idle",
           job[t].key \in Group(k)
    PROVE  /\ t \in Near(k) /\ (job[t].key = k <=> t \in Mine(k))
           /\ pc[t] # "store" \/ job[t].key # k => t \in Open(k)
BY DEF Near, Mine, Open

LEMMA ApartDiffers ==
    ASSUME NEW k \in Keys, NEW x, x \notin Group(k)
    PROVE  x # k
BY DEF Group

\* Steps of a request that change no marks and credit nothing.
LEMMA SecondReads ==
    ASSUME TInv, TInv', NEW k \in Keys, Second(k), NEW t \in Threads,
           pc[t] # "idle", pc[t] # "store",
           UNCHANGED <<marks, quizDate, signed, receive, day, paid, excuse>>,
           \/ Over(t)
           \/ /\ Only(t) /\ pc'[t] \notin {"idle", "store"}
              /\ job'[t].key = job[t].key
              /\ pc'[t] \in {"reread", "number", "count", "grant"} =>
                   pc[t] \in {"reread", "number", "count", "grant"}
              /\ Calm(k) /\ t \in Near(k) => Harmless(t, k)'
    PROVE  Second(k)'
<1>1. (IsMarked(k)' <=> IsMarked(k)) /\ UNCHANGED <<day, paid, excuse>>
  BY MarkSame
<1>2. CASE job[t].key \notin Group(k)
  <2>1. Only(t) /\ (pc'[t] = "idle" \/ job'[t].key \notin Group(k))
    BY <1>2 DEF Over
  <2>2. QED
    BY <1>1, <1>2, <2>1, SecondApart
<1>3. CASE job[t].key \in Group(k)
  <2>1. t \in Near(k) /\ t \in Open(k)
    BY <1>3, InSets
  <2>2. CASE Over(t)
    <3>1. Calm(k) => IsMarked(k)'
      BY <1>1 DEF Calm
    <3>2. QED
      BY <1>1, <2>1, <2>2, <3>1, SecondLose
  <2>3. CASE /\ Only(t) /\ pc'[t] \notin {"idle", "store"}
             /\ job'[t].key = job[t].key
             /\ pc'[t] \in {"reread", "number", "count", "grant"} =>
                  pc[t] \in {"reread", "number", "count", "grant"}
             /\ Calm(k) /\ t \in Near(k) => Harmless(t, k)'
    <3>1. t \in Open(k)' /\ Near(k)' = Near(k) /\ Mine(k)' = Mine(k)
      <4>1. Near(k)' = Near(k) /\ Mine(k)' = Mine(k)
        BY <2>1, <2>3, SetsOn
      <4>2. QED
        BY <2>1, <2>3, <4>1 DEF Open
    <3>2. t \in Late(k)' => t \in Late(k)
      BY <2>3, <3>1 DEF Late
    <3>3. Calm(k) => IsMarked(k)' /\ Harmless(t, k)'
      BY <1>1, <2>1, <2>3 DEF Calm
    <3>4. QED
      BY <1>1, <2>1, <2>3, <3>1, <3>2, <3>3, SecondWalk
  <2>4. QED
    BY <2>2, <2>3
<1>4. QED
  BY <1>2, <1>3

LEMMA LookSecond ==
    ASSUME TInv, TInv', NEW k \in Keys, Second(k), NEW t \in Threads, Look(t)
    PROVE  Second(k)'
<1>1. /\ pc[t] = "look" /\ UNCHANGED store /\ Quiet
      /\ job[t].key \in Keys /\ job[t].key[1] \in ClaimKinds \cup {"quiz"}
      /\ \/ Over(t)
         \/ /\ ~IsMarked(job[t].key)
            /\ At(t, AfterLook(job[t].key[1]))
  BY LookDoes
<1>2. CASE Over(t)
  BY <1>1, <1>2, SecondReads DEF store, Quiet, history
<1>3. CASE ~IsMarked(job[t].key) /\ At(t, AfterLook(job[t].key[1]))
  <2>1. /\ pc'[t] \in {"mark", "stock", "pay"} /\ Only(t)
        /\ job'[t].key = job[t].key
    BY <1>3 DEF At, AfterLook
  <2>2. ~(Calm(k) /\ t \in Near(k))
    <3>1. SUFFICES ASSUME Calm(k), t \in Near(k) PROVE FALSE
      OBVIOUS
    <3>2. Harmless(t, k) /\ IsMarked(k) /\ job[t].key \in Group(k)
      BY <3>1 DEF Calm, Near
    <3>3. k[1] \in ClaimKinds \cup {"quiz"}
      BY <1>1, <3>2, GroupKind
    <3>4. job[t].key = k
      BY <3>2, <3>3 DEF Harmless, ClaimKinds
    <3>5. QED
      BY <1>3, <3>2, <3>4
  <2>3. QED
    BY <1>1, <2>1, <2>2, SecondReads DEF store, Quiet, history
<1>4. QED
  BY <1>1, <1>2, <1>3

LEMMA MarkSecond ==
    ASSUME TInv, TInv', NEW k \in Keys, Second(k), NEW t \in Threads, Mark(t)
    PROVE  Second(k)'
<1>1. /\ pc[t] = "mark" /\ At(t, "pay") /\ Quiet
      /\ job[t].key \in Keys /\ job[t].key[1] = "code"
      /\ marks' = marks \cup {job[t].key}
      /\ UNCHANGED <<quizDate, signed, receive>>
  BY MarkDoes
<1>2. /\ Only(t) /\ pc'[t] = "pay" /\ job'[t].key = job[t].key
      /\ UNCHANGED <<day, paid, excuse>>
  BY <1>1 DEF At, Quiet, history
<1>3. CASE job[t].key \notin Group(k)
  <2>1. IsMarked(k)' <=> IsMarked(k)
    BY <1>1, <1>3, ApartDiffers DEF IsMarked
  <2>2. QED
    BY <1>2, <1>3, <2>1, SecondApart
<1>4. CASE job[t].key \in Group(k)
  <2>1. k = job[t].key
    BY <1>1, <1>4, GroupKind DEF Group
  <2>2. t \in Near(k) /\ t \in Open(k)
    BY <1>1, <1>4, InSets
  <2>3. IsMarked(k)'
    BY <1>1, <2>1 DEF IsMarked, ClaimKinds
  <2>4. ~Harmless(t, k)
    BY <1>1, <2>1 DEF Harmless
  <2>5. ~Calm(k)
    BY <2>2, <2>4 DEF Calm
  <2>6. t \in Open(k)'
    <3>1. Near(k)' = Near(k)
      BY <1>2, <2>2, SetsOn
    <3>2. QED
      BY <1>2, <2>2, <3>1 DEF Open
  <2>7. QED
    BY <1>2, <2>2, <2>3, <2>5, <2>6, SecondWalk
<1>5. QED
  BY <1>3, <1>4

LEMMA PaySecond ==
    ASSUME TInv, TInv', ClaimInv, NEW k \in Keys, Second(k),
           NEW t \in Threads, Pay(t)
    PROVE  Second(k)'
<1>1. /\ pc[t] = "pay" /\ Credit(t) /\ Over(t)
      /\ job[t].key \in Keys /\ job[t].key[1] \in ClaimKinds \cup {"quiz"}
      /\ marks' = (IF job[t].key[1] \in {"quiz", "code"}
                     THEN marks ELSE marks \cup {job[t].key})
      /\ quizDate' = (IF job[t].key[1] = "quiz"
                        THEN [quizDate EXCEPT ![User(t)] = Day(t)]
                        ELSE quizDate)
      /\ UNCHANGED <<signed, receive>>
  BY PayDoes
<1>2. /\ paid'[k] = (IF k = job[t].key THEN paid[k] + 1 ELSE paid[k])
      /\ UNCHANGED <<day, excuse>>
  BY <1>1, CreditAdds
<1>3. /\ job[t].key = <<job[t].key[1], User(t), Day(t)>>
      /\ k = <<k[1], k[2], k[3]>> /\ k[2] \in Users /\ User(t) \in Users
  BY <1>1, KeyForm DEF User, Day
<1>4. CASE job[t].key \notin Group(k)
  <2>1. k # job[t].key /\ ~(k[1] = "quiz" /\ job[t].key[1] = "quiz" /\ k[2] = User(t))
    BY <1>1, <1>4 DEF Group, User
  <2>2. IsMarked(k)' <=> IsMarked(k)
    BY <1>1, <1>3, <2>1 DEF IsMarked, TInv, StoreInv
  <2>3. Only(t) /\ pc'[t] = "idle"
    BY <1>1 DEF Over
  <2>4. QED
    BY <1>2, <1>4, <2>1, <2>2, <2>3, SecondApart
<1>5. CASE job[t].key \in Group(k)
  <2>1. t \in Near(k) /\ t \in Open(k) /\ (job[t].key = k <=> t \in Mine(k))
    BY <1>1, <1>5, InSets
  <2>2. k[1] = job[t].key[1]
    BY <1>5, GroupKind
  <2>3. ~Harmless(t, k)
    BY <1>1, <2>2 DEF Harmless, ClaimKinds
  <2>4. CASE job[t].key = k
    <3>1. CASE k[1] # "code"
      <4>1. IsMarked(k)'
        BY <1>1, <1>3, <2>4, <3>1 DEF IsMarked, ClaimKinds, TInv, StoreInv
      <4>2. QED
        BY <1>1, <1>2, <2>1, <2>3, <2>4, <4>1, SecondPaid
    <3>2. CASE k[1] = "code"
      <4>1. IsMarked(k)'
        BY <1>1, <2>4, <3>2 DEF IsMarked, ClaimKinds, ClaimInv
      <4>2. QED
        BY <1>1, <1>2, <2>1, <2>3, <2>4, <4>1, SecondPaid
    <3>3. QED
      BY <3>1, <3>2
  <2>5. CASE job[t].key # k
    <3>1. ~Calm(k)
      BY <2>1, <2>3 DEF Calm
    <3>2. QED
      BY <1>1, <1>2, <2>1, <2>5, <3>1, SecondLose
  <2>6. QED
    BY <2>4, <2>5
<1>6. QED
  BY <1>4, <1>5

\* No request for another day's quiz is harmless, nor one past its look.
LEMMA QuizHarms ==
    ASSUME NEW k \in Keys, NEW t \in Near(k), job[t].key[1] = "quiz",
           pc[t] \notin {"look", "read"}
    PROVE  ~Calm(k)
<1>1. k[1] = "quiz"
  BY GroupKind DEF Near
<1>2. ~Harmless(t, k)
  BY <1>1 DEF Harmless
<1>3. QED
  BY <1>2 DEF Calm

LEMMA StockSecond ==
    ASSUME TInv, TInv', NEW k \in Keys, Second(k), NEW t \in Threads, Stock(t)
    PROVE  Second(k)'
<1>1. /\ pc[t] = "stock" /\ UNCHANGED store /\ Quiet /\ job[t].key[1] = "quiz"
      /\ Only(t) /\ pc'[t] \in {"pay", "draw"} /\ job'[t].key = job[t].key
  BY StockDoes DEF On
<1>2. t \in Near(k) => ~Calm(k)
  BY <1>1, QuizHarms
<1>3. QED
  BY <1>1, <1>2, SecondReads DEF store, Quiet, history

LEMMA DrawSecond ==
    ASSUME TInv, TInv', NEW k \in Keys, Second(k), NEW t \in Threads, Draw(t)
    PROVE  Second(k)'
<1>1. /\ pc[t] = "draw" /\ Quiet /\ job[t].key[1] = "quiz"
      /\ UNCHANGED <<marks, quizDate, signed, receive>>
      /\ Only(t) /\ pc'[t] \in {"pay", "draw"} /\ job'[t].key = job[t].key
  BY DrawDoes DEF On
<1>2. t \in Near(k) => ~Calm(k)
  BY <1>1, QuizHarms
<1>3. QED
  BY <1>1, <1>2, SecondReads DEF Quiet, history

\* What calm means for a day's sign-in: nobody rewards the player again, and
\* whoever writes the list of the day keeps the player in it.
LEMMA SignCalm ==
    ASSUME TInv, NEW k \in Keys, Calm(k), NEW t \in Near(k), pc[t] \in SignSteps
    PROVE  /\ k[1] = "sign" /\ k[3] = Day(t) /\ Day(t) \in Days
           /\ k[2] \in signed[Day(t)] /\ job[t].key[1] = "sign"
           /\ \/ job[t].key = k /\ pc[t] = "read"
              \/ /\ job[t].key # k
                 /\ pc[t] = "enlist" => k[2] \in job[t].seen
                 /\ pc[t] \in {"number", "count", "grant"} =>
                      k[2] \in job[t].seen \/ ~job[t].own
<1>1. /\ job[t].key \in Group(k) /\ Harmless(t, k) /\ IsMarked(k)
      /\ t \in Threads
  BY DEF Calm, Near
<1>2. job[t].key[1] = "sign" /\ Day(t) \in Days
  BY <1>1, SignKnows
<1>3. k[1] = "sign"
  BY <1>1, <1>2, GroupKind
<1>4. k[3] = Day(t)
  BY <1>1, <1>3 DEF Group, Day
<1>5. k[2] \in signed[Day(t)]
  BY <1>1, <1>3, <1>4 DEF IsMarked, ClaimKinds
<1>6. QED
  BY <1>1, <1>2, <1>3, <1>4, <1>5 DEF Harmless, SignSteps

LEMMA ReadSecond ==
    ASSUME TInv, TInv', NEW k \in Keys, Second(k), NEW t \in Threads, Read(t)
    PROVE  Second(k)'
<1>1. /\ pc[t] = "read" /\ UNCHANGED store /\ Quiet
      /\ \/ Over(t)
         \/ /\ User(t) \notin signed[Day(t)]
            /\ On(t, "enlist") /\ job'[t].seen = signed[Day(t)]
  BY ReadDoes
<1>2. CASE Over(t)
  BY <1>1, <1>2, SecondReads DEF store, Quiet, history
<1>3. CASE /\ User(t) \notin signed[Day(t)]
           /\ On(t, "enlist") /\ job'[t].seen = signed[Day(t)]
  <2>1. Only(t) /\ pc'[t] = "enlist" /\ job'[t].key = job[t].key
    BY <1>3 DEF On
  <2>2. Calm(k) /\ t \in Near(k) => Harmless(t, k)'
    <3>1. SUFFICES ASSUME Calm(k), t \in Near(k) PROVE Harmless(t, k)'
      OBVIOUS
    <3>2. k[1] = "sign" /\ k[2] \in signed[Day(t)]
      BY <1>1, <3>1, SignCalm DEF SignSteps
    <3>3. job[t].key # k
      BY <1>3, <3>2 DEF User
    <3>4. QED
      BY <1>3, <2>1, <3>2, <3>3 DEF Harmless
  <2>3. QED
    BY <1>1, <2>1, <2>2, SecondReads DEF store, Quiet, history
<1>4. QED
  BY <1>1, <1>2, <1>3

LEMMA RereadSecond ==
    ASSUME TInv, TInv', NEW k \in Keys, Second(k), NEW t \in Threads, Reread(t)
    PROVE  Second(k)'
<1>1. /\ pc[t] = "reread" /\ UNCHANGED store /\ Quiet
      /\ Only(t) /\ pc'[t] = "number" /\ job'[t].key = job[t].key
      /\ job'[t].seen = signed[Day(t)]
  BY RereadDoes DEF On
<1>2. Calm(k) /\ t \in Near(k) => Harmless(t, k)'
  <2>1. SUFFICES ASSUME Calm(k), t \in Near(k) PROVE Harmless(t, k)'
    OBVIOUS
  <2>2. k[1] = "sign" /\ k[2] \in signed[Day(t)] /\ job[t].key # k
    BY <1>1, <2>1, SignCalm DEF SignSteps
  <2>3. QED
    BY <1>1, <2>2 DEF Harmless
<1>3. QED
  BY <1>1, <1>2, SecondReads DEF store, Quiet, history

LEMMA NumberSecond ==
    ASSUME TInv, TInv', NEW k \in Keys, Second(k), NEW t \in Threads, Number(t)
    PROVE  Second(k)'
<1>1. /\ pc[t] = "number" /\ UNCHANGED store /\ Quiet
      /\ Only(t) /\ pc'[t] = "count" /\ job'[t].key = job[t].key
      /\ job'[t].seen = job[t].seen /\ job'[t].own = job[t].own
  BY NumberDoes DEF On
<1>2. Calm(k) /\ t \in Near(k) => Harmless(t, k)'
  <2>1. SUFFICES ASSUME Calm(k), t \in Near(k) PROVE Harmless(t, k)'
    OBVIOUS
  <2>2. /\ k[1] = "sign" /\ job[t].key # k
        /\ k[2] \in job[t].seen \/ ~job[t].own
    BY <1>1, <2>1, SignCalm DEF SignSteps
  <2>3. QED
    BY <1>1, <2>2 DEF Harmless
<1>3. QED
  BY <1>1, <1>2, SecondReads DEF store, Quiet, history

LEMMA CountSecond ==
    ASSUME TInv, TInv', NEW k \in Keys, Second(k), NEW t \in Threads, Count(t)
    PROVE  Second(k)'
<1>1. /\ pc[t] = "count" /\ Quiet
      /\ UNCHANGED <<marks, quizDate, signed, receive>>
      /\ Only(t) /\ pc'[t] = "grant" /\ job'[t] = job[t]
  BY CountDoes DEF At
<1>2. Calm(k) /\ t \in Near(k) => Harmless(t, k)'
  <2>1. SUFFICES ASSUME Calm(k), t \in Near(k) PROVE Harmless(t, k)'
    OBVIOUS
  <2>2. /\ k[1] = "sign" /\ job[t].key # k
        /\ k[2] \in job[t].seen \/ ~job[t].own
    BY <1>1, <2>1, SignCalm DEF SignSteps
  <2>3. QED
    BY <1>1, <2>2 DEF Harmless
<1>3. QED
  BY <1>1, <1>2, SecondReads DEF Quiet, history

\* A list of players is written: only marks of its day change.
LEMMA SignMarks ==
    ASSUME TInv, NEW k \in Keys, NEW t \in Threads, pc[t] \in SignSteps,
           UNCHANGED <<marks, quizDate, receive>>,
           signed' = [signed EXCEPT ![Day(t)] = job[t].seen \cup {User(t)}]
    PROVE  /\ job[t].key \notin Group(k) => (IsMarked(k)' <=> IsMarked(k))
           /\ job[t].key = k => IsMarked(k)'
           /\ job[t].key \in Group(k) /\ k[2] \in job[t].seen => IsMarked(k)'
<1>1. /\ job[t].key \in Keys /\ job[t].key[1] = "sign" /\ Day(t) \in Days
      /\ job[t].key = <<"sign", User(t), Day(t)>>
  BY SignKnows
<1>2. /\ signed'[Day(t)] = job[t].seen \cup {User(t)}
      /\ \A d \in Days : d # Day(t) => signed'[d] = signed[d]
  BY <1>1 DEF TInv, StoreInv
<1>3. ASSUME job[t].key \notin Group(k)
      PROVE  IsMarked(k)' <=> IsMarked(k)
  <2>1. k[1] = "sign" => k[3] # Day(t) /\ k[3] \in Days
    BY <1>1, <1>3, KeyForm DEF Group, Day, DailyKinds
  <2>2. QED
    BY <1>2, <2>1 DEF IsMarked
<1>4. ASSUME job[t].key = k
      PROVE  IsMarked(k)'
  BY <1>1, <1>2, <1>4 DEF IsMarked
<1>5. ASSUME job[t].key \in Group(k), k[2] \in job[t].seen
      PROVE  IsMarked(k)'
  <2>1. k[1] = "sign"
    BY <1>1, <1>5, GroupKind
  <2>2. k[3] = Day(t)
    BY <1>5, <2>1 DEF Group, Day
  <2>3. QED
    BY <1>2, <1>5, <2>1, <2>2 DEF IsMarked
<1>6. QED
  BY <1>3, <1>4, <1>5

LEMMA EnlistSecond ==
    ASSUME TInv, TInv', NEW k \in Keys, Second(k), NEW t \in Threads, Enlist(t)
    PROVE  Second(k)'
<1>1. /\ pc[t] = "enlist" /\ pc[t] \in SignSteps /\ Quiet
      /\ Only(t) /\ pc'[t] \in {"reread", "number"} /\ job'[t] = job[t]
      /\ signed' = [signed EXCEPT ![Day(t)] = job[t].seen \cup {User(t)}]
      /\ UNCHANGED <<marks, quizDate, receive>>
  BY EnlistDoes DEF At, SignSteps
<1>2. UNCHANGED <<day, paid, excuse>>
  BY <1>1 DEF Quiet, history
<1>3. /\ job[t].key \notin Group(k) => (IsMarked(k)' <=> IsMarked(k))
      /\ job[t].key = k => IsMarked(k)'
      /\ job[t].key \in Group(k) /\ k[2] \in job[t].seen => IsMarked(k)'
  BY <1>1, SignMarks
<1>4. CASE job[t].key \notin Group(k)
  BY <1>1, <1>2, <1>3, <1>4, SecondApart
<1>5. CASE job[t].key \in Group(k)
  <2>1. t \in Near(k) /\ t \in Open(k) /\ (job[t].key = k <=> t \in Mine(k))
    BY <1>1, <1>5, InSets
  <2>2. Near(k)' = Near(k) /\ Mine(k)' = Mine(k)
    BY <1>1, <2>1, SetsOn
  <2>3. t \in Open(k)'
    BY <1>1, <2>1, <2>2 DEF Open
  <2>4. IsMarked(k)' \/ t \notin Late(k)'
    BY <1>3, <2>1, <2>2 DEF Late
  <2>5. Calm(k) => IsMarked(k)' /\ Harmless(t, k)'
    <3>1. SUFFICES ASSUME Calm(k) PROVE IsMarked(k)' /\ Harmless(t, k)'
      OBVIOUS
    <3>2. k[1] = "sign" /\ job[t].key # k /\ k[2] \in job[t].seen
      BY <1>1, <2>1, <3>1, SignCalm
    <3>3. QED
      BY <1>1, <1>3, <1>5, <3>2 DEF Harmless
  <2>6. QED
    BY <1>1, <1>2, <2>1, <2>3, <2>4, <2>5, SecondWalk
<1>6. QED
  BY <1>4, <1>5

LEMMA GrantSecond ==
    ASSUME TInv, TInv', NEW k \in Keys, Second(k), NEW t \in Threads, Grant(t)
    PROVE  Second(k)'
<1>1. /\ pc[t] = "grant" /\ pc[t] \in SignSteps /\ Credit(t) /\ Over(t)
      /\ signed' = (IF job[t].own
                THEN [signed EXCEPT ![Day(t)] = job[t].seen \cup {User(t)}]
                ELSE signed)
      /\ UNCHANGED <<marks, quizDate, receive>>
  BY GrantDoes DEF SignSteps
<1>2. job[t].key \in Keys /\ job[t].own \in BOOLEAN
  BY <1>1, Busily DEF TInv
<1>3. /\ paid'[k] = (IF k = job[t].key THEN paid[k] + 1 ELSE paid[k])
      /\ UNCHANGED <<day, excuse>>
  BY <1>1, <1>2, CreditAdds
<1>4. ~job[t].own => (IsMarked(k)' <=> IsMarked(k))
  BY <1>1, MarkSame
<1>5. job[t].own =>
        /\ job[t].key \notin Group(k) => (IsMarked(k)' <=> IsMarked(k))
        /\ job[t].key = k => IsMarked(k)'
        /\ job[t].key \in Group(k) /\ k[2] \in job[t].seen => IsMarked(k)'
  BY <1>1, SignMarks
<1>6. CASE job[t].key \notin Group(k)
  <2>1. k # job[t].key /\ (IsMarked(k)' <=> IsMarked(k))
    BY <1>4, <1>5, <1>6, ApartDiffers
  <2>2. Only(t) /\ pc'[t] = "idle"
    BY <1>1 DEF Over
  <2>3. QED
    BY <1>3, <1>6, <2>1, <2>2, SecondApart
<1>7. CASE job[t].key \in Group(k)
  <2>1. t \in Near(k) /\ t \in Open(k) /\ (job[t].key = k <=> t \in Mine(k))
    BY <1>1, <1>7, InSets
  <2>2. CASE job[t].key = k
    <3>1. t \in Mine(k) /\ t \in Late(k)
      BY <1>1, <2>1, <2>2 DEF Late
    <3>2. ~Harmless(t, k)
      BY <1>1, <2>2 DEF Harmless
    <3>3. IsMarked(k)' \/ ~IsMarked(k)
      BY <1>4, <1>5, <2>2
    <3>4. QED
      BY <1>1, <1>3, <2>1, <2>2, <3>1, <3>2, <3>3, SecondPaid
  <2>3. CASE job[t].key # k
    <3>1. Calm(k) => IsMarked(k)'
      <4>1. Calm(k) => IsMarked(k) /\ (k[2] \in job[t].seen \/ ~job[t].own)
        BY <1>1, <2>1, <2>3, SignCalm DEF Calm
      <4>2. QED
        BY <1>4, <1>5, <1>7, <4>1
    <3>2. QED
      BY <1>1, <1>3, <2>1, <2>3, <3>1, SecondLose
  <2>4. QED
    BY <2>2, <2>3
<1>8. QED
  BY <1>6, <1>7

LEMMA GrantToolsSecond ==
    ASSUME TInv, TInv', NEW k \in Keys, Second(k), NEW t \in Threads,
           GrantTools(t)
    PROVE  Second(k)'
BY GrantToolsDoes, SecondReads DEF store

\* What calm means for a goal: nobody credits it again, and whoever writes the
\* table of goals keeps it marked.
LEMMA MonthCalm ==
    ASSUME TInv, NEW k \in Keys, Calm(k), NEW t \in Near(k), pc[t] \in MonthSteps
    PROVE  /\ k[1] = "month" /\ k[2] = User(t) /\ User(t) \in Users
           /\ k[3] \in receive[User(t)]
           /\ pc[t] # "goals" => k[3] \in job[t].seen
           /\ job[t].key = k => pc[t] \in {"goals", "ripe"}
<1>1. /\ job[t].key \in Group(k) /\ Harmless(t, k) /\ IsMarked(k)
      /\ t \in Threads
  BY DEF Calm, Near
<1>2. job[t].key[1] = "month" /\ User(t) \in Users
  BY <1>1, MonthKnows
<1>3. k[1] = "month"
  BY <1>1, <1>2, GroupKind
<1>4. k[2] = User(t)
  BY <1>1, <1>3 DEF Group, User
<1>5. k[3] \in receive[User(t)]
  BY <1>1, <1>3, <1>4 DEF IsMarked, ClaimKinds
<1>6. QED
  BY <1>1, <1>2, <1>3, <1>4, <1>5 DEF Harmless, MonthSteps

LEMMA ReadGoalsSecond ==
    ASSUME TInv, TInv', NEW k \in Keys, Second(k), NEW t \in Threads,
           ReadGoals(t)
    PROVE  Second(k)'
<1>1. /\ pc[t] = "goals" /\ UNCHANGED store /\ Quiet
      /\ Only(t) /\ pc'[t] = "ripe" /\ job'[t].key = job[t].key
      /\ job'[t].seen = receive[User(t)]
  BY ReadGoalsDoes DEF On
<1>2. Calm(k) /\ t \in Near(k) => Harmless(t, k)'
  <2>1. SUFFICES ASSUME Calm(k), t \in Near(k) PROVE Harmless(t, k)'
    OBVIOUS
  <2>2. k[1] = "month" /\ k[3] \in receive[User(t)]
    BY <1>1, <2>1, MonthCalm DEF MonthSteps
  <2>3. QED
    BY <1>1, <2>2 DEF Harmless
<1>3. QED
  BY <1>1, <1>2, SecondReads DEF store, Quiet, history

LEMMA RipeSecond ==
    ASSUME TInv, TInv', NEW k \in Keys, Second(k), NEW t \in Threads, Ripe(t)
    PROVE  Second(k)'
<1>1. /\ pc[t] = "ripe" /\ UNCHANGED store /\ Quiet
      /\ \/ IsRipe(t) /\ At(t, "credit")
         \/ Over(t)
  BY RipeDoes
<1>2. CASE Over(t)
  BY <1>1, <1>2, SecondReads DEF store, Quiet, history
<1>3. CASE IsRipe(t) /\ At(t, "credit")
  <2>1. Only(t) /\ pc'[t] = "credit" /\ job'[t] = job[t]
    BY <1>3 DEF At
  <2>2. Calm(k) /\ t \in Near(k) => Harmless(t, k)'
    <3>1. SUFFICES ASSUME Calm(k), t \in Near(k) PROVE Harmless(t, k)'
      OBVIOUS
    <3>2. k[1] = "month" /\ k[3] \in job[t].seen
      BY <1>1, <3>1, MonthCalm DEF MonthSteps
    <3>3. job[t].key # k
      BY <1>3, <3>2 DEF IsRipe, Day
    <3>4. QED
      BY <2>1, <3>2, <3>3 DEF Harmless
  <2>3. QED
    BY <1>1, <2>1, <2>2, SecondReads DEF store, Quiet, history
<1>4. QED
  BY <1>1, <1>2, <1>3

LEMMA CreditGoalSecond ==
    ASSUME TInv, TInv', NEW k \in Keys, Second(k), NEW t \in Threads,
           CreditGoal(t)
    PROVE  Second(k)'
<1>1. /\ pc[t] = "credit" /\ UNCHANGED store /\ Credit(t)
      /\ Only(t) /\ pc'[t] = "store" /\ job'[t] = job[t]
  BY CreditGoalDoes DEF At
<1>2. job[t].key \in Keys /\ job[t].key[1] = "month"
  BY <1>1, MonthKnows DEF MonthSteps
<1>3. /\ paid'[k] = (IF k = job[t].key THEN paid[k] + 1 ELSE paid[k])
      /\ UNCHANGED <<day, excuse>>
  BY <1>1, <1>2, CreditAdds
<1>4. IsMarked(k)' <=> IsMarked(k)
  BY <1>1, MarkSame DEF store
<1>5. CASE job[t].key \notin Group(k)
  <2>1. k # job[t].key
    BY <1>5, ApartDiffers
  <2>2. QED
    BY <1>1, <1>3, <1>4, <1>5, <2>1, SecondApart
<1>6. CASE job[t].key \in Group(k)
  <2>1. t \in Near(k) /\ t \in Open(k) /\ (job[t].key = k <=> t \in Mine(k))
    BY <1>1, <1>6, InSets
  <2>2. CASE job[t].key = k
    <3>1. ~Harmless(t, k)
      BY <1>1, <2>2 DEF Harmless
    <3>2. QED
      BY <1>1, <1>2, <1>3, <2>1, <2>2, <3>1, SecondCredited
  <2>3. CASE job[t].key # k
    <3>1. Near(k)' = Near(k) /\ Mine(k)' = Mine(k)
      BY <1>1, <2>1, SetsOn
    <3>2. t \in Open(k)' /\ t \notin Late(k)'
      BY <1>1, <2>1, <2>3, <3>1 DEF Open, Late
    <3>3. Calm(k) => IsMarked(k)' /\ Harmless(t, k)'
      <4>1. SUFFICES ASSUME Calm(k) PROVE IsMarked(k)' /\ Harmless(t, k)'
        OBVIOUS
      <4>2. k[1] = "month" /\ k[3] \in job[t].seen
        BY <1>1, <2>1, <4>1, MonthCalm DEF MonthSteps
      <4>3. QED
        BY <1>1, <1>4, <2>3, <4>1, <4>2 DEF Harmless, Calm
    <3>4. QED
      BY <1>1, <1>3, <2>1, <2>3, <3>2, <3>3, SecondWalk
  <2>4. QED
    BY <2>2, <2>3
<1>7. QED
  BY <1>5, <1>6

LEMMA StoreGoalsSecond ==
    ASSUME TInv, TInv', NEW k \in Keys, Second(k), NEW t \in Threads,
           StoreGoals(t)
    PROVE  Second(k)'
<1>1. /\ pc[t] = "store" /\ pc[t] \in MonthSteps /\ Quiet /\ Over(t)
      /\ receive' = [receive EXCEPT ![User(t)] = job[t].seen \cup {Day(t)}]
      /\ UNCHANGED <<marks, quizDate, signed>>
  BY StoreGoalsDoes DEF MonthSteps
<1>2. /\ job[t].key \in Keys /\ job[t].key[1] = "month" /\ User(t) \in Users
      /\ job[t].key = <<"month", User(t), Day(t)>>
  BY <1>1, MonthKnows
<1>3. UNCHANGED <<day, paid, excuse>>
  BY <1>1 DEF Quiet, history
<1>4. /\ receive'[User(t)] = job[t].seen \cup {Day(t)}
      /\ \A u \in Users : u # User(t) => receive'[u] = receive[u]
  BY <1>1, <1>2 DEF TInv, StoreInv
<1>5. CASE job[t].key \notin Group(k)
  <2>1. k[1] = "month" => k[2] # User(t) /\ k[2] \in Users
    BY <1>2, <1>5, KeyForm DEF Group, User
  <2>2. IsMarked(k)' <=> IsMarked(k)
    BY <1>1, <1>4, <2>1 DEF IsMarked
  <2>3. Only(t) /\ pc'[t] = "idle"
    BY <1>1 DEF Over
  <2>4. QED
    BY <1>3, <1>5, <2>2, <2>3, SecondApart
<1>6. CASE job[t].key \in Group(k)
  <2>1. /\ t \in Near(k) /\ (job[t].key = k <=> t \in Mine(k))
        /\ job[t].key # k => t \in Open(k)
    BY <1>1, <1>6, InSets
  <2>2. CASE job[t].key = k
    <3>1. IsMarked(k)' /\ k[1] # "quiz"
      BY <1>2, <1>4, <2>2 DEF IsMarked
    <3>2. QED
      BY <1>1, <1>3, <2>1, <2>2, <3>1, SecondStored
  <2>3. CASE job[t].key # k
    <3>1. Calm(k) => IsMarked(k)'
      <4>1. SUFFICES ASSUME Calm(k) PROVE IsMarked(k)'
        OBVIOUS
      <4>2. k[1] = "month" /\ k[2] = User(t) /\ k[3] \in job[t].seen
        BY <1>1, <2>1, <4>1, MonthCalm
      <4>3. QED
        BY <1>4, <4>2 DEF IsMarked
    <3>2. QED
      BY <1>1, <1>3, <2>1, <2>3, <3>1, SecondLose
  <2>4. QED
    BY <2>2, <2>3
<1>7. QED
  BY <1>5, <1>6

LEMMA CrashSecond ==
    ASSUME TInv, TInv', NEW k \in Keys, Second(k), NEW t \in Threads, Crash(t)
    PROVE  Second(k)'
<1>1. /\ pc[t] # "idle" /\ Over(t) /\ UNCHANGED store /\ job[t].key \in Keys
      /\ excuse' = Excused(job[t].key) /\ UNCHANGED <<day, paid>>
  BY CrashDoes
<1>2. IsMarked(k)' <=> IsMarked(k)
  BY <1>1, MarkSame DEF store
<1>3. CASE job[t].key \notin Group(k)
  <2>1. excuse'[k] = excuse[k]
    BY <1>1, <1>3, ExcusedFor
  <2>2. Only(t) /\ pc'[t] = "idle"
    BY <1>1 DEF Over
  <2>3. QED
    BY <1>1, <1>2, <1>3, <2>1, <2>2, SecondApart
<1>4. CASE job[t].key \in Group(k)
  <2>1. excuse'[k] = excuse[k] + 1
    BY <1>1, <1>4, ExcusedFor
  <2>2. t \in Near(k)
    BY <1>1, <1>4, InSets
  <2>3. Calm(k) => IsMarked(k)'
    BY <1>2 DEF Calm
  <2>4. QED
    BY <1>1, <2>1, <2>2, <2>3, SecondLose
<1>5. QED
  BY <1>3, <1>4

LEMMA AskSecond ==
    ASSUME TInv, TInv', DateInv, NEW k \in Keys, Second(k), NEW t \in Threads,
           Ask(t)
    PROVE  Second(k)'
<1>1. PICK x, n, s : Asked(t, x, n, s)
  BY AskBegins
<1>2. CASE x \in Group(k)
  BY <1>1, <1>2, SecondJoin
<1>3. CASE x \notin Group(k)
  <2>1. /\ pc[t] = "idle" /\ Only(t) /\ job'[t].key = x
        /\ excuse' = (IF Busy(x) THEN Excused(x) ELSE excuse)
        /\ UNCHANGED store /\ UNCHANGED <<day, paid>>
    BY <1>1, AskedDoes
  <2>2. x \in Keys
    BY <1>1 DEF Asked
  <2>3. excuse'[k] = excuse[k]
    BY <1>3, <2>1, <2>2, ExcusedFor
  <2>4. IsMarked(k)' <=> IsMarked(k)
    BY <2>1, MarkSame DEF store
  <2>5. QED
    BY <1>3, <2>1, <2>3, <2>4, SecondApart
<1>4. QED
  BY <1>2, <1>3

LEMMA MidnightSecond ==
    ASSUME TInv, TInv', NEW k \in Keys, Second(k), Midnight
    PROVE  Second(k)'
<1>1. /\ day' = day + 1
      /\ UNCHANGED <<marks, quizDate, signed, receive, pc, job, paid, excuse>>
  BY DEF Midnight, store, history
<1>2. /\ Near(k)' = Near(k) /\ Mine(k)' = Mine(k)
      /\ Open(k)' = Open(k) /\ Late(k)' = Late(k)
      /\ \A x \in Near(k) : Harmless(x, k)' <=> Harmless(x, k)
  BY <1>1 DEF Near, Mine, Open, Late, Harmless
<1>3. IsMarked(k)' <=> IsMarked(k)
  BY <1>1, MarkSame
<1>4. (Calm(k) => Calm(k)') /\ (Budget(k) => Budget(k)')
  BY <1>1, <1>2, <1>3 DEF Calm, Budget
<1>5. CASE k[1] # "quiz"
  BY <1>1, <1>4, <1>5 DEF Second
<1>6. CASE k[1] = "quiz"
  <2>1. k[3] \in Nat /\ day \in Nat /\ paid[k] \in Nat /\ excuse[k] \in Nat
    BY <1>6, QuizDay, Histories
  <2>2. Mine(k) \subseteq Open(k)
    <3>1. ASSUME NEW t \in Mine(k)
          PROVE  t \in Open(k)
      <4>1. t \in Threads /\ pc[t] # "idle" /\ job[t].key = k
        BY DEF Mine
      <4>2. Fits(pc[t], job[t], day)
        BY <4>1, Busily DEF TInv
      <4>3. pc[t] # "store"
        BY <1>6, <4>1, <4>2 DEF Fits, MonthSteps
      <4>4. QED
        BY <4>3, MineNear DEF Open
    <3>2. QED
      BY <3>1
  <2>3. /\ Cardinality(Mine(k)) <= Cardinality(Open(k))
        /\ Cardinality(Mine(k)) \in Nat /\ Cardinality(Open(k)) \in Nat
    BY <2>2, Sets, SubsetNumber
  <2>4. QuizBudget(k)
    BY <1>6 DEF Second
  <2>5. CASE k[3] >= day /\ Budget(k)
    <3>1. CASE k[3] = day
      <4>1. paid[k] + Cardinality(Mine(k)) <= 1 + excuse[k] /\ k[3] < day'
        BY <1>1, <2>1, <2>3, <2>5, <3>1 DEF Budget
      <4>2. QED
        BY <1>1, <1>2, <1>6, <4>1 DEF Second, QuizBudget
    <3>2. CASE k[3] > day
      <4>1. k[3] >= day'
        BY <1>1, <2>1, <3>2
      <4>2. QED
        BY <1>1, <1>4, <1>6, <2>5, <4>1 DEF Second, QuizBudget
    <3>3. QED
      BY <2>1, <2>5, <3>1, <3>2
  <2>6. CASE k[3] < day /\ paid[k] + Cardinality(Mine(k)) <= 1 + excuse[k]
    <3>1. k[3] < day'
      BY <1>1, <2>1, <2>6
    <3>2. QED
      BY <1>1, <1>2, <1>6, <2>6, <3>1 DEF Second, QuizBudget
  <2>7. CASE Calm(k) /\ paid[k] + Cardinality(Near(k)) <= 2 + excuse[k]
    BY <1>1, <1>2, <1>4, <1>6, <2>7 DEF Second, QuizBudget
  <2>8. QED
    BY <2>4, <2>5, <2>6, <2>7 DEF QuizBudget
<1>7. QED
  BY <1>5, <1>6

\* Steps that answer no quiz.
LEMMA DateSame ==
    ASSUME DateInv, UNCHANGED <<quizDate, day>>,
           \A k \in Keys : k[1] = "quiz" => paid'[k] = paid[k]
    PROVE  DateInv'
BY DEF DateInv

LEMMA DateNext ==
    ASSUME TInv, DateInv, [Next]_vars
    PROVE  DateInv'
<1> USE DEF store, history, Quiet
<1>1. CASE UNCHANGED vars
  BY <1>1, DateSame DEF vars
<1>2. CASE Midnight
  <2>1. day \in Nat /\ day' = day + 1 /\ UNCHANGED <<quizDate, paid>>
    BY <1>2 DEF Midnight, TInv, HistoryInv, Days
  <2>2. \A u \in Users : quizDate[u] \in Nat
    BY DEF TInv, StoreInv
  <2>3. \A k \in Keys : k[1] = "quiz" => k[3] \in Nat
    BY QuizDay
  <2>4. QED
    BY <2>1, <2>2, <2>3 DEF DateInv
<1>3. ASSUME NEW t \in Threads, Ask(t)
      PROVE  DateInv'
  <2>1. PICK k, n, s : Asked(t, k, n, s)
    BY <1>3, AskBegins
  <2>2. UNCHANGED <<quizDate, day, paid>>
    BY <2>1, AskedDoes
  <2>3. QED
    BY <2>2, DateSame
<1>4. ASSUME NEW t \in Threads, Crash(t)
      PROVE  DateInv'
  BY <1>4, CrashDoes, DateSame
<1>5. ASSUME NEW t \in Threads, Work(t)
      PROVE  DateInv'
  <2>1. CASE Look(t)
    BY <2>1, LookDoes, DateSame
  <2>2. CASE Mark(t)
    BY <2>2, MarkDoes, DateSame
  <2>3. CASE Pay(t)
    <3>1. /\ pc[t] = "pay" /\ Credit(t) /\ job[t].key \in Keys
          /\ quizDate' = (IF job[t].key[1] = "quiz"
                            THEN [quizDate EXCEPT ![User(t)] = Day(t)]
                            ELSE quizDate)
      BY <2>3, PayDoes
    <3>2. /\ \A k \in Keys :
               paid'[k] = IF k = job[t].key THEN paid[k] + 1 ELSE paid[k]
          /\ day' = day
      BY <3>1, CreditAdds
    <3>3. job[t].key[1] = "quiz" => Day(t) <= day /\ Day(t) \in Nat
      BY <3>1, Busily, QuizDay DEF TInv, Fits, Day
    <3>4. day \in Nat
      BY DEF TInv, HistoryInv, Days
    <3>5. \A u \in Users : quizDate'[u] <= day
      BY <3>1, <3>3 DEF DateInv, TInv, StoreInv
    <3>6. ASSUME NEW k \in Keys, k[1] = "quiz", k[3] > day
          PROVE  paid'[k] = 0
      <4>1. k # job[t].key
        BY <3>3, <3>4, <3>6 DEF Day
      <4>2. QED
        BY <3>2, <3>6, <4>1 DEF DateInv
    <3>7. QED
      BY <3>2, <3>5, <3>6 DEF DateInv
  <2>4. CASE Stock(t)
    BY <2>4, StockDoes, DateSame
  <2>5. CASE Draw(t)
    BY <2>5, DrawDoes, DateSame
  <2>6. CASE Read(t)
    BY <2>6, ReadDoes, DateSame
  <2>7. CASE Enlist(t)
    BY <2>7, EnlistDoes, DateSame
  <2>8. CASE Reread(t)
    BY <2>8, RereadDoes, DateSame
  <2>9. CASE Number(t)
    BY <2>9, NumberDoes, DateSame
  <2>10. CASE Count(t)
    BY <2>10, CountDoes, DateSame
  <2>11. CASE Grant(t)
    <3>1. pc[t] = "grant" /\ Credit(t) /\ quizDate' = quizDate
      BY <2>11, GrantDoes
    <3>2. job[t].key \in Keys /\ job[t].key[1] = "sign"
      BY <3>1, SignKnows DEF SignSteps
    <3>3. /\ \A k \in Keys : k[1] = "quiz" => paid'[k] = paid[k]
          /\ day' = day
      BY <3>1, <3>2, CreditAdds
    <3>4. QED
      BY <3>1, <3>3, DateSame
  <2>12. CASE ReadGoals(t)
    BY <2>12, ReadGoalsDoes, DateSame
  <2>13. CASE Ripe(t)
    BY <2>13, RipeDoes, DateSame
  <2>14. CASE CreditGoal(t)
    <3>1. pc[t] = "credit" /\ Credit(t) /\ quizDate' = quizDate
      BY <2>14, CreditGoalDoes
    <3>2. job[t].key \in Keys /\ job[t].key[1] = "month"
      BY <3>1, MonthKnows DEF MonthSteps
    <3>3. /\ \A k \in Keys : k[1] = "quiz" => paid'[k] = paid[k]
          /\ day' = day
      BY <3>1, <3>2, CreditAdds
    <3>4. QED
      BY <3>1, <3>3, DateSame
  <2>15. CASE StoreGoals(t)
    BY <2>15, StoreGoalsDoes, DateSame
  <2>16. CASE GrantTools(t)
    BY <2>16, GrantToolsDoes, DateSame
  <2>17. QED
    BY <1>5, <2>1, <2>2, <2>3, <2>4, <2>5, <2>6, <2>7, <2>8, <2>9, <2>10,
       <2>11, <2>12, <2>13, <2>14, <2>15, <2>16 DEF Work
<1>6. QED
  BY <1>1, <1>2, <1>3, <1>4, <1>5 DEF Next

LEMMA SecondNext ==
    ASSUME TInv, ClaimInv, SecondInv, [Next]_vars
    PROVE  SecondInv'
<1>0. TInv' /\ DateInv /\ DateInv'
  BY TInvNext, DateNext DEF SecondInv
<1>1. ASSUME NEW k \in Keys
      PROVE  Second(k)'
  <2>0. Second(k)
    BY DEF SecondInv
  <2>1. CASE UNCHANGED vars
    BY <2>0, <2>1
    DEF vars, store, history, Second, QuizBudget, Budget, Calm, IsMarked, Near,
        Mine, Open, Late, Harmless
  <2>2. CASE Midnight
    BY <1>0, <2>0, <2>2, MidnightSecond
  <2>3. ASSUME NEW t \in Threads, Ask(t)
        PROVE  Second(k)'
    BY <1>0, <2>0, <2>3, AskSecond
  <2>4. ASSUME NEW t \in Threads, Crash(t)
        PROVE  Second(k)'
    BY <1>0, <2>0, <2>4, CrashSecond
  <2>5. ASSUME NEW t \in Threads, Work(t)
        PROVE  Second(k)'
    <3>1. CASE Look(t) \/ Mark(t) \/ Pay(t) \/ Stock(t) \/ Draw(t)
      BY <1>0, <2>0, <3>1, LookSecond, MarkSecond, PaySecond, StockSecond,
         DrawSecond
    <3>2. CASE \/ Read(t) \/ Enlist(t) \/ Reread(t) \/ Number(t) \/ Count(t)
               \/ Grant(t) \/ GrantTools(t)
      BY <1>0, <2>0, <3>2, ReadSecond, EnlistSecond, RereadSecond, NumberSecond,
         CountSecond, GrantSecond, GrantToolsSecond
    <3>3. CASE ReadGoals(t) \/ Ripe(t) \/ CreditGoal(t) \/ StoreGoals(t)
      BY <1>0, <2>0, <3>3, ReadGoalsSecond, RipeSecond, CreditGoalSecond,
         StoreGoalsSecond
    <3>4. QED
      BY <2>5, <3>1, <3>2, <3>3 DEF Work
  <2>6. QED
    BY <2>1, <2>2, <2>3, <2>4, <2>5 DEF Next
<1>2. QED
  BY <1>0, <1>1 DEF SecondInv

LEMMA InitSecond ==
    ASSUME Init
    PROVE  ClaimInv /\ SecondInv
<1>1. ClaimInv
  BY DEF Init, ClaimInv, ClaimKeys
<1>2. DateInv
  BY RewardsAssumption DEF Init, DateInv
<1>3. ASSUME NEW k \in Keys
      PROVE  Second(k)
  <2>1. paid[k] = 0 /\ excuse[k] = 0
    BY DEF Init
  <2>2. Near(k) = {} /\ Open(k) = {} /\ Mine(k) = {}
    BY DEF Init, Near, Open, Mine
  <2>3. Cardinality({}) = 0
    BY FS_EmptySet
  <2>4. Budget(k)
    BY <2>1, <2>2, <2>3 DEF Budget
  <2>5. k[1] = "quiz" => k[3] >= day
    BY KeyForm DEF Init, DailyKinds, Days
  <2>6. QED
    BY <2>1, <2>4, <2>5 DEF Second, QuizBudget
<1>4. QED
  BY <1>1, <1>2, <1>3 DEF SecondInv

----------------------------------------------------------------------------
(* Marks are backed *)

\* A mark stays justified as long as no request that is to credit the reward
\* is lost sight of.
LEMMA BackedKept ==
    ASSUME NEW k, NEW t \in Threads, Only(t), Backed(k),
           paid[k] > 0 => paid'[k] > 0, lost[k] > 0 => lost'[k] > 0,
           t \in PastMark(k) => Backed(k)'
    PROVE  Backed(k)'
<1>1. CASE paid[k] > 0 \/ lost[k] > 0
  BY <1>1 DEF Backed
<1>2. CASE t \in PastMark(k)
  BY <1>2
<1>3. ASSUME NEW x \in PastMark(k), x # t
      PROVE  Backed(k)'
  <2>1. x \in Threads /\ pc'[x] = pc[x] /\ job'[x] = job[x]
    BY <1>3 DEF PastMark, Only
  <2>2. x \in PastMark(k)'
    BY <1>3, <2>1 DEF PastMark
  <2>3. QED
    BY <2>2 DEF Backed
<1>4. QED
  BY <1>1, <1>2, <1>3 DEF Backed

LEMMA CreditBacks ==
    ASSUME TInv, NEW t \in Threads, job[t].key \in Keys, Credit(t)
    PROVE  /\ \A k \in Keys : paid[k] > 0 => paid'[k] > 0
           /\ paid'[job[t].key] > 0 /\ lost' = lost
<1>1. /\ \A k \in Keys :
           paid'[k] = IF k = job[t].key THEN paid[k] + 1 ELSE paid[k]
      /\ lost' = lost
  BY CreditAdds
<1>2. \A k \in Keys : paid[k] \in Nat
  BY DEF TInv, HistoryInv
<1>3. QED
  BY <1>1, <1>2

LEMMA ForfeitBacks ==
    ASSUME TInv, NEW t \in Threads, job[t].key \in Keys, Forfeit(t)
    PROVE  /\ \A k \in Keys : lost[k] > 0 => lost'[k] > 0
           /\ lost'[job[t].key] > 0
<1>1. \A k \in Keys :
        lost'[k] = IF k = job[t].key THEN lost[k] + 1 ELSE lost[k]
  BY ForfeitAdds
<1>2. \A k \in Keys : lost[k] \in Nat
  BY DEF TInv, HistoryInv
<1>3. QED
  BY <1>1, <1>2

\* Whatever happens, what is backed stays so.
LEMMA BackedStable ==
    ASSUME TInv, [Next]_vars, NEW k \in Keys, Backed(k)
    PROVE  Backed(k)'
<1> USE DEF store, history, Quiet
<1>1. CASE UNCHANGED vars
  BY <1>1 DEF vars, Backed, PastMark
<1>2. CASE Midnight
  BY <1>2 DEF Midnight, Backed, PastMark
<1>3. ASSUME NEW t \in Threads, Ask(t)
      PROVE  Backed(k)'
  <2>1. PICK x, n, s : Asked(t, x, n, s)
    BY <1>3, AskBegins
  <2>2. UNCHANGED <<paid, lost>> /\ pc[t] = "idle" /\ Only(t)
    BY <2>1, AskedDoes
  <2>3. QED
    BY <2>2, BackedKept DEF PastMark
<1>4. ASSUME NEW t \in Threads, Crash(t) \/ GrantTools(t)
      PROVE  Backed(k)'
  <2>1. Only(t) /\ job[t].key \in Keys /\ Forfeit(t) /\ paid' = paid
    BY <1>4, CrashDoes, GrantToolsDoes DEF Over
  <2>2. (lost[k] > 0 => lost'[k] > 0) /\ lost'[job[t].key] > 0
    BY <2>1, ForfeitBacks
  <2>3. t \in PastMark(k) => Backed(k)'
    BY <2>2 DEF PastMark, Backed
  <2>4. QED
    BY <2>1, <2>2, <2>3, BackedKept
<1>5. ASSUME NEW t \in Threads, Work(t)
      PROVE  Backed(k)'
  <2>1. CASE pc[t] \notin {"pay", "reread", "number", "count", "grant", "credit"}
    <3>1. Only(t) /\ UNCHANGED <<paid, lost>>
      <4>1. CASE Look(t) \/ Mark(t) \/ Stock(t) \/ Draw(t)
        BY <4>1, LookDoes, MarkDoes, StockDoes, DrawDoes DEF At, On, Over
      <4>2. CASE Read(t) \/ Enlist(t)
        BY <4>2, ReadDoes, EnlistDoes DEF At, On, Over
      <4>3. CASE ReadGoals(t) \/ Ripe(t) \/ StoreGoals(t)
        BY <4>3, ReadGoalsDoes, RipeDoes, StoreGoalsDoes DEF At, On, Over
      <4>4. QED
        BY <1>5, <2>1, <4>1, <4>2, <4>3
        DEF Work, Pay, Reread, Number, Count, Grant, GrantTools, CreditGoal
    <3>2. t \notin PastMark(k)
      BY <2>1 DEF PastMark
    <3>3. QED
      BY <3>1, <3>2, BackedKept
  <2>2. CASE Reread(t) \/ Number(t) \/ Count(t)
    <3>1. /\ Only(t) /\ UNCHANGED <<paid, lost>>
          /\ pc'[t] \in {"number", "count", "grant"}
          /\ job'[t].key = job[t].key
      BY <2>2, RereadDoes, NumberDoes, CountDoes DEF At, On
    <3>2. t \in PastMark(k) => t \in PastMark(k)'
      BY <3>1 DEF PastMark
    <3>3. QED
      BY <3>1, <3>2, BackedKept DEF Backed
  <2>3. CASE Pay(t) \/ Grant(t) \/ CreditGoal(t)
    <3>1. Only(t) /\ Credit(t) /\ pc[t] # "idle"
      BY <2>3, PayDoes, GrantDoes, CreditGoalDoes DEF At, Over
    <3>2. job[t].key \in Keys
      BY <3>1, Busily DEF TInv
    <3>3. /\ paid[k] > 0 => paid'[k] > 0
          /\ paid'[job[t].key] > 0 /\ lost' = lost
      BY <3>1, <3>2, CreditBacks
    <3>4. t \in PastMark(k) => Backed(k)'
      BY <3>3 DEF PastMark, Backed
    <3>5. QED
      BY <3>1, <3>3, <3>4, BackedKept
  <2>4. QED
    BY <1>4, <1>5, <2>1, <2>2, <2>3
    DEF Work, Look, Mark, Stock, Draw, Read, Enlist, ReadGoals, Ripe, StoreGoals
<1>6. QED
  BY <1>1, <1>2, <1>3, <1>4, <1>5 DEF Next

\* Credits are not taken back.
LEMMA PaidStays ==
    ASSUME TInv, [Next]_vars, NEW k \in Keys, paid[k] > 0
    PROVE  paid'[k] > 0
<1> USE DEF store, history, Quiet
<1>1. CASE UNCHANGED vars \/ Midnight
  BY <1>1 DEF vars, Midnight
<1>2. ASSUME NEW t \in Threads, Ask(t)
      PROVE  paid' = paid
  BY <1>2, AskBegins, AskedDoes
<1>3. ASSUME NEW t \in Threads, Crash(t)
      PROVE  paid' = paid
  BY <1>3, CrashDoes
<1>4. ASSUME NEW t \in Threads, Work(t)
      PROVE  paid' = paid \/ (Credit(t) /\ pc[t] # "idle")
  <2>1. CASE Pay(t) \/ Grant(t) \/ CreditGoal(t)
    BY <2>1 DEF Pay, Grant, CreditGoal
  <2>2. CASE Look(t) \/ Mark(t) \/ Stock(t) \/ Draw(t) \/ Read(t) \/ Enlist(t)
    BY <2>2 DEF Look, Mark, Stock, Draw, Read, Enlist
  <2>3. CASE Reread(t) \/ Number(t) \/ Count(t) \/ ReadGoals(t) \/ Ripe(t)
               \/ StoreGoals(t) \/ GrantTools(t)
    BY <2>3 DEF Reread, Number, Count, ReadGoals, Ripe, StoreGoals, GrantTools
  <2>4. QED
    BY <1>4, <2>1, <2>2, <2>3 DEF Work
<1>5. ASSUME NEW t \in Threads, Credit(t), pc[t] # "idle"
      PROVE  paid'[k] > 0
  <2>1. job[t].key \in Keys
    BY <1>5, Busily DEF TInv
  <2>2. QED
    BY <1>5, <2>1, CreditBacks
<1>6. QED
  BY <1>1, <1>2, <1>3, <1>4, <1>5 DEF Next

\* What the other threads remember stays backed.
LEMMA RememberSame ==
    ASSUME TInv, [Next]_vars, NEW t \in Threads, Remembers(t),
           pc'[t] = pc[t], job'[t] = job[t]
    PROVE  Remembers(t)'
<1>1. ASSUME pc[t] \in SignSteps, NEW u \in job[t].seen
      PROVE  Backed(<<"sign", u, Day(t)>>)'
  <2>1. Day(t) \in Days /\ u \in Users /\ Day(t)' = Day(t)
    BY <1>1, SignKnows DEF Day
  <2>2. <<"sign", u, Day(t)>> \in Keys
    BY <2>1, KeyMade DEF DailyKinds
  <2>3. Backed(<<"sign", u, Day(t)>>)
    BY <1>1 DEF Remembers
  <2>4. PICK k \in Keys : k = <<"sign", u, Day(t)>>
    BY <2>2
  <2>5. Backed(k)'
    BY <2>3, <2>4, BackedStable
  <2>6. QED
    BY <2>1, <2>4, <2>5
<1>2. ASSUME pc[t] \in MonthSteps, NEW g \in job[t].seen
      PROVE  Backed(<<"month", User(t), g>>)'
  <2>1. User(t) \in Users /\ g \in Goals /\ User(t)' = User(t)
    BY <1>2, MonthKnows DEF User
  <2>2. <<"month", User(t), g>> \in Keys
    BY <2>1, KeyMade
  <2>3. Backed(<<"month", User(t), g>>)
    BY <1>2 DEF Remembers
  <2>4. PICK k \in Keys : k = <<"month", User(t), g>>
    BY <2>2
  <2>5. Backed(k)'
    BY <2>3, <2>4, BackedStable
  <2>6. QED
    BY <2>1, <2>4, <2>5
<1>3. pc[t] = "store" => paid'[job[t].key] > 0
  BY MonthKnows, PaidStays DEF Remembers, MonthSteps
<1>4. QED
  BY <1>1, <1>2, <1>3 DEF Remembers

\* A step keeps every mark backed that sets only backed ones and remembers only
\* backed ones.
LEMMA BackedStep ==
    ASSUME TInv, BackedInv, [Next]_vars, NEW t \in Threads, Only(t),
           Remembers(t)',
           \A k \in Keys : IsMarked(k)' => IsMarked(k) \/ Backed(k)'
    PROVE  BackedInv'
<1>1. ASSUME NEW k \in Keys, IsMarked(k)'
      PROVE  Backed(k)'
  BY <1>1, BackedStable DEF BackedInv
<1>2. ASSUME NEW x \in Threads
      PROVE  Remembers(x)'
  <2>1. CASE x = t
    BY <2>1
  <2>2. CASE x # t
    <3>1. pc'[x] = pc[x] /\ job'[x] = job[x] /\ Remembers(x)
      BY <2>2 DEF Only, BackedInv
    <3>2. QED
      BY <3>1, RememberSame
  <2>3. QED
    BY <2>1, <2>2
<1>3. QED
  BY <1>1, <1>2 DEF BackedInv

\* A thread that remembers nothing.
LEMMA NothingSeen ==
    ASSUME NEW t \in Threads,
           \/ pc'[t] \notin SignSteps \cup MonthSteps
           \/ job'[t].seen = {} /\ pc'[t] # "store"
    PROVE  Remembers(t)'
BY DEF Remembers, MonthSteps

\* A thread that remembers what it did before.
LEMMA SeenSame ==
    ASSUME TInv, BackedInv, [Next]_vars, NEW t \in Threads,
           job'[t].key = job[t].key, job'[t].seen = job[t].seen,
           \/ pc[t] \in SignSteps /\ pc'[t] \in SignSteps
           \/ pc[t] \in MonthSteps /\ pc'[t] \in MonthSteps,
           pc'[t] = "store" => paid'[job[t].key] > 0
    PROVE  Remembers(t)'
<1>1. ASSUME pc'[t] \in SignSteps, NEW u \in job'[t].seen
      PROVE  Backed(<<"sign", u, Day(t)>>)'
  <2>0. pc[t] \in SignSteps
    BY <1>1 DEF SignSteps, MonthSteps
  <2>1. Day(t) \in Days /\ u \in Users /\ Day(t)' = Day(t)
    BY <1>1, <2>0, SignKnows DEF Day
  <2>2. <<"sign", u, Day(t)>> \in Keys
    BY <2>1, KeyMade DEF DailyKinds
  <2>3. Backed(<<"sign", u, Day(t)>>)
    BY <1>1, <2>0 DEF BackedInv, Remembers
  <2>4. PICK k \in Keys : k = <<"sign", u, Day(t)>>
    BY <2>2
  <2>5. Backed(k)'
    BY <2>3, <2>4, BackedStable
  <2>6. QED
    BY <2>1, <2>4, <2>5
<1>2. ASSUME pc'[t] \in MonthSteps, NEW g \in job'[t].seen
      PROVE  Backed(<<"month", User(t), g>>)'
  <2>0. pc[t] \in MonthSteps
    BY <1>2 DEF SignSteps, MonthSteps
  <2>1. User(t) \in Users /\ g \in Goals /\ User(t)' = User(t)
    BY <1>2, <2>0, MonthKnows DEF User
  <2>2. <<"month", User(t), g>> \in Keys
    BY <2>1, KeyMade
  <2>3. Backed(<<"month", User(t), g>>)
    BY <1>2, <2>0 DEF BackedInv, Remembers
  <2>4. PICK k \in Keys : k = <<"month", User(t), g>>
    BY <2>2
  <2>5. Backed(k)'
    BY <2>3, <2>4, BackedStable
  <2>6. QED
    BY <2>1, <2>4, <2>5
<1>3. QED
  BY <1>1, <1>2 DEF Remembers

\* A thread that has just read the list of its day.
LEMMA SeenSigned ==
    ASSUME TInv, BackedInv, [Next]_vars, NEW t \in Threads, pc[t] \in SignSteps,
           job'[t].key = job[t].key, job'[t].seen = signed[Day(t)],
           pc'[t] \in SignSteps
    PROVE  Remembers(t)'
<1>1. ASSUME NEW u \in job'[t].seen
      PROVE  Backed(<<"sign", u, Day(t)>>)'
  <2>1. Day(t) \in Days /\ Day(t)' = Day(t)
    BY SignKnows DEF Day
  <2>2. u \in Users /\ u \in signed[Day(t)]
    BY <1>1, <2>1 DEF TInv, StoreInv
  <2>3. <<"sign", u, Day(t)>> \in Keys
    BY <2>1, <2>2, KeyMade DEF DailyKinds
  <2>4. PICK k \in Keys : k = <<"sign", u, Day(t)>>
    BY <2>3
  <2>5. IsMarked(k)
    BY <2>2, <2>4 DEF IsMarked
  <2>6. Backed(k)'
    BY <2>5, BackedStable DEF BackedInv
  <2>7. QED
    BY <2>1, <2>4, <2>6
<1>2. QED
  BY <1>1 DEF Remembers, SignSteps, MonthSteps

\* A thread that has just read the table of goals of its player.
LEMMA SeenGoals ==
    ASSUME TInv, BackedInv, [Next]_vars, NEW t \in Threads, pc[t] \in MonthSteps,
           job'[t].key = job[t].key, job'[t].seen = receive[User(t)],
           pc'[t] = "ripe"
    PROVE  Remembers(t)'
<1>1. ASSUME NEW g \in job'[t].seen
      PROVE  Backed(<<"month", User(t), g>>)'
  <2>1. User(t) \in Users /\ User(t)' = User(t)
    BY MonthKnows DEF User
  <2>2. g \in Goals /\ g \in receive[User(t)]
    BY <1>1, <2>1 DEF TInv, StoreInv
  <2>3. <<"month", User(t), g>> \in Keys
    BY <2>1, <2>2, KeyMade
  <2>4. PICK k \in Keys : k = <<"month", User(t), g>>
    BY <2>3
  <2>5. IsMarked(k)
    BY <2>2, <2>4 DEF IsMarked
  <2>6. Backed(k)'
    BY <2>5, BackedStable DEF BackedInv
  <2>7. QED
    BY <2>1, <2>4, <2>6
<1>2. QED
  BY <1>1 DEF Remembers, SignSteps, MonthSteps

\* The list of a day is written: who was in it when it was read is backed.
LEMMA SignedBacked ==
    ASSUME TInv, BackedInv, [Next]_vars, NEW t \in Threads, pc[t] \in SignSteps,
           UNCHANGED <<marks, quizDate, receive>>,
           signed' = [signed EXCEPT ![Day(t)] = job[t].seen \cup {User(t)}],
           NEW y, y = job[t].key, Backed(y)', NEW k \in Keys, IsMarked(k)'
    PROVE  IsMarked(k) \/ Backed(k)'
<1>1. /\ Day(t) \in Days /\ job[t].key = <<"sign", User(t), Day(t)>>
  BY SignKnows
<1>2. CASE k[1] = "sign" /\ k[3] = Day(t) /\ k[2] \in job[t].seen
  <2>1. k = <<"sign", k[2], Day(t)>>
    BY <1>2, KeyForm
  <2>2. Backed(k)
    BY <1>2, <2>1 DEF BackedInv, Remembers
  <2>3. QED
    BY <2>2, BackedStable
<1>3. CASE k[1] = "sign" /\ k[3] = Day(t) /\ k[2] = User(t)
  <2>1. k = y
    BY <1>1, <1>3, KeyForm
  <2>2. QED
    BY <2>1
<1>4. CASE ~(k[1] = "sign" /\ k[3] = Day(t))
  <2>1. k[1] = "sign" => k[3] \in Days /\ signed'[k[3]] = signed[k[3]]
    BY <1>1, <1>4, KeyForm DEF DailyKinds, TInv, StoreInv
  <2>2. QED
    BY <2>1 DEF IsMarked
<1>5. CASE k[1] = "sign" /\ k[3] = Day(t) /\ k[2] \in job[t].seen \cup {User(t)}
  BY <1>2, <1>3, <1>5
<1>6. k[1] = "sign" /\ k[3] = Day(t) => k[2] \in job[t].seen \cup {User(t)}
  BY <1>1 DEF IsMarked, ClaimKinds, TInv, StoreInv
<1>7. QED
  BY <1>4, <1>5, <1>6

\* Credits and the sets of marks: what one step may change.
LEMMA BackedWork ==
    ASSUME TInv, BackedInv, [Next]_vars, NEW t \in Threads, Work(t)
    PROVE  BackedInv'
<1> USE DEF store, history, Quiet
<1>0. ASSUME Only(t), Remembers(t)', UNCHANGED <<marks, quizDate, signed, receive>>
      PROVE  BackedInv'
  BY <1>0, BackedStep DEF IsMarked
<1>1. CASE Look(t) \/ Stock(t) \/ Draw(t)
  <2>1. /\ Only(t) /\ UNCHANGED <<marks, quizDate, signed, receive>>
        /\ pc'[t] \in {"idle", "mark", "stock", "pay", "draw"}
    BY <1>1, LookDoes, StockDoes, DrawDoes DEF At, On, Over, AfterLook
  <2>2. Remembers(t)'
    BY <2>1, NothingSeen DEF SignSteps, MonthSteps
  <2>3. QED
    BY <1>0, <2>1, <2>2
<1>2. CASE Mark(t)
  <2>1. /\ Only(t) /\ UNCHANGED <<quizDate, signed, receive>>
        /\ marks' = marks \cup {job[t].key} /\ pc'[t] = "pay" /\ job'[t] = job[t]
    BY <1>2, MarkDoes DEF At
  <2>2. Remembers(t)'
    BY <2>1, NothingSeen DEF SignSteps, MonthSteps
  <2>3. ASSUME NEW k \in Keys, IsMarked(k)', ~IsMarked(k)
        PROVE  Backed(k)'
    <3>1. k = job[t].key
      BY <2>1, <2>3 DEF IsMarked
    <3>2. t \in PastMark(k)'
      BY <2>1, <3>1 DEF PastMark
    <3>3. QED
      BY <3>2 DEF Backed
  <2>4. QED
    BY <2>1, <2>2, <2>3, BackedStep
<1>3. CASE Pay(t)
  <2>1. /\ Only(t) /\ Credit(t) /\ pc'[t] = "idle" /\ job[t].key \in Keys
        /\ UNCHANGED <<signed, receive>>
        /\ marks' \subseteq marks \cup {job[t].key}
        /\ quizDate' = IF job[t].key[1] = "quiz"
                         THEN [quizDate EXCEPT ![User(t)] = Day(t)]
                         ELSE quizDate
    BY <1>3, PayDoes DEF Over
  <2>2. Remembers(t)'
    BY <2>1, NothingSeen DEF SignSteps, MonthSteps
  <2>3. ASSUME NEW k \in Keys, IsMarked(k)', ~IsMarked(k)
        PROVE  Backed(k)'
    <3>1. CASE k[1] = "quiz"
      <4>1. quizDate'[k[2]] = k[3] /\ quizDate[k[2]] # k[3]
        BY <2>3, <3>1 DEF IsMarked, ClaimKinds
      <4>2. k[2] \in Users /\ quizDate \in [Users -> 0..MaxDay]
        BY KeyForm DEF TInv, StoreInv
      <4>3. job[t].key[1] = "quiz" /\ k[2] = User(t) /\ k[3] = Day(t)
        BY <2>1, <4>1, <4>2
      <4>4. k = job[t].key
        BY <2>1, <3>1, <4>3, KeyForm DEF User, Day
      <4>5. paid'[k] > 0
        BY <2>1, <4>4, CreditBacks
      <4>6. QED
        BY <4>5 DEF Backed
    <3>2. CASE k[1] # "quiz"
      <4>1. k = job[t].key
        BY <2>1, <2>3, <3>2 DEF IsMarked
      <4>2. paid'[k] > 0
        BY <2>1, <4>1, CreditBacks
      <4>3. QED
        BY <4>2 DEF Backed
    <3>3. QED
      BY <3>1, <3>2
  <2>4. QED
    BY <2>1, <2>2, <2>3, BackedStep
<1>4. CASE Read(t) \/ Reread(t)
  <2>1. CASE Over(t) /\ Read(t)
    <3>1. Only(t) /\ UNCHANGED <<marks, quizDate, signed, receive>>
      BY <2>1, ReadDoes DEF Over
    <3>2. Remembers(t)'
      BY <2>1, NothingSeen DEF SignSteps, MonthSteps, Over
    <3>3. QED
      BY <1>0, <3>1, <3>2
  <2>2. CASE On(t, "enlist") \/ On(t, "number")
    <3>1. /\ pc[t] \in {"read", "reread"} /\ Only(t)
          /\ UNCHANGED <<marks, quizDate, signed, receive>>
          /\ pc'[t] \in {"enlist", "number"} /\ job'[t].key = job[t].key
      BY <1>4, <2>2, ReadDoes, RereadDoes DEF On
    <3>2. job'[t].seen = signed[Day(t)]
      BY <1>4, <3>1, ReadDoes, RereadDoes DEF Over
    <3>3. Remembers(t)'
      BY <3>1, <3>2, SeenSigned DEF SignSteps
    <3>4. QED
      BY <1>0, <3>1, <3>3
  <2>3. QED
    BY <1>4, <2>1, <2>2, ReadDoes, RereadDoes
<1>5. CASE Enlist(t)
  <2>1. /\ pc[t] = "enlist" /\ Only(t) /\ job'[t] = job[t]
        /\ pc'[t] \in {"reread", "number"}
        /\ signed' = [signed EXCEPT ![Day(t)] = job[t].seen \cup {User(t)}]
        /\ UNCHANGED <<marks, quizDate, receive>>
    BY <1>5, EnlistDoes DEF At
  <2>2. Remembers(t)'
    BY <2>1, SeenSame DEF SignSteps
  <2>3. PICK y : y = job[t].key
    OBVIOUS
  <2>4. Backed(y)'
    BY <2>1, <2>3 DEF Backed, PastMark
  <2>5. pc[t] \in SignSteps
    BY <2>1 DEF SignSteps
  <2>6. \A k \in Keys : IsMarked(k)' => IsMarked(k) \/ Backed(k)'
    BY <2>1, <2>3, <2>4, <2>5, SignedBacked
  <2>7. QED
    BY <2>1, <2>2, <2>6, BackedStep
<1>6. CASE Number(t) \/ Count(t)
  <2>1. /\ pc[t] \in {"number", "count"} /\ Only(t)
        /\ UNCHANGED <<marks, quizDate, signed, receive>>
        /\ pc'[t] \in {"count", "grant"} /\ job'[t].key = job[t].key
        /\ job'[t].seen = job[t].seen
    BY <1>6, NumberDoes, CountDoes DEF On, At
  <2>2. Remembers(t)'
    BY <2>1, SeenSame DEF SignSteps
  <2>3. QED
    BY <1>0, <2>1, <2>2
<1>7. CASE Grant(t)
  <2>1. /\ pc[t] = "grant" /\ Only(t) /\ pc'[t] = "idle" /\ Credit(t)
        /\ UNCHANGED <<marks, quizDate, receive>>
        /\ \/ signed' = [signed EXCEPT ![Day(t)] = job[t].seen \cup {User(t)}]
           \/ signed' = signed
    BY <1>7, GrantDoes DEF Over
  <2>2. Remembers(t)'
    BY <2>1, NothingSeen DEF SignSteps, MonthSteps
  <2>3. CASE signed' = signed
    BY <1>0, <2>1, <2>2, <2>3
  <2>4. CASE signed' = [signed EXCEPT ![Day(t)] = job[t].seen \cup {User(t)}]
    <3>1. PICK y : y = job[t].key
      OBVIOUS
    <3>2. pc[t] \in SignSteps
      BY <2>1 DEF SignSteps
    <3>3. paid'[y] > 0
      BY <2>1, <3>1, <3>2, SignKnows, CreditBacks
    <3>4. Backed(y)'
      BY <3>3 DEF Backed
    <3>5. \A k \in Keys : IsMarked(k)' => IsMarked(k) \/ Backed(k)'
      BY <2>1, <2>4, <3>1, <3>2, <3>4, SignedBacked
    <3>6. QED
      BY <2>1, <2>2, <3>5, BackedStep
  <2>5. QED
    BY <2>1, <2>3, <2>4
<1>8. CASE ReadGoals(t)
  <2>1. /\ pc[t] = "goals" /\ Only(t)
        /\ UNCHANGED <<marks, quizDate, signed, receive>>
        /\ pc'[t] = "ripe" /\ job'[t].key = job[t].key
        /\ job'[t].seen = receive[User(t)]
    BY <1>8, ReadGoalsDoes DEF On
  <2>2. Remembers(t)'
    BY <2>1, SeenGoals DEF MonthSteps
  <2>3. QED
    BY <1>0, <2>1, <2>2
<1>9. CASE Ripe(t)
  <2>1. /\ pc[t] = "ripe" /\ Only(t)
        /\ UNCHANGED <<marks, quizDate, signed, receive>>
        /\ \/ pc'[t] = "idle"
           \/ pc'[t] = "credit" /\ job'[t] = job[t]
    BY <1>9, RipeDoes DEF At, Over
  <2>2. CASE pc'[t] = "idle"
    BY <1>0, <2>1, <2>2, NothingSeen DEF SignSteps, MonthSteps
  <2>3. CASE pc'[t] = "credit" /\ job'[t] = job[t]
    BY <1>0, <2>1, <2>3, SeenSame DEF MonthSteps
  <2>4. QED
    BY <2>1, <2>2, <2>3
<1>10. CASE CreditGoal(t)
  <2>1. /\ pc[t] = "credit" /\ Only(t) /\ Credit(t)
        /\ UNCHANGED <<marks, quizDate, signed, receive>>
        /\ pc'[t] = "store" /\ job'[t] = job[t]
    BY <1>10, CreditGoalDoes DEF At
  <2>2. pc[t] \in MonthSteps
    BY <2>1 DEF MonthSteps
  <2>3. paid'[job[t].key] > 0
    BY <2>1, <2>2, MonthKnows, CreditBacks
  <2>4. Remembers(t)'
    BY <2>1, <2>3, SeenSame DEF MonthSteps
  <2>5. QED
    BY <1>0, <2>1, <2>4
<1>11. CASE StoreGoals(t)
  <2>1. /\ pc[t] = "store" /\ Only(t) /\ pc'[t] = "idle"
        /\ UNCHANGED <<marks, quizDate, signed>>
        /\ receive' = [receive EXCEPT ![User(t)] = job[t].seen \cup {Day(t)}]
    BY <1>11, StoreGoalsDoes DEF Over
  <2>2. Remembers(t)'
    BY <2>1, NothingSeen DEF SignSteps, MonthSteps
  <2>3. /\ pc[t] \in MonthSteps /\ User(t) \in Users /\ job[t].key \in Keys
        /\ job[t].key = <<"month", User(t), Day(t)>>
    BY <2>1, MonthKnows DEF MonthSteps
  <2>4. ASSUME NEW k \in Keys, IsMarked(k)', ~IsMarked(k)
        PROVE  Backed(k)
    <3>1. k[1] = "month" /\ k[3] \in receive'[k[2]] /\ k[3] \notin receive[k[2]]
      BY <2>1, <2>4 DEF IsMarked
    <3>2. k[2] \in Users /\ receive \in [Users -> SUBSET Goals]
      BY KeyForm DEF TInv, StoreInv
    <3>3. k[2] = User(t) /\ k[3] \in job[t].seen \cup {Day(t)}
      BY <2>1, <2>3, <3>1, <3>2
    <3>4. k = <<"month", User(t), k[3]>>
      BY <3>1, <3>3, KeyForm
    <3>5. Remembers(t)
      BY DEF BackedInv
    <3>6. CASE k[3] = Day(t)
      BY <2>1, <2>3, <3>4, <3>5, <3>6 DEF Remembers, Backed
    <3>7. CASE k[3] \in job[t].seen
      BY <2>3, <3>4, <3>5, <3>7 DEF Remembers
    <3>8. QED
      BY <3>3, <3>6, <3>7
  <2>5. \A k \in Keys : IsMarked(k)' => IsMarked(k) \/ Backed(k)'
    BY <2>4, BackedStable
  <2>6. QED
    BY <2>1, <2>2, <2>5, BackedStep
<1>12. CASE GrantTools(t)
  <2>1. /\ Only(t) /\ pc'[t] = "idle"
        /\ UNCHANGED <<marks, quizDate, signed, receive>>
    BY <1>12, GrantToolsDoes DEF Over
  <2>2. Remembers(t)'
    BY <2>1, NothingSeen DEF SignSteps, MonthSteps
  <2>3. QED
    BY <1>0, <2>1, <2>2
<1>13. QED
  BY <1>1, <1>2, <1>3, <1>4, <1>5, <1>6, <1>7, <1>8, <1>9, <1>10, <1>11, <1>12
  DEF Work

LEMMA BackedNext ==
    ASSUME TInv, BackedInv, [Next]_vars
    PROVE  BackedInv'
<1> USE DEF store, history
<1>1. CASE UNCHANGED vars \/ Midnight
  <2>1. UNCHANGED <<marks, quizDate, signed, receive, pc, job>>
    BY <1>1 DEF vars, Midnight
  <2>2. \A k \in Keys : IsMarked(k)' => Backed(k)'
    BY <2>1, BackedStable DEF IsMarked, BackedInv
  <2>3. \A t \in Threads : Remembers(t)'
    BY <2>1, RememberSame DEF BackedInv
  <2>4. QED
    BY <2>2, <2>3 DEF BackedInv
<1>2. ASSUME NEW t \in Threads, Ask(t)
      PROVE  BackedInv'
  <2>1. PICK x, n, s : Asked(t, x, n, s)
    BY <1>2, AskBegins
  <2>2. s # "store"
    BY <2>1 DEF Asked
  <2>3. /\ Only(t) /\ pc'[t] = s /\ job'[t].seen = {}
        /\ UNCHANGED <<marks, quizDate, signed, receive>>
    BY <2>1, AskedDoes
  <2>4. Remembers(t)'
    BY <2>2, <2>3, NothingSeen
  <2>5. QED
    BY <2>3, <2>4, BackedStep DEF IsMarked
<1>3. ASSUME NEW t \in Threads, Crash(t)
      PROVE  BackedInv'
  <2>1. /\ Only(t) /\ pc'[t] = "idle"
        /\ UNCHANGED <<marks, quizDate, signed, receive>>
    BY <1>3, CrashDoes DEF Over
  <2>2. Remembers(t)'
    BY <2>1, NothingSeen DEF SignSteps, MonthSteps
  <2>3. QED
    BY <2>1, <2>2, BackedStep DEF IsMarked
<1>4. QED
  BY <1>1, <1>2, <1>3, BackedWork DEF Next

LEMMA InitBacked ==
    ASSUME Init
    PROVE  BackedInv
<1>1. \A k \in Keys : ~IsMarked(k)
  <2>1. ASSUME NEW k \in Keys
        PROVE  ~IsMarked(k)
    <3>1. k[1] \in DailyKinds => k[3] \in Days /\ k[3] # 0
      BY KeyForm DEF Days
    <3>2. k[2] \in Users
      BY KeyForm
    <3>3. QED
      BY <3>1, <3>2 DEF Init, IsMarked, DailyKinds
  <2>2. QED
    BY <2>1
<1>2. \A t \in Threads : Remembers(t)
  BY DEF Init, Remembers, SignSteps, MonthSteps
<1>3. QED
  BY <1>1, <1>2 DEF BackedInv

LEMMA BackedMarked ==
    ASSUME TInv, BackedInv
    PROVE  MarkedIsPaid
<1>1. ASSUME NEW k \in Keys,
             \/ k \in marks
             \/ k[1] = "quiz" /\ quizDate[k[2]] = k[3]
             \/ k[1] = "sign" /\ k[2] \in signed[k[3]]
             \/ k[1] = "month" /\ k[3] \in receive[k[2]]
      PROVE  Backed(k)
  <2>1. k \in marks => k[1] \in ClaimKinds
    BY DEF TInv, StoreInv, ClaimKeys
  <2>2. IsMarked(k)
    BY <1>1, <2>1 DEF IsMarked
  <2>3. QED
    BY <2>2 DEF BackedInv
<1>2. QED
  BY <1>1 DEF MarkedIsPaid, Backed

----------------------------------------------------------------------------
(* Goals are reached *)

LEMMA UpTo ==
    ASSUME NEW n \in Nat
    PROVE  IsFiniteSet(1..n) /\ Cardinality(1..n) = n
BY FS_Interval

LEMMA CreditsFinite ==
    ASSUME NEW p \in [Keys -> Nat], NEW u \in Users
    PROVE  IsFiniteSet(SignCredits(p, u)) /\ Cardinality(SignCredits(p, u)) \in Nat
<1> DEFINE f == [d \in Days |-> {d} \X (1..p[<<"sign", u, d>>])]
           S == {{d} \X (1..p[<<"sign", u, d>>]) : d \in Days}
<1>1. IsFiniteSet(Days)
  BY UpTo, RewardsAssumption DEF Days
<1>2. f \in Surjection(Days, S)
  BY DEF Surjection
<1>3. IsFiniteSet(S)
  BY <1>1, <1>2, FS_Surjection
<1>4. ASSUME NEW T \in S
      PROVE  IsFiniteSet(T)
  <2>1. PICK d \in Days : T = {d} \X (1..p[<<"sign", u, d>>])
    OBVIOUS
  <2>2. p[<<"sign", u, d>>] \in Nat
    BY KeyMade DEF DailyKinds
  <2>3. IsFiniteSet(1..p[<<"sign", u, d>>])
    BY <2>2, UpTo
  <2>4. IsFiniteSet({d})
    BY FS_Singleton
  <2>5. QED
    BY <2>1, <2>3, <2>4, FS_Product
<1> HIDE DEF S
<1>5. IsFiniteSet(UNION S)
  BY <1>3, <1>4, FS_UNION
<1>6. IsFiniteSet(SignCredits(p, u))
  BY <1>5 DEF SignCredits, S
<1>7. QED
  BY <1>6, FS_CardinalityType

LEMMA CountsType ==
    ASSUME TInv, NEW u \in Users
    PROVE  /\ Counts(u) \in Nat
           /\ Cardinality(SignCredits(paid, u)) \in Nat
           /\ Cardinality(SignCredits(lost, u)) \in Nat
           /\ Cardinality(Granting(u)) \in Nat
<1>1. /\ Cardinality(SignCredits(paid, u)) \in Nat
      /\ Cardinality(SignCredits(lost, u)) \in Nat
  BY CreditsFinite DEF TInv, HistoryInv
<1>2. Cardinality(Granting(u)) \in Nat
  BY ThreadSets DEF Granting
<1>3. QED
  BY <1>1, <1>2 DEF Counts

LEMMA CreditsAre ==
    ASSUME NEW f \in [Keys -> Nat], NEW v \in Users, NEW z \in SignCredits(f, v)
    PROVE  \E d \in Days : \E i \in 1..f[<<"sign", v, d>>] : z = <<d, i>>
<1>1. PICK T \in {{d} \X (1..f[<<"sign", v, d>>]) : d \in Days} : z \in T
  BY DEF SignCredits
<1>2. PICK d \in Days : T = {d} \X (1..f[<<"sign", v, d>>])
  OBVIOUS
<1>3. z = <<d, z[2]>> /\ z[2] \in 1..f[<<"sign", v, d>>]
  BY <1>1, <1>2
<1>4. QED
  BY <1>3

LEMMA CreditsHave ==
    ASSUME NEW p, NEW u, NEW d \in Days, NEW i \in 1..p[<<"sign", u, d>>]
    PROVE  <<d, i>> \in SignCredits(p, u)
<1>1. <<d, i>> \in {d} \X (1..p[<<"sign", u, d>>])
  OBVIOUS
<1>2. QED
  BY <1>1 DEF SignCredits

LEMMA CreditsMonotone ==
    ASSUME NEW p \in [Keys -> Nat], NEW q \in [Keys -> Nat], NEW u \in Users,
           \A x \in Days : p[<<"sign", u, x>>] <= q[<<"sign", u, x>>]
    PROVE  SignCredits(p, u) \subseteq SignCredits(q, u)
<1>1. ASSUME NEW e \in SignCredits(p, u)
      PROVE  e \in SignCredits(q, u)
  <2>1. PICK x \in Days : \E i \in 1..p[<<"sign", u, x>>] : e = <<x, i>>
    BY CreditsAre
  <2>2. PICK i \in 1..p[<<"sign", u, x>>] : e = <<x, i>>
    BY <2>1
  <2>3. p[<<"sign", u, x>>] \in Nat /\ q[<<"sign", u, x>>] \in Nat
    BY KeyMade DEF DailyKinds
  <2>4. i \in 1..q[<<"sign", u, x>>]
    BY <2>3
  <2>5. QED
    BY <2>2, <2>4, CreditsHave
<1>2. QED
  BY <1>1

\* A credit of a sign-in is one element more.
LEMMA CreditsGrow ==
    ASSUME NEW p \in [Keys -> Nat], NEW q \in [Keys -> Nat], NEW u \in Users,
           NEW d \in Days, q[<<"sign", u, d>>] = p[<<"sign", u, d>>] + 1,
           \A x \in Days : x # d => q[<<"sign", u, x>>] = p[<<"sign", u, x>>]
    PROVE  Cardinality(SignCredits(q, u)) = Cardinality(SignCredits(p, u)) + 1
<1> DEFINE n == p[<<"sign", u, d>>]
<1>1. n \in Nat
  BY KeyMade DEF DailyKinds
<1>2. <<d, n + 1>> \notin SignCredits(p, u)
  <2>1. SUFFICES ASSUME <<d, n + 1>> \in SignCredits(p, u) PROVE FALSE
    OBVIOUS
  <2>2. PICK x \in Days : \E i \in 1..p[<<"sign", u, x>>] : <<d, n + 1>> = <<x, i>>
    BY <2>1, CreditsAre
  <2>3. QED
    BY <1>1, <2>2
<1>3. SignCredits(q, u) = SignCredits(p, u) \cup {<<d, n + 1>>}
  <2>1. ASSUME NEW e \in SignCredits(q, u)
        PROVE  e \in SignCredits(p, u) \cup {<<d, n + 1>>}
    <3>0. PICK x \in Days : \E i \in 1..q[<<"sign", u, x>>] : e = <<x, i>>
      BY CreditsAre
    <3>1. PICK i \in 1..q[<<"sign", u, x>>] : e = <<x, i>>
      BY <3>0
    <3>2. CASE x = d /\ i = n + 1
      BY <3>1, <3>2
    <3>3. CASE ~(x = d /\ i = n + 1)
      <4>1. i \in 1..p[<<"sign", u, x>>]
        BY <1>1, <3>1, <3>3
      <4>2. QED
        BY <3>1, <4>1, CreditsHave
    <3>4. QED
      BY <3>2, <3>3
  <2>2. SignCredits(p, u) \subseteq SignCredits(q, u)
    <3>1. ASSUME NEW x \in Days
          PROVE  p[<<"sign", u, x>>] <= q[<<"sign", u, x>>]
      <4>1. p[<<"sign", u, x>>] \in Nat
        BY KeyMade DEF DailyKinds
      <4>2. QED
        BY <4>1
    <3>2. QED
      BY <3>1, CreditsMonotone
  <2>3. <<d, n + 1>> \in SignCredits(q, u)
    <3>1. n + 1 \in 1..q[<<"sign", u, d>>]
      BY <1>1
    <3>2. QED
      BY <3>1, CreditsHave
  <2>4. QED
    BY <2>1, <2>2, <2>3
<1>4. IsFiniteSet(SignCredits(p, u)) /\ Cardinality(SignCredits(p, u)) \in Nat
  BY CreditsFinite
<1> HIDE DEF n
<1>5. Cardinality(SignCredits(p, u) \cup {<<d, n + 1>>})
        = Cardinality(SignCredits(p, u)) + 1
  BY <1>2, <1>4, FS_AddElement
<1>6. QED
  BY <1>3, <1>5

LEMMA CreditsSame ==
    ASSUME NEW p, NEW q, NEW u,
           \A x \in Days : q[<<"sign", u, x>>] = p[<<"sign", u, x>>]
    PROVE  SignCredits(q, u) = SignCredits(p, u)
BY DEF SignCredits

LEMMA CreditsMore ==
    ASSUME NEW p \in [Keys -> Nat], NEW q \in [Keys -> Nat], NEW u \in Users,
           q = p \/ \A x \in Keys : p[x] <= q[x]
    PROVE  Cardinality(SignCredits(p, u)) <= Cardinality(SignCredits(q, u))
<1>1. SignCredits(p, u) \subseteq SignCredits(q, u)
  <2>1. CASE q = p
    BY <2>1
  <2>2. CASE \A x \in Keys : p[x] <= q[x]
    BY <2>2, KeyMade, CreditsMonotone DEF DailyKinds
  <2>3. QED
    BY <2>1, <2>2
<1>2. IsFiniteSet(SignCredits(q, u))
  BY CreditsFinite
<1>3. QED
  BY <1>1, <1>2, FS_Subset

\* Steps that neither credit a sign-in nor end one that has been counted.
LEMMA CountsKept ==
    ASSUME TInv, TInv', NEW u \in Users,
           \A d \in Days : paid'[<<"sign", u, d>>] = paid[<<"sign", u, d>>],
           Granting(u) \subseteq Granting(u)',
           lost' = lost \/ \A x \in Keys : lost[x] <= lost'[x]
    PROVE  Counts(u) <= Counts(u)'
<1>1. SignCredits(paid', u) = SignCredits(paid, u)
  BY CreditsSame
<1>2. Granting(u)' \subseteq Threads
  BY DEF Granting
<1>3. Cardinality(Granting(u)) <= Cardinality(Granting(u)')
  BY <1>2, SubsetNumber
<1>4. lost \in [Keys -> Nat] /\ lost' \in [Keys -> Nat]
  BY DEF TInv, HistoryInv
<1>5. Cardinality(SignCredits(lost, u)) <= Cardinality(SignCredits(lost', u))
  BY <1>4, CreditsMore
<1>6. /\ Cardinality(Granting(u)) \in Nat
      /\ Cardinality(SignCredits(lost, u)) \in Nat
      /\ Cardinality(SignCredits(paid, u)) \in Nat
  BY CountsType
<1>7. Cardinality(Granting(u)') \in Nat
  BY <1>2, ThreadSets
<1>8. Cardinality(SignCredits(lost', u)) \in Nat
  BY <1>4, CreditsFinite
<1>9. QED
  BY <1>1, <1>3, <1>5, <1>6, <1>7, <1>8 DEF Counts

\* A thread that does not wait for its grant leaves no one out.
LEMMA GrantingKept ==
    ASSUME NEW t \in Threads, Only(t), NEW u, pc[t] # "grant"
    PROVE  Granting(u) \subseteq Granting(u)'
<1>1. ASSUME NEW x \in Granting(u)
      PROVE  x \in Granting(u)'
  <2>1. x \in Threads /\ x # t
    BY DEF Granting
  <2>2. pc'[x] = pc[x] /\ job'[x] = job[x]
    BY <2>1 DEF Only
  <2>3. QED
    BY <2>1, <2>2 DEF Granting, User
<1>2. QED
  BY <1>1

\* A grant turns a request into a credit.
LEMMA GrantCounts ==
    ASSUME TInv, TInv', NEW t \in Threads, Grant(t), NEW u \in Users
    PROVE  Counts(u) <= Counts(u)'
<1>1. /\ pc[t] = "grant" /\ pc[t] \in SignSteps /\ Credit(t)
      /\ Only(t) /\ pc'[t] = "idle"
  BY GrantDoes DEF Over, SignSteps
<1>2. /\ job[t].key \in Keys /\ Day(t) \in Days
      /\ job[t].key[1] = "sign" /\ job[t].key = <<"sign", User(t), Day(t)>>
  BY <1>1, SignKnows
<1>3. /\ \A k \in Keys :
           paid'[k] = IF k = job[t].key THEN paid[k] + 1 ELSE paid[k]
      /\ lost' = lost
  BY <1>1, <1>2, CreditAdds
<1>4. \A d \in Days : <<"sign", u, d>> \in Keys
  BY KeyMade DEF DailyKinds
<1>5. CASE u # User(t)
  <2>1. \A d \in Days : paid'[<<"sign", u, d>>] = paid[<<"sign", u, d>>]
    BY <1>2, <1>3, <1>4, <1>5
  <2>2. ASSUME NEW x \in Granting(u)
        PROVE  x \in Granting(u)'
    <3>1. x \in Threads /\ x # t
      BY <1>5 DEF Granting
    <3>2. pc'[x] = pc[x] /\ job'[x] = job[x]
      BY <1>1, <3>1 DEF Only
    <3>3. QED
      BY <3>1, <3>2 DEF Granting, User
  <2>3. QED
    BY <1>3, <2>1, <2>2, CountsKept
<1>6. CASE u = User(t)
  <2>1. /\ paid'[<<"sign", u, Day(t)>>] = paid[<<"sign", u, Day(t)>>] + 1
        /\ \A d \in Days : d # Day(t) =>
             paid'[<<"sign", u, d>>] = paid[<<"sign", u, d>>]
    BY <1>2, <1>3, <1>4, <1>6
  <2>2. paid \in [Keys -> Nat] /\ paid' \in [Keys -> Nat]
    BY DEF TInv, HistoryInv
  <2>3. Cardinality(SignCredits(paid', u)) = Cardinality(SignCredits(paid, u)) + 1
    BY <1>2, <2>1, <2>2, CreditsGrow
  <2>4. Granting(u)' = Granting(u) \ {t}
    <3>1. t \notin Granting(u)'
      BY <1>1 DEF Granting
    <3>2. ASSUME NEW x \in Threads, x # t
          PROVE  x \in Granting(u)' <=> x \in Granting(u)
      BY <1>1, <3>2 DEF Only, Granting, User
    <3>3. Granting(u) \subseteq Threads /\ Granting(u)' \subseteq Threads
      BY DEF Granting
    <3>4. QED
      BY <3>1, <3>2, <3>3
  <2>5. t \in Granting(u) /\ Granting(u) \subseteq Threads
    BY <1>1, <1>2, <1>6 DEF Granting
  <2>6. Cardinality(Granting(u)') = Cardinality(Granting(u)) - 1
    BY <2>4, <2>5, ThreadLess
  <2>7. /\ Cardinality(Granting(u)) \in Nat
        /\ Cardinality(SignCredits(lost, u)) \in Nat
        /\ Cardinality(SignCredits(paid, u)) \in Nat
    BY CountsType
  <2>8. QED
    BY <1>3, <2>3, <2>6, <2>7 DEF Counts
<1>7. QED
  BY <1>5, <1>6

\* A request that ends without its grant is remembered.
LEMMA ForfeitCounts ==
    ASSUME TInv, TInv', NEW t \in Threads, job[t].key \in Keys, Over(t),
           paid' = paid, Forfeit(t), NEW u \in Users
    PROVE  Counts(u) <= Counts(u)'
<1>1. Only(t) /\ pc'[t] = "idle"
  BY DEF Over
<1>2. \A k \in Keys : lost'[k] = IF k = job[t].key THEN lost[k] + 1 ELSE lost[k]
  BY ForfeitAdds
<1>3. lost \in [Keys -> Nat] /\ lost' \in [Keys -> Nat]
  BY DEF TInv, HistoryInv
<1>4. \A d \in Days : <<"sign", u, d>> \in Keys
  BY KeyMade DEF DailyKinds
<1>5. CASE t \notin Granting(u)
  <2>1. ASSUME NEW x \in Granting(u)
        PROVE  x \in Granting(u)'
    <3>1. x \in Threads /\ x # t
      BY <1>5 DEF Granting
    <3>2. pc'[x] = pc[x] /\ job'[x] = job[x]
      BY <1>1, <3>1 DEF Only
    <3>3. QED
      BY <3>1, <3>2 DEF Granting, User
  <2>2. \A x \in Keys : lost[x] <= lost'[x]
    <3>1. \A x \in Keys : lost[x] \in Nat
      BY <1>3
    <3>2. QED
      BY <1>2, <3>1
  <2>3. QED
    BY <2>1, <2>2, CountsKept
<1>6. CASE t \in Granting(u)
  <2>1. Day(t) \in Days /\ job[t].key = <<"sign", u, Day(t)>>
    BY <1>6, SignKnows DEF Granting, SignSteps
  <2>2. /\ lost'[<<"sign", u, Day(t)>>] = lost[<<"sign", u, Day(t)>>] + 1
        /\ \A d \in Days : d # Day(t) =>
             lost'[<<"sign", u, d>>] = lost[<<"sign", u, d>>]
    BY <1>2, <1>4, <2>1
  <2>3. Cardinality(SignCredits(lost', u)) = Cardinality(SignCredits(lost, u)) + 1
    BY <1>3, <2>1, <2>2, CreditsGrow
  <2>4. Granting(u)' = Granting(u) \ {t}
    <3>1. t \notin Granting(u)'
      BY <1>1 DEF Granting
    <3>2. ASSUME NEW x \in Threads, x # t
          PROVE  x \in Granting(u)' <=> x \in Granting(u)
      BY <1>1, <3>2 DEF Only, Granting, User
    <3>3. Granting(u) \subseteq Threads /\ Granting(u)' \subseteq Threads
      BY DEF Granting
    <3>4. QED
      BY <3>1, <3>2, <3>3
  <2>5. Granting(u) \subseteq Threads
    BY DEF Granting
  <2>6. Cardinality(Granting(u)') = Cardinality(Granting(u)) - 1
    BY <1>6, <2>4, <2>5, ThreadLess
  <2>7. /\ Cardinality(Granting(u)) \in Nat
        /\ Cardinality(SignCredits(lost, u)) \in Nat
        /\ Cardinality(SignCredits(paid, u)) \in Nat
    BY CountsType
  <2>8. QED
    BY <2>3, <2>6, <2>7 DEF Counts
<1>7. QED
  BY <1>5, <1>6

\* A sign-in that is counted will be granted.
LEMMA CountCounts ==
    ASSUME TInv, TInv', NEW t \in Threads, Count(t), NEW u, u = User(t)
    PROVE  Counts(u) + 1 <= Counts(u)'
<1>1. /\ pc[t] = "count" /\ pc[t] \in SignSteps /\ Only(t)
      /\ pc'[t] = "grant" /\ job'[t] = job[t] /\ paid' = paid /\ lost' = lost
  BY CountDoes DEF At, SignSteps, Quiet, history
<1>2. u \in Users /\ job[t].key[1] = "sign"
  BY <1>1, SignKnows
<1>3. Granting(u)' = Granting(u) \cup {t}
  <2>1. t \in Granting(u)'
    BY <1>1, <1>2 DEF Granting, User
  <2>2. ASSUME NEW x \in Threads, x # t
        PROVE  x \in Granting(u)' <=> x \in Granting(u)
    BY <1>1, <2>2 DEF Only, Granting, User
  <2>3. Granting(u) \subseteq Threads /\ Granting(u)' \subseteq Threads
    BY DEF Granting
  <2>4. QED
    BY <2>1, <2>2, <2>3
<1>4. t \notin Granting(u) /\ Granting(u) \subseteq Threads
  BY <1>1 DEF Granting
<1>5. Cardinality(Granting(u)') = Cardinality(Granting(u)) + 1
  BY <1>3, <1>4, ThreadMore
<1>6. /\ Cardinality(Granting(u)) \in Nat
      /\ Cardinality(SignCredits(lost, u)) \in Nat
      /\ Cardinality(SignCredits(paid, u)) \in Nat
  BY <1>2, CountsType
<1>7. QED
  BY <1>1, <1>5, <1>6 DEF Counts

\* The sign-ins that have been counted never become fewer.
LEMMA CountsGrow ==
    ASSUME TInv, [Next]_vars, NEW u \in Users
    PROVE  Counts(u) <= Counts(u)'
<1>0. TInv'
  BY TInvNext
<1>k. \A d \in Days : <<"sign", u, d>> \in Keys
  BY KeyMade DEF DailyKinds
<1> USE DEF store, history, Quiet
<1>1. CASE UNCHANGED vars \/ Midnight
  <2>1. UNCHANGED <<pc, job, paid, lost>>
    BY <1>1 DEF vars, Midnight
  <2>2. Granting(u)' = Granting(u)
    BY <2>1 DEF Granting, User
  <2>3. QED
    BY <1>0, <2>1, <2>2, CountsKept
<1>2. ASSUME NEW t \in Threads, Ask(t)
      PROVE  Counts(u) <= Counts(u)'
  <2>1. PICK x, n, s : Asked(t, x, n, s)
    BY <1>2, AskBegins
  <2>2. UNCHANGED <<paid, lost>> /\ pc[t] = "idle" /\ Only(t)
    BY <2>1, AskedDoes
  <2>3. Granting(u) \subseteq Granting(u)'
    BY <2>2, GrantingKept
  <2>4. QED
    BY <1>0, <2>2, <2>3, CountsKept
<1>3. ASSUME NEW t \in Threads, Crash(t) \/ GrantTools(t)
      PROVE  Counts(u) <= Counts(u)'
  BY <1>0, <1>3, CrashDoes, GrantToolsDoes, ForfeitCounts
<1>4. ASSUME NEW t \in Threads, Work(t)
      PROVE  Counts(u) <= Counts(u)'
  <2>1. CASE Grant(t)
    BY <1>0, <2>1, GrantCounts
  <2>2. CASE Pay(t) \/ CreditGoal(t)
    <3>1. /\ Credit(t) /\ Only(t) /\ pc[t] \in {"pay", "credit"}
      BY <2>2, PayDoes, CreditGoalDoes DEF At, Over
    <3>2. job[t].key \in Keys /\ job[t].key[1] # "sign"
      BY <3>1, Busily DEF TInv, Fits, MonthSteps, ClaimKinds
    <3>3. /\ \A k \in Keys :
               paid'[k] = IF k = job[t].key THEN paid[k] + 1 ELSE paid[k]
          /\ lost' = lost
      BY <3>1, <3>2, CreditAdds
    <3>4. \A d \in Days : paid'[<<"sign", u, d>>] = paid[<<"sign", u, d>>]
      BY <1>k, <3>2, <3>3
    <3>5. Granting(u) \subseteq Granting(u)'
      BY <3>1, GrantingKept
    <3>6. QED
      BY <1>0, <3>3, <3>4, <3>5, CountsKept
  <2>3. ASSUME Only(t), UNCHANGED <<paid, lost>>, pc[t] # "grant"
        PROVE  Counts(u) <= Counts(u)'
    <3>1. Granting(u) \subseteq Granting(u)'
      BY <2>3, GrantingKept
    <3>2. QED
      BY <1>0, <2>3, <3>1, CountsKept
  <2>4. CASE Look(t) \/ Mark(t) \/ Stock(t) \/ Draw(t)
    BY <2>3, <2>4, LookDoes, MarkDoes, StockDoes, DrawDoes DEF At, On, Over
  <2>5. CASE Read(t) \/ Enlist(t) \/ Reread(t) \/ Number(t) \/ Count(t)
    BY <2>3, <2>5, ReadDoes, EnlistDoes, RereadDoes, NumberDoes, CountDoes
    DEF At, On, Over
  <2>6. CASE ReadGoals(t) \/ Ripe(t) \/ StoreGoals(t)
    BY <2>3, <2>6, ReadGoalsDoes, RipeDoes, StoreGoalsDoes DEF At, On, Over
  <2>7. QED
    BY <1>3, <1>4, <2>1, <2>2, <2>4, <2>5, <2>6 DEF Work
<1>5. QED
  BY <1>1, <1>2, <1>3, <1>4 DEF Next

LEMMA CountsPrimed ==
    ASSUME TInv, [Next]_vars, NEW u \in Users
    PROVE  Counts(u)' \in Nat
<1>1. TInv'
  BY TInvNext
<1>2. paid' \in [Keys -> Nat] /\ lost' \in [Keys -> Nat]
  BY <1>1 DEF TInv, HistoryInv
<1>3. /\ Cardinality(SignCredits(paid', u)) \in Nat
      /\ Cardinality(SignCredits(lost', u)) \in Nat
  BY <1>2, CreditsFinite
<1>4. Granting(u)' \in SUBSET Threads
  BY DEF Granting
<1>5. Cardinality(Granting(u)') \in Nat
  BY <1>4, ThreadSets
<1>6. QED
  BY <1>3, <1>5 DEF Counts

\* A step that counts only what will be granted, and lets a goal pass or pays
\* it only if it is reached.
LEMMA GoalStep ==
    ASSUME TInv, GoalInv, [Next]_vars, NEW t \in Threads, Only(t),
           \A u \in Users : number'[u] <= Counts(u)',
           (pc[t] = "credit" => Day(t) <= Counts(User(t)))',
           \A u \in Users : \A g \in Goals :
             paid'[<<"month", u, g>>] > 0 =>
               paid[<<"month", u, g>>] > 0 \/ g <= Counts(u)
    PROVE  GoalInv'
<1>0. TInv'
  BY TInvNext
<1>1. \A u \in Users : /\ Counts(u) <= Counts(u)' /\ Counts(u) \in Nat
                       /\ Counts(u)' \in Nat
  <2>1. ASSUME NEW u \in Users
        PROVE  /\ Counts(u) <= Counts(u)' /\ Counts(u) \in Nat
               /\ Counts(u)' \in Nat
    <3>1. Counts(u) <= Counts(u)' /\ Counts(u) \in Nat
      BY CountsGrow, CountsType
    <3>2. Counts(u)' \in Nat
      BY CountsPrimed
    <3>3. QED
      BY <3>1, <3>2
  <2>2. QED
    BY <2>1
<1>2. Goals \subseteq Nat
  BY RewardsAssumption
<1>3. ASSUME NEW x \in Threads
      PROVE  (pc[x] = "credit" => Day(x) <= Counts(User(x)))'
  <2>1. CASE x = t
    BY <2>1
  <2>2. CASE x # t
    <3>1. SUFFICES ASSUME pc'[x] = "credit"
                   PROVE  Day(x)' <= Counts(User(x))'
      OBVIOUS
    <3>2. pc[x] = "credit" /\ Day(x)' = Day(x) /\ User(x)' = User(x)
      BY <2>2, <3>1 DEF Only, Day, User
    <3>3. Day(x) \in Goals /\ User(x) \in Users
      BY <3>2, MonthKnows DEF MonthSteps
    <3>4. Day(x) <= Counts(User(x))
      BY <3>2 DEF GoalInv
    <3>5. PICK u \in Users : u = User(x)
      BY <3>3
    <3>6. Day(x) <= Counts(u)'
      <4>1. Day(x) <= Counts(u)
        BY <3>4, <3>5
      <4>2. Counts(u) <= Counts(u)' /\ Counts(u) \in Nat /\ Counts(u)' \in Nat
        BY <1>1
      <4>3. Day(x) \in Nat
        BY <1>2, <3>3
      <4>4. QED
        BY <4>1, <4>2, <4>3
    <3>7. User(x)' = u
      BY <3>2, <3>5
    <3>8. Counts(User(x))' = Counts(u)'
      BY <3>7
    <3>9. QED
      BY <3>2, <3>6, <3>8
  <2>3. QED
    BY <2>1, <2>2
<1>4. ASSUME NEW u \in Users, NEW g \in Goals, paid'[<<"month", u, g>>] > 0
      PROVE  g <= Counts(u)'
  <2>1. g <= Counts(u)
    BY <1>4 DEF GoalInv
  <2>2. QED
    BY <1>1, <1>2, <2>1
<1>5. QED
  BY <1>3, <1>4 DEF GoalInv

\* Numbers that stay as they are stay justified.
LEMMA NumberKept ==
    ASSUME TInv, GoalInv, [Next]_vars, NEW u \in Users, number'[u] = number[u]
    PROVE  number'[u] <= Counts(u)'
<1>1. Counts(u) <= Counts(u)' /\ Counts(u) \in Nat
  BY CountsGrow, CountsType
<1>2. Counts(u)' \in Nat
  BY CountsPrimed
<1>3. number[u] \in Nat /\ number[u] <= Counts(u)
  BY DEF TInv, StoreInv, GoalInv
<1>4. QED
  BY <1>1, <1>2, <1>3

LEMMA GoalWork ==
    ASSUME TInv, GoalInv, [Next]_vars, NEW t \in Threads, Work(t)
    PROVE  GoalInv'
<1> USE DEF store, history, Quiet
<1>g. \A u \in Users : \A g \in Goals : <<"month", u, g>> \in Keys
  BY KeyMade
<1>0. ASSUME Only(t), pc'[t] # "credit", number' = number, paid' = paid
      PROVE  GoalInv'
  <2>1. \A u \in Users : number'[u] <= Counts(u)'
    BY <1>0, NumberKept
  <2>2. QED
    BY <1>0, <2>1, GoalStep
<1>1. CASE Look(t) \/ Mark(t) \/ Stock(t) \/ Draw(t)
  <2>1. Only(t) /\ pc'[t] # "credit" /\ number' = number /\ paid' = paid
    BY <1>1, LookDoes, MarkDoes, StockDoes, DrawDoes DEF At, On, Over, AfterLook
  <2>2. QED
    BY <1>0, <2>1
<1>2. CASE Read(t) \/ Enlist(t) \/ Reread(t) \/ Number(t)
  <2>1. Only(t) /\ pc'[t] # "credit" /\ number' = number /\ paid' = paid
    BY <1>2, ReadDoes, EnlistDoes, RereadDoes, NumberDoes DEF At, On, Over
  <2>2. QED
    BY <1>0, <2>1
<1>3. CASE ReadGoals(t) \/ StoreGoals(t)
  <2>1. Only(t) /\ pc'[t] # "credit" /\ number' = number /\ paid' = paid
    BY <1>3, ReadGoalsDoes, StoreGoalsDoes DEF At, On, Over
  <2>2. QED
    BY <1>0, <2>1
<1>4. CASE Pay(t) \/ Grant(t)
  <2>1. /\ Only(t) /\ pc'[t] = "idle" /\ number' = number /\ Credit(t)
        /\ pc[t] \in {"pay", "grant"}
    BY <1>4, PayDoes, GrantDoes DEF Over
  <2>2. job[t].key \in Keys /\ job[t].key[1] # "month"
    BY <2>1, Busily DEF TInv, Fits, SignSteps, ClaimKinds
  <2>3. \A k \in Keys : k[1] = "month" => paid'[k] = paid[k]
    BY <2>1, <2>2, CreditAdds
  <2>4. \A u \in Users : \A g \in Goals :
          paid'[<<"month", u, g>>] = paid[<<"month", u, g>>]
    BY <1>g, <2>3
  <2>5. \A u \in Users : number'[u] <= Counts(u)'
    BY <2>1, NumberKept
  <2>6. QED
    BY <2>1, <2>4, <2>5, GoalStep
<1>5. CASE Count(t)
  <2>1. /\ Only(t) /\ pc[t] = "count" /\ pc'[t] = "grant" /\ paid' = paid
        /\ number' = [number EXCEPT ![User(t)] = Counted(t)]
    BY <1>5, CountDoes DEF At
  <2>2. PICK v \in Users : v = User(t)
    BY <2>1, SignKnows DEF SignSteps
  <2>3. ASSUME NEW u \in Users
        PROVE  number'[u] <= Counts(u)'
    <3>1. CASE u # v
      <4>1. number'[u] = number[u]
        BY <2>1, <2>2, <3>1 DEF TInv, StoreInv
      <4>2. QED
        BY <4>1, NumberKept
    <3>2. CASE u = v
      <4>1. number[u] \in Nat /\ number[u] <= Counts(u) /\ Counts(u) \in Nat
        BY CountsType DEF TInv, StoreInv, GoalInv
      <4>2. number'[u] <= number[u] + 1
        BY <2>1, <2>2, <3>2, <4>1 DEF Counted, TInv, StoreInv
      <4>3. Counts(u) + 1 <= Counts(u)'
        BY <1>5, <2>2, <3>2, TInvNext, CountCounts
      <4>4. Counts(u)' \in Nat
        BY CountsPrimed
      <4>5. number'[u] \in Nat
        BY <2>1, <2>2, <3>2, <4>1 DEF Counted, TInv, StoreInv
      <4>6. QED
        BY <4>1, <4>2, <4>3, <4>4, <4>5
    <3>3. QED
      BY <3>1, <3>2
  <2>4. QED
    BY <2>1, <2>3, GoalStep
<1>6. CASE Ripe(t)
  <2>1. CASE Over(t)
    <3>1. Only(t) /\ pc'[t] # "credit" /\ number' = number /\ paid' = paid
      BY <1>6, <2>1, RipeDoes DEF Over
    <3>2. QED
      BY <1>0, <3>1
  <2>2. CASE ~Over(t)
    <3>1. /\ Only(t) /\ pc[t] = "ripe" /\ pc'[t] = "credit" /\ job'[t] = job[t]
          /\ number' = number /\ paid' = paid /\ Day(t) <= number[User(t)]
      BY <1>6, <2>2, RipeDoes DEF At, IsRipe
    <3>2. PICK u \in Users : u = User(t)
      BY <3>1, MonthKnows DEF MonthSteps
    <3>3. Day(t) \in Nat
      BY <3>1, MonthKnows, RewardsAssumption DEF MonthSteps
    <3>4. number'[u] <= Counts(u)'
      BY <3>1, NumberKept
    <3>5. number[u] \in Nat /\ Counts(u)' \in Nat
      BY CountsPrimed DEF TInv, StoreInv
    <3>6. Day(t) <= Counts(u)'
      BY <3>1, <3>2, <3>3, <3>4, <3>5
    <3>7. Day(t)' = Day(t) /\ User(t)' = u
      BY <3>1, <3>2 DEF Day, User
    <3>8. (pc[t] = "credit" => Day(t) <= Counts(User(t)))'
      BY <3>6, <3>7
    <3>9. \A x \in Users : number'[x] <= Counts(x)'
      BY <3>1, NumberKept
    <3>10. QED
      BY <3>1, <3>8, <3>9, GoalStep
  <2>3. QED
    BY <2>1, <2>2
<1>7. CASE CreditGoal(t)
  <2>1. /\ Only(t) /\ pc[t] = "credit" /\ pc'[t] = "store" /\ Credit(t)
        /\ number' = number
    BY <1>7, CreditGoalDoes DEF At
  <2>2. /\ job[t].key \in Keys /\ job[t].key = <<"month", User(t), Day(t)>>
    BY <2>1, MonthKnows DEF MonthSteps
  <2>3. Day(t) <= Counts(User(t))
    BY <2>1 DEF GoalInv
  <2>4. \A k \in Keys :
          paid'[k] = IF k = job[t].key THEN paid[k] + 1 ELSE paid[k]
    BY <2>1, <2>2, CreditAdds
  <2>5. ASSUME NEW u \in Users, NEW g \in Goals, paid'[<<"month", u, g>>] > 0
        PROVE  paid[<<"month", u, g>>] > 0 \/ g <= Counts(u)
    <3>1. CASE <<"month", u, g>> = job[t].key
      <4>1. u = User(t) /\ g = Day(t)
        BY <2>2, <3>1
      <4>2. QED
        BY <2>3, <4>1
    <3>2. CASE <<"month", u, g>> # job[t].key
      BY <1>g, <2>4, <2>5, <3>2
    <3>3. QED
      BY <3>1, <3>2
  <2>6. \A u \in Users : number'[u] <= Counts(u)'
    BY <2>1, NumberKept
  <2>7. QED
    BY <2>1, <2>5, <2>6, GoalStep
<1>8. CASE GrantTools(t)
  <2>1. Only(t) /\ pc'[t] # "credit" /\ number' = number /\ paid' = paid
    BY <1>8, GrantToolsDoes DEF Over
  <2>2. QED
    BY <1>0, <2>1
<1>9. QED
  BY <1>1, <1>2, <1>3, <1>4, <1>5, <1>6, <1>7, <1>8 DEF Work

LEMMA GoalNext ==
    ASSUME TInv, GoalInv, [Next]_vars
    PROVE  GoalInv'
<1> USE DEF store, history
<1>0. ASSUME NEW t \in Threads, Only(t), pc'[t] # "credit", number' = number,
             paid' = paid
      PROVE  GoalInv'
  <2>1. \A u \in Users : number'[u] <= Counts(u)'
    BY <1>0, NumberKept
  <2>2. QED
    BY <1>0, <2>1, GoalStep
<1>1. CASE UNCHANGED vars \/ Midnight
  <2>1. UNCHANGED <<pc, job, number, paid, lost>>
    BY <1>1 DEF vars, Midnight
  <2>2. ASSUME NEW u \in Users
        PROVE  Counts(u)' = Counts(u)
    <3>1. Granting(u)' = Granting(u)
      BY <2>1 DEF Granting, User
    <3>2. /\ SignCredits(paid, u)' = SignCredits(paid, u)
          /\ SignCredits(lost, u)' = SignCredits(lost, u)
      BY <2>1 DEF SignCredits
    <3>3. QED
      BY <3>1, <3>2 DEF Counts
  <2>3. \A t \in Threads : User(t)' = User(t) /\ Day(t)' = Day(t)
    BY <2>1 DEF User, Day
  <2>4. \A u \in Users : (number[u] <= Counts(u))'
    BY <2>1, <2>2 DEF GoalInv
  <2>5. \A u \in Users : \A g \in Goals :
          (paid[<<"month", u, g>>] > 0 => g <= Counts(u))'
    BY <2>1, <2>2 DEF GoalInv
  <2>6. ASSUME NEW t \in Threads, pc'[t] = "credit"
        PROVE  (Day(t) <= Counts(User(t)))'
    <3>1. User(t) \in Users
      BY <2>1, <2>6, MonthKnows DEF MonthSteps
    <3>2. Day(t) <= Counts(User(t))
      BY <2>1, <2>6 DEF GoalInv
    <3>3. QED
      BY <2>1, <2>2, <2>3, <3>1, <3>2
  <2>7. QED
    BY <2>4, <2>5, <2>6 DEF GoalInv
<1>2. ASSUME NEW t \in Threads, Ask(t)
      PROVE  GoalInv'
  <2>1. PICK x, n, s : Asked(t, x, n, s)
    BY <1>2, AskBegins
  <2>2. s # "credit"
    BY <2>1 DEF Asked
  <2>3. Only(t) /\ pc'[t] = s /\ number' = number /\ paid' = paid
    BY <2>1, AskedDoes
  <2>4. QED
    BY <1>0, <2>2, <2>3
<1>3. ASSUME NEW t \in Threads, Crash(t)
      PROVE  GoalInv'
  <2>1. Only(t) /\ pc'[t] = "idle" /\ number' = number /\ paid' = paid
    BY <1>3, CrashDoes DEF Over
  <2>2. QED
    BY <1>0, <2>1
<1>4. QED
  BY <1>1, <1>2, <1>3, GoalWork DEF Next

LEMMA InitGoals ==
    ASSUME Init, TInv
    PROVE  GoalInv
<1>1. \A u \in Users : number[u] = 0 /\ Counts(u) \in Nat
  BY CountsType DEF Init
<1>2. \A u \in Users : \A g \in Goals : paid[<<"month", u, g>>] = 0
  BY KeyMade DEF Init
<1>3. QED
  BY <1>1, <1>2 DEF GoalInv, Init

\* A sign-in that has been counted is one that has been marked.
LEMMA CountsSigned ==
    ASSUME TInv, NEW u \in Users
    PROVE  Counts(u) <= SignIns(u) /\ SignIns(u) \in Nat
<1> DEFINE P == UNION {PastMark(<<"sign", u, d>>) : d \in Days}
<1>1. P \subseteq Threads
  BY DEF PastMark
<1>2. Granting(u) \subseteq P
  <2>1. ASSUME NEW t \in Granting(u)
        PROVE  t \in P
    <3>1. t \in Threads /\ pc[t] = "grant" /\ User(t) = u
      BY DEF Granting
    <3>2. Day(t) \in Days /\ job[t].key = <<"sign", u, Day(t)>>
      BY <3>1, SignKnows DEF SignSteps
    <3>3. t \in PastMark(<<"sign", u, Day(t)>>)
      BY <3>1, <3>2 DEF PastMark
    <3>4. QED
      BY <3>2, <3>3
  <2>2. QED
    BY <2>1
<1> HIDE DEF P
<1>3. Cardinality(Granting(u)) <= Cardinality(P) /\ Cardinality(P) \in Nat
  BY <1>1, <1>2, SubsetNumber, ThreadSets
<1>4. SignIns(u) = Cardinality(SignCredits(paid, u))
                     + Cardinality(SignCredits(lost, u)) + Cardinality(P)
  BY DEF SignIns, SignCredits, P
<1>5. /\ Cardinality(Granting(u)) \in Nat
      /\ Cardinality(SignCredits(lost, u)) \in Nat
      /\ Cardinality(SignCredits(paid, u)) \in Nat
  BY CountsType
<1>6. QED
  BY <1>3, <1>4, <1>5 DEF Counts

LEMMA GoalsReached ==
    ASSUME TInv, GoalInv
    PROVE  GoalsAreReached
<1>1. ASSUME NEW u \in Users, NEW g \in Goals, paid[<<"month", u, g>>] > 0
      PROVE  SignIns(u) >= g
  <2>1. g <= Counts(u)
    BY <1>1 DEF GoalInv
  <2>2. Counts(u) <= SignIns(u) /\ SignIns(u) \in Nat /\ Counts(u) \in Nat
    BY CountsSigned, CountsType
  <2>3. g \in Nat
    BY RewardsAssumption
  <2>4. QED
    BY <2>1, <2>2, <2>3
<1>2. QED
  BY <1>1 DEF GoalsAreReached

----------------------------------------------------------------------------
(* Prizes are bounded *)

LEMMA MostType == Smaller(Max, MaxCorrect) \in Nat
BY RewardsAssumption DEF Smaller

LEMMA ThreadsNumber == Cardinality(Threads) \in Nat \ {0}
<1>1. Cardinality(Threads) \in Nat
  BY RewardsAssumption, FS_CardinalityType
<1>2. Cardinality(Threads) # 0
  BY RewardsAssumption, FS_EmptySet
<1>3. QED
  BY <1>1, <1>2

LEMMA PoolsFinite ==
    ASSUME NEW S \in SUBSET (Threads \X (1..Smaller(Max, MaxCorrect)))
    PROVE  IsFiniteSet(S) /\ Cardinality(S) \in Nat
<1> DEFINE m == Smaller(Max, MaxCorrect)
<1>1. IsFiniteSet(1..m)
  BY MostType, UpTo
<1>2. IsFiniteSet(Threads \X (1..m))
  BY <1>1, RewardsAssumption, FS_Product
<1> HIDE DEF m
<1>3. S \in SUBSET (Threads \X (1..m))
  BY DEF m
<1>4. IsFiniteSet(S)
  BY <1>2, <1>3, FS_Subset
<1>5. QED
  BY <1>4, FS_CardinalityType

\* What the pools of the other threads and one more can hold.
LEMMA PoolsBound ==
    ASSUME NEW S \in SUBSET (Threads \X (1..Smaller(Max, MaxCorrect))),
           NEW t \in Threads, NEW n \in 0..Smaller(Max, MaxCorrect),
           \A e \in S : e[1] = t => e[2] <= n
    PROVE  Cardinality(S) <=
             (Cardinality(Threads) - 1) * Smaller(Max, MaxCorrect) + n
<1> DEFINE m == Smaller(Max, MaxCorrect)
           A == (Threads \ {t}) \X (1..m)
           B == {t} \X (1..n)
<1>1. m \in Nat /\ n \in Nat
  BY MostType
<1>2. S \subseteq A \cup B
  BY <1>1
<1>3. /\ IsFiniteSet(1..m) /\ Cardinality(1..m) = m
      /\ IsFiniteSet(1..n) /\ Cardinality(1..n) = n
  BY <1>1, UpTo
<1>4. /\ IsFiniteSet(Threads \ {t})
      /\ Cardinality(Threads \ {t}) = Cardinality(Threads) - 1
  BY RewardsAssumption, FS_RemoveElement
<1>5. IsFiniteSet({t}) /\ Cardinality({t}) = 1
  BY FS_Singleton
<1>6. IsFiniteSet(A) /\ Cardinality(A) = (Cardinality(Threads) - 1) * m
  <2> HIDE DEF m
  <2>1. /\ IsFiniteSet((Threads \ {t}) \X (1..m))
        /\ Cardinality((Threads \ {t}) \X (1..m))
             = Cardinality(Threads \ {t}) * Cardinality(1..m)
    BY <1>3, <1>4, FS_Product
  <2>2. QED
    BY <1>3, <1>4, <2>1
<1>7. IsFiniteSet(B) /\ Cardinality(B) = n
  <2>1. /\ IsFiniteSet({t} \X (1..n))
        /\ Cardinality({t} \X (1..n)) = Cardinality({t}) * Cardinality(1..n)
    BY <1>3, <1>5, FS_Product
  <2>2. QED
    BY <1>1, <1>3, <1>5, <2>1
<1> HIDE DEF A, B, m
<1>8. /\ IsFiniteSet(A \cup B)
      /\ Cardinality(A \cup B) = Cardinality(A) + Cardinality(B) - Cardinality(A \cap B)
  BY <1>6, <1>7, FS_Union
<1>9. Cardinality(A \cap B) \in Nat
  <2>1. IsFiniteSet(A \cap B)
    BY <1>6, FS_Subset
  <2>2. QED
    BY <2>1, FS_CardinalityType
<1>10. Cardinality(S) <= Cardinality(A \cup B) /\ Cardinality(S) \in Nat
  <2>1. Cardinality(S) <= Cardinality(A \cup B) /\ IsFiniteSet(S)
    BY <1>2, <1>8, FS_Subset
  <2>2. QED
    BY <2>1, FS_CardinalityType
<1>11. Cardinality(A) \in Nat /\ Cardinality(B) \in Nat
  BY <1>6, <1>7, FS_CardinalityType
<1>12. Cardinality(S) <= Cardinality(A) + Cardinality(B)
  BY <1>8, <1>9, <1>10, <1>11
<1>13. QED
  BY <1>6, <1>7, <1>12 DEF m

\* Pools that only lose prizes keep the bound of their day.
LEMMA PoolShrinks ==
    ASSUME TInv, PrizeInv, NEW d \in Days, given'[d] = given[d],
           Pool(d)' \subseteq Pool(d)
    PROVE  given'[d] + Cardinality(Pool(d)') <=
             Max + (Cardinality(Threads) - 1) * Smaller(Max, MaxCorrect)
<1> DEFINE b == Max + (Cardinality(Threads) - 1) * Smaller(Max, MaxCorrect)
<1>1. Pool(d) \in SUBSET (Threads \X (1..Smaller(Max, MaxCorrect)))
  BY DEF Pool
<1>2. IsFiniteSet(Pool(d)) /\ Cardinality(Pool(d)) \in Nat
  BY <1>1, PoolsFinite
<1>3. Cardinality(Pool(d)') <= Cardinality(Pool(d))
  BY <1>2, FS_Subset
<1>4. Cardinality(Pool(d)') \in Nat
  <2>1. IsFiniteSet(Pool(d)')
    BY <1>2, FS_Subset
  <2>2. QED
    BY <2>1, FS_CardinalityType
<1>5. given[d] + Cardinality(Pool(d)) <= b /\ given[d] \in Nat
  BY DEF PrizeInv, TInv, StoreInv
<1>6. b \in Int
  <2>1. Smaller(Max, MaxCorrect) \in Int /\ Cardinality(Threads) - 1 \in Int
    BY MostType, ThreadsNumber
  <2>2. (Cardinality(Threads) - 1) * Smaller(Max, MaxCorrect) \in Int
    BY <2>1
  <2>3. QED
    BY <2>2, RewardsAssumption
<1> HIDE DEF b
<1>7. given'[d] + Cardinality(Pool(d)') <= b
  BY <1>2, <1>3, <1>4, <1>5, <1>6
<1>8. QED
  BY <1>7 DEF b

\* The others' pools do not change; nor does that of a thread for another day.
LEMMA PoolOthers ==
    ASSUME NEW t \in Threads, Only(t), NEW d, pc'[t] # "draw" \/ Day(t)' # d
    PROVE  Pool(d)' \subseteq Pool(d)
<1>1. ASSUME NEW e \in Pool(d)'
      PROVE  e \in Pool(d)
  <2>1. e[1] \in Threads /\ e[1] # t
    BY DEF Pool
  <2>2. PICK x \in Threads : x = e[1]
    BY <2>1
  <2>3. pc'[x] = pc[x] /\ job'[x] = job[x]
    BY <2>1, <2>2 DEF Only
  <2>4. QED
    BY <2>2, <2>3 DEF Pool, Day
<1>2. QED
  BY <1>1

LEMMA PrizeKept ==
    ASSUME TInv, PrizeInv, NEW t \in Threads, Only(t), pc'[t] # "draw",
           given' = given
    PROVE  PrizeInv'
<1>1. ASSUME NEW d \in Days
      PROVE  (given[d] + Cardinality(Pool(d)) <=
                Max + (Cardinality(Threads) - 1) * Smaller(Max, MaxCorrect))'
  <2>1. Pool(d)' \subseteq Pool(d)
    BY PoolOthers
  <2>2. QED
    BY <2>1, PoolShrinks
<1>2. QED
  BY <1>1 DEF PrizeInv

\* A pool is filled with what the maximum leaves at that moment.
LEMMA StockPrizes ==
    ASSUME TInv, PrizeInv, NEW t \in Threads, Stock(t)
    PROVE  PrizeInv'
<1> DEFINE n == Smaller(job[t].n, PrizesLeft(Day(t)))
           m == Smaller(Max, MaxCorrect)
<1>1. /\ pc[t] = "stock" /\ given' = given /\ job[t].key[1] = "quiz"
      /\ job[t].key \in Keys /\ job'[t].n = n
      /\ Only(t) /\ job'[t].key = job[t].key
      /\ pc'[t] = IF n = 0 THEN "pay" ELSE "draw"
  BY StockDoes DEF On, store
<1>2. /\ Day(t) \in Days /\ Day(t)' = Day(t)
      /\ job[t].n \in Nat /\ job[t].n <= MaxCorrect
  BY <1>1, Busily, KeyForm DEF Day, DailyKinds, TInv, Fits
<1>3. /\ given[Day(t)] \in Nat /\ PrizesLeft(Day(t)) \in Nat
      /\ PrizesLeft(Day(t)) <= Max
      /\ PrizesLeft(Day(t)) > 0 => given[Day(t)] + PrizesLeft(Day(t)) = Max
  BY <1>2, RewardsAssumption DEF PrizesLeft, TInv, StoreInv
<1>4. n \in Nat /\ n <= job[t].n /\ n <= PrizesLeft(Day(t))
  BY <1>2, <1>3, Prizes
<1> HIDE DEF n
<1>5. n \in 0..m
  <2>1. n <= MaxCorrect /\ n <= Max
    BY <1>2, <1>3, <1>4, RewardsAssumption
  <2>2. QED
    BY <1>4, <2>1, MostType DEF Smaller
<1>6. ASSUME NEW d \in Days
      PROVE  given'[d] + Cardinality(Pool(d)') <=
               Max + (Cardinality(Threads) - 1) * Smaller(Max, MaxCorrect)
  <2>1. CASE n = 0 \/ d # Day(t)
    <3>1. Pool(d)' \subseteq Pool(d)
      BY <1>1, <1>2, <2>1, PoolOthers
    <3>2. QED
      BY <1>1, <3>1, PoolShrinks
  <2>2. CASE n # 0 /\ d = Day(t)
    <3>1. Pool(d)' \in SUBSET (Threads \X (1..m))
      BY DEF Pool
    <3>2. \A e \in Pool(d)' : e[1] = t => e[2] <= n
      BY <1>1 DEF Pool
    <3>3. Cardinality(Pool(d)') <= (Cardinality(Threads) - 1) * m + n
      BY <1>5, <3>1, <3>2, PoolsBound
    <3>4. given[d] + n <= Max
      BY <1>3, <1>4, <2>2, RewardsAssumption
    <3>5. Cardinality(Pool(d)') \in Nat
      BY <3>1, PoolsFinite
    <3>6. (Cardinality(Threads) - 1) * m \in Int
      BY MostType, ThreadsNumber
    <3> HIDE DEF m
    <3>7. given'[d] + Cardinality(Pool(d)') <= Max + (Cardinality(Threads) - 1) * m
      BY <1>1, <1>3, <1>4, <2>2, <3>3, <3>4, <3>5, <3>6, RewardsAssumption
    <3>8. QED
      BY <3>7 DEF m
  <2>3. QED
    BY <2>1, <2>2
<1>7. QED
  BY <1>6 DEF PrizeInv

\* A prize that is drawn is taken from the pool.
LEMMA DrawPrizes ==
    ASSUME TInv, PrizeInv, NEW t \in Threads, Draw(t)
    PROVE  PrizeInv'
<1> DEFINE n == job[t].n
           m == Smaller(Max, MaxCorrect)
<1>1. /\ pc[t] = "draw" /\ job[t].key[1] = "quiz" /\ job[t].key \in Keys
      /\ given' = [given EXCEPT ![Day(t)] = @ + 1]
      /\ job'[t].n = n - 1 /\ Only(t) /\ job'[t].key = job[t].key
      /\ pc'[t] = IF n = 1 THEN "pay" ELSE "draw"
  BY DrawDoes DEF On
<1>2. Day(t) \in Days /\ Day(t)' = Day(t) /\ n \in 1..m
  BY <1>1, Busily, KeyForm DEF Day, DailyKinds, TInv, Fits
<1>3. given \in [Days -> Nat] /\ m \in Nat
  BY MostType DEF TInv, StoreInv
<1>4. ASSUME NEW d \in Days
      PROVE  given'[d] + Cardinality(Pool(d)') <=
               Max + (Cardinality(Threads) - 1) * Smaller(Max, MaxCorrect)
  <2>1. CASE d # Day(t)
    <3>1. Pool(d)' \subseteq Pool(d)
      BY <1>2, <1>1, <2>1, PoolOthers
    <3>2. given'[d] = given[d]
      BY <1>1, <1>2, <1>3, <2>1
    <3>3. QED
      BY <3>1, <3>2, PoolShrinks
  <2>2. CASE d = Day(t)
    <3>1. Pool(d)' \subseteq Pool(d) \ {<<t, n>>}
      <4>1. ASSUME NEW e \in Pool(d)'
            PROVE  e \in Pool(d) /\ e # <<t, n>>
        <5>1. /\ e \in Threads \X (1..m) /\ pc'[e[1]] = "draw"
              /\ Day(e[1])' = d /\ e[2] <= job'[e[1]].n
          BY DEF Pool
        <5>2. CASE e[1] = t
          <6>1. e[2] \in Nat /\ e[2] <= n - 1 /\ n \in Nat
            BY <1>1, <1>2, <1>3, <5>1, <5>2
          <6>2. e # <<t, n>> /\ e[2] <= n
            BY <6>1
          <6>3. QED
            BY <1>1, <2>2, <5>1, <5>2, <6>2 DEF Pool
        <5>3. CASE e[1] # t
          <6>1. PICK x \in Threads : x = e[1]
            BY <5>1
          <6>2. pc'[x] = pc[x] /\ job'[x] = job[x]
            BY <1>1, <5>3, <6>1 DEF Only
          <6>3. QED
            BY <5>1, <5>3, <6>1, <6>2 DEF Pool, Day
        <5>4. QED
          BY <5>2, <5>3
      <4>2. QED
        BY <4>1
    <3>2. <<t, n>> \in Pool(d)
      BY <1>1, <1>2, <2>2 DEF Pool
    <3>3. Pool(d) \in SUBSET (Threads \X (1..m))
      BY DEF Pool
    <3>4. IsFiniteSet(Pool(d)) /\ Cardinality(Pool(d)) \in Nat
      BY <3>3, PoolsFinite
    <3> HIDE DEF n
    <3>5. /\ IsFiniteSet(Pool(d) \ {<<t, n>>})
          /\ Cardinality(Pool(d) \ {<<t, n>>}) = Cardinality(Pool(d)) - 1
      BY <3>2, <3>4, FS_RemoveElement
    <3>6. Cardinality(Pool(d)') <= Cardinality(Pool(d) \ {<<t, n>>})
      BY <3>1, <3>5, FS_Subset
    <3>7. Cardinality(Pool(d)') \in Nat
      <4>1. IsFiniteSet(Pool(d)')
        BY <3>1, <3>5, FS_Subset
      <4>2. QED
        BY <4>1, FS_CardinalityType
    <3>8. given'[d] = given[d] + 1 /\ given[d] \in Nat
      BY <1>1, <1>2, <1>3, <2>2
    <3>9. given[d] + Cardinality(Pool(d)) <= Max + (Cardinality(Threads) - 1) * m
      BY DEF PrizeInv
    <3>10. Max + (Cardinality(Threads) - 1) * m \in Int
      BY <1>3, ThreadsNumber, RewardsAssumption
    <3> HIDE DEF m
    <3>11. given'[d] + Cardinality(Pool(d)') <= Max + (Cardinality(Threads) - 1) * m
      BY <3>4, <3>5, <3>6, <3>7, <3>8, <3>9, <3>10
    <3>12. QED
      BY <3>11 DEF m
  <2>3. QED
    BY <2>1, <2>2
<1>5. QED
  BY <1>4 DEF PrizeInv

LEMMA PrizeNext ==
    ASSUME TInv, PrizeInv, [Next]_vars
    PROVE  PrizeInv'
<1> USE DEF store, history, Quiet
<1>1. CASE UNCHANGED vars \/ Midnight
  BY <1>1 DEF vars, Midnight, PrizeInv, Pool, Day
<1>2. ASSUME NEW t \in Threads, Ask(t)
      PROVE  PrizeInv'
  <2>1. PICK x, n, s : Asked(t, x, n, s)
    BY <1>2, AskBegins
  <2>2. s # "draw"
    BY <2>1 DEF Asked
  <2>3. Only(t) /\ pc'[t] = s /\ given' = given
    BY <2>1, AskedDoes
  <2>4. QED
    BY <2>2, <2>3, PrizeKept
<1>3. ASSUME NEW t \in Threads, Crash(t)
      PROVE  PrizeInv'
  BY <1>3, CrashDoes, PrizeKept DEF Over
<1>4. ASSUME NEW t \in Threads, Work(t)
      PROVE  PrizeInv'
  <2>1. CASE Stock(t)
    BY <2>1, StockPrizes
  <2>2. CASE Draw(t)
    BY <2>2, DrawPrizes
  <2>3. CASE Look(t) \/ Mark(t) \/ Pay(t)
    <3>1. Only(t) /\ pc'[t] # "draw" /\ given' = given
      BY <2>3, LookDoes, MarkDoes, PayDoes DEF At, Over, AfterLook
    <3>2. QED
      BY <3>1, PrizeKept
  <2>4. CASE \/ Read(t) \/ Enlist(t) \/ Reread(t) \/ Number(t) \/ Count(t)
             \/ Grant(t) \/ GrantTools(t)
    <3>1. Only(t) /\ pc'[t] # "draw" /\ given' = given
      BY <2>4, ReadDoes, EnlistDoes, RereadDoes, NumberDoes, CountDoes, GrantDoes,
         GrantToolsDoes
      DEF At, On, Over
    <3>2. QED
      BY <3>1, PrizeKept
  <2>5. CASE ReadGoals(t) \/ Ripe(t) \/ CreditGoal(t) \/ StoreGoals(t)
    <3>1. Only(t) /\ pc'[t] # "draw" /\ given' = given
      BY <2>5, ReadGoalsDoes, RipeDoes, CreditGoalDoes, StoreGoalsDoes
      DEF At, On, Over
    <3>2. QED
      BY <3>1, PrizeKept
  <2>6. QED
    BY <1>4, <2>1, <2>2, <2>3, <2>4, <2>5 DEF Work
<1>5. QED
  BY <1>1, <1>2, <1>3, <1>4 DEF Next

LEMMA InitPrizes ==
    ASSUME Init
    PROVE  PrizeInv
<1> DEFINE m == Smaller(Max, MaxCorrect)
<1>1. ASSUME NEW d \in Days
      PROVE  given[d] + Cardinality(Pool(d)) <= Max + (Cardinality(Threads) - 1) * m
  <2>1. Pool(d) = {} /\ given[d] = 0
    BY DEF Init, Pool
  <2>2. Cardinality(Pool(d)) = 0
    BY <2>1, FS_EmptySet
  <2>3. Cardinality(Threads) - 1 \in Nat /\ m \in Nat /\ Max \in Nat
    BY MostType, ThreadsNumber, RewardsAssumption
  <2> HIDE DEF m
  <2>4. (Cardinality(Threads) - 1) * m \in Nat
    BY <2>3
  <2>5. QED
    BY <2>1, <2>2, <2>3, <2>4
<1>2. QED
  BY <1>1 DEF PrizeInv

LEMMA PrizesAreBounded ==
    ASSUME TInv, PrizeInv
    PROVE  PrizesBounded
<1> DEFINE m == Smaller(Max, MaxCorrect)
<1>1. ASSUME NEW d \in Days
      PROVE  given[d] <= Max + (Cardinality(Threads) - 1) * m
  <2>1. Pool(d) \in SUBSET (Threads \X (1..m))
    BY DEF Pool
  <2>2. Cardinality(Pool(d)) \in Nat
    BY <2>1, PoolsFinite
  <2>3. /\ given[d] + Cardinality(Pool(d)) <= Max + (Cardinality(Threads) - 1) * m
        /\ given[d] \in Nat
    BY DEF PrizeInv, TInv, StoreInv
  <2>4. Max + (Cardinality(Threads) - 1) * m \in Int
    BY MostType, ThreadsNumber, RewardsAssumption
  <2> HIDE DEF m
  <2>5. QED
    BY <2>2, <2>3, <2>4
<1>2. QED
  BY <1>1 DEF PrizesBounded

----------------------------------------------------------------------------
(* Claims implement a quota of one *)

\* The quota's variables.
Used == [k \in ClaimKeys |-> paid[k]]
Holders(k) == {t \in Threads : job[t].key = k /\ pc[t] \in {"mark", "pay"}}
Held == [k \in ClaimKeys |-> Holders(k)]

\* A request that has found no mark and not credited the reward yet.
Holds(t) == pc[t] \in {"mark", "pay"} /\ job[t].key \in ClaimKeys

LEMMA HeldSame ==
    ASSUME NEW t \in Threads, Only(t), Holds(t)' <=> Holds(t),
           Holds(t) => job'[t].key = job[t].key
    PROVE  Held' = Held
<1>1. \A k \in ClaimKeys : Holders(k)' = Holders(k)
  BY DEF Holders, Only, Holds
<1>2. QED
  BY <1>1 DEF Held

LEMMA HeldMore ==
    ASSUME NEW t \in Threads, Only(t), ~Holds(t), Holds(t)',
           NEW k \in ClaimKeys, job'[t].key = k
    PROVE  Held' = [Held EXCEPT ![k] = @ \cup {t}] /\ t \in Held'[k] \ Held[k]
<1>1. /\ \A x \in ClaimKeys : x # k => Holders(x)' = Holders(x)
      /\ Holders(k)' = Holders(k) \cup {t} /\ t \notin Holders(k)
  BY DEF Holders, Only, Holds
<1>2. QED
  BY <1>1 DEF Held

LEMMA HeldLess ==
    ASSUME NEW t \in Threads, Only(t), Holds(t), ~Holds(t)',
           NEW k \in ClaimKeys, job[t].key = k
    PROVE  Held' = [Held EXCEPT ![k] = @ \ {t}] /\ t \in Held[k]
<1>1. /\ \A x \in ClaimKeys : x # k => Holders(x)' = Holders(x)
      /\ Holders(k)' = Holders(k) \ {t} /\ t \in Holders(k)
  BY DEF Holders, Only, Holds
<1>2. QED
  BY <1>1 DEF Held

LEMMA QuotaPass ==
    ASSUME NEW t \in Threads, NEW k \in ClaimKeys, Used[k] < 1,
           t \in Held'[k] \ Held[k], Held' = [Held EXCEPT ![k] = @ \cup {t}],
           Used' = Used
    PROVE  Limited!Next
<1>1. Limited!Pass(k, t)
  BY DEF Limited!Pass, Used, Held, Holders
<1>2. QED
  BY <1>1 DEF Limited!Next

LEMMA QuotaUse ==
    ASSUME NEW t \in Threads, NEW k \in ClaimKeys, t \in Held[k],
           Held' = [Held EXCEPT ![k] = @ \ {t}],
           Used' = [Used EXCEPT ![k] = @ + 1]
    PROVE  Limited!Next
<1>1. Limited!Use(k, t)
  BY DEF Limited!Use, Used, Held, Holders
<1>2. QED
  BY <1>1 DEF Limited!Next

LEMMA QuotaGiveUp ==
    ASSUME NEW t \in Threads, NEW k \in ClaimKeys, t \in Held[k],
           Held' = [Held EXCEPT ![k] = @ \ {t}], Used' = Used
    PROVE  Limited!Next
<1>1. Limited!GiveUp(k, t)
  BY DEF Limited!GiveUp, Used, Held, Holders
<1>2. QED
  BY <1>1 DEF Limited!Next

LEMMA QuotaStutter ==
    ASSUME Used' = Used, Held' = Held
    PROVE  UNCHANGED Limited!vars
BY DEF Limited!vars, Used, Held, Holders

\* Steps of requests for other rewards, and those that neither find out about
\* a mark nor credit a reward.
LEMMA QuotaElse ==
    ASSUME NEW t \in Threads, Only(t), ~Holds(t), ~Holds(t)',
           \A k \in ClaimKeys : paid'[k] = paid[k]
    PROVE  UNCHANGED Limited!vars
<1>1. Used' = Used
  BY DEF Used
<1>2. Held' = Held
  BY HeldSame
<1>3. QED
  BY <1>1, <1>2, QuotaStutter

LEMMA QuotaWork ==
    ASSUME TInv, ClaimInv, NEW t \in Threads, Work(t)
    PROVE  Limited!Next \/ UNCHANGED Limited!vars
<1> USE DEF store, history, Quiet
<1>0. ClaimKeys \subseteq Keys
  BY DEF ClaimKeys
<1>1. CASE Look(t)
  <2>1. /\ pc[t] = "look" /\ Only(t) /\ paid' = paid
        /\ job[t].key \in Keys /\ job[t].key[1] \in ClaimKinds \cup {"quiz"}
        /\ \/ pc'[t] = "idle"
           \/ /\ ~IsMarked(job[t].key) /\ job'[t] = job[t]
              /\ pc'[t] = AfterLook(job[t].key[1])
    BY <1>1, LookDoes DEF At, Over
  <2>2. ~Holds(t)
    BY <2>1 DEF Holds
  <2>3. CASE pc'[t] = "idle" \/ job[t].key[1] = "quiz"
    <3>1. ~Holds(t)'
      BY <2>1, <2>3 DEF Holds, AfterLook
    <3>2. QED
      BY <2>1, <2>2, <3>1, QuotaElse
  <2>4. CASE pc'[t] # "idle" /\ job[t].key[1] # "quiz"
    <3>1. PICK k \in ClaimKeys : k = job[t].key
      BY <2>1, <2>4 DEF ClaimKeys
    <3>2. Holds(t)' /\ job'[t].key = k
      BY <2>1, <2>4, <3>1 DEF Holds, AfterLook
    <3>3. k \notin marks
      BY <2>1, <2>4, <3>1 DEF IsMarked, ClaimKeys
    <3>4. paid[k] \in Nat
      BY <1>0 DEF TInv, HistoryInv
    <3>5. Used[k] < 1 /\ Used' = Used
      BY <2>1, <3>3, <3>4 DEF ClaimInv, Used
    <3>6. Held' = [Held EXCEPT ![k] = @ \cup {t}] /\ t \in Held'[k] \ Held[k]
      BY <2>1, <2>2, <3>2, HeldMore
    <3>7. QED
      BY <3>5, <3>6, QuotaPass
  <2>5. QED
    BY <2>3, <2>4
<1>2. CASE Mark(t)
  <2>1. /\ pc[t] = "mark" /\ Only(t) /\ paid' = paid /\ pc'[t] = "pay"
        /\ job[t].key \in ClaimKeys /\ job'[t] = job[t]
    BY <1>2, MarkDoes DEF At, ClaimKeys, ClaimKinds
  <2>2. Holds(t) /\ Holds(t)'
    BY <2>1 DEF Holds
  <2>3. Held' = Held
    BY <2>1, <2>2, HeldSame
  <2>4. Used' = Used
    BY <2>1 DEF Used
  <2>5. QED
    BY <2>3, <2>4, QuotaStutter
<1>3. CASE Pay(t)
  <2>1. /\ pc[t] = "pay" /\ Only(t) /\ pc'[t] = "idle" /\ Credit(t)
        /\ job[t].key \in Keys
    BY <1>3, PayDoes DEF Over
  <2>2. \A k \in Keys :
          paid'[k] = IF k = job[t].key THEN paid[k] + 1 ELSE paid[k]
    BY <2>1, CreditAdds
  <2>3. ~Holds(t)'
    BY <2>1 DEF Holds
  <2>4. CASE job[t].key \in ClaimKeys
    <3>1. PICK k \in ClaimKeys : k = job[t].key
      BY <2>4
    <3>2. Holds(t)
      BY <2>1, <2>4 DEF Holds
    <3>3. Held' = [Held EXCEPT ![k] = @ \ {t}] /\ t \in Held[k]
      BY <2>1, <2>3, <3>1, <3>2, HeldLess
    <3>4. Used' = [Used EXCEPT ![k] = @ + 1]
      BY <1>0, <2>2, <3>1 DEF Used
    <3>5. QED
      BY <3>3, <3>4, QuotaUse
  <2>5. CASE job[t].key \notin ClaimKeys
    <3>1. ~Holds(t) /\ \A k \in ClaimKeys : paid'[k] = paid[k]
      BY <1>0, <2>2, <2>5 DEF Holds
    <3>2. QED
      BY <2>1, <2>3, <3>1, QuotaElse
  <2>6. QED
    BY <2>4, <2>5
<1>4. CASE Stock(t) \/ Draw(t)
  <2>1. /\ Only(t) /\ paid' = paid /\ job[t].key[1] = "quiz"
        /\ job'[t].key = job[t].key
    BY <1>4, StockDoes, DrawDoes DEF On
  <2>2. ~Holds(t) /\ ~Holds(t)'
    BY <2>1 DEF Holds, ClaimKeys, ClaimKinds
  <2>3. QED
    BY <2>1, <2>2, QuotaElse
<1>5. CASE Read(t) \/ Enlist(t) \/ Reread(t) \/ Number(t) \/ Count(t)
  <2>1. /\ Only(t) /\ paid' = paid /\ pc[t] \notin {"mark", "pay"}
        /\ pc'[t] \notin {"mark", "pay"}
    BY <1>5, ReadDoes, EnlistDoes, RereadDoes, NumberDoes, CountDoes
    DEF At, On, Over
  <2>2. QED
    BY <2>1, QuotaElse DEF Holds
<1>6. CASE Grant(t) \/ CreditGoal(t)
  <2>1. /\ Only(t) /\ Credit(t) /\ pc[t] \in {"grant", "credit"}
        /\ pc'[t] \notin {"mark", "pay"}
    BY <1>6, GrantDoes, CreditGoalDoes DEF At, Over
  <2>2. job[t].key \in Keys /\ job[t].key \notin ClaimKeys
    BY <2>1, Busily DEF TInv, Fits, SignSteps, MonthSteps, ClaimKeys, ClaimKinds
  <2>3. \A k \in ClaimKeys : paid'[k] = paid[k]
    BY <1>0, <2>1, <2>2, CreditAdds
  <2>4. QED
    BY <2>1, <2>3, QuotaElse DEF Holds
<1>7. CASE ReadGoals(t) \/ Ripe(t) \/ StoreGoals(t)
  <2>1. /\ Only(t) /\ paid' = paid /\ pc[t] \notin {"mark", "pay"}
        /\ pc'[t] \notin {"mark", "pay"}
    BY <1>7, ReadGoalsDoes, RipeDoes, StoreGoalsDoes DEF At, On, Over
  <2>2. QED
    BY <2>1, QuotaElse DEF Holds
<1>8. CASE GrantTools(t)
  <2>1. /\ Only(t) /\ paid' = paid /\ pc[t] \notin {"mark", "pay"}
        /\ pc'[t] \notin {"mark", "pay"}
    BY <1>8, GrantToolsDoes DEF Over
  <2>2. QED
    BY <2>1, QuotaElse DEF Holds
<1>9. QED
  BY <1>1, <1>2, <1>3, <1>4, <1>5, <1>6, <1>7, <1>8 DEF Work

LEMMA QuotaStep == TInv /\ ClaimInv /\ [Next]_vars => [Limited!Next]_(Limited!vars)
<1>0. SUFFICES ASSUME TInv, ClaimInv, [Next]_vars
               PROVE  Limited!Next \/ UNCHANGED Limited!vars
  OBVIOUS
<1> USE DEF store, history
<1>1. CASE UNCHANGED vars \/ Midnight
  <2>1. UNCHANGED <<pc, job, paid>>
    BY <1>1 DEF vars, Midnight
  <2>2. QED
    BY <2>1, QuotaStutter DEF Used, Held, Holders
<1>2. ASSUME NEW t \in Threads, Ask(t)
      PROVE  UNCHANGED Limited!vars
  <2>1. PICK x, n, s : Asked(t, x, n, s)
    BY <1>0, <1>2, AskBegins
  <2>2. s \notin {"mark", "pay"}
    BY <2>1 DEF Asked
  <2>3. Only(t) /\ pc[t] = "idle" /\ pc'[t] = s /\ paid' = paid
    BY <1>0, <2>1, AskedDoes
  <2>4. QED
    BY <2>2, <2>3, QuotaElse DEF Holds
<1>3. ASSUME NEW t \in Threads, Crash(t)
      PROVE  Limited!Next \/ UNCHANGED Limited!vars
  <2>1. Only(t) /\ pc'[t] = "idle" /\ paid' = paid
    BY <1>0, <1>3, CrashDoes DEF Over
  <2>2. ~Holds(t)' /\ Used' = Used
    BY <2>1 DEF Holds, Used
  <2>3. CASE Holds(t)
    <3>1. PICK k \in ClaimKeys : k = job[t].key
      BY <2>3 DEF Holds
    <3>2. Held' = [Held EXCEPT ![k] = @ \ {t}] /\ t \in Held[k]
      BY <2>1, <2>2, <2>3, <3>1, HeldLess
    <3>3. QED
      BY <2>2, <3>2, QuotaGiveUp
  <2>4. CASE ~Holds(t)
    BY <2>1, <2>2, <2>4, QuotaElse
  <2>5. QED
    BY <2>3, <2>4
<1>4. QED
  BY <1>0, <1>1, <1>2, <1>3, QuotaWork DEF Next

LEMMA QuotaInit == Init => Limited!Init
<1>1. SUFFICES ASSUME Init PROVE Limited!Init
  OBVIOUS
<1>2. ClaimKeys \subseteq Keys
  BY DEF ClaimKeys
<1>3. Used \in [ClaimKeys -> 0..1]
  BY <1>1, <1>2 DEF Used, Init
<1>4. Held = [k \in ClaimKeys |-> {}]
  BY <1>1 DEF Held, Holders, Init
<1>5. QED
  BY <1>3, <1>4 DEF Limited!Init, Used, Held, Holders

----------------------------------------------------------------------------
(* How far a quota of one is exceeded *)

\* A reward's credits and the requests that may still credit it.
Promised(k) == paid[k] + Cardinality(Holders(k))

PromiseInv == \A k \in ClaimKeys : Promised(k) <= Cardinality(Threads)

\* A step of the quota keeps the promise: only Pass adds a request, while there
\* is no credit yet.
LEMMA PromiseNext ==
    ASSUME TInv, TInv', PromiseInv, Limited!Next \/ UNCHANGED Limited!vars
    PROVE  PromiseInv'
<1>0. /\ Cardinality(Threads) \in Nat
      /\ \A k \in ClaimKeys : /\ paid[k] \in Nat /\ paid'[k] \in Nat
                              /\ Holders(k) \in SUBSET Threads
                              /\ Holders(k)' \in SUBSET Threads
                              /\ Cardinality(Holders(k)) \in Nat
                              /\ Promised(k) <= Cardinality(Threads)
  <2>1. Cardinality(Threads) \in Nat
    BY ThreadsNumber
  <2>2. ASSUME NEW k \in ClaimKeys
        PROVE  /\ paid[k] \in Nat /\ paid'[k] \in Nat
               /\ Holders(k) \in SUBSET Threads
               /\ Holders(k)' \in SUBSET Threads
               /\ Cardinality(Holders(k)) \in Nat
               /\ Promised(k) <= Cardinality(Threads)
    <3>1. k \in Keys
      BY DEF ClaimKeys
    <3>2. Holders(k) \in SUBSET Threads /\ Holders(k)' \in SUBSET Threads
      BY DEF Holders
    <3>3. Cardinality(Holders(k)) \in Nat
      BY <3>2, ThreadSets
    <3>4. QED
      BY <3>1, <3>2, <3>3 DEF TInv, HistoryInv, PromiseInv
  <2>3. QED
    BY <2>1, <2>2
<1>1. ASSUME NEW k \in ClaimKeys, NEW x \in ClaimKeys, x # k,
             \/ Held' = Held
             \/ \E S : Held' = [Held EXCEPT ![x] = S],
             \/ Used' = Used
             \/ \E n : Used' = [Used EXCEPT ![x] = n]
      PROVE  Promised(k)' = Promised(k)
  <2>1. Held'[k] = Held[k] /\ Used'[k] = Used[k]
    BY <1>1 DEF Held, Used
  <2>2. Holders(k)' = Holders(k) /\ paid'[k] = paid[k]
    BY <2>1 DEF Held, Used
  <2>3. QED
    BY <2>2 DEF Promised
<1>2. CASE UNCHANGED Limited!vars
  <2>1. Used' = Used /\ Held' = Held
    BY <1>2 DEF Limited!vars, Used, Held, Holders
  <2>2. \A k \in ClaimKeys : Holders(k)' = Holders(k) /\ paid'[k] = paid[k]
    <3>1. ASSUME NEW k \in ClaimKeys
          PROVE  Holders(k)' = Holders(k) /\ paid'[k] = paid[k]
      <4>1. Held'[k] = Held[k] /\ Used'[k] = Used[k]
        BY <2>1
      <4>2. QED
        BY <4>1 DEF Held, Used
    <3>2. QED
      BY <3>1
  <2>3. QED
    BY <1>0, <2>2 DEF PromiseInv, Promised
<1>3. ASSUME NEW x \in ClaimKeys, NEW r \in Threads, Limited!Pass(x, r)
      PROVE  PromiseInv'
  <2>1. /\ Used[x] < 1 /\ r \in Held'[x] \ Held[x] /\ Used' = Used
        /\ Held' = [Held EXCEPT ![x] = Held[x] \cup {r}]
    BY <1>3 DEF Limited!Pass, Used, Held, Holders
  <2>2. /\ paid[x] < 1 /\ paid'[x] = paid[x]
        /\ Holders(x)' = Holders(x) \cup {r}
    <3>1. Used[x] = paid[x] /\ Used'[x] = paid'[x]
      BY DEF Used
    <3>2. Held[x] = Holders(x) /\ Held'[x] = Holders(x)'
      BY DEF Held
    <3>3. Held'[x] = Held[x] \cup {r}
      BY <2>1 DEF Held
    <3>4. QED
      BY <2>1, <3>1, <3>2, <3>3
  <2>3. Promised(x)' <= Cardinality(Threads)
    <3>1. Cardinality(Holders(x)') <= Cardinality(Threads)
      BY <1>0, SubsetNumber
    <3>2. Cardinality(Holders(x)') \in Nat
      BY <1>0, ThreadSets
    <3>3. paid'[x] = 0
      BY <1>0, <2>2
    <3>4. QED
      BY <1>0, <3>1, <3>2, <3>3 DEF Promised
  <2>4. QED
    BY <1>0, <1>1, <2>1, <2>3 DEF PromiseInv
<1>4. ASSUME NEW x \in ClaimKeys, NEW r \in Threads, Limited!Use(x, r)
      PROVE  PromiseInv'
  <2>1. /\ r \in Held[x] /\ Used' = [Used EXCEPT ![x] = Used[x] + 1]
        /\ Held' = [Held EXCEPT ![x] = Held[x] \ {r}]
    BY <1>4 DEF Limited!Use, Used, Held, Holders
  <2>2. /\ r \in Holders(x) /\ paid'[x] = paid[x] + 1
        /\ Holders(x)' = Holders(x) \ {r}
    <3>1. Used[x] = paid[x] /\ Used'[x] = paid'[x]
      BY DEF Used
    <3>2. Held[x] = Holders(x) /\ Held'[x] = Holders(x)'
      BY DEF Held
    <3>3. Held'[x] = Held[x] \ {r} /\ Used'[x] = Used[x] + 1
      BY <2>1 DEF Held, Used
    <3>4. QED
      BY <2>1, <3>1, <3>2, <3>3
  <2>3. Promised(x)' <= Cardinality(Threads)
    <3>1. Cardinality(Holders(x)') = Cardinality(Holders(x)) - 1
      BY <1>0, <2>2, ThreadLess
    <3>2. QED
      BY <1>0, <2>2, <3>1 DEF Promised
  <2>4. QED
    BY <1>0, <1>1, <2>1, <2>3 DEF PromiseInv
<1>5. ASSUME NEW x \in ClaimKeys, NEW r \in Threads, Limited!GiveUp(x, r)
      PROVE  PromiseInv'
  <2>1. /\ r \in Held[x] /\ Used' = Used
        /\ Held' = [Held EXCEPT ![x] = Held[x] \ {r}]
    BY <1>5 DEF Limited!GiveUp, Used, Held, Holders
  <2>2. /\ r \in Holders(x) /\ paid'[x] = paid[x]
        /\ Holders(x)' = Holders(x) \ {r}
    <3>1. Used[x] = paid[x] /\ Used'[x] = paid'[x]
      BY DEF Used
    <3>2. Held[x] = Holders(x) /\ Held'[x] = Holders(x)'
      BY DEF Held
    <3>3. Held'[x] = Held[x] \ {r}
      BY <2>1 DEF Held
    <3>4. QED
      BY <2>1, <3>1, <3>2, <3>3
  <2>3. Promised(x)' <= Cardinality(Threads)
    <3>1. Cardinality(Holders(x)') = Cardinality(Holders(x)) - 1
      BY <1>0, <2>2, ThreadLess
    <3>2. QED
      BY <1>0, <2>2, <3>1 DEF Promised
  <2>4. QED
    BY <1>0, <1>1, <2>1, <2>3 DEF PromiseInv
<1>6. ASSUME NEW x \in ClaimKeys, Limited!Free(x)
      PROVE  PromiseInv'
  <2>1. Used' = [Used EXCEPT ![x] = Used[x] - 1] /\ Held' = Held
    BY <1>6 DEF Limited!Free, Used, Held, Holders
  <2>2. paid'[x] = paid[x] - 1 /\ Holders(x)' = Holders(x)
    <3>1. Used[x] = paid[x] /\ Used'[x] = paid'[x]
      BY DEF Used
    <3>2. Held[x] = Holders(x) /\ Held'[x] = Holders(x)'
      BY DEF Held
    <3>3. Used'[x] = Used[x] - 1
      BY <2>1 DEF Used
    <3>4. QED
      BY <2>1, <3>1, <3>2, <3>3
  <2>3. Promised(x)' <= Cardinality(Threads)
    BY <1>0, <2>2 DEF Promised
  <2>4. QED
    BY <1>0, <1>1, <2>1, <2>3 DEF PromiseInv
<1>7. QED
  BY <1>2, <1>3, <1>4, <1>5, <1>6 DEF Limited!Next

LEMMA InitPromise ==
    ASSUME Init
    PROVE  PromiseInv
<1>1. ASSUME NEW k \in ClaimKeys
      PROVE  Promised(k) <= Cardinality(Threads)
  <2>1. paid[k] = 0 /\ Holders(k) = {}
    BY DEF Init, ClaimKeys, Holders
  <2>2. Cardinality(Holders(k)) = 0
    BY <2>1, FS_EmptySet
  <2>3. QED
    BY <2>1, <2>2, ThreadsNumber DEF Promised
<1>2. QED
  BY <1>1 DEF PromiseInv

----------------------------------------------------------------------------
(* The theorems *)

LEMMA TypesAreOK == TInv => TypeOK
<1>1. SUFFICES ASSUME TInv PROVE TypeOK
  OBVIOUS
<1>2. \A t \in Threads : IF pc[t] = "idle" THEN job[t] = NoJob ELSE job[t] \in Jobs
  BY <1>1 DEF TInv, ThreadInv, Sound
<1>3. QED
  BY <1>1, <1>2 DEF TypeOK, TInv, StoreInv, HistoryInv, ThreadInv

\* Every table, list and request has its type in every reachable state.
THEOREM TypeCorrect == Spec => []TypeOK
BY InitTypes, TInvNext, TypesAreOK, PTL DEF Spec

LEMMA InvStarts == Init => IInv
<1>1. SUFFICES ASSUME Init PROVE IInv
  OBVIOUS
<1>2. TInv
  BY <1>1, InitTypes
<1>3. QED
  BY <1>1, <1>2, InitSecond, InitBacked, InitGoals, InitPrizes DEF IInv

LEMMA InvNext == IInv /\ [Next]_vars => IInv'
<1>1. SUFFICES ASSUME IInv, [Next]_vars PROVE IInv'
  OBVIOUS
<1>2. TInv /\ ClaimInv /\ SecondInv /\ BackedInv /\ GoalInv /\ PrizeInv
  BY <1>1 DEF IInv
<1>3. TInv'
  BY <1>1, <1>2, TInvNext
<1>4. ClaimInv'
  BY <1>1, <1>2, ClaimNext
<1>5. SecondInv'
  BY <1>1, <1>2, SecondNext
<1>6. BackedInv'
  BY <1>1, <1>2, BackedNext
<1>7. GoalInv'
  BY <1>1, <1>2, GoalNext
<1>8. PrizeInv'
  BY <1>1, <1>2, PrizeNext
<1>9. QED
  BY <1>3, <1>4, <1>5, <1>6, <1>7, <1>8 DEF IInv

LEMMA Invariant == Spec => []IInv
BY InvStarts, InvNext, PTL DEF Spec

\* Sharing, the exchange code, the survey, the quiz, the sign-in and the goals
\* of the month are credited once, and once more only for each request that
\* came while another one of the same list or field was under way, or that
\* ended without its credit (its worker died, or the day's prize was tools): for
\* every number of players, threads, days, requests and deaths, whatever is
\* lost when a list is written back as a whole.
THEOREM SecondTheorem == Spec => []SecondNeedsExcuse
<1>1. IInv => SecondNeedsExcuse
  BY DEF IInv, SecondInv, Second, SecondNeedsExcuse
<1>2. QED
  BY <1>1, Invariant, PTL

\* A mark that turns a player away has been followed by its credit, will be, or
\* belongs to a request that ended without it: its worker died between the two,
\* or the prize of the day was tools, which the handler never hands out.
THEOREM MarkedTheorem == Spec => []MarkedIsPaid
<1>1. IInv => MarkedIsPaid
  BY BackedMarked DEF IInv
<1>2. QED
  BY <1>1, Invariant, PTL

\* A goal of the month is paid to those only who have signed in that often, with
\* a coin for it or, on a day of tools or when a worker dies, without, although
\* the count and the goals are compared by different requests.
THEOREM GoalsTheorem == Spec => []GoalsAreReached
<1>1. IInv => GoalsAreReached
  BY GoalsReached DEF IInv
<1>2. QED
  BY <1>1, Invariant, PTL

\* The prizes of a day exceed their maximum by no more than the other threads
\* can have put into their pools.
THEOREM PrizesTheorem == Spec => []PrizesBounded
<1>1. IInv => PrizesBounded
  BY PrizesAreBounded DEF IInv
<1>2. QED
  BY <1>1, Invariant, PTL

\* The rewards that are marked in a set or a hash, where the mark is looked for
\* by one command and set by another, implement the quota with a limit of one.
THEOREM QuotaTheorem == Spec => ClaimsAreLimited
<1>1. IInv => TInv /\ ClaimInv
  BY DEF IInv
<1>2. Spec => Limited!Init /\ [][Limited!Next]_(Limited!vars)
  BY <1>1, QuotaInit, QuotaStep, Invariant, PTL DEF Spec
<1>3. QED
  BY <1>2 DEF ClaimsAreLimited, Limited!Spec

\* Such a reward is credited at most once by each thread, for ever: however
\* requests race and whenever workers die, the mark that the first of them sets
\* stops all that come later.
THEOREM ClaimsTheorem == Spec => []Limited!UsesBounded
<1>1. Init => PromiseInv
  BY InitPromise
<1>2. IInv /\ IInv' /\ PromiseInv /\ [Next]_vars => PromiseInv'
  BY QuotaStep, PromiseNext DEF IInv
<1>3. IInv /\ PromiseInv => Limited!UsesBounded
  <2>1. SUFFICES ASSUME IInv, PromiseInv, NEW k \in ClaimKeys
                 PROVE  paid[k] < 1 + Limited!Cardinality(Threads)
    BY DEF Limited!UsesBounded
  <2>2. Limited!Cardinality(Threads) = Cardinality(Threads)
    BY Zenon DEF Limited!Cardinality, Cardinality
  <2>3. Holders(k) \in SUBSET Threads /\ k \in Keys
    BY DEF Holders, ClaimKeys
  <2>4. Cardinality(Holders(k)) \in Nat /\ Cardinality(Threads) \in Nat
    BY <2>3, ThreadSets, ThreadsNumber
  <2>5. paid[k] \in Nat /\ Promised(k) <= Cardinality(Threads)
    BY <2>1, <2>3 DEF IInv, TInv, HistoryInv, PromiseInv
  <2>6. QED
    BY <2>2, <2>4, <2>5 DEF Promised
<1>4. QED
  BY <1>1, <1>2, <1>3, Invariant, PTL DEF Spec
============================================================================
