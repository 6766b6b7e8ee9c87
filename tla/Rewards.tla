------------------------------ MODULE Rewards ------------------------------
(***************************************************************************)
(* Rewards that a player of the fish game gets once: for sharing the game, *)
(* for the exchange code, the survey and the daily quiz (fish.py,          *)
(* fish_spring.py), for signing in on a day and for having signed in often *)
(* enough in a month (fish_benefit.py).  Each handler looks for a mark and *)
(* leaves one, in another command.  The marks differ: a member of a set, a *)
(* field that holds a date, a list that is read, extended and written back *)
(* as a whole.  All days are of one week and one month.                    *)
(***************************************************************************)
EXTENDS Integers, FiniteSets

CONSTANTS
    Users,       \* user ids
    Threads,     \* server threads
    Goals,       \* sign-ins in a month that are rewarded (5, 10, 15, 20)
    Max,         \* prizes of the quiz for one day
    MaxCorrect,  \* bound: right answers of one player
    MaxDay,      \* bound: days that pass
    MaxOps       \* bound: requests served

ASSUME RewardsAssumption ==
    /\ IsFiniteSet(Users) /\ IsFiniteSet(Threads) /\ Threads # {}
    /\ Goals \subseteq Nat \ {0}
    /\ Max \in Nat /\ MaxCorrect \in Nat \ {0}
    /\ MaxDay \in Nat \ {0} /\ MaxOps \in Nat

VARIABLES
    marks,    \* members of the sets and fields of the hash that mark a claim
    ready,    \* FISH_SHARE_NOT_TAKE_SETS
    quizDate, \* ACTIVICE_QUESTION_ANSWER: the date of the last answer, or 0
    given,    \* ACTIVICE_QUESTION_REWARD_COUNT: prizes drawn on each day
    signed,   \* FISH_SIGN_TABLE_WEEK: the list of each day, as a set
    number,   \* FISH_SIGN_TABLE_USER_NUMBER: sign-ins of the month, or 0
    receive,  \* FISH_SIGN_TABLE_USER_RECEIVE: the goals with a 1
    day,      \* the date
    pc,       \* the next command of each thread
    job,      \* the request each thread serves
    paid,     \* history: how often each reward was credited
    excuse,   \* history: overlaps and crashes among requests for a reward
    lost,     \* history: how often a request ended without its credit
    served    \* bound: requests so far

store == <<marks, ready, quizDate, given, signed, number, receive>>
history == <<paid, excuse, lost>>
vars == <<store, day, pc, job, history, served>>

Days == 1..MaxDay
DailyKinds == {"share", "callback", "quiz", "sign"}
OnceKinds == {"survey", "code"}
ClaimKinds == {"share", "callback", "survey", "code"}

\* A reward: its kind, its player, and the day, goal or 0 it is for.
Keys == {<<k, u, d>> : k \in DailyKinds, u \in Users, d \in Days}
            \cup {<<k, u, 0>> : k \in OnceKinds, u \in Users}
            \cup {<<"month", u, g>> : u \in Users, g \in Goals}
ClaimKeys == {k \in Keys : k[1] \in ClaimKinds}

Steps == {"idle", "look", "stock", "draw", "mark", "pay", "read", "enlist",
          "reread", "number", "count", "grant", "goals", "ripe", "credit",
          "store"}
Jobs == [key : Keys, seen : SUBSET (Users \cup Goals), n : Nat, own : BOOLEAN,
         tools : BOOLEAN]
NoJob == [key |-> <<"none">>]

TypeOK ==
    /\ marks \subseteq ClaimKeys
    /\ ready \subseteq Users
    /\ quizDate \in [Users -> 0..MaxDay]
    /\ given \in [Days -> Nat]
    /\ signed \in [Days -> SUBSET Users]
    /\ number \in [Users -> Nat]
    /\ receive \in [Users -> SUBSET Goals]
    /\ day \in Days
    /\ pc \in [Threads -> Steps]
    /\ \A t \in Threads :
         IF pc[t] = "idle" THEN job[t] = NoJob ELSE job[t] \in Jobs
    /\ paid \in [Keys -> Nat]
    /\ excuse \in [Keys -> Nat]
    /\ lost \in [Keys -> Nat]
    /\ served \in 0..MaxOps

Init ==
    /\ marks = {}
    /\ ready = {}
    /\ quizDate = [u \in Users |-> 0]
    /\ given = [d \in Days |-> 0]
    /\ signed = [d \in Days |-> {}]
    /\ number = [u \in Users |-> 0]
    /\ receive = [u \in Users |-> {}]
    /\ day = 1
    /\ pc = [t \in Threads |-> "idle"]
    /\ job = [t \in Threads |-> NoJob]
    /\ paid = [k \in Keys |-> 0]
    /\ excuse = [k \in Keys |-> 0]
    /\ lost = [k \in Keys |-> 0]
    /\ served = 0

\* The rewards whose marks are kept in the same place as that of k.
Group(k) ==
    {x \in Keys :
        \/ x = k
        \/ k[1] = "sign" /\ x[1] = "sign" /\ x[3] = k[3]
        \/ k[1] \in {"month", "quiz"} /\ x[1] = k[1] /\ x[2] = k[2]}

Busy(k) == \E t \in Threads : pc[t] # "idle" /\ job[t].key \in Group(k)

Excused(k) == LET near == Group(k)
              IN  [x \in Keys |-> IF x \in near THEN excuse[x] + 1 ELSE excuse[x]]

Begin(t, k, n, step) ==
    /\ pc[t] = "idle"
    /\ served < MaxOps
    /\ served' = served + 1
    /\ pc' = [pc EXCEPT ![t] = step]
    /\ job' = [job EXCEPT ![t] =
                 [key |-> k, seen |-> {}, n |-> n, own |-> FALSE,
                  tools |-> FALSE]]
    /\ excuse' = IF Busy(k) THEN Excused(k) ELSE excuse
    /\ UNCHANGED <<store, day, paid, lost>>

Goto(t, step) == pc' = [pc EXCEPT ![t] = step]

\* The request ends.
Leave(t) ==
    /\ pc' = [pc EXCEPT ![t] = "idle"]
    /\ job' = [job EXCEPT ![t] = NoJob]

User(t) == job[t].key[2]
Day(t) == job[t].key[3]

\* The reward is credited, and the request ends.
Credit(t) ==
    /\ paid' = [paid EXCEPT ![job[t].key] = @ + 1]
    /\ UNCHANGED <<day, excuse, lost, served>>

\* The request ends without the credit.
Forfeit(t) == lost' = [lost EXCEPT ![job[t].key] = @ + 1]

Quiet == UNCHANGED <<day, history, served>>

----------------------------------------------------------------------------
(* /onGetShareReward, /onShareCallback, /surver/answer, /exchageCode       *)

GetShareReward(t, u) == Begin(t, <<"share", u, day>>, 0, "look")
ShareCallback(t, u) == Begin(t, <<"callback", u, day>>, 0, "look")
SurverAnswer(t, u) == Begin(t, <<"survey", u, 0>>, 0, "look")
ExchageCode(t, u) == Begin(t, <<"code", u, 0>>, 0, "look")

\* Mutant of Marked: yesterday's mark is looked for.
MarkedBefore(k) == IF k[1] = "quiz" THEN quizDate[k[2]] = k[3] - 1
                                    ELSE <<k[1], k[2], k[3] - 1>> \in marks

\* The mark has been found.
Marked(k) == IF k[1] = "quiz" THEN quizDate[k[2]] = k[3] ELSE k \in marks

AfterLook(kind) == IF kind = "code" THEN "mark"
                   ELSE IF kind = "quiz" THEN "stock" ELSE "pay"

Look(t) ==
    /\ pc[t] = "look"
    /\ IF Marked(job[t].key)
         THEN Leave(t)
         ELSE Goto(t, AfterLook(job[t].key[1])) /\ UNCHANGED job
    /\ UNCHANGED store
    /\ Quiet

\* The code is marked by a command of its own, before the coins.
Mark(t) ==
    /\ pc[t] = "mark"
    /\ marks' = marks \cup {job[t].key}
    /\ Goto(t, "pay")
    /\ UNCHANGED <<ready, quizDate, given, signed, number, receive, job>>
    /\ Quiet

\* The reward's pipeline: the mark, unless it is set already, and the coins;
\* for the callback, the total of shares in place of coins.
Pay(t) ==
    LET k == job[t].key IN
    /\ pc[t] = "pay"
    /\ marks' = IF k[1] \in {"quiz", "code"} THEN marks ELSE marks \cup {k}
    /\ quizDate' = IF k[1] = "quiz" THEN [quizDate EXCEPT ![k[2]] = k[3]]
                                    ELSE quizDate
    /\ ready' = IF k[1] = "share" THEN ready \ {k[2]}
                ELSE IF k[1] = "callback" THEN ready \cup {k[2]} ELSE ready
    /\ Credit(t)
    /\ Leave(t)
    /\ UNCHANGED <<given, signed, number, receive>>

----------------------------------------------------------------------------
(* /question/answer: the date of the last answer is looked at as above.    *)
(* There is one kind of prize; who gets none gets coins instead.           *)

QuestionAnswer(t, u, correct) ==
    Begin(t, <<"quiz", u, day>>, correct, "look")

Smaller(m, n) == IF m < n THEN m ELSE n

\* Mutant of PrizesLeft: the prizes already drawn are not deducted.
PrizesAll(d) == Max

\* The prizes that are put into the pool: what is left of the maximum.
PrizesLeft(d) == IF given[d] < Max THEN Max - given[d] ELSE 0

\* The count of prizes is read; at most one prize is drawn for each answer.
Stock(t) ==
    LET n == Smaller(job[t].n, PrizesLeft(Day(t))) IN
    /\ pc[t] = "stock"
    /\ job' = [job EXCEPT ![t] = [job[t] EXCEPT !.n = n]]
    /\ Goto(t, IF n = 0 THEN "pay" ELSE "draw")
    /\ UNCHANGED store
    /\ Quiet

\* A prize is drawn from the pool and counted.
Draw(t) ==
    /\ pc[t] = "draw"
    /\ given' = [given EXCEPT ![Day(t)] = @ + 1]
    /\ job' = [job EXCEPT ![t] = [job[t] EXCEPT !.n = job[t].n - 1]]
    /\ Goto(t, IF job[t].n = 1 THEN "pay" ELSE "draw")
    /\ UNCHANGED <<marks, ready, quizDate, signed, number, receive>>
    /\ Quiet

----------------------------------------------------------------------------
(* /doSign: check_sign_valid marks the day, then the handler extends the   *)
(* list of the date it is now, counts the sign-in and credits the reward.  *)
(* What a day gives, coins or tools, is set by the administrator.          *)

\* A day of this week that has come may be signed in for.
DoSign(t, u, d) ==
    /\ d <= day
    /\ Begin(t, <<"sign", u, d>>, 0, "read")

Read(t) ==
    /\ pc[t] = "read"
    /\ IF User(t) \in signed[Day(t)]
         THEN Leave(t)
         ELSE /\ Goto(t, "enlist")
              /\ \E tools \in BOOLEAN :
                   job' = [job EXCEPT ![t] = [job[t] EXCEPT !.seen = signed[Day(t)],
                                                            !.tools = tools]]
    /\ UNCHANGED store
    /\ Quiet

\* Mutant of Enlisted: the list is written back as it was read.
EnlistedNobody(t) == job[t].seen

\* The list that was read, with the player.
Enlisted(t) == job[t].seen \cup {User(t)}

Enlist(t) ==
    /\ pc[t] = "enlist"
    /\ signed' = [signed EXCEPT ![Day(t)] = Enlisted(t)]
    /\ Goto(t, IF job[t].tools THEN "number" ELSE "reread")
    /\ UNCHANGED <<marks, ready, quizDate, given, number, receive, job>>
    /\ Quiet

\* The handler reads the list under today's date, which nobody looks at unless
\* the day signed in for is today.
Reread(t) ==
    /\ pc[t] = "reread"
    /\ Goto(t, "number")
    /\ job' = [job EXCEPT ![t] = [job[t] EXCEPT !.seen = signed[Day(t)],
                                                !.own = (Day(t) = day)]]
    /\ UNCHANGED store
    /\ Quiet

Number(t) ==
    /\ pc[t] = "number"
    /\ Goto(t, "count")
    /\ job' = [job EXCEPT ![t] = [job[t] EXCEPT !.n = number[User(t)]]]
    /\ UNCHANGED store
    /\ Quiet

\* HINCRBY if there was a number, else HSET 1.
Counted(t) == IF job[t].n = 0 THEN 1 ELSE number[User(t)] + 1

Count(t) ==
    /\ pc[t] = "count"
    /\ number' = [number EXCEPT ![User(t)] = Counted(t)]
    /\ Goto(t, "grant")
    /\ UNCHANGED <<marks, ready, quizDate, given, signed, receive, job>>
    /\ Quiet

\* The pipeline: warheads, and the list that was read for the second time.
Grant(t) ==
    /\ pc[t] = "grant" /\ ~job[t].tools
    /\ signed' = IF job[t].own THEN [signed EXCEPT ![Day(t)] = Enlisted(t)]
                               ELSE signed
    /\ Credit(t)
    /\ Leave(t)
    /\ UNCHANGED <<marks, ready, quizDate, given, number, receive>>

\* On a day of tools nothing is credited, and the answer names a variable that
\* was not assigned: the player is enlisted and counted, and gets an error.
GrantTools(t) ==
    /\ pc[t] = "grant" /\ job[t].tools
    /\ Forfeit(t)
    /\ Leave(t)
    /\ UNCHANGED <<store, day, paid, excuse, served>>

----------------------------------------------------------------------------
(* /doSignMonth *)

DoSignMonth(t, u, g) == Begin(t, <<"month", u, g>>, 0, "goals")

\* The table of goals is read.
ReadGoals(t) ==
    /\ pc[t] = "goals"
    /\ Goto(t, "ripe")
    /\ job' = [job EXCEPT ![t] = [job[t] EXCEPT !.seen = receive[User(t)]]]
    /\ UNCHANGED store
    /\ Quiet

\* Mutant of IsRipe: the number of sign-ins is not looked at.
IsRipeAnyway(t) == Day(t) \notin job[t].seen

\* The goal is reached, and was not marked when the table was read.
IsRipe(t) == Day(t) <= number[User(t)] /\ Day(t) \notin job[t].seen

Ripe(t) ==
    /\ pc[t] = "ripe"
    /\ IF IsRipe(t) THEN Goto(t, "credit") /\ UNCHANGED job ELSE Leave(t)
    /\ UNCHANGED store
    /\ Quiet

CreditGoal(t) ==
    /\ pc[t] = "credit"
    /\ Credit(t)
    /\ Goto(t, "store")
    /\ UNCHANGED <<store, job>>

\* Mutant of GoalsMarked: every smaller goal is marked as well.
GoalsMarkedBelow(t) == job[t].seen \cup {g \in Goals : g <= Day(t)}

\* The table that was read, with the goal.
GoalsMarked(t) == job[t].seen \cup {Day(t)}

StoreGoals(t) ==
    /\ pc[t] = "store"
    /\ receive' = [receive EXCEPT ![User(t)] = GoalsMarked(t)]
    /\ Leave(t)
    /\ UNCHANGED <<marks, ready, quizDate, given, signed, number>>
    /\ Quiet

----------------------------------------------------------------------------
(* Environment *)

Midnight ==
    /\ day < MaxDay
    /\ day' = day + 1
    /\ UNCHANGED <<store, pc, job, history, served>>

\* A worker dies.
Crash(t) ==
    /\ pc[t] # "idle"
    /\ Forfeit(t)
    /\ excuse' = Excused(job[t].key)
    /\ Leave(t)
    /\ UNCHANGED <<store, day, paid, served>>

Ask(t) ==
    \E u \in Users :
        \/ GetShareReward(t, u)
        \/ ShareCallback(t, u)
        \/ SurverAnswer(t, u)
        \/ ExchageCode(t, u)
        \/ \E c \in 1..MaxCorrect : QuestionAnswer(t, u, c)
        \/ \E d \in Days : DoSign(t, u, d)
        \/ \E g \in Goals : DoSignMonth(t, u, g)

Work(t) ==
    \/ Look(t) \/ Mark(t) \/ Pay(t)
    \/ Stock(t) \/ Draw(t)
    \/ Read(t) \/ Enlist(t) \/ Reread(t) \/ Number(t) \/ Count(t)
    \/ Grant(t) \/ GrantTools(t)
    \/ ReadGoals(t) \/ Ripe(t) \/ CreditGoal(t) \/ StoreGoals(t)

Next == Midnight \/ \E t \in Threads : Ask(t) \/ Work(t) \/ Crash(t)

Spec == Init /\ [][Next]_vars

----------------------------------------------------------------------------
(* Properties *)

\* No reward is credited a second time unless a request for it, or for one
\* whose mark is kept in the same list or field, came while another was under
\* way, or a worker died: every credit beyond the first has such an event of
\* its own.  Holds although lists of players are written back as a whole and
\* midnight may come between any two commands.
SecondNeedsExcuse == \A k \in Keys : paid[k] <= 1 + excuse[k]

\* The requests for a reward that have passed the point where it is marked.
PastMark(k) ==
    {t \in Threads : pc[t] \in {"pay", "reread", "number", "count", "grant"}
                       /\ job[t].key = k}

\* A player who is marked has been rewarded, or is about to be, or a request
\* for the reward ended without it: its worker died, for the code and the
\* sign-in are marked before they are paid, or the day of the sign-in gives
\* tools, which are never handed out.
MarkedIsPaid ==
    \A k \in Keys :
        /\ \/ k \in marks
           \/ k[1] = "quiz" /\ quizDate[k[2]] = k[3]
           \/ k[1] = "sign" /\ k[2] \in signed[k[3]]
           \/ k[1] = "month" /\ k[3] \in receive[k[2]]
        => paid[k] > 0 \/ PastMark(k) # {} \/ lost[k] > 0

\* The requests to sign in of a player that were credited or ended without it,
\* and those that are past the mark.
SignIns(u) ==
    LET Times(p) == UNION {{d} \X (1..p[<<"sign", u, d>>]) : d \in Days}
    IN  Cardinality(Times(paid)) + Cardinality(Times(lost))
          + Cardinality(UNION {PastMark(<<"sign", u, d>>) : d \in Days})

\* A goal of the month is only paid to a player who has signed in that often,
\* be it on a day of tools or in a request that died, whatever the interleaving
\* of sign-ins that count and goals that compare: no request counts twice.
GoalsAreReached ==
    \A u \in Users : \A g \in Goals :
        paid[<<"month", u, g>>] > 0 => SignIns(u) >= g

\* The prizes of a day overshoot their maximum by no more than what the other
\* threads may draw from the pools they have made before.
PrizesBounded ==
    \A d \in Days :
        given[d] <= Max + (Cardinality(Threads) - 1) * Smaller(Max, MaxCorrect)

\* The rewards marked by a set or a hash field implement a quota of one: each
\* is credited at most once per thread, for ever.
Limited == INSTANCE Quota WITH
    Keys <- ClaimKeys,
    Requests <- Threads,
    Limit <- 1,
    used <- [k \in ClaimKeys |-> paid[k]],
    holders <- [k \in ClaimKeys |->
                 {t \in Threads : job[t].key = k /\ pc[t] \in {"mark", "pay"}}]

ClaimsAreLimited == Limited!Spec
============================================================================
