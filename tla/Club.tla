-------------------------------- MODULE Club --------------------------------
(***************************************************************************)
(* Clubs of the hall (hall/club.py): creation, disbandment, membership,    *)
(* applications and managers.  Membership is kept twice, under the club    *)
(* and under the player; a club is a number in a list, a hash, and an      *)
(* entry in its owner's list.  A request and its first command are one     *)
(* step, every later command is one.  A request that its first command     *)
(* refuses changes nothing and is left out.                                *)
(***************************************************************************)
EXTENDS Integers, FiniteSets

CONSTANTS
    Accounts,
    Nobody,       \* the answer to HGET for a field that is not there
    Threads,      \* server threads
    MaxClub,      \* bound: the largest club number
    MaxOwn,       \* clubs an account may create (10)
    MaxManagers,  \* managers a club may have (3)
    MaxOps        \* bound: requests served

ASSUME ClubAssumption ==
    /\ IsFiniteSet(Accounts) /\ Nobody \notin Accounts
    /\ IsFiniteSet(Threads) /\ Threads # {}
    /\ MaxClub \in Nat \ {0} /\ MaxOwn \in Nat \ {0}
    /\ MaxManagers \in Nat \ {0} /\ MaxOps \in Nat

VARIABLES
    list,     \* CLUB_LIST
    user,     \* CLUB_ATTR, field club_user
    managers, \* CLUB_ATTR, field club_manager
    content,  \* the clubs whose CLUB_ATTR has the field club_content
    own,      \* CLUB_ACCOUNT_LIST: the clubs an account has created
    clubsOf,  \* CLUB_PLAYER_TO_CLUB_LIST: the clubs of a player
    players,  \* CLUB_PLAYER_LIST: the players of a club
    applies,  \* CLUB_AUDI_LIST: applications with their states
    pc,       \* the next command of each thread
    job,      \* the request each thread serves
    open,     \* history: applications without a verdict
    marred,   \* history: overlaps and crashes, by club and by member
    misdeeds, \* history: what was done without an entitlement
    crashed,  \* history: a worker has died
    served    \* bound: requests so far

attr == <<user, managers, content>>
members == <<clubsOf, players>>
store == <<list, attr, own, members, applies>>
history == <<open, marred, misdeeds>>
vars == <<store, pc, job, history, crashed, served>>

Clubs == 1..MaxClub
Pairs == Accounts \X Clubs
Whole(c) == <<Nobody, c>>  \* the club, where a player and a club are a pair
Keys == Pairs \cup {Whole(c) : c \in Clubs}
States == {0, 1, -1}   \* of an application: pending, accepted, refused

\* The value of club_manager that HGET does not find.
NoSet == {Nobody}

Ops == {"create", "disband", "join", "leave", "kick", "apply", "audit",
        "add", "relieve", "edit"}
Steps == {"idle", "number", "list", "attr", "own", "members", "disband",
          "exists", "enrol", "enter", "expel", "forget", "owner", "apply",
          "applies", "unlist", "relist", "managers", "store", "content"}
Jobs == [op : Ops, me : Accounts, who : Accounts, club : Clubs \cup {0},
         seen : (SUBSET Accounts) \cup {NoSet}, state : States]
NoJob == [op |-> "none", club |-> 0]

TypeOK ==
    /\ list \subseteq Clubs
    /\ user \in [Clubs -> Accounts \cup {Nobody}]
    /\ managers \in [Clubs -> (SUBSET Accounts) \cup {NoSet}]
    /\ content \subseteq Clubs
    /\ own \in [Accounts -> SUBSET Clubs]
    /\ clubsOf \in [Accounts -> SUBSET Clubs]
    /\ players \in [Clubs -> SUBSET Accounts]
    /\ applies \in [Clubs -> SUBSET (Accounts \X States)]
    /\ pc \in [Threads -> Steps]
    /\ \A t \in Threads :
         IF pc[t] = "idle" THEN job[t] = NoJob ELSE job[t] \in Jobs
    /\ open \subseteq Pairs
    /\ marred \subseteq Keys
    /\ misdeeds \subseteq Keys
    /\ crashed \in BOOLEAN
    /\ served \in 0..MaxOps

\* One club exists, as its creation has left it.
Init ==
    /\ list = {1}
    /\ \E a \in Accounts :
         /\ user = [c \in Clubs |-> IF c = 1 THEN a ELSE Nobody]
         /\ own = [b \in Accounts |-> IF b = a THEN {1} ELSE {}]
    /\ managers = [c \in Clubs |-> IF c = 1 THEN {} ELSE NoSet]
    /\ content = {1}
    /\ clubsOf = [a \in Accounts |-> {}]
    /\ players = [c \in Clubs |-> {}]
    /\ applies = [c \in Clubs |-> {}]
    /\ pc = [t \in Threads |-> "idle"]
    /\ job = [t \in Threads |-> NoJob]
    /\ open = {}
    /\ marred = {}
    /\ misdeeds = {}
    /\ crashed = FALSE
    /\ served = 0

----------------------------------------------------------------------------
(* Requests and their overlaps *)

\* Requests that change the club itself or who may decide about it.
Structural == {"create", "disband", "add", "relieve"}

\* What two requests for club c get in disorder, or one that dies.
Disorder(c, jobs) ==
    {<<j.who, c>> : j \in jobs}
        \cup {Whole(c) : j \in {i \in jobs : i.op \in Structural}}

\* Thread t works on job j: other threads serve requests for the same player
\* of the same club, or one of the two is structural.
Overlap(t, j) ==
    UNION {Disorder(j.club, {j, job[s]}) :
           s \in {r \in Threads \ {t} :
                    /\ pc[r] # "idle" /\ job[r].club = j.club /\ j.club # 0
                    /\ \/ job[r].who = j.who
                       \/ {j.op, job[r].op} \cap Structural # {}}}

Goto(t, step) == pc' = [pc EXCEPT ![t] = step]

Serve(t, j) ==
    /\ job' = [job EXCEPT ![t] = j]
    /\ marred' = marred \cup Overlap(t, j)
    /\ UNCHANGED <<open, misdeeds, crashed>>

Begin(t, op, me, who, c, seen, state, step) ==
    /\ pc[t] = "idle"
    /\ served < MaxOps
    /\ served' = served + 1
    /\ Goto(t, step)
    /\ Serve(t, [op |-> op, me |-> me, who |-> who, club |-> c,
                 seen |-> seen, state |-> state])
    /\ UNCHANGED store

\* The request ends.
Leave(t) ==
    /\ Goto(t, "idle")
    /\ job' = [job EXCEPT ![t] = NoJob]

Quiet == UNCHANGED <<history, crashed, served>>
ReadOnly == UNCHANGED store /\ Quiet

\* What is done about x is remembered if it should not be done.
Unless(entitled, x) ==
    /\ misdeeds' = IF entitled THEN misdeeds ELSE misdeeds \cup {x}
    /\ UNCHANGED <<marred, crashed, served>>

\* May decide about members: the owner and the managers.
Entitled(a, c) == user[c] = a \/ a \in managers[c]

----------------------------------------------------------------------------
(* /club/create *)

\* Mutant of OwnsTooMany: off by one.
OwnsOneMore(a) == Cardinality(own[a]) > MaxOwn

OwnsTooMany(a) == Cardinality(own[a]) >= MaxOwn

CreateClub(t, a) ==
    /\ ~OwnsTooMany(a)
    /\ Begin(t, "create", a, a, 0, {}, 0, "number")

\* Mutant of NextNumber: the number of clubs is counted.
NextNumberCount(n) == n = Cardinality(list) + 1

\* One more than the largest number in the list.  Numbers with a digit 4 are
\* skipped, which only makes them larger.
NextNumber(n) == /\ \A m \in list : m < n
                 /\ n = 1 \/ n - 1 \in list

Number(t) ==
    /\ pc[t] = "number"
    /\ \E n \in Clubs :
         /\ NextNumber(n)
         /\ Serve(t, [job[t] EXCEPT !.club = n])
    /\ Goto(t, "list")
    /\ UNCHANGED <<store, served>>

\* The three commands of ClubOperation.create_club.
EnterList(t) ==
    /\ pc[t] = "list"
    /\ list' = list \cup {job[t].club}
    /\ Goto(t, "attr")
    /\ UNCHANGED <<attr, own, members, applies, job>>
    /\ Quiet

SetAttr(t) ==
    LET j == job[t] IN
    /\ pc[t] = "attr"
    /\ user' = [user EXCEPT ![j.club] = j.me]
    /\ managers' = [managers EXCEPT ![j.club] = {}]
    /\ content' = content \cup {j.club}
    /\ Goto(t, "own")
    /\ UNCHANGED <<list, own, members, applies, job>>
    /\ Quiet

EnterOwn(t) ==
    /\ pc[t] = "own"
    /\ own' = [own EXCEPT ![job[t].me] = @ \cup {job[t].club}]
    /\ Leave(t)
    /\ UNCHANGED <<list, attr, members, applies>>
    /\ Quiet

----------------------------------------------------------------------------
(* /club/disbandment *)

DeleteClub(t, a, c) ==
    /\ user[c] = a
    /\ Begin(t, "disband", a, a, c, {}, 0, "members")

ReadMembers(t) ==
    /\ pc[t] = "members"
    /\ job' = [job EXCEPT ![t].seen = players[job[t].club]]
    /\ Goto(t, "disband")
    /\ ReadOnly

\* Mutant of Dismissed: the players keep the club in their lists.
DismissedNobody(ps, c) == clubsOf

\* The players that were read lose the club.
Dismissed(ps, c) ==
    [a \in Accounts |-> IF a \in ps THEN clubsOf[a] \ {c} ELSE clubsOf[a]]

\* The pipeline.  Applications stay.
Disband(t) ==
    LET c == job[t].club IN
    /\ pc[t] = "disband"
    /\ user' = [user EXCEPT ![c] = Nobody]
    /\ managers' = [managers EXCEPT ![c] = NoSet]
    /\ content' = content \ {c}
    /\ list' = list \ {c}
    /\ own' = [own EXCEPT ![job[t].me] = @ \ {c}]
    /\ clubsOf' = Dismissed(job[t].seen, c)
    /\ players' = [players EXCEPT ![c] = {}]
    /\ Leave(t)
    /\ Unless(user[c] = job[t].me, Whole(c))
    /\ UNCHANGED <<applies, open>>

----------------------------------------------------------------------------
(* /club/join_club, /club/sign_out_club, /club/force_sign_out_club *)

JoinClub(t, a, c) ==
    /\ user[c] # a
    /\ Begin(t, "join", a, a, c, {}, 0, "exists")

SignOutClub(t, a, c) == Begin(t, "leave", a, a, c, {}, 0, "expel")

\* The managers are read; where there are none the evaluation fails.
ForceSignOut(t, a, b, c) ==
    /\ managers[c] # NoSet
    /\ Begin(t, "kick", a, b, c, managers[c], 0, "owner")

\* Mutant of Exists: nobody looks.
ExistsAlways(c) == TRUE

\* CLUB_ATTR exists: it has one of its fields.
Exists(c) == user[c] # Nobody \/ managers[c] # NoSet \/ c \in content

CheckExists(t) ==
    LET j == job[t] IN
    /\ pc[t] = "exists"
    /\ IF Exists(j.club)
         THEN /\ Goto(t, IF j.op = "apply" THEN "apply" ELSE "enrol")
              /\ UNCHANGED job
         ELSE Leave(t)
    /\ ReadOnly

\* ClubOperation.add_club, for a player who joins or is admitted.
Enrol(t) ==
    LET j == job[t] IN
    /\ pc[t] = "enrol"
    /\ clubsOf' = [clubsOf EXCEPT ![j.who] = @ \cup {j.club}]
    /\ Goto(t, "enter")
    /\ Unless(j.op = "join" \/ Entitled(j.me, j.club), Whole(j.club))
    /\ UNCHANGED <<list, attr, own, players, applies, open, job>>

EnterClub(t) ==
    /\ pc[t] = "enter"
    /\ players' = [players EXCEPT ![job[t].club] = @ \cup {job[t].who}]
    /\ Leave(t)
    /\ UNCHANGED <<list, attr, own, clubsOf, applies>>
    /\ Quiet

\* ClubOperation.sign_out_club, for a player who leaves or is sent away.
Expel(t) ==
    LET j == job[t] IN
    /\ pc[t] = "expel"
    /\ players' = [players EXCEPT ![j.club] = @ \ {j.who}]
    /\ Goto(t, "forget")
    /\ Unless(j.op = "leave" \/ Entitled(j.me, j.club), Whole(j.club))
    /\ UNCHANGED <<list, attr, own, clubsOf, applies, open, job>>

Forget(t) ==
    /\ pc[t] = "forget"
    /\ clubsOf' = [clubsOf EXCEPT ![job[t].who] = @ \ {job[t].club}]
    /\ Leave(t)
    /\ UNCHANGED <<list, attr, own, players, applies>>
    /\ Quiet

\* Mutant of MayDecide: everybody may.
MayDecideAll(j) == j.op # "kick" \/ j.who \notin j.seen

\* The owner as HGET finds it now, or a manager as read before; a manager is
\* not sent away.
MayDecide(j) == /\ user[j.club] = j.me \/ j.me \in j.seen
                /\ j.op # "kick" \/ j.who \notin j.seen

AfterOwner(op) == CASE op = "kick" -> "expel"
                    [] op = "audit" -> "applies"
                    [] op = "edit" -> "content"

CheckOwner(t) ==
    /\ pc[t] = "owner"
    /\ IF MayDecide(job[t])
         THEN Goto(t, AfterOwner(job[t].op)) /\ UNCHANGED job
         ELSE Leave(t)
    /\ ReadOnly

----------------------------------------------------------------------------
(* /club/apply, /club/apply/audit *)

ApplyClub(t, a, c) ==
    /\ user[c] # a
    /\ Begin(t, "apply", a, a, c, {}, 0, "exists")

EnterApply(t) ==
    LET j == job[t] IN
    /\ pc[t] = "apply"
    /\ applies' = [applies EXCEPT ![j.club] = @ \cup {<<j.who, 0>>}]
    /\ open' = open \cup {<<j.who, j.club>>}
    /\ Leave(t)
    /\ UNCHANGED <<list, attr, own, members, marred, misdeeds, crashed, served>>

\* Only if the club exists is the requester's right looked at.  Otherwise no
\* managers are read and anybody goes on: applications outlive their club.
ApplyAudit(t, a, b, c, state) ==
    \/ /\ managers[c] # NoSet
       /\ Begin(t, "audit", a, b, c, managers[c], state, "owner")
    \/ /\ ~Exists(c)
       /\ Begin(t, "audit", a, b, c, NoSet, state, "applies")

\* The audit found no club, and nobody asked who the requester is.
Unasked(j) == j.seen = NoSet

\* A pending application is looked for.
ReadApplies(t) ==
    LET j == job[t] IN
    /\ pc[t] = "applies"
    /\ IF <<j.who, 0>> \in applies[j.club]
         THEN Goto(t, "unlist") /\ UNCHANGED job
         ELSE Leave(t)
    /\ ReadOnly

\* The applications without the pending one.
Settled(j) == applies[j.club] \ {<<j.who, 0>>}

Unlist(t) ==
    /\ pc[t] = "unlist"
    /\ applies' = [applies EXCEPT ![job[t].club] = Settled(job[t])]
    /\ Goto(t, "relist")
    /\ UNCHANGED <<list, attr, own, members, job>>
    /\ Quiet

\* What is wrong with a verdict: the application has one already, or the
\* requester, who was asked, may not give it.
Wrongs(j) ==
    ({<<j.who, j.club>>} \ open)
        \cup IF Unasked(j) \/ Entitled(j.me, j.club) THEN {} ELSE {Whole(j.club)}

Relist(t) ==
    LET j == job[t] IN
    /\ pc[t] = "relist"
    /\ applies' = [applies EXCEPT ![j.club] = @ \cup {<<j.who, j.state>>}]
    /\ open' = open \ {<<j.who, j.club>>}
    /\ misdeeds' = misdeeds \cup Wrongs(j)
    /\ IF j.state = 1 THEN Goto(t, "exists") /\ UNCHANGED job ELSE Leave(t)
    /\ UNCHANGED <<list, attr, own, members, marred, crashed, served>>

----------------------------------------------------------------------------
(* /club/add_manager, /club/relieve_manager, /club/edit *)

AddManager(t, a, b, c) ==
    /\ user[c] = a
    /\ Begin(t, "add", a, b, c, {}, 0, "managers")

RelieveManager(t, a, b, c) ==
    /\ user[c] = a
    /\ Begin(t, "relieve", a, b, c, {}, 0, "managers")

\* There may be one more manager; the one to relieve is there.
CanChange(j) ==
    /\ managers[j.club] # NoSet
    /\ IF j.op = "add" THEN Cardinality(managers[j.club]) < MaxManagers
                       ELSE j.who \in managers[j.club]

Changed(j) == IF j.op = "add" THEN managers[j.club] \cup {j.who}
                              ELSE managers[j.club] \ {j.who}

ReadManagers(t) ==
    /\ pc[t] = "managers"
    /\ IF CanChange(job[t])
         THEN /\ job' = [job EXCEPT ![t].seen = Changed(job[t])]
              /\ Goto(t, "store")
         ELSE Leave(t)
    /\ ReadOnly

\* Mutant of Stored: the change is made to the managers of now.
StoredFresh(j) == Changed(j)

\* The managers as read before, with the change.
Stored(j) == j.seen

StoreManagers(t) ==
    LET j == job[t] IN
    /\ pc[t] = "store"
    /\ managers' = [managers EXCEPT ![j.club] = Stored(j)]
    /\ Leave(t)
    /\ Unless(user[j.club] = j.me, Whole(j.club))
    /\ UNCHANGED <<list, user, content, own, members, applies, open>>

EditClub(t, a, c) ==
    /\ managers[c] # NoSet
    /\ Begin(t, "edit", a, a, c, managers[c], 0, "owner")

StoreContent(t) ==
    /\ pc[t] = "content"
    /\ content' = content \cup {job[t].club}
    /\ Leave(t)
    /\ Unless(Entitled(job[t].me, job[t].club), Whole(job[t].club))
    /\ UNCHANGED <<list, user, managers, own, members, applies, open>>

----------------------------------------------------------------------------
\* A worker dies.
Crash(t) ==
    /\ pc[t] # "idle"
    /\ ~crashed
    /\ crashed' = TRUE
    /\ marred' = IF job[t].club = 0 THEN marred
                 ELSE marred \cup Disorder(job[t].club, {job[t]})
    /\ Leave(t)
    /\ UNCHANGED <<store, open, misdeeds, served>>

Ask(t) ==
    \E a \in Accounts :
        \/ CreateClub(t, a)
        \/ \E c \in Clubs :
             \/ DeleteClub(t, a, c)
             \/ JoinClub(t, a, c)
             \/ SignOutClub(t, a, c)
             \/ ApplyClub(t, a, c)
             \/ EditClub(t, a, c)
             \/ \E b \in Accounts :
                  \/ ForceSignOut(t, a, b, c)
                  \/ AddManager(t, a, b, c)
                  \/ RelieveManager(t, a, b, c)
                  \/ \E state \in {1, -1} : ApplyAudit(t, a, b, c, state)

Work(t) ==
    \/ Number(t) \/ EnterList(t) \/ SetAttr(t) \/ EnterOwn(t)
    \/ ReadMembers(t) \/ Disband(t)
    \/ CheckExists(t) \/ Enrol(t) \/ EnterClub(t) \/ Expel(t) \/ Forget(t)
    \/ CheckOwner(t) \/ EnterApply(t)
    \/ ReadApplies(t) \/ Unlist(t) \/ Relist(t)
    \/ ReadManagers(t) \/ StoreManagers(t) \/ StoreContent(t)

Next == \E t \in Threads : Ask(t) \/ Work(t) \/ Crash(t)

Spec == Init /\ [][Next]_vars

----------------------------------------------------------------------------
(* Properties *)

Midway(steps, who, c) ==
    \E t \in Threads :
        pc[t] \in steps /\ job[t].club = c /\ job[t].who \in who

\* The two records of a membership, under the player and under the club,
\* agree, unless a request about it overlapped another one for the same
\* player or one that changes the club, or its worker died.
MembershipAgrees ==
    \A a \in Accounts, c \in Clubs :
        \/ <<a, c>> \in marred
        \/ Midway({"enter", "forget"}, {a}, c)
        \/ c \in clubsOf[a] <=> a \in players[c]

\* A number that no club has leaves neither attributes nor members nor an
\* owner behind, so that the club which gets it next begins without members
\* and managers.  Only what overlapped the disbandment or another creation may
\* survive.  Applications do survive, and so does club:auto_create:allow,
\* which is not modelled: of them nothing is said.
NothingLeftBehind ==
    \A c \in Clubs \ list :
        Whole(c) \in marred
          \/ /\ user[c] = Nobody /\ managers[c] = NoSet /\ c \notin content
             /\ players[c] = {}
             /\ \A a \in Accounts : /\ c \notin own[a]
                                    /\ c \in clubsOf[a] => <<a, c>> \in marred

\* A club has one owner, who is the one in its attributes and the only one
\* whose list it is in, although its number was computed from a list that
\* others extend, unless creations overlapped or a worker died.
OneOwner ==
    \A c \in list :
        \/ Whole(c) \in marred
        \/ Midway({"attr", "own"}, Accounts, c)
        \/ {a \in Accounts : c \in own[a]} = {user[c]}

\* Whoever admits members or sends them away, makes or relieves managers,
\* edits or disbands a club, or gives a verdict for which his right was asked,
\* has that right at the moment of the decision, commands after it was read,
\* unless the request overlapped one that changed who may.  A verdict on an
\* application whose club is gone is asked of nobody and left out; no such
\* verdict makes anybody a member.
EntitledOnly ==
    \A c \in Clubs : Whole(c) \in misdeeds => Whole(c) \in marred

\* An application gets one verdict, unless two were given at a time.
JudgedOnce == misdeeds \cap Pairs \subseteq marred

\* Decisions about a club are made by those who may, and about each application
\* once: EntitledOnly and JudgedOnce.  The right is asked for only where the
\* club exists (club.py:777) and applications survive a disbandment, so that
\* anybody at all may write a verdict on one that its club has left behind:
\* that much EntitledOnly does not promise.
DecisionsInOrder == EntitledOnly /\ JudgedOnce

\* A club never has more managers than allowed, even if they are added at the
\* same time: the set is written as it was read, so that one addition is lost
\* rather than one too many made.
ManagersBounded ==
    \A c \in Clubs : managers[c] # NoSet =>
                        Cardinality(managers[c]) <= MaxManagers

Creating(a) == {t \in Threads : pc[t] \in {"number", "list", "attr", "own"}
                                  /\ job[t].me = a}

Limited == INSTANCE Quota WITH
    Keys <- Accounts,
    Requests <- Threads,
    Limit <- MaxOwn,
    used <- [a \in Accounts |-> Cardinality(own[a])],
    holders <- [a \in Accounts |-> Creating(a)]

\* Creation implements a quota of clubs for each account that disbandment
\* gives back: the limit is overshot at most once per other thread.
ClubsAreLimited == Limited!Spec
============================================================================
