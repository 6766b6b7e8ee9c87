----------------------------- MODULE ClubProofs -----------------------------
(***************************************************************************)
(* Proofs for Club, for every number of accounts, threads, clubs and       *)
(* requests: the two records of a membership agree, a number that is free  *)
(* leaves nothing behind, a club has one owner, decisions are made by      *)
(* those who may, managers and clubs stay within their limits, each unless *)
(* an overlap or a crash excuses it.                                       *)
(***************************************************************************)
EXTENDS Club, FiniteSetTheorems, TLAPS

----------------------------------------------------------------------------
(* The strengthening, for types and for the set of managers *)

\* What a thread works on, by its next command.
Doing(t) ==
    /\ pc[t] \in {"number", "list", "attr", "own"} => job[t].op = "create"
    /\ pc[t] \in {"members", "disband"} => job[t].op = "disband"
    /\ pc[t] = "exists" => job[t].op \in {"join", "apply", "audit"}
    /\ pc[t] \in {"enrol", "enter"} => job[t].op \in {"join", "audit"}
    /\ pc[t] \in {"expel", "forget"} => job[t].op \in {"leave", "kick"}
    /\ pc[t] = "owner" => job[t].op \in {"kick", "audit", "edit"}
    /\ pc[t] = "apply" => job[t].op = "apply"
    /\ pc[t] \in {"applies", "unlist", "relist"} => job[t].op = "audit"
    /\ pc[t] \in {"managers", "store"} => job[t].op \in {"add", "relieve"}
    /\ pc[t] = "content" => job[t].op = "edit"
    /\ pc[t] = "number" => job[t].club = 0
    /\ pc[t] \notin {"idle", "number"} => job[t].club \in Clubs
    /\ pc[t] # "idle" /\ job[t].op = "audit" => job[t].state # 0
    /\ pc[t] = "disband" => job[t].seen \in SUBSET Accounts
    /\ pc[t] = "store" => /\ job[t].seen \in SUBSET Accounts
                          /\ Cardinality(job[t].seen) <= MaxManagers

TInv ==
    /\ TypeOK
    /\ job \in [Threads -> Jobs \cup {NoJob}]
    /\ \A t \in Threads : Doing(t)
    /\ ManagersBounded

----------------------------------------------------------------------------
(* The strengthening, for what requests do to each other *)

Active(t) == pc[t] \notin {"idle", "number"}

\* The club of t, or its player there, saw an overlap or a crash.
Spoilt(t) == Whole(job[t].club) \in marred
Blurred(t) == <<job[t].who, job[t].club>> \in marred

\* Requests that get each other in disorder have left their mark.
Clash(s, t) ==
    LET structural == job[s].op \in Structural \/ job[t].op \in Structural
    IN Active(s) /\ Active(t) /\ job[s].club = job[t].club =>
         /\ (job[s].who = job[t].who \/ structural => Blurred(s) /\ Blurred(t))
         /\ (structural => Spoilt(t))

KInv == \A s, t \in Threads : s # t => Clash(s, t)

\* What a thread relies on about the club it works on ...
Relies(t) ==
    LET j == job[t]
        c == job[t].club
    IN /\ pc[t] = "list" => c \notin list
       /\ pc[t] \in {"attr", "own", "members", "disband", "managers", "store",
                     "owner", "content", "enrol", "enter"} => c \in list
       /\ pc[t] \in {"attr", "own"} => \A a \in Accounts : c \notin own[a]
       /\ pc[t] \in {"own", "members", "disband", "managers", "store"}
            => user[c] = j.me
       /\ pc[t] = "owner" => j.seen = managers[c]
       /\ pc[t] = "expel" /\ j.op = "kick" => Entitled(j.me, c)
       /\ pc[t] = "enrol" /\ j.op = "audit" => Entitled(j.me, c)
       /\ pc[t] = "content" => Entitled(j.me, c)
       /\ pc[t] \in {"applies", "unlist", "relist"}
            => Entitled(j.me, c) \/ (Unasked(j) /\ ~Exists(c))
       /\ pc[t] = "exists" /\ j.op = "audit" => Entitled(j.me, c) \/ ~Exists(c)

\* ... and about the player there.
Expects(t) ==
    LET j == job[t]
        c == job[t].club
    IN /\ pc[t] = "enter" => c \in clubsOf[j.who]
       /\ pc[t] = "forget" => j.who \notin players[c]
       /\ pc[t] \in {"unlist", "relist"} => <<j.who, c>> \in open
       /\ pc[t] = "relist" => <<j.who, 0>> \notin applies[c]

\* A disbandment knows all members that no overlap has blurred.
Knows(t) ==
    pc[t] = "disband" =>
        \A a \in players[job[t].club] :
            a \in job[t].seen \/ <<a, job[t].club>> \in marred

FInv ==
    \A t \in Threads :
        /\ Active(t) => (Spoilt(t) \/ Relies(t)) /\ (Blurred(t) \/ Expects(t))
        /\ Knows(t)

\* A pending application has no verdict.
PInv ==
    \A a \in Accounts, c \in Clubs :
        <<a, 0>> \in applies[c] => <<a, c>> \in open \cup marred

CInv == /\ TInv /\ KInv /\ FInv /\ PInv
        /\ MembershipAgrees /\ NothingLeftBehind /\ OneOwner /\ DecisionsInOrder

----------------------------------------------------------------------------
(* Requests begin *)

\* How a request begins, and what its first command has found.
Opening(j, step) ==
    /\ <<j.op, step>> \in {<<"create", "number">>, <<"disband", "members">>,
                           <<"join", "exists">>, <<"leave", "expel">>,
                           <<"kick", "owner">>, <<"apply", "exists">>,
                           <<"audit", "owner">>, <<"audit", "applies">>,
                           <<"add", "managers">>, <<"relieve", "managers">>,
                           <<"edit", "owner">>}
    /\ j.op = "create" => j.club = 0 /\ j.who = j.me /\ ~OwnsTooMany(j.me)
    /\ j.op # "create" => j.club \in Clubs
    /\ j.op = "audit" => j.state # 0
    /\ step \in {"members", "managers"} => user[j.club] = j.me
    /\ step = "owner" => managers[j.club] # NoSet /\ j.seen = managers[j.club]
    /\ step = "applies" => ~Exists(j.club) /\ Unasked(j)

Opens(t, j, step) ==
    /\ Opening(j, step)
    /\ pc[t] = "idle"
    /\ served < MaxOps /\ served' = served + 1
    /\ Goto(t, step)
    /\ Serve(t, j)
    /\ UNCHANGED store

LEMMA AskOpens ==
    ASSUME TInv, NEW t \in Threads, Ask(t)
    PROVE  \E j \in Jobs : \E step \in Steps \ {"idle"} : Opens(t, j, step)
<1>. DEFINE J(op, me, who, c, seen, state) ==
              [op |-> op, me |-> me, who |-> who, club |-> c,
               seen |-> seen, state |-> state]
<1>1. ASSUME NEW op \in Ops, NEW me \in Accounts, NEW who \in Accounts,
             NEW c \in Clubs \cup {0}, NEW seen \in (SUBSET Accounts) \cup {NoSet},
             NEW state \in States, NEW step \in Steps \ {"idle"},
             Begin(t, op, me, who, c, seen, state, step),
             Opening(J(op, me, who, c, seen, state), step)
      PROVE  \E j \in Jobs : \E st \in Steps \ {"idle"} : Opens(t, j, st)
  <2>1. J(op, me, who, c, seen, state) \in Jobs
    BY DEF Jobs
  <2>2. Opens(t, J(op, me, who, c, seen, state), step)
    BY <1>1 DEF Begin, Opens
  <2>. QED
    BY <2>1, <2>2
<1>2. PICK a \in Accounts :
        \/ CreateClub(t, a)
        \/ \E c \in Clubs :
             \/ DeleteClub(t, a, c) \/ JoinClub(t, a, c) \/ SignOutClub(t, a, c)
             \/ ApplyClub(t, a, c) \/ EditClub(t, a, c)
             \/ \E b \in Accounts :
                  \/ ForceSignOut(t, a, b, c) \/ AddManager(t, a, b, c)
                  \/ RelieveManager(t, a, b, c)
                  \/ \E state \in {1, -1} : ApplyAudit(t, a, b, c, state)
  BY DEF Ask
<1>3. /\ {{}, NoSet} \subseteq (SUBSET Accounts) \cup {NoSet}
      /\ \A c \in Clubs : managers[c] \in (SUBSET Accounts) \cup {NoSet}
      /\ 0 \in States /\ 0 \in Clubs \cup {0} /\ 0 \notin Clubs
  BY DEF TInv, TypeOK, States, Clubs
<1>. DEFINE Goal == \E j \in Jobs : \E st \in Steps \ {"idle"} : Opens(t, j, st)
<1>4. CASE CreateClub(t, a)
  <2>1. Begin(t, "create", a, a, 0, {}, 0, "number") /\ ~OwnsTooMany(a)
    BY <1>4 DEF CreateClub
  <2>2. Opening(J("create", a, a, 0, {}, 0), "number")
    BY <2>1 DEF Opening
  <2>3. "create" \in Ops /\ "number" \in Steps \ {"idle"}
    BY DEF Ops, Steps
  <2>. HIDE DEF J
  <2>. QED
    BY <1>1, <1>3, <2>1, <2>2, <2>3
<1>5. ASSUME NEW c \in Clubs, DeleteClub(t, a, c) PROVE Goal
  <2>1. Begin(t, "disband", a, a, c, {}, 0, "members") /\ user[c] = a
    BY <1>5 DEF DeleteClub
  <2>2. Opening(J("disband", a, a, c, {}, 0), "members")
    BY <2>1 DEF Opening
  <2>3. "disband" \in Ops /\ "members" \in Steps \ {"idle"}
    BY DEF Ops, Steps
  <2>. HIDE DEF J
  <2>. QED
    BY <1>1, <1>3, <2>1, <2>2, <2>3
<1>6. ASSUME NEW c \in Clubs, JoinClub(t, a, c) PROVE Goal
  <2>1. Begin(t, "join", a, a, c, {}, 0, "exists")
    BY <1>6 DEF JoinClub
  <2>2. Opening(J("join", a, a, c, {}, 0), "exists")
    BY DEF Opening
  <2>3. "join" \in Ops /\ "exists" \in Steps \ {"idle"}
    BY DEF Ops, Steps
  <2>. HIDE DEF J
  <2>. QED
    BY <1>1, <1>3, <2>1, <2>2, <2>3
<1>7. ASSUME NEW c \in Clubs, SignOutClub(t, a, c) PROVE Goal
  <2>1. Begin(t, "leave", a, a, c, {}, 0, "expel")
    BY <1>7 DEF SignOutClub
  <2>2. Opening(J("leave", a, a, c, {}, 0), "expel")
    BY DEF Opening
  <2>3. "leave" \in Ops /\ "expel" \in Steps \ {"idle"}
    BY DEF Ops, Steps
  <2>. HIDE DEF J
  <2>. QED
    BY <1>1, <1>3, <2>1, <2>2, <2>3
<1>8. ASSUME NEW c \in Clubs, ApplyClub(t, a, c) PROVE Goal
  <2>1. Begin(t, "apply", a, a, c, {}, 0, "exists")
    BY <1>8 DEF ApplyClub
  <2>2. Opening(J("apply", a, a, c, {}, 0), "exists")
    BY DEF Opening
  <2>3. "apply" \in Ops /\ "exists" \in Steps \ {"idle"}
    BY DEF Ops, Steps
  <2>. HIDE DEF J
  <2>. QED
    BY <1>1, <1>3, <2>1, <2>2, <2>3
<1>9. ASSUME NEW c \in Clubs, EditClub(t, a, c) PROVE Goal
  <2>1. Begin(t, "edit", a, a, c, managers[c], 0, "owner") /\ managers[c] # NoSet
    BY <1>9 DEF EditClub
  <2>2. Opening(J("edit", a, a, c, managers[c], 0), "owner")
    BY <2>1 DEF Opening
  <2>3. "edit" \in Ops /\ "owner" \in Steps \ {"idle"}
    BY DEF Ops, Steps
  <2>. HIDE DEF J
  <2>. QED
    BY <1>1, <1>3, <2>1, <2>2, <2>3
<1>10. ASSUME NEW c \in Clubs, NEW b \in Accounts, ForceSignOut(t, a, b, c)
       PROVE  Goal
  <2>1. Begin(t, "kick", a, b, c, managers[c], 0, "owner") /\ managers[c] # NoSet
    BY <1>10 DEF ForceSignOut
  <2>2. Opening(J("kick", a, b, c, managers[c], 0), "owner")
    BY <2>1 DEF Opening
  <2>3. "kick" \in Ops /\ "owner" \in Steps \ {"idle"}
    BY DEF Ops, Steps
  <2>. HIDE DEF J
  <2>. QED
    BY <1>1, <1>3, <2>1, <2>2, <2>3
<1>11. ASSUME NEW c \in Clubs, NEW b \in Accounts,
              NEW op \in {"add", "relieve"}, user[c] = a,
              Begin(t, op, a, b, c, {}, 0, "managers")
       PROVE  Goal
  <2>1. Opening(J(op, a, b, c, {}, 0), "managers")
    BY <1>11 DEF Opening
  <2>2. op \in Ops /\ "managers" \in Steps \ {"idle"}
    BY DEF Ops, Steps
  <2>. HIDE DEF J
  <2>. QED
    BY <1>1, <1>3, <1>11, <2>1, <2>2
<1>12. ASSUME NEW c \in Clubs, NEW b \in Accounts, NEW state \in {1, -1},
              ApplyAudit(t, a, b, c, state)
       PROVE  Goal
  <2>1. state \in States /\ state # 0
    BY DEF States
  <2>2. "audit" \in Ops /\ {"owner", "applies"} \subseteq Steps \ {"idle"}
    BY DEF Ops, Steps
  <2>3. CASE /\ managers[c] # NoSet
             /\ Begin(t, "audit", a, b, c, managers[c], state, "owner")
    <3>1. Opening(J("audit", a, b, c, managers[c], state), "owner")
      BY <2>1, <2>3 DEF Opening
    <3>. HIDE DEF J
    <3>. QED
      BY <1>1, <1>3, <2>1, <2>2, <2>3, <3>1
  <2>4. CASE ~Exists(c) /\ Begin(t, "audit", a, b, c, NoSet, state, "applies")
    <3>1. Opening(J("audit", a, b, c, NoSet, state), "applies")
      BY <2>1, <2>4 DEF Opening, Unasked
    <3>. HIDE DEF J
    <3>. QED
      BY <1>1, <1>3, <2>1, <2>2, <2>4, <3>1
  <2>. QED
    BY <1>12, <2>3, <2>4 DEF ApplyAudit
<1>. HIDE DEF J, Goal
<1>13. Goal
  BY <1>2, <1>4, <1>5, <1>6, <1>7, <1>8, <1>9, <1>10, <1>11, <1>12
  DEF AddManager, RelieveManager, Goal
<1>. QED
  BY <1>13 DEF Goal

----------------------------------------------------------------------------
(* Types *)

DataOK ==
    /\ list \subseteq Clubs
    /\ user \in [Clubs -> Accounts \cup {Nobody}]
    /\ managers \in [Clubs -> (SUBSET Accounts) \cup {NoSet}]
    /\ content \subseteq Clubs
    /\ own \in [Accounts -> SUBSET Clubs]
    /\ clubsOf \in [Accounts -> SUBSET Clubs]
    /\ players \in [Clubs -> SUBSET Accounts]
    /\ applies \in [Clubs -> SUBSET (Accounts \X States)]
    /\ open \subseteq Pairs
    /\ marred \subseteq Keys
    /\ misdeeds \subseteq Keys
    /\ crashed \in BOOLEAN
    /\ served \in 0..MaxOps

LEMMA TInvData ==
    ASSUME TInv
    PROVE  /\ DataOK /\ ManagersBounded
           /\ pc \in [Threads -> Steps] /\ job \in [Threads -> Jobs \cup {NoJob}]
           /\ \A t \in Threads : /\ Doing(t)
                                 /\ pc[t] = "idle" => job[t] = NoJob
                                 /\ pc[t] # "idle" => job[t] \in Jobs
  BY DEF TInv, TypeOK, DataOK

LEMMA StepType ==
    ASSUME TInv, NEW t \in Threads, NEW x \in Steps, NEW j,
           \/ x = "idle" /\ j = NoJob
           \/ x # "idle" /\ j \in Jobs,
           pc' = [pc EXCEPT ![t] = x], job' = [job EXCEPT ![t] = j],
           DataOK', ManagersBounded', Doing(t)'
    PROVE  TInv'
<1>1. /\ pc \in [Threads -> Steps] /\ job \in [Threads -> Jobs \cup {NoJob}]
      /\ \A s \in Threads : /\ Doing(s)
                            /\ pc[s] = "idle" => job[s] = NoJob
                            /\ pc[s] # "idle" => job[s] \in Jobs
  BY TInvData
<1>2. /\ pc' \in [Threads -> Steps] /\ job' \in [Threads -> Jobs \cup {NoJob}]
      /\ pc'[t] = x /\ job'[t] = j
      /\ \A s \in Threads \ {t} : pc'[s] = pc[s] /\ job'[s] = job[s]
  BY <1>1
<1>3. \A s \in Threads : Doing(s)'
  BY <1>1, <1>2 DEF Doing
<1>4. \A s \in Threads :
        IF pc'[s] = "idle" THEN job'[s] = NoJob ELSE job'[s] \in Jobs
  BY <1>1, <1>2
<1>5. TypeOK'
  BY <1>2, <1>4 DEF TypeOK, DataOK
<1>. QED
  BY <1>2, <1>3, <1>5 DEF TInv

LEMMA LeaveType ==
    ASSUME TInv, NEW t \in Threads, Leave(t), DataOK', ManagersBounded'
    PROVE  TInv'
<1>1. pc' = [pc EXCEPT ![t] = "idle"] /\ job' = [job EXCEPT ![t] = NoJob]
  BY DEF Leave, Goto
<1>2. pc'[t] = "idle" /\ "idle" \in Steps
  BY <1>1, TInvData DEF Steps
<1>3. Doing(t)'
  BY <1>2 DEF Doing
<1>. QED
  BY <1>1, <1>2, <1>3, StepType

LEMMA GotoType ==
    ASSUME TInv, NEW t \in Threads, NEW x \in Steps \ {"idle"},
           pc[t] # "idle", Goto(t, x), UNCHANGED job,
           DataOK', ManagersBounded', Doing(t)'
    PROVE  TInv'
<1>1. job \in [Threads -> Jobs \cup {NoJob}] /\ job[t] \in Jobs
  BY TInvData
<1>2. job' = [job EXCEPT ![t] = job[t]] /\ pc' = [pc EXCEPT ![t] = x]
  BY <1>1 DEF Goto
<1>. QED
  BY <1>1, <1>2, StepType

\* A command that reads.
LEMMA ReadType ==
    ASSUME TInv, ReadOnly
    PROVE  DataOK' /\ ManagersBounded'
  BY TInvData DEF ReadOnly, Quiet, store, attr, members, history, DataOK,
     ManagersBounded

\* The mark that an overlap with the job of thread s leaves.
Marks(j, s) ==
    /\ pc[s] # "idle" /\ job[s].club = j.club /\ j.club # 0
    /\ job[s].who = j.who \/ j.op \in Structural \/ job[s].op \in Structural

LEMMA OverlapFacts ==
    ASSUME TInv, NEW t \in Threads, NEW j \in Jobs
    PROVE  /\ Overlap(t, j) \subseteq Keys
           /\ \A s \in Threads \ {t} : Marks(j, s) =>
                /\ <<j.who, j.club>> \in Overlap(t, j)
                /\ <<job[s].who, j.club>> \in Overlap(t, j)
                /\ j.op \in Structural \/ job[s].op \in Structural
                     => Whole(j.club) \in Overlap(t, j)
<1>. DEFINE R == {r \in Threads \ {t} :
                    /\ pc[r] # "idle" /\ job[r].club = j.club /\ j.club # 0
                    /\ \/ job[r].who = j.who
                       \/ {j.op, job[r].op} \cap Structural # {}}
            D(s) == Disorder(j.club, {j, job[s]})
<1>1. Overlap(t, j) = UNION {D(s) : s \in R}
  BY DEF Overlap
<1>2. ASSUME NEW s \in R PROVE D(s) \subseteq Keys
  <2>1. job[s] \in Jobs /\ j.club \in Clubs
    BY TInvData DEF Jobs
  <2>2. j.who \in Accounts /\ job[s].who \in Accounts
    BY <2>1 DEF Jobs
  <2>. QED
    BY <2>1, <2>2 DEF Disorder, Keys, Pairs, Whole
<1>3. ASSUME NEW s \in Threads \ {t}, Marks(j, s)
      PROVE  /\ <<j.who, j.club>> \in Overlap(t, j)
             /\ <<job[s].who, j.club>> \in Overlap(t, j)
             /\ j.op \in Structural \/ job[s].op \in Structural
                  => Whole(j.club) \in Overlap(t, j)
  <2>1. s \in R
    BY <1>3 DEF Marks
  <2>2. /\ <<j.who, j.club>> \in D(s) /\ <<job[s].who, j.club>> \in D(s)
        /\ j.op \in Structural \/ job[s].op \in Structural
             => Whole(j.club) \in D(s)
    BY DEF Disorder
  <2>3. D(s) \subseteq UNION {D(r) : r \in R}
    BY <2>1
  <2>. QED
    BY <1>1, <2>2, <2>3
<1>. HIDE DEF D, R
<1>. QED
  BY <1>1, <1>2, <1>3

LEMMA OpensType ==
    ASSUME TInv, NEW t \in Threads, NEW j \in Jobs, NEW x \in Steps \ {"idle"},
           Opens(t, j, x)
    PROVE  TInv'
<1>1. /\ pc' = [pc EXCEPT ![t] = x] /\ job' = [job EXCEPT ![t] = j]
      /\ marred' = marred \cup Overlap(t, j) /\ Opening(j, x)
      /\ UNCHANGED <<open, misdeeds, crashed>> /\ UNCHANGED store
      /\ served < MaxOps /\ served' = served + 1
  BY DEF Opens, Goto, Serve
<1>2. MaxOps \in Nat /\ Overlap(t, j) \subseteq Keys
  BY ClubAssumption, OverlapFacts
<1>3. DataOK' /\ ManagersBounded'
  BY <1>1, <1>2, TInvData DEF store, attr, members, DataOK, ManagersBounded
<1>4. pc'[t] = x /\ job'[t] = j
  BY <1>1, TInvData
<1>5. Doing(t)'
  BY <1>1, <1>4 DEF Doing, Opening
<1>. QED
  BY <1>1, <1>3, <1>5, StepType

\* Sets of accounts are finite, so that their sizes can be compared.
LEMMA AccountSets ==
    ASSUME NEW S \in SUBSET Accounts
    PROVE  IsFiniteSet(S) /\ Cardinality(S) \in Nat
<1>1. IsFiniteSet(S)
  BY ClubAssumption, FS_Subset
<1>. QED
  BY <1>1, FS_CardinalityType

LEMMA JobType ==
    ASSUME TInv, NEW t \in Threads, pc[t] # "idle"
    PROVE  /\ job[t] \in Jobs /\ job[t].me \in Accounts /\ job[t].who \in Accounts
           /\ job[t].op \in Ops /\ job[t].state \in States
           /\ pc[t] # "number" => /\ job[t].club \in Clubs
                                 /\ Whole(job[t].club) \in Keys
                                 /\ <<job[t].who, job[t].club>> \in Pairs
                                 /\ <<job[t].who, job[t].club>> \in Keys
<1>1. job[t] \in Jobs /\ (pc[t] # "number" => job[t].club \in Clubs)
  BY TInvData DEF Doing
<1>2. job[t].who \in Accounts
  BY <1>1 DEF Jobs
<1>. QED
  BY <1>1, <1>2 DEF Jobs, Keys, Pairs, Whole

LEMMA NumberStep ==
    ASSUME TInv, NEW t \in Threads, Number(t)
    PROVE  \E n \in Clubs, j \in Jobs :
              /\ NextNumber(n) /\ pc[t] = "number"
              /\ j = [job[t] EXCEPT !.club = n]
              /\ j.op = "create" /\ j.club = n /\ j.me = job[t].me
              /\ pc' = [pc EXCEPT ![t] = "list"] /\ job' = [job EXCEPT ![t] = j]
              /\ marred' = marred \cup Overlap(t, j)
              /\ UNCHANGED <<open, misdeeds, crashed, served>>
              /\ UNCHANGED store
<1>1. PICK n \in Clubs : NextNumber(n) /\ Serve(t, [job[t] EXCEPT !.club = n])
  BY DEF Number
<1>2. pc[t] = "number" /\ job[t] \in Jobs /\ job[t].op = "create"
  BY TInvData DEF Number, Doing
<1>. DEFINE j == [job[t] EXCEPT !.club = n]
<1>3. j \in Jobs /\ j.op = "create" /\ j.club = n /\ j.me = job[t].me
  BY <1>2 DEF Jobs
<1>4. /\ pc' = [pc EXCEPT ![t] = "list"] /\ job' = [job EXCEPT ![t] = j]
      /\ marred' = marred \cup Overlap(t, j)
      /\ UNCHANGED <<open, misdeeds, crashed, served>> /\ UNCHANGED store
  BY <1>1 DEF Number, Serve, Goto
<1>. HIDE DEF j
<1>5. j = [job[t] EXCEPT !.club = n]
  BY DEF j
<1>. QED
  BY <1>1, <1>2, <1>3, <1>4, <1>5

LEMMA NumberType ==
    ASSUME TInv, NEW t \in Threads, Number(t)
    PROVE  TInv'
<1>1. PICK n \in Clubs, j \in Jobs :
        /\ j.op = "create" /\ j.club = n
        /\ pc' = [pc EXCEPT ![t] = "list"] /\ job' = [job EXCEPT ![t] = j]
        /\ marred' = marred \cup Overlap(t, j)
        /\ UNCHANGED <<open, misdeeds, crashed, served>>
        /\ UNCHANGED store
  BY NumberStep
<1>2. Overlap(t, j) \subseteq Keys
  BY OverlapFacts
<1>3. DataOK' /\ ManagersBounded'
  BY <1>1, <1>2, TInvData DEF store, attr, members, DataOK, ManagersBounded
<1>4. pc'[t] = "list" /\ job'[t] = j /\ "list" \in Steps \ {"idle"}
  BY <1>1, TInvData DEF Steps
<1>5. Doing(t)'
  BY <1>1, <1>4 DEF Doing
<1>. QED
  BY <1>1, <1>3, <1>4, <1>5, StepType

LEMMA CreateType ==
    ASSUME TInv, NEW t \in Threads, EnterList(t) \/ SetAttr(t) \/ EnterOwn(t)
    PROVE  TInv'
<1>. USE DEF Quiet, history, attr, members
<1>0. /\ DataOK /\ ManagersBounded /\ Doing(t) /\ pc \in [Threads -> Steps]
      /\ job \in [Threads -> Jobs \cup {NoJob}]
  BY TInvData
<1>1. /\ pc[t] \in {"list", "attr", "own"}
      /\ job[t].club \in Clubs /\ job[t].me \in Accounts
  BY JobType DEF EnterList, SetAttr, EnterOwn
<1>2. CASE EnterList(t)
  <2>1. DataOK' /\ ManagersBounded'
    BY <1>0, <1>1, <1>2 DEF EnterList, DataOK, ManagersBounded
  <2>2. pc'[t] = "attr" /\ Goto(t, "attr") /\ job' = job /\ pc[t] = "list"
        /\ "attr" \in Steps \ {"idle"}
    BY <1>0, <1>2 DEF EnterList, Goto, Steps
  <2>3. Doing(t)'
    BY <1>0, <2>2 DEF Doing
  <2>. QED
    BY <2>1, <2>2, <2>3, GotoType
<1>3. CASE SetAttr(t)
  <2>1. DataOK'
    BY <1>0, <1>1, <1>3 DEF SetAttr, DataOK
  <2>2. ManagersBounded'
    <3>1. /\ managers \in [Clubs -> (SUBSET Accounts) \cup {NoSet}]
          /\ managers' = [managers EXCEPT ![job[t].club] = {}]
      BY <1>0, <1>3 DEF SetAttr, DataOK
    <3>2. Cardinality({}) = 0 /\ MaxManagers \in Nat
      BY FS_EmptySet, ClubAssumption
    <3>. QED
      BY <1>0, <1>1, <3>1, <3>2 DEF ManagersBounded
  <2>3. pc'[t] = "own" /\ Goto(t, "own") /\ job' = job /\ pc[t] = "attr"
        /\ "own" \in Steps \ {"idle"}
    BY <1>0, <1>3 DEF SetAttr, Goto, Steps
  <2>4. Doing(t)'
    BY <1>0, <2>3 DEF Doing
  <2>. QED
    BY <2>1, <2>2, <2>3, <2>4, GotoType
<1>4. CASE EnterOwn(t)
  <2>1. DataOK' /\ ManagersBounded'
    BY <1>0, <1>1, <1>4 DEF EnterOwn, DataOK, ManagersBounded
  <2>. QED
    BY <1>4, <2>1, LeaveType DEF EnterOwn
<1>. QED
  BY <1>2, <1>3, <1>4

\* The job of a thread that has read a set of accounts.
LEMMA SeenType ==
    ASSUME TInv, NEW t \in Threads, NEW S \in SUBSET Accounts, NEW x \in Steps \ {"idle"},
           pc[t] # "idle", pc[t] # "number", ReadOnly, Goto(t, x),
           job' = [job EXCEPT ![t].seen = S],
           \/ x = "disband" /\ job[t].op = "disband"
           \/ /\ x = "store" /\ job[t].op \in {"add", "relieve"}
              /\ Cardinality(S) <= MaxManagers
    PROVE  /\ TInv' /\ pc' = [pc EXCEPT ![t] = x] /\ pc'[t] = x
           /\ job'[t].op = job[t].op /\ job'[t].me = job[t].me
           /\ job'[t].who = job[t].who /\ job'[t].club = job[t].club
           /\ job'[t].seen = S
           /\ \A s \in Threads : s # t => job'[s] = job[s]
<1>. DEFINE j == [job[t] EXCEPT !.seen = S]
<1>1. job[t] \in Jobs /\ job[t].club \in Clubs
      /\ job \in [Threads -> Jobs \cup {NoJob}] /\ pc \in [Threads -> Steps]
  BY JobType, TInvData
<1>2. /\ j \in Jobs /\ j.op = job[t].op /\ j.me = job[t].me
      /\ j.who = job[t].who /\ j.club = job[t].club /\ j.seen = S
  BY <1>1 DEF Jobs
<1>3. job' = [job EXCEPT ![t] = j] /\ pc' = [pc EXCEPT ![t] = x]
  BY DEF Goto
<1>. HIDE DEF j
<1>4. job'[t] = j /\ pc'[t] = x /\ \A s \in Threads : s # t => job'[s] = job[s]
  BY <1>1, <1>3
<1>5. DataOK' /\ ManagersBounded'
  BY ReadType
<1>6. Doing(t)'
  BY <1>1, <1>2, <1>4 DEF Doing
<1>7. TInv'
  BY <1>2, <1>3, <1>5, <1>6, StepType
<1>. QED
  BY <1>2, <1>3, <1>4, <1>7

LEMMA DisbandType ==
    ASSUME TInv, NEW t \in Threads, ReadMembers(t) \/ Disband(t)
    PROVE  TInv'
<1>0. /\ DataOK /\ ManagersBounded /\ Doing(t) /\ pc \in [Threads -> Steps]
      /\ job \in [Threads -> Jobs \cup {NoJob}]
  BY TInvData
<1>1. /\ pc[t] \in {"members", "disband"} /\ Whole(job[t].club) \in Keys
      /\ job[t].club \in Clubs /\ job[t].me \in Accounts
  BY JobType DEF ReadMembers, Disband
<1>2. CASE ReadMembers(t)
  <2>1. /\ players[job[t].club] \in SUBSET Accounts /\ job[t].op = "disband"
        /\ "disband" \in Steps \ {"idle"}
    BY <1>0, <1>1 DEF DataOK, Doing, Steps
  <2>2. /\ pc[t] = "members" /\ ReadOnly /\ Goto(t, "disband")
        /\ job' = [job EXCEPT ![t].seen = players[job[t].club]]
    BY <1>2 DEF ReadMembers
  <2>. QED
    BY <2>1, <2>2, SeenType
<1>3. CASE Disband(t)
  <2>. DEFINE c == job[t].club
  <2>1. /\ user' = [user EXCEPT ![c] = Nobody]
        /\ managers' = [managers EXCEPT ![c] = NoSet]
        /\ content' = content \ {c} /\ list' = list \ {c}
        /\ own' = [own EXCEPT ![job[t].me] = @ \ {c}]
        /\ clubsOf' = Dismissed(job[t].seen, c)
        /\ players' = [players EXCEPT ![c] = {}]
        /\ misdeeds' \subseteq misdeeds \cup {Whole(c)}
        /\ UNCHANGED <<marred, crashed, served, applies, open>>
    BY <1>3 DEF Disband, Unless
  <2>2. /\ user' \in [Clubs -> Accounts \cup {Nobody}]
        /\ managers' \in [Clubs -> (SUBSET Accounts) \cup {NoSet}]
        /\ content' \subseteq Clubs /\ list' \subseteq Clubs
    <3>1. user' \in [Clubs -> Accounts \cup {Nobody}]
      BY <1>0, <1>1, <2>1 DEF DataOK
    <3>2. managers' \in [Clubs -> (SUBSET Accounts) \cup {NoSet}]
      BY <1>0, <1>1, <2>1 DEF DataOK
    <3>3. content' \subseteq Clubs /\ list' \subseteq Clubs
      BY <1>0, <2>1 DEF DataOK
    <3>. QED
      BY <3>1, <3>2, <3>3
  <2>3. /\ own' \in [Accounts -> SUBSET Clubs]
        /\ clubsOf' \in [Accounts -> SUBSET Clubs]
        /\ players' \in [Clubs -> SUBSET Accounts]
    <3>1. own' \in [Accounts -> SUBSET Clubs]
      BY <1>0, <1>1, <2>1 DEF DataOK
    <3>2. clubsOf' \in [Accounts -> SUBSET Clubs]
      BY <1>0, <2>1 DEF DataOK, Dismissed
    <3>3. players' \in [Clubs -> SUBSET Accounts]
      BY <1>0, <1>1, <2>1 DEF DataOK
    <3>. QED
      BY <3>1, <3>2, <3>3
  <2>4. DataOK'
    BY <1>0, <1>1, <2>1, <2>2, <2>3 DEF DataOK
  <2>5. ManagersBounded'
    BY <1>0, <1>1, <2>1 DEF ManagersBounded, DataOK
  <2>. QED
    BY <1>3, <2>4, <2>5, LeaveType DEF Disband
<1>. QED
  BY <1>2, <1>3

LEMMA MemberType ==
    ASSUME TInv, NEW t \in Threads,
           Enrol(t) \/ EnterClub(t) \/ Expel(t) \/ Forget(t)
    PROVE  TInv'
<1>. USE DEF Quiet, history, attr, Unless
<1>0. /\ DataOK /\ ManagersBounded /\ Doing(t) /\ pc \in [Threads -> Steps]
      /\ job \in [Threads -> Jobs \cup {NoJob}]
  BY TInvData
<1>1. /\ pc[t] \in {"enrol", "enter", "expel", "forget"}
      /\ job[t].club \in Clubs /\ job[t].who \in Accounts
      /\ Whole(job[t].club) \in Keys
  BY JobType DEF Enrol, EnterClub, Expel, Forget
<1>2. ManagersBounded' /\ managers' = managers
  BY <1>0 DEF Enrol, EnterClub, Expel, Forget, ManagersBounded
<1>3. /\ list' = list /\ user' = user /\ content' = content /\ own' = own
      /\ applies' = applies /\ open' = open
      /\ marred' = marred /\ crashed' = crashed /\ served' = served
      /\ misdeeds' \subseteq misdeeds \cup {Whole(job[t].club)}
  BY DEF Enrol, EnterClub, Expel, Forget
<1>4. clubsOf' \in [Accounts -> SUBSET Clubs]
  BY <1>0, <1>1 DEF Enrol, EnterClub, Expel, Forget, DataOK
<1>5. players' \in [Clubs -> SUBSET Accounts]
  BY <1>0, <1>1 DEF Enrol, EnterClub, Expel, Forget, DataOK
<1>6. DataOK'
  BY <1>0, <1>1, <1>2, <1>3, <1>4, <1>5 DEF DataOK
<1>7. CASE EnterClub(t) \/ Forget(t)
  BY <1>2, <1>6, <1>7, LeaveType DEF EnterClub, Forget
<1>8. CASE Enrol(t)
  <2>1. pc'[t] = "enter" /\ Goto(t, "enter") /\ job' = job /\ pc[t] = "enrol"
        /\ "enter" \in Steps \ {"idle"}
    BY <1>0, <1>8 DEF Enrol, Goto, Steps
  <2>2. Doing(t)'
    BY <1>0, <2>1 DEF Doing
  <2>. QED
    BY <1>2, <1>6, <2>1, <2>2, GotoType
<1>9. CASE Expel(t)
  <2>1. pc'[t] = "forget" /\ Goto(t, "forget") /\ job' = job /\ pc[t] = "expel"
        /\ "forget" \in Steps \ {"idle"}
    BY <1>0, <1>9 DEF Expel, Goto, Steps
  <2>2. Doing(t)'
    BY <1>0, <2>1 DEF Doing
  <2>. QED
    BY <1>2, <1>6, <2>1, <2>2, GotoType
<1>. QED
  BY <1>7, <1>8, <1>9

\* A command that decides how the request goes on.
LEMMA CheckType ==
    ASSUME TInv, NEW t \in Threads, CheckExists(t) \/ CheckOwner(t) \/ ReadApplies(t)
    PROVE  TInv'
<1>0. /\ Doing(t) /\ pc \in [Threads -> Steps]
  BY TInvData
<1>1. DataOK' /\ ManagersBounded'
  BY ReadType DEF CheckExists, CheckOwner, ReadApplies
<1>2. CASE Leave(t)
  BY <1>1, <1>2, LeaveType
<1>3. CASE ~Leave(t)
  <2>1. ASSUME NEW x \in Steps \ {"idle"}, Goto(t, x), job' = job, pc[t] # "idle",
               \/ pc[t] = "exists" /\ x = (IF job[t].op = "apply" THEN "apply" ELSE "enrol")
               \/ pc[t] = "owner" /\ x = AfterOwner(job[t].op)
               \/ pc[t] = "applies" /\ x = "unlist"
        PROVE  TInv'
    <3>1. pc'[t] = x
      BY <1>0, <2>1 DEF Goto
    <3>2. CASE pc[t] = "exists"
      BY <1>0, <1>1, <2>1, <3>1, <3>2, GotoType DEF Doing
    <3>3. CASE pc[t] = "owner"
      <4>1. /\ job[t].op = "kick" => x = "expel"
            /\ job[t].op = "audit" => x = "applies"
            /\ job[t].op = "edit" => x = "content"
        BY <2>1, <3>3 DEF AfterOwner
      <4>2. Doing(t)'
        BY <1>0, <2>1, <3>1, <3>3, <4>1 DEF Doing
      <4>. QED
        BY <1>1, <2>1, <4>2, GotoType
    <3>4. CASE pc[t] = "applies"
      BY <1>0, <1>1, <2>1, <3>1, <3>4, GotoType DEF Doing
    <3>. QED
      BY <2>1, <3>2, <3>3, <3>4
  <2>2. CASE CheckExists(t)
    <3>. DEFINE x == IF job[t].op = "apply" THEN "apply" ELSE "enrol"
    <3>1. pc[t] = "exists" /\ Goto(t, x) /\ job' = job
      BY <1>3, <2>2 DEF CheckExists
    <3>2. x \in Steps \ {"idle"}
      BY DEF Steps
    <3>. QED
      BY <2>1, <3>1, <3>2
  <2>3. CASE CheckOwner(t)
    <3>1. pc[t] = "owner" /\ Goto(t, AfterOwner(job[t].op)) /\ job' = job
      BY <1>3, <2>3 DEF CheckOwner
    <3>2. AfterOwner(job[t].op) \in Steps \ {"idle"}
      <4>1. job[t].op \in {"kick", "audit", "edit"}
        BY <1>0, <3>1 DEF Doing
      <4>2. AfterOwner(job[t].op) \in {"expel", "applies", "content"}
        BY <4>1 DEF AfterOwner
      <4>. QED
        BY <4>2 DEF Steps
    <3>. QED
      BY <2>1, <3>1, <3>2
  <2>4. CASE ReadApplies(t)
    <3>1. pc[t] = "applies" /\ Goto(t, "unlist") /\ job' = job
      BY <1>3, <2>4 DEF ReadApplies
    <3>2. "unlist" \in Steps \ {"idle"}
      BY DEF Steps
    <3>. QED
      BY <2>1, <3>1, <3>2
  <2>. QED
    BY <2>2, <2>3, <2>4
<1>. QED
  BY <1>2, <1>3

LEMMA ApplyType ==
    ASSUME TInv, NEW t \in Threads, EnterApply(t) \/ Unlist(t) \/ Relist(t)
    PROVE  TInv'
<1>. USE DEF Quiet, history, attr, members, Unless
<1>0. /\ DataOK /\ ManagersBounded /\ Doing(t) /\ pc \in [Threads -> Steps]
      /\ job \in [Threads -> Jobs \cup {NoJob}]
  BY TInvData
<1>1. /\ pc[t] \in {"apply", "unlist", "relist"}
      /\ job[t].club \in Clubs /\ job[t].who \in Accounts /\ job[t].state \in States
      /\ <<job[t].who, job[t].club>> \in Pairs
      /\ Wrongs(job[t]) \subseteq Keys
  <2>1. /\ pc[t] \in {"apply", "unlist", "relist"}
        /\ job[t].club \in Clubs /\ job[t].who \in Accounts
        /\ job[t].state \in States
        /\ <<job[t].who, job[t].club>> \in Pairs
    BY JobType DEF EnterApply, Unlist, Relist
  <2>2. <<job[t].who, job[t].club>> \in Keys /\ Whole(job[t].club) \in Keys
    BY <2>1 DEF Keys
  <2>. QED
    BY <2>1, <2>2 DEF Wrongs
<1>2. ManagersBounded' /\ managers' = managers
  BY <1>0 DEF EnterApply, Unlist, Relist, ManagersBounded
<1>3. /\ list' = list /\ user' = user /\ content' = content /\ own' = own
      /\ clubsOf' = clubsOf /\ players' = players
      /\ marred' = marred /\ crashed' = crashed /\ served' = served
      /\ misdeeds' \subseteq misdeeds \cup Wrongs(job[t])
      /\ open' \subseteq open \cup {<<job[t].who, job[t].club>>}
  BY DEF EnterApply, Unlist, Relist
<1>4. applies' \in [Clubs -> SUBSET (Accounts \X States)]
  <2>1. 0 \in States
    BY DEF States
  <2>2. <<job[t].who, 0>> \in Accounts \X States
        /\ <<job[t].who, job[t].state>> \in Accounts \X States
    BY <1>1, <2>1
  <2>. QED
    BY <1>0, <1>1, <2>2 DEF EnterApply, Unlist, Relist, Settled, DataOK
<1>5. DataOK'
  BY <1>0, <1>1, <1>2, <1>3, <1>4 DEF DataOK
<1>6. CASE Leave(t)
  BY <1>2, <1>5, <1>6, LeaveType
<1>7. CASE Unlist(t)
  <2>1. pc'[t] = "relist" /\ Goto(t, "relist") /\ job' = job /\ pc[t] = "unlist"
        /\ "relist" \in Steps \ {"idle"}
    BY <1>0, <1>7 DEF Unlist, Goto, Steps
  <2>2. Doing(t)'
    BY <1>0, <2>1 DEF Doing
  <2>. QED
    BY <1>2, <1>5, <2>1, <2>2, GotoType
<1>8. CASE Relist(t) /\ ~Leave(t)
  <2>1. pc'[t] = "exists" /\ Goto(t, "exists") /\ job' = job /\ pc[t] = "relist"
        /\ "exists" \in Steps \ {"idle"}
    BY <1>0, <1>8 DEF Relist, Goto, Steps
  <2>2. Doing(t)'
    BY <1>0, <2>1 DEF Doing
  <2>. QED
    BY <1>2, <1>5, <2>1, <2>2, GotoType
<1>. QED
  BY <1>6, <1>7, <1>8 DEF EnterApply

\* What is stored had been compared with the limit when it was read.
LEMMA ChangedFits ==
    ASSUME TInv, NEW t \in Threads, pc[t] = "managers", CanChange(job[t])
    PROVE  /\ Changed(job[t]) \in SUBSET Accounts
           /\ Cardinality(Changed(job[t])) <= MaxManagers
<1>. DEFINE c == job[t].club
            w == job[t].who
            M == managers[c]
<1>1. /\ c \in Clubs /\ w \in Accounts
      /\ job[t].op \in {"add", "relieve"}
  BY JobType, TInvData DEF Doing
<1>2. M \in SUBSET Accounts /\ MaxManagers \in Nat /\ Cardinality(M) <= MaxManagers
  BY <1>1, TInvData, ClubAssumption DEF DataOK, CanChange, ManagersBounded
<1>3. IsFiniteSet(M) /\ Cardinality(M) \in Nat
  BY <1>2, AccountSets
<1>4. CASE job[t].op = "add"
  <2>1. Changed(job[t]) = M \cup {w} /\ Cardinality(M) < MaxManagers
    BY <1>4 DEF Changed, CanChange
  <2>. HIDE DEF M, w
  <2>2. Cardinality(M \cup {w}) <= Cardinality(M) + 1
        /\ Cardinality(M \cup {w}) \in Nat
    <3>1. \/ Cardinality(M \cup {w}) = Cardinality(M)
          \/ Cardinality(M \cup {w}) = Cardinality(M) + 1
      BY <1>3, FS_AddElement
    <3>. QED
      BY <1>3, <3>1
  <2>. QED
    BY <1>1, <1>2, <1>3, <2>1, <2>2
<1>5. CASE job[t].op # "add"
  <2>1. Changed(job[t]) = M \ {w}
    BY <1>5 DEF Changed
  <2>. HIDE DEF M, w
  <2>2. Cardinality(M \ {w}) <= Cardinality(M) /\ Cardinality(M \ {w}) \in Nat
    <3>1. M \ {w} \subseteq M
      OBVIOUS
    <3>2. IsFiniteSet(M \ {w}) /\ Cardinality(M \ {w}) <= Cardinality(M)
      BY <1>3, <3>1, FS_Subset
    <3>. QED
      BY <3>2, FS_CardinalityType
  <2>. QED
    BY <1>2, <1>3, <2>1, <2>2
<1>. QED
  BY <1>4, <1>5

LEMMA ManagerType ==
    ASSUME TInv, NEW t \in Threads,
           ReadManagers(t) \/ StoreManagers(t) \/ StoreContent(t)
    PROVE  TInv'
<1>. USE DEF Quiet, history, members, Unless
<1>0. /\ DataOK /\ ManagersBounded /\ Doing(t) /\ pc \in [Threads -> Steps]
      /\ job \in [Threads -> Jobs \cup {NoJob}]
  BY TInvData
<1>1. /\ pc[t] \in {"managers", "store", "content"} /\ job[t].club \in Clubs
      /\ Whole(job[t].club) \in Keys
  BY JobType DEF ReadManagers, StoreManagers, StoreContent
<1>2. CASE ReadManagers(t)
  <2>1. ReadOnly /\ pc[t] = "managers"
    BY <1>2 DEF ReadManagers
  <2>2. CASE CanChange(job[t])
    <3>1. /\ Changed(job[t]) \in SUBSET Accounts
          /\ Cardinality(Changed(job[t])) <= MaxManagers
      BY <2>1, <2>2, ChangedFits
    <3>2. /\ job' = [job EXCEPT ![t].seen = Changed(job[t])] /\ Goto(t, "store")
          /\ "store" \in Steps \ {"idle"} /\ job[t].op \in {"add", "relieve"}
      BY <1>0, <1>2, <2>1, <2>2 DEF ReadManagers, Steps, Doing
    <3>. QED
      BY <2>1, <3>1, <3>2, SeenType
  <2>3. CASE ~CanChange(job[t])
    BY <1>2, <2>1, <2>3, ReadType, LeaveType DEF ReadManagers
  <2>. QED
    BY <2>2, <2>3
<1>3. CASE StoreManagers(t)
  <2>1. /\ job[t].seen \in SUBSET Accounts
        /\ Cardinality(job[t].seen) <= MaxManagers
    BY <1>0, <1>3 DEF StoreManagers, Doing
  <2>2. /\ managers' = [managers EXCEPT ![job[t].club] = job[t].seen]
        /\ UNCHANGED <<list, user, content, own, clubsOf, players, applies, open>>
        /\ UNCHANGED <<marred, crashed, served>>
        /\ misdeeds' \subseteq misdeeds \cup {Whole(job[t].club)}
    BY <1>3 DEF StoreManagers, Stored
  <2>3. managers' \in [Clubs -> (SUBSET Accounts) \cup {NoSet}]
    BY <1>0, <1>1, <2>1, <2>2 DEF DataOK
  <2>4. DataOK'
    BY <1>0, <1>1, <2>2, <2>3 DEF DataOK
  <2>5. ManagersBounded'
    BY <1>0, <1>1, <2>1, <2>2 DEF ManagersBounded, DataOK
  <2>. QED
    BY <1>3, <2>4, <2>5, LeaveType DEF StoreManagers
<1>4. CASE StoreContent(t)
  <2>1. /\ content' = content \cup {job[t].club}
        /\ UNCHANGED <<list, user, managers, own, clubsOf, players, applies, open>>
        /\ UNCHANGED <<marred, crashed, served>>
        /\ misdeeds' \subseteq misdeeds \cup {Whole(job[t].club)}
    BY <1>4 DEF StoreContent
  <2>2. DataOK' /\ ManagersBounded'
    BY <1>0, <1>1, <2>1 DEF DataOK, ManagersBounded
  <2>. QED
    BY <1>4, <2>2, LeaveType DEF StoreContent
<1>. QED
  BY <1>2, <1>3, <1>4

LEMMA CrashFacts ==
    ASSUME TInv, NEW t \in Threads, Crash(t)
    PROVE  /\ TInv' /\ UNCHANGED store /\ UNCHANGED <<open, misdeeds>>
           /\ marred \subseteq marred'
           /\ pc' = [pc EXCEPT ![t] = "idle"] /\ job' = [job EXCEPT ![t] = NoJob]
           /\ Active(t) => /\ <<job[t].who, job[t].club>> \in marred'
                           /\ job[t].op \in Structural
                                => Whole(job[t].club) \in marred'
<1>1. /\ UNCHANGED store /\ UNCHANGED <<open, misdeeds, served>> /\ crashed' = TRUE
      /\ pc' = [pc EXCEPT ![t] = "idle"] /\ job' = [job EXCEPT ![t] = NoJob]
      /\ pc[t] # "idle" /\ Leave(t)
      /\ marred' = IF job[t].club = 0 THEN marred
                   ELSE marred \cup Disorder(job[t].club, {job[t]})
  BY DEF Crash, Leave, Goto
<1>2. Active(t) => /\ <<job[t].who, job[t].club>> \in marred'
                   /\ job[t].op \in Structural => Whole(job[t].club) \in marred'
  <2>. SUFFICES ASSUME Active(t)
                PROVE  /\ <<job[t].who, job[t].club>> \in marred'
                       /\ job[t].op \in Structural => Whole(job[t].club) \in marred'
    OBVIOUS
  <2>1. job[t].club # 0
    <3>1. job[t].club \in Clubs
      BY <1>1, JobType DEF Active
    <3>. QED
      BY <3>1 DEF Clubs
  <2>. QED
    BY <1>1, <2>1 DEF Disorder
<1>3. marred' \subseteq Keys
  <2>1. CASE job[t].club = 0
    BY <1>1, <2>1, TInvData DEF DataOK
  <2>2. CASE job[t].club # 0
    <3>1. pc[t] # "number"
      BY <1>1, <2>2, TInvData DEF Doing
    <3>2. Whole(job[t].club) \in Keys /\ <<job[t].who, job[t].club>> \in Keys
      BY <1>1, <3>1, JobType
    <3>3. Disorder(job[t].club, {job[t]}) \subseteq Keys
      BY <3>2 DEF Disorder
    <3>. QED
      BY <1>1, <3>3, TInvData DEF DataOK
  <2>. QED
    BY <2>1, <2>2
<1>4. DataOK' /\ ManagersBounded'
  BY <1>1, <1>3, TInvData DEF DataOK, ManagersBounded, store, attr, members
<1>5. TInv'
  BY <1>1, <1>4, LeaveType
<1>. QED
  BY <1>1, <1>2, <1>5

LEMMA TInvNext == TInv /\ [Next]_vars => TInv'
<1>. SUFFICES ASSUME TInv, [Next]_vars PROVE TInv'
  OBVIOUS
<1>1. CASE UNCHANGED vars
  BY <1>1 DEF vars, store, attr, members, history, TInv, TypeOK, Doing,
     ManagersBounded
<1>2. ASSUME NEW t \in Threads, Ask(t) PROVE TInv'
  BY <1>2, AskOpens, OpensType
<1>3. ASSUME NEW t \in Threads, Work(t) PROVE TInv'
  BY <1>3, NumberType, CreateType, DisbandType, MemberType, CheckType, ApplyType,
     ManagerType DEF Work
<1>4. ASSUME NEW t \in Threads, Crash(t) PROVE TInv'
  BY <1>4, CrashFacts
<1>. QED
  BY <1>1, <1>2, <1>3, <1>4 DEF Next

----------------------------------------------------------------------------
(* What a step of one thread means for the others *)

\* The invariant, thread by thread, membership by membership, club by club.
FOf(t) ==
    /\ Active(t) => (Spoilt(t) \/ Relies(t)) /\ (Blurred(t) \/ Expects(t))
    /\ Knows(t)

AgreeAt(a, c) ==
    \/ <<a, c>> \in marred
    \/ Midway({"enter", "forget"}, {a}, c)
    \/ c \in clubsOf[a] <=> a \in players[c]

Empty(c) ==
    /\ user[c] = Nobody /\ managers[c] = NoSet /\ c \notin content
    /\ players[c] = {}
    /\ \A a \in Accounts : /\ c \notin own[a]
                           /\ c \in clubsOf[a] => <<a, c>> \in marred

FreeAt(c) == c \notin list => Whole(c) \in marred \/ Empty(c)

OwnerAt(c) ==
    c \in list => \/ Whole(c) \in marred
                 \/ Midway({"attr", "own"}, Accounts, c)
                 \/ {a \in Accounts : c \in own[a]} = {user[c]}

PendingAt(a, c) == <<a, 0>> \in applies[c] => <<a, c>> \in open \cup marred

LEMMA CInvParts ==
    CInv <=> /\ TInv /\ KInv /\ DecisionsInOrder
             /\ \A t \in Threads : FOf(t)
             /\ \A a \in Accounts, c \in Clubs : AgreeAt(a, c) /\ PendingAt(a, c)
             /\ \A c \in Clubs : FreeAt(c) /\ OwnerAt(c)
<1>1. MembershipAgrees <=> \A a \in Accounts, c \in Clubs : AgreeAt(a, c)
  BY DEF MembershipAgrees, AgreeAt
<1>2. NothingLeftBehind <=> \A c \in Clubs : FreeAt(c)
  BY DEF NothingLeftBehind, FreeAt, Empty
<1>3. TInv => (OneOwner <=> \A c \in Clubs : OwnerAt(c))
  <2>. SUFFICES ASSUME TInv PROVE OneOwner <=> \A c \in Clubs : OwnerAt(c)
    OBVIOUS
  <2>1. list \subseteq Clubs
    BY TInvData DEF DataOK
  <2>. QED
    BY <2>1 DEF OneOwner, OwnerAt
<1>4. FInv <=> \A t \in Threads : FOf(t)
  BY DEF FInv, FOf
<1>5. PInv <=> \A a \in Accounts, c \in Clubs : PendingAt(a, c)
  BY DEF PInv, PendingAt
<1>. QED
  BY <1>1, <1>2, <1>3, <1>4, <1>5 DEF CInv

\* Thread t takes a step and goes on with its job, or ends it.
Moves(t) ==
    /\ \A s \in Threads : s # t => pc'[s] = pc[s] /\ job'[s] = job[s]
    /\ marred \subseteq marred'
    /\ Active(t)' => /\ job'[t].op = job[t].op /\ job'[t].me = job[t].me
                     /\ job'[t].who = job[t].who /\ job'[t].club = job[t].club

LEMMA ClashMoves ==
    ASSUME TInv, KInv, NEW t \in Threads, Active(t)' => Active(t), Moves(t)
    PROVE  KInv'
<1>1. ASSUME NEW r \in Threads, NEW s \in Threads, r # s PROVE Clash(r, s)'
  <2>1. /\ Active(r)' => /\ Active(r) /\ job'[r].op = job[r].op
                         /\ job'[r].who = job[r].who
                         /\ job'[r].club = job[r].club
        /\ Active(s)' => /\ Active(s) /\ job'[s].op = job[s].op
                         /\ job'[s].who = job[s].who
                         /\ job'[s].club = job[s].club
        /\ marred \subseteq marred'
    BY DEF Moves, Active
  <2>2. Clash(r, s)
    BY <1>1 DEF KInv
  <2>. QED
    BY <2>1, <2>2 DEF Clash, Blurred, Spoilt, Whole
<1>. QED
  BY <1>1 DEF KInv

\* What is known of club c does not change.
SameClub(c) ==
    /\ c \in list' <=> c \in list
    /\ user'[c] = user[c] /\ managers'[c] = managers[c]
    /\ \A a \in Accounts : c \in own'[a] <=> c \in own[a]
SameContent(c) == c \in content' <=> c \in content
SameMember(a, c) ==
    /\ c \in clubsOf'[a] <=> c \in clubsOf[a]
    /\ a \in players'[c] <=> a \in players[c]
SameApply(a, c) ==
    /\ <<a, 0>> \in applies'[c] <=> <<a, 0>> \in applies[c]
    /\ <<a, c>> \in open' <=> <<a, c>> \in open

\* A step of t changes the player and the club it is about, and only a
\* structural one changes the rest of the club.
Touches(t) ==
    /\ \A d \in Clubs : d # job[t].club =>
         /\ SameClub(d) /\ SameContent(d)
         /\ \A a \in Accounts : SameMember(a, d) /\ SameApply(a, d)
    /\ job[t].op \notin Structural =>
         /\ SameClub(job[t].club)
         /\ \/ SameContent(job[t].club)
            \/ Spoilt(t)
            \/ Exists(job[t].club) /\ job[t].club \in content'
         /\ \A a \in Accounts : a # job[t].who => SameMember(a, job[t].club)
    /\ \A a \in Accounts : a # job[t].who => SameApply(a, job[t].club)
    /\ players'[job[t].club] \subseteq players[job[t].club] \cup {job[t].who}

LEMMA OthersKeep ==
    ASSUME TInv, TInv', KInv, NEW t \in Threads, Active(t), Moves(t), Touches(t),
           NEW s \in Threads, s # t, FOf(s)
    PROVE  FOf(s)'
<1>1. /\ pc'[s] = pc[s] /\ job'[s] = job[s] /\ marred \subseteq marred'
      /\ Active(s)' <=> Active(s)
  BY DEF Moves, Active
<1>2. CASE ~Active(s)
  <2>1. Knows(s)'
    BY <1>1, <1>2 DEF Knows, Active
  <2>. QED
    BY <1>1, <1>2, <2>1 DEF FOf
<1>3. CASE Active(s)
  <2>0. /\ job[s].club \in Clubs /\ job[s].who \in Accounts
        /\ job[t].club \in Clubs /\ job[t].who \in Accounts
    BY <1>3, JobType DEF Active
  <2>1. (Spoilt(s) => Spoilt(s)') /\ (Blurred(s) => Blurred(s)')
    BY <1>1 DEF Spoilt, Blurred, Whole
  <2>2. CASE job[s].club # job[t].club
    <3>1. /\ SameClub(job[s].club) /\ SameContent(job[s].club)
          /\ \A a \in Accounts : /\ SameMember(a, job[s].club)
                                 /\ SameApply(a, job[s].club)
      BY <2>0, <2>2 DEF Touches
    <3>2. Relies(s) => Relies(s)'
      BY <1>1, <3>1 DEF Relies, SameClub, SameContent, Entitled, Exists
    <3>3. Expects(s) => Expects(s)'
      BY <1>1, <2>0, <3>1 DEF Expects, SameMember, SameApply
    <3>4. Knows(s)'
      <4>1. \A a \in players'[job[s].club] : a \in Accounts
        BY <2>0, TInvData DEF TInv, TypeOK
      <4>. QED
        BY <1>1, <3>1, <4>1 DEF Knows, SameMember, FOf
    <3>. QED
      BY <1>1, <1>3, <2>1, <3>2, <3>3, <3>4 DEF FOf
  <2>3. CASE job[s].club = job[t].club
    <3>. DEFINE structural == job[s].op \in Structural \/ job[t].op \in Structural
    <3>1. /\ job[s].who = job[t].who \/ structural => Blurred(s) /\ Blurred(t)
          /\ structural => Spoilt(s)
      BY <1>3, <2>3 DEF KInv, Clash
    <3>2. CASE structural
      <4>1. Spoilt(s) /\ Blurred(s) /\ Blurred(t)
        BY <3>1, <3>2
      <4>2. Knows(s)'
        BY <1>1, <2>3, <4>1 DEF Knows, FOf, Touches, Blurred
      <4>. QED
        BY <2>1, <4>1, <4>2 DEF FOf
    <3>3. CASE job[s].op \notin Structural /\ job[t].op \notin Structural
      <4>1. Knows(s)'
        <5>1. pc[s] # "disband"
          BY <3>3, TInvData DEF Doing, Structural
        <5>. QED
          BY <1>1, <5>1 DEF Knows
      <4>2. job[s].who # job[t].who =>
              SameMember(job[s].who, job[s].club) /\ SameApply(job[s].who, job[s].club)
        BY <2>0, <2>3, <3>3 DEF Touches
      <4>3. job[s].who # job[t].who /\ Expects(s) => Expects(s)'
        BY <1>1, <4>2 DEF Expects, SameMember, SameApply
      <4>4. /\ SameClub(job[s].club)
            /\ \/ SameContent(job[s].club)
               \/ Spoilt(s)
               \/ Exists(job[s].club) /\ job[s].club \in content'
        BY <2>3, <3>3 DEF Touches, Spoilt
      <4>5. Spoilt(s) \/ (Relies(s) => Relies(s)')
        <5>1. CASE SameContent(job[s].club)
          BY <1>1, <4>4, <5>1 DEF Relies, SameClub, SameContent, Entitled, Exists
        <5>2. CASE Exists(job[s].club) /\ job[s].club \in content'
          BY <1>1, <4>4, <5>2 DEF Relies, SameClub, Entitled, Exists
        <5>. QED
          BY <4>4, <5>1, <5>2
      <4>. QED
        BY <1>1, <1>3, <2>1, <3>1, <4>1, <4>3, <4>5 DEF FOf
    <3>. QED
      BY <3>2, <3>3
  <2>. QED
    BY <2>2, <2>3
<1>. QED
  BY <1>2, <1>3

\* The whole invariant, from what the step of t does to its club and player.
LEMMA FrameStep ==
    ASSUME CInv, TInv', NEW t \in Threads, Active(t), Moves(t), Touches(t),
           NEW c, c = job[t].club, NEW w, w = job[t].who,
           FOf(t)', DecisionsInOrder',
           AgreeAt(w, c)', PendingAt(w, c)', FreeAt(c)',
           job[t].op \in Structural =>
               OwnerAt(c)' /\ \A a \in Accounts : AgreeAt(a, c)'
    PROVE  CInv'
<1>0. /\ TInv /\ KInv /\ c \in Clubs /\ w \in Accounts
      /\ \A s \in Threads : FOf(s)
      /\ \A a \in Accounts, d \in Clubs : AgreeAt(a, d) /\ PendingAt(a, d)
      /\ \A d \in Clubs : FreeAt(d) /\ OwnerAt(d)
  <2>1. TInv
    BY DEF CInv
  <2>2. c \in Clubs /\ w \in Accounts
    BY <2>1, JobType DEF Active
  <2>. QED
    BY <2>1, <2>2, CInvParts
<1>1. KInv'
  BY <1>0, ClashMoves
<1>2. \A s \in Threads : FOf(s)'
  BY <1>0, OthersKeep
<1>3. marred \subseteq marred' /\ players' \in [Clubs -> SUBSET Accounts]
  BY DEF Moves, TInv, TypeOK
<1>4. ASSUME NEW a \in Accounts, NEW d \in Clubs PROVE AgreeAt(a, d)'
  <2>1. CASE d = c /\ (a = w \/ job[t].op \in Structural)
    BY <2>1
  <2>2. CASE ~(d = c /\ (a = w \/ job[t].op \in Structural))
    <3>1. SameMember(a, d)
      BY <1>0, <2>2 DEF Touches
    <3>2. ASSUME Midway({"enter", "forget"}, {a}, d), ~(d = c /\ a = w)
          PROVE  Midway({"enter", "forget"}, {a}, d)'
      <4>1. PICK s \in Threads : /\ pc[s] \in {"enter", "forget"}
                                /\ job[s].club = d /\ job[s].who = a
        BY <3>2 DEF Midway
      <4>2. pc'[s] = pc[s] /\ job'[s] = job[s]
        BY <3>2, <4>1 DEF Moves
      <4>. QED
        BY <4>1, <4>2 DEF Midway
    <3>3. CASE d = c /\ a = w
      BY <2>2, <3>3
    <3>4. CASE ~(d = c /\ a = w)
      BY <1>0, <1>3, <3>1, <3>2, <3>4 DEF AgreeAt, SameMember
    <3>. QED
      BY <3>3, <3>4
  <2>. QED
    BY <2>1, <2>2
<1>5. ASSUME NEW a \in Accounts, NEW d \in Clubs PROVE PendingAt(a, d)'
  <2>1. CASE d = c /\ a = w
    BY <2>1
  <2>2. CASE ~(d = c /\ a = w)
    <3>1. SameApply(a, d)
      BY <1>0, <2>2 DEF Touches
    <3>. QED
      BY <1>0, <1>3, <3>1 DEF PendingAt, SameApply
  <2>. QED
    BY <2>1, <2>2
<1>6. ASSUME NEW d \in Clubs PROVE FreeAt(d)'
  <2>1. CASE d # c
    <3>1. /\ SameClub(d) /\ SameContent(d)
          /\ \A a \in Accounts : SameMember(a, d)
      BY <2>1 DEF Touches
    <3>2. Empty(d) => Empty(d)'
      BY <1>3, <3>1 DEF Empty, SameClub, SameContent, SameMember
    <3>. QED
      BY <1>0, <1>3, <3>1, <3>2 DEF FreeAt, SameClub, Whole
  <2>. QED
    BY <2>1
<1>7. ASSUME NEW d \in Clubs PROVE OwnerAt(d)'
  <2>1. CASE d = c /\ job[t].op \in Structural
    BY <2>1
  <2>2. CASE ~(d = c /\ job[t].op \in Structural)
    <3>1. SameClub(d)
      BY <1>0, <2>2 DEF Touches
    <3>2. Midway({"attr", "own"}, Accounts, d) => Midway({"attr", "own"}, Accounts, d)'
      <4>1. pc[t] \in {"attr", "own"} => job[t].op \in Structural
        BY <1>0, TInvData DEF Doing, Structural
      <4>. QED
        BY <2>2, <4>1 DEF Midway, Moves
    <3>3. {a \in Accounts : d \in own'[a]} = {a \in Accounts : d \in own[a]}
      BY <3>1 DEF SameClub
    <3>4. (d \in list' <=> d \in list) /\ user'[d] = user[d]
      BY <3>1 DEF SameClub
    <3>. QED
      BY <1>0, <1>3, <3>2, <3>3, <3>4 DEF OwnerAt, Whole
  <2>. QED
    BY <2>1, <2>2
<1>8. TInv' /\ KInv' /\ DecisionsInOrder'
  BY <1>1
<1>. QED
  BY <1>2, <1>4, <1>5, <1>6, <1>7, <1>8
  DEF CInv, FInv, FOf, PInv, PendingAt, MembershipAgrees, AgreeAt,
      NothingLeftBehind, FreeAt, Empty, OneOwner, OwnerAt, TInv, TypeOK

\* Steps that leave what is stored alone.
Still == UNCHANGED store /\ UNCHANGED <<open, misdeeds>>

LEMMA StillKeeps ==
    ASSUME Still, marred \subseteq marred'
    PROVE  /\ DecisionsInOrder => DecisionsInOrder'
           /\ \A a \in Accounts, d \in Clubs :
                /\ PendingAt(a, d) => PendingAt(a, d)'
                /\ SameMember(a, d) /\ SameApply(a, d)
           /\ \A d \in Clubs : /\ FreeAt(d) => FreeAt(d)'
                               /\ SameClub(d) /\ SameContent(d)
<1>. USE DEF Still, store, attr, members
<1>1. DecisionsInOrder => DecisionsInOrder'
  BY DEF DecisionsInOrder, EntitledOnly, JudgedOnce, Whole
<1>2. \A a \in Accounts, d \in Clubs :
        /\ PendingAt(a, d) => PendingAt(a, d)'
        /\ SameMember(a, d) /\ SameApply(a, d)
  BY DEF PendingAt, SameMember, SameApply
<1>3. \A d \in Clubs : FreeAt(d) => FreeAt(d)'
  BY DEF FreeAt, Empty, Whole
<1>4. \A d \in Clubs : SameClub(d) /\ SameContent(d)
  BY DEF SameClub, SameContent
<1>. QED
  BY <1>1, <1>2, <1>3, <1>4

\* A thread gets a job.
LEMMA NewJob ==
    ASSUME CInv, TInv', NEW t \in Threads, ~Active(t), NEW j \in Jobs, NEW x,
           pc' = [pc EXCEPT ![t] = x], job' = [job EXCEPT ![t] = j],
           marred' = marred \cup Overlap(t, j), Still, FOf(t)'
    PROVE  CInv'
<1>0. /\ TInv /\ KInv /\ DecisionsInOrder
      /\ \A s \in Threads : FOf(s)
      /\ \A a \in Accounts, d \in Clubs : AgreeAt(a, d) /\ PendingAt(a, d)
      /\ \A d \in Clubs : FreeAt(d) /\ OwnerAt(d)
  BY CInvParts
<1>1. /\ marred \subseteq marred' /\ pc'[t] = x /\ job'[t] = j
      /\ \A s \in Threads : s # t => pc'[s] = pc[s] /\ job'[s] = job[s]
  BY <1>0, TInvData
<1>2. KInv'
  <2>1. ASSUME NEW r \in Threads, NEW s \in Threads, r # s, r # t, s # t
        PROVE  Clash(r, s)'
    <3>1. Clash(r, s)
      BY <1>0, <2>1 DEF KInv
    <3>. QED
      BY <1>1, <2>1, <3>1 DEF Clash, Active, Blurred, Spoilt, Whole
  <2>2. ASSUME NEW s \in Threads, s # t PROVE Clash(s, t)' /\ Clash(t, s)'
    <3>. DEFINE structural == job[s].op \in Structural \/ j.op \in Structural
    <3>1. ASSUME Active(s)', Active(t)', job'[s].club = job'[t].club
          PROVE  /\ (job[s].who = j.who \/ structural) => Blurred(s)' /\ Blurred(t)'
                 /\ structural => Spoilt(t)' /\ Spoilt(s)'
      <4>1. pc[s] # "idle" /\ job[s].club = j.club /\ j.club # 0 /\ s \in Threads \ {t}
        <5>1. pc[s] \notin {"idle", "number"} /\ job[s].club = j.club
          BY <1>1, <2>2, <3>1 DEF Active
        <5>2. job[s].club \in Clubs
          BY <1>0, <5>1, JobType
        <5>. QED
          BY <2>2, <5>1, <5>2 DEF Clubs
      <4>2. Marks(j, s) =>
              /\ <<j.who, j.club>> \in Overlap(t, j)
              /\ <<job[s].who, j.club>> \in Overlap(t, j)
              /\ j.op \in Structural \/ job[s].op \in Structural
                   => Whole(j.club) \in Overlap(t, j)
        BY <1>0, <4>1, OverlapFacts
      <4>3. job[s].who = j.who \/ structural => Marks(j, s)
        BY <4>1 DEF Marks
      <4>4. /\ Blurred(t)' <=> <<j.who, j.club>> \in marred'
            /\ Blurred(s)' <=> <<job[s].who, j.club>> \in marred'
            /\ Spoilt(t)' <=> Whole(j.club) \in marred'
            /\ Spoilt(s)' <=> Whole(j.club) \in marred'
        BY <1>1, <2>2, <4>1 DEF Blurred, Spoilt, Whole
      <4>. QED
        BY <4>2, <4>3, <4>4
    <3>2. job'[s] = job[s] /\ job'[t] = j
      BY <1>1, <2>2
    <3>. QED
      BY <3>1, <3>2 DEF Clash
  <2>. QED
    BY <2>1, <2>2 DEF KInv
<1>3. ASSUME NEW s \in Threads, s # t PROVE FOf(s)'
  BY <1>0, <1>1, <1>3 DEF FOf, Active, Spoilt, Blurred, Whole, Relies, Expects,
     Knows, Entitled, Exists, Still, store, attr, members
<1>4. ASSUME NEW a \in Accounts, NEW d \in Clubs PROVE AgreeAt(a, d)'
  <2>1. Midway({"enter", "forget"}, {a}, d) => Midway({"enter", "forget"}, {a}, d)'
    BY <1>1 DEF Midway, Active
  <2>. QED
    BY <1>0, <1>1, <2>1 DEF AgreeAt, Still, store, members
<1>5. ASSUME NEW d \in Clubs PROVE OwnerAt(d)'
  <2>1. Midway({"attr", "own"}, Accounts, d) => Midway({"attr", "own"}, Accounts, d)'
    BY <1>1 DEF Midway, Active
  <2>. QED
    BY <1>0, <1>1, <2>1 DEF OwnerAt, Whole, Still, store, attr
<1>6. /\ DecisionsInOrder'
      /\ \A a \in Accounts, d \in Clubs : PendingAt(a, d)'
      /\ \A d \in Clubs : FreeAt(d)'
  BY <1>0, <1>1, StillKeeps
<1>. QED
  BY <1>2, <1>3, <1>4, <1>5, <1>6
  DEF CInv, FInv, FOf, PInv, PendingAt, MembershipAgrees, AgreeAt,
      NothingLeftBehind, FreeAt, Empty, OneOwner, OwnerAt, TInv, TypeOK

LEMMA OpensKeeps ==
    ASSUME CInv, NEW t \in Threads, NEW j \in Jobs, NEW x \in Steps \ {"idle"},
           Opens(t, j, x)
    PROVE  CInv'
<1>0. TInv /\ \A d \in Clubs : FreeAt(d)
  BY CInvParts
<1>1. /\ pc' = [pc EXCEPT ![t] = x] /\ job' = [job EXCEPT ![t] = j]
      /\ marred' = marred \cup Overlap(t, j) /\ Opening(j, x) /\ Still
      /\ pc[t] = "idle"
  BY DEF Opens, Goto, Serve, Still
<1>2. pc'[t] = x /\ job'[t] = j /\ ~Active(t)
  BY <1>0, <1>1, TInvData DEF Active
<1>3. TInv'
  BY <1>0, OpensType
<1>4. FOf(t)'
  <2>1. x # "disband" /\ x \notin {"enter", "forget", "unlist", "relist"}
    BY <1>1 DEF Opening
  <2>2. Knows(t)' /\ Expects(t)'
    BY <1>2, <2>1 DEF Knows, Expects
  <2>3. ASSUME Active(t)' PROVE Spoilt(t)' \/ Relies(t)'
    <3>. DEFINE c == j.club
    <3>1. c \in Clubs
      BY <1>1, <1>2, <2>3 DEF Opening, Active
    <3>2. j.me \in Accounts /\ Nobody \notin Accounts
      BY ClubAssumption DEF Jobs
    <3>3. CASE Whole(c) \in marred
      BY <1>1, <1>2, <3>3 DEF Spoilt, Whole
    <3>4. CASE Whole(c) \notin marred
      <4>1. c \in list \/ (user[c] = Nobody /\ managers[c] = NoSet)
        BY <1>0, <3>1, <3>4 DEF FreeAt, Empty
      <4>2. user' = user /\ list' = list /\ managers' = managers /\ content' = content
        BY <1>1 DEF Still, store, attr
      <4>3. /\ x \in {"members", "managers"} => c \in list /\ user[c] = j.me
            /\ x = "owner" => c \in list /\ j.seen = managers[c]
            /\ x = "applies" => ~Exists(c) /\ Unasked(j)
            /\ x \in {"exists", "expel"} => j.op \notin {"audit", "kick"}
            /\ x \in {"members", "managers", "owner", "applies", "exists", "expel"}
        BY <1>1, <1>2, <2>3, <3>2, <4>1 DEF Opening, Active
      <4>4. Relies(t)'
        BY <1>2, <4>2, <4>3 DEF Relies, Exists, Unasked
      <4>. QED
        BY <4>4
    <3>. QED
      BY <3>3, <3>4
  <2>. QED
    BY <2>2, <2>3 DEF FOf
<1>. QED
  BY <1>1, <1>2, <1>3, <1>4, NewJob

LEMMA NumberKeeps ==
    ASSUME CInv, NEW t \in Threads, Number(t)
    PROVE  CInv'
<1>0. TInv
  BY DEF CInv
<1>1. PICK n \in Clubs, j \in Jobs :
        /\ NextNumber(n) /\ pc[t] = "number"
        /\ j.op = "create" /\ j.club = n
        /\ pc' = [pc EXCEPT ![t] = "list"] /\ job' = [job EXCEPT ![t] = j]
        /\ marred' = marred \cup Overlap(t, j)
        /\ UNCHANGED <<open, misdeeds, crashed, served>>
        /\ UNCHANGED store
  BY <1>0, NumberStep
<1>2. TInv'
  BY <1>0, NumberType
<1>3. pc'[t] = "list" /\ job'[t] = j /\ ~Active(t)
  BY <1>0, <1>1, TInvData DEF Active
<1>4. FOf(t)'
  <2>1. n \notin list' /\ n \in Nat
    BY <1>1 DEF NextNumber, store, Clubs
  <2>. QED
    BY <1>1, <1>3, <2>1 DEF FOf, Relies, Expects, Knows
<1>5. Still
  BY <1>1 DEF Still
<1>. QED
  BY <1>1, <1>2, <1>3, <1>4, <1>5, NewJob

LEMMA CrashKeeps ==
    ASSUME CInv, NEW t \in Threads, Crash(t)
    PROVE  CInv'
<1>0. /\ TInv /\ KInv /\ DecisionsInOrder
      /\ \A s \in Threads : FOf(s)
      /\ \A a \in Accounts, d \in Clubs : AgreeAt(a, d) /\ PendingAt(a, d)
      /\ \A d \in Clubs : FreeAt(d) /\ OwnerAt(d)
  BY CInvParts
<1>1. /\ TInv' /\ Still /\ marred \subseteq marred'
      /\ pc' = [pc EXCEPT ![t] = "idle"] /\ job' = [job EXCEPT ![t] = NoJob]
      /\ Active(t) => /\ <<job[t].who, job[t].club>> \in marred'
                      /\ job[t].op \in Structural => Whole(job[t].club) \in marred'
  BY <1>0, CrashFacts DEF Still
<1>2. /\ pc'[t] = "idle" /\ ~Active(t)'
      /\ \A s \in Threads : s # t => pc'[s] = pc[s] /\ job'[s] = job[s]
  BY <1>0, <1>1, TInvData DEF Active
<1>3. KInv'
  BY <1>0, <1>1, <1>2, ClashMoves DEF Moves
<1>4. ASSUME NEW s \in Threads PROVE FOf(s)'
  <2>1. CASE s = t
    BY <1>2, <2>1 DEF FOf, Knows
  <2>2. CASE s # t
    <3>1. pc'[s] = pc[s] /\ job'[s] = job[s]
      BY <1>2, <2>2
    <3>. QED
      BY <1>0, <1>1, <3>1 DEF FOf, Active, Spoilt, Blurred, Whole, Relies, Expects,
         Knows, Entitled, Exists, Still, store, attr, members
  <2>. QED
    BY <2>1, <2>2
<1>5. ASSUME NEW a \in Accounts, NEW d \in Clubs PROVE AgreeAt(a, d)'
  <2>1. ASSUME Midway({"enter", "forget"}, {a}, d)
        PROVE  Midway({"enter", "forget"}, {a}, d)' \/ <<a, d>> \in marred'
    <3>1. PICK s \in Threads : /\ pc[s] \in {"enter", "forget"}
                              /\ job[s].club = d /\ job[s].who = a
      BY <2>1 DEF Midway
    <3>2. CASE s = t
      BY <1>1, <3>1, <3>2 DEF Active
    <3>3. CASE s # t
      BY <1>2, <3>1, <3>3 DEF Midway
    <3>. QED
      BY <3>2, <3>3
  <2>. QED
    BY <1>0, <1>1, <2>1 DEF AgreeAt, Still, store, members
<1>6. ASSUME NEW d \in Clubs PROVE OwnerAt(d)'
  <2>1. ASSUME Midway({"attr", "own"}, Accounts, d)
        PROVE  Midway({"attr", "own"}, Accounts, d)' \/ Whole(d) \in marred'
    <3>1. PICK s \in Threads : /\ pc[s] \in {"attr", "own"}
                              /\ job[s].club = d /\ job[s].who \in Accounts
      BY <2>1 DEF Midway
    <3>2. CASE s = t
      <4>1. job[t].op \in Structural
        BY <1>0, <3>1, <3>2, TInvData DEF Doing, Structural
      <4>. QED
        BY <1>1, <3>1, <3>2, <4>1 DEF Active
    <3>3. CASE s # t
      BY <1>2, <3>1, <3>3 DEF Midway
    <3>. QED
      BY <3>2, <3>3
  <2>. QED
    BY <1>0, <1>1, <2>1 DEF OwnerAt, Whole, Still, store, attr
<1>7. /\ DecisionsInOrder'
      /\ \A a \in Accounts, d \in Clubs : PendingAt(a, d)'
      /\ \A d \in Clubs : FreeAt(d)'
  BY <1>0, <1>1, StillKeeps
<1>. QED
  BY <1>1, <1>3, <1>4, <1>5, <1>6, <1>7
  DEF CInv, FInv, FOf, PInv, PendingAt, MembershipAgrees, AgreeAt,
      NothingLeftBehind, FreeAt, Empty, OneOwner, OwnerAt, TInv, TypeOK

----------------------------------------------------------------------------
(* Commands that read *)

LEMMA Leaves ==
    ASSUME TInv, NEW t \in Threads, Leave(t), marred \subseteq marred'
    PROVE  /\ Moves(t) /\ FOf(t)' /\ pc'[t] = "idle"
           /\ \A s \in Threads : s # t => pc'[s] = pc[s] /\ job'[s] = job[s]
<1>1. /\ pc'[t] = "idle"
      /\ \A s \in Threads : s # t => pc'[s] = pc[s] /\ job'[s] = job[s]
  BY TInvData DEF Leave, Goto
<1>2. ~Active(t)' /\ Knows(t)'
  BY <1>1 DEF Active, Knows
<1>. QED
  BY <1>1, <1>2 DEF Moves, FOf

LEMMA Goes ==
    ASSUME TInv, NEW t \in Threads, NEW x, Goto(t, x), UNCHANGED job,
           marred \subseteq marred'
    PROVE  /\ Moves(t) /\ pc'[t] = x /\ job'[t] = job[t]
           /\ \A s \in Threads : s # t => pc'[s] = pc[s] /\ job'[s] = job[s]
  BY TInvData DEF Goto, Moves

LEMMA ReadStep ==
    ASSUME CInv, TInv', NEW t \in Threads, Active(t), Moves(t), ReadOnly,
           pc[t] \notin {"enter", "forget", "attr", "own"}, FOf(t)'
    PROVE  CInv'
<1>0. /\ TInv /\ DecisionsInOrder
      /\ \A a \in Accounts, d \in Clubs : AgreeAt(a, d) /\ PendingAt(a, d)
      /\ \A d \in Clubs : FreeAt(d) /\ OwnerAt(d)
  BY CInvParts
<1>1. Still /\ marred' = marred
  BY DEF ReadOnly, Quiet, history, Still
<1>2. PICK c \in Clubs, w \in Accounts : c = job[t].club /\ w = job[t].who
  BY <1>0, JobType DEF Active
<1>3. /\ DecisionsInOrder'
      /\ \A a \in Accounts, d \in Clubs : /\ PendingAt(a, d)'
                                          /\ SameMember(a, d) /\ SameApply(a, d)
      /\ \A d \in Clubs : FreeAt(d)' /\ SameClub(d) /\ SameContent(d)
  BY <1>0, <1>1, StillKeeps
<1>4. Touches(t)
  <2>1. players' = players
    BY <1>1 DEF Still, store, members
  <2>. QED
    BY <1>2, <1>3, <2>1 DEF Touches
<1>5. ASSUME NEW a \in Accounts PROVE AgreeAt(a, c)'
  <2>1. Midway({"enter", "forget"}, {a}, c) => Midway({"enter", "forget"}, {a}, c)'
    BY DEF Midway, Moves
  <2>. QED
    BY <1>0, <1>1, <1>2, <2>1 DEF AgreeAt, Still, store, members
<1>6. OwnerAt(c)'
  <2>1. Midway({"attr", "own"}, Accounts, c) => Midway({"attr", "own"}, Accounts, c)'
    BY DEF Midway, Moves
  <2>. QED
    BY <1>0, <1>1, <1>2, <2>1 DEF OwnerAt, Whole, Still, store, attr
<1>7. AgreeAt(w, c)' /\ PendingAt(w, c)' /\ FreeAt(c)'
  BY <1>2, <1>3, <1>5
<1>. QED
  BY <1>2, <1>3, <1>4, <1>5, <1>6, <1>7, FrameStep

\* What the invariant says of a thread and its club.
LEMMA AtWork ==
    ASSUME CInv, NEW t \in Threads, Active(t)
    PROVE  \E c \in Clubs, w \in Accounts :
             /\ c = job[t].club /\ w = job[t].who
             /\ Whole(c) \in marred \/ Relies(t)
             /\ <<w, c>> \in marred \/ Expects(t)
             /\ FreeAt(c) /\ OwnerAt(c) /\ AgreeAt(w, c) /\ PendingAt(w, c)
             /\ job[t] \in Jobs /\ job[t].me \in Accounts /\ Doing(t)
<1>1. TInv
  BY DEF CInv
<1>2. PICK c \in Clubs, w \in Accounts :
        /\ c = job[t].club /\ w = job[t].who
        /\ job[t] \in Jobs /\ job[t].me \in Accounts
  BY <1>1, JobType DEF Active
<1>3. FOf(t) /\ AgreeAt(w, c) /\ PendingAt(w, c) /\ FreeAt(c) /\ OwnerAt(c)
  BY <1>2, CInvParts
<1>4. Doing(t)
  BY <1>1, TInvData
<1>. QED
  BY <1>2, <1>3, <1>4 DEF FOf, Spoilt, Blurred

LEMMA ReadMembersKeeps ==
    ASSUME CInv, NEW t \in Threads, ReadMembers(t)
    PROVE  CInv'
<1>1. TInv /\ TInv'
  BY DisbandType DEF CInv
<1>2. /\ pc[t] = "members" /\ Active(t) /\ Goto(t, "disband") /\ ReadOnly
      /\ job' = [job EXCEPT ![t].seen = players[job[t].club]]
  BY DEF ReadMembers, Active
<1>3. PICK c \in Clubs, w \in Accounts :
        /\ c = job[t].club /\ w = job[t].who
        /\ Whole(c) \in marred \/ Relies(t)
        /\ job[t] \in Jobs /\ job[t].op = "disband"
  BY <1>2, AtWork DEF Doing
<1>4. /\ players[job[t].club] \in SUBSET Accounts /\ job[t].op = "disband"
      /\ "disband" \in Steps \ {"idle"} /\ pc[t] # "idle" /\ pc[t] # "number"
  BY <1>1, <1>2, <1>3, TInvData DEF DataOK, Steps
<1>5. /\ pc' = [pc EXCEPT ![t] = "disband"] /\ pc'[t] = "disband"
      /\ job'[t].op = job[t].op /\ job'[t].me = job[t].me
      /\ job'[t].who = w /\ job'[t].club = c /\ job'[t].seen = players[c]
      /\ \A s \in Threads : s # t => job'[s] = job[s]
  <2>1. /\ TInv' /\ pc' = [pc EXCEPT ![t] = "disband"] /\ pc'[t] = "disband"
        /\ job'[t].op = job[t].op /\ job'[t].me = job[t].me
        /\ job'[t].who = job[t].who /\ job'[t].club = job[t].club
        /\ job'[t].seen = players[job[t].club]
        /\ \A s \in Threads : s # t => job'[s] = job[s]
    BY <1>1, <1>2, <1>4, SeenType, Zenon
  <2>. QED
    BY <1>3, <2>1
<1>6. UNCHANGED <<list, user, players, marred>>
  BY <1>2 DEF ReadOnly, Quiet, history, store, attr, members
<1>7. Moves(t)
  BY <1>1, <1>3, <1>5, <1>6, TInvData DEF Moves
<1>8. Knows(t)' /\ Expects(t)'
  BY <1>5, <1>6 DEF Knows, Expects
<1>9. Relies(t) => Relies(t)'
  BY <1>2, <1>3, <1>5, <1>6 DEF Relies
<1>10. FOf(t)'
  BY <1>3, <1>5, <1>6, <1>8, <1>9 DEF FOf, Spoilt, Whole
<1>. QED
  BY <1>1, <1>2, <1>7, <1>10, ReadStep

LEMMA ReadManagersKeeps ==
    ASSUME CInv, NEW t \in Threads, ReadManagers(t)
    PROVE  CInv'
<1>1. TInv /\ TInv'
  BY ManagerType DEF CInv
<1>2. pc[t] = "managers" /\ Active(t) /\ ReadOnly
  BY DEF ReadManagers, Active
<1>3. PICK c \in Clubs, w \in Accounts :
        /\ c = job[t].club /\ w = job[t].who
        /\ Whole(c) \in marred \/ Relies(t)
        /\ job[t] \in Jobs /\ job[t].op \in {"add", "relieve"}
  BY <1>2, AtWork DEF Doing
<1>6. UNCHANGED <<list, user, players, marred>>
  BY <1>2 DEF ReadOnly, Quiet, history, store, attr, members
<1>7. CASE Leave(t)
  BY <1>1, <1>2, <1>6, <1>7, Leaves, ReadStep
<1>8. CASE CanChange(job[t])
  <2>0. /\ Changed(job[t]) \in SUBSET Accounts
        /\ Cardinality(Changed(job[t])) <= MaxManagers
    BY <1>1, <1>2, <1>8, ChangedFits
  <2>1. /\ job' = [job EXCEPT ![t].seen = Changed(job[t])] /\ Goto(t, "store")
        /\ "store" \in Steps \ {"idle"} /\ pc[t] # "idle" /\ pc[t] # "number"
        /\ job[t].op \in {"add", "relieve"}
    BY <1>2, <1>3, <1>8 DEF ReadManagers, Steps
  <2>2. /\ TInv' /\ pc' = [pc EXCEPT ![t] = "store"] /\ pc'[t] = "store"
        /\ job'[t].op = job[t].op /\ job'[t].me = job[t].me
        /\ job'[t].who = job[t].who /\ job'[t].club = job[t].club
        /\ job'[t].seen = Changed(job[t])
        /\ \A s \in Threads : s # t => job'[s] = job[s]
    BY <1>1, <1>2, <2>0, <2>1, SeenType, Zenon
  <2>3. Moves(t)
    BY <1>1, <1>3, <1>6, <2>2, TInvData DEF Moves
  <2>4. Knows(t)' /\ Expects(t)'
    BY <2>2 DEF Knows, Expects
  <2>5. Relies(t) => Relies(t)'
    BY <1>2, <1>3, <1>6, <2>2 DEF Relies
  <2>6. FOf(t)'
    BY <1>3, <1>6, <2>2, <2>4, <2>5 DEF FOf, Spoilt, Whole
  <2>. QED
    BY <1>1, <1>2, <2>3, <2>6, ReadStep
<1>. QED
  BY <1>7, <1>8 DEF ReadManagers

LEMMA CheckKeeps ==
    ASSUME CInv, NEW t \in Threads, CheckExists(t) \/ CheckOwner(t) \/ ReadApplies(t)
    PROVE  CInv'
<1>1. TInv /\ TInv'
  BY CheckType DEF CInv
<1>2. pc[t] \in {"exists", "owner", "applies"} /\ Active(t) /\ ReadOnly
  BY DEF CheckExists, CheckOwner, ReadApplies, Active
<1>3. PICK c \in Clubs, w \in Accounts :
        /\ c = job[t].club /\ w = job[t].who
        /\ Whole(c) \in marred \/ Relies(t)
        /\ FreeAt(c) /\ PendingAt(w, c) /\ Doing(t)
  BY <1>2, AtWork
<1>4. UNCHANGED <<store, open, marred>>
  BY <1>2 DEF ReadOnly, Quiet, history
<1>5. CASE Leave(t)
  BY <1>1, <1>2, <1>4, <1>5, Leaves, ReadStep
<1>6. ASSUME NEW x, Goto(t, x), UNCHANGED job,
             x \in {"apply", "enrol", "expel", "content", "applies", "unlist"},
             Whole(c) \in marred \/ (pc'[t] = x /\ job'[t] = job[t] => Relies(t)'),
             x = "unlist" => <<w, c>> \in open \cup marred
      PROVE  CInv'
  <2>1. Moves(t) /\ pc'[t] = x /\ job'[t] = job[t]
    BY <1>1, <1>4, <1>6, Goes
  <2>2. Knows(t)' /\ (Blurred(t)' \/ Expects(t)')
    BY <1>3, <1>4, <1>6, <2>1 DEF Knows, Expects, Blurred
  <2>3. FOf(t)'
    BY <1>3, <1>4, <1>6, <2>1, <2>2 DEF FOf, Spoilt, Whole
  <2>. QED
    BY <1>1, <1>2, <2>1, <2>3, ReadStep
<1>7. CASE CheckExists(t) /\ ~Leave(t)
  <2>. DEFINE x == IF job[t].op = "apply" THEN "apply" ELSE "enrol"
  <2>1. pc[t] = "exists" /\ Exists(c) /\ Goto(t, x) /\ UNCHANGED job
    BY <1>3, <1>7 DEF CheckExists
  <2>2. Whole(c) \in marred \/ c \in list
    BY <1>3, <2>1 DEF FreeAt, Empty, Exists
  <2>3. ASSUME pc'[t] = x, job'[t] = job[t], Whole(c) \notin marred PROVE Relies(t)'
    <3>1. x = "enrol" /\ job[t].op = "audit" => Entitled(job[t].me, c)
      BY <1>3, <2>1, <2>3 DEF Relies
    <3>. QED
      BY <1>3, <1>4, <2>2, <2>3, <3>1 DEF Relies, Entitled, store, attr
  <2>4. x \in {"apply", "enrol"}
    OBVIOUS
  <2>. HIDE DEF x
  <2>. QED
    BY <1>6, <2>1, <2>3, <2>4
<1>8. CASE CheckOwner(t) /\ ~Leave(t)
  <2>1. /\ pc[t] = "owner" /\ MayDecide(job[t]) /\ UNCHANGED job
        /\ Goto(t, AfterOwner(job[t].op))
    BY <1>8 DEF CheckOwner
  <2>2. /\ job[t].op \in {"kick", "audit", "edit"}
        /\ \/ job[t].op = "kick" /\ AfterOwner(job[t].op) = "expel"
           \/ job[t].op = "audit" /\ AfterOwner(job[t].op) = "applies"
           \/ job[t].op = "edit" /\ AfterOwner(job[t].op) = "content"
    <3>1. job[t].op \in {"kick", "audit", "edit"}
      BY <1>3, <2>1 DEF Doing
    <3>. QED
      BY <3>1, Zenon DEF AfterOwner
  <2>3. Whole(c) \in marred \/ (Entitled(job[t].me, c) /\ c \in list)
    BY <1>3, <2>1 DEF Relies, MayDecide, Entitled
  <2>. DEFINE x == AfterOwner(job[t].op)
  <2>4. ASSUME pc'[t] = x, job'[t] = job[t], Whole(c) \notin marred PROVE Relies(t)'
    <3>1. Entitled(job[t].me, c) /\ c \in list
      BY <2>3, <2>4
    <3>2. pc'[t] \in {"expel", "applies", "content"}
      BY <2>2, <2>4
    <3>3. c \in list' /\ user' = user /\ managers' = managers
      BY <1>4, <3>1 DEF store, attr
    <3>. QED
      BY <1>3, <2>4, <3>1, <3>2, <3>3 DEF Relies, Entitled
  <2>. HIDE DEF x
  <2>5. x \in {"expel", "content", "applies"}
    BY <2>2 DEF x
  <2>6. Goto(t, x) /\ UNCHANGED job
    BY <2>1 DEF x
  <2>. QED
    BY <1>6, <2>4, <2>5, <2>6
<1>9. CASE ReadApplies(t) /\ ~Leave(t)
  <2>1. /\ pc[t] = "applies" /\ <<w, 0>> \in applies[c]
        /\ Goto(t, "unlist") /\ UNCHANGED job
    BY <1>3, <1>9 DEF ReadApplies
  <2>2. <<w, c>> \in open \cup marred
    BY <1>3, <2>1 DEF PendingAt
  <2>3. ASSUME pc'[t] = "unlist", job'[t] = job[t], Whole(c) \notin marred
        PROVE  Relies(t)'
    BY <1>3, <1>4, <2>1, <2>3 DEF Relies, Entitled, Exists, Unasked, store, attr
  <2>. QED
    BY <1>6, <2>1, <2>2, <2>3
<1>. QED
  BY <1>5, <1>7, <1>8, <1>9

----------------------------------------------------------------------------
(* Commands that write *)

LEMMA AgreeKeeps ==
    ASSUME NEW t \in Threads, Moves(t), pc[t] \notin {"enter", "forget"},
           UNCHANGED members, NEW a \in Accounts, NEW d \in Clubs, AgreeAt(a, d)
    PROVE  AgreeAt(a, d)'
<1>1. Midway({"enter", "forget"}, {a}, d) => Midway({"enter", "forget"}, {a}, d)'
  BY DEF Midway, Moves
<1>. QED
  BY <1>1 DEF AgreeAt, members, Moves

LEMMA OwnerKeeps ==
    ASSUME NEW t \in Threads, Moves(t), pc[t] \notin {"attr", "own"},
           UNCHANGED <<list, user, own>>, NEW d \in Clubs, OwnerAt(d)
    PROVE  OwnerAt(d)'
<1>1. Midway({"attr", "own"}, Accounts, d) => Midway({"attr", "own"}, Accounts, d)'
  BY DEF Midway, Moves
<1>. QED
  BY <1>1 DEF OwnerAt, Moves, Whole

LEMMA PendingKeeps ==
    ASSUME UNCHANGED <<applies, open>>, marred \subseteq marred',
           NEW a \in Accounts, NEW d \in Clubs, PendingAt(a, d)
    PROVE  PendingAt(a, d)'
  BY DEF PendingAt

LEMMA DecidesInOrder ==
    ASSUME DecisionsInOrder, marred \subseteq marred',
           misdeeds' \subseteq misdeeds \cup marred
    PROVE  DecisionsInOrder'
  BY DEF DecisionsInOrder, EntitledOnly, JudgedOnce, Whole

LEMMA EnterListKeeps ==
    ASSUME CInv, NEW t \in Threads, EnterList(t)
    PROVE  CInv'
<1>1. TInv /\ TInv' /\ DecisionsInOrder
  BY CreateType DEF CInv
<1>2. /\ pc[t] = "list" /\ Active(t) /\ list' = list \cup {job[t].club}
      /\ Goto(t, "attr") /\ UNCHANGED <<user, managers, content, own, members, applies>>
      /\ UNCHANGED <<job, open, marred, misdeeds>>
  BY DEF EnterList, Active, attr, Quiet, history
<1>3. PICK c \in Clubs, w \in Accounts :
        /\ c = job[t].club /\ w = job[t].who
        /\ Whole(c) \in marred \/ Relies(t)
        /\ FreeAt(c) /\ PendingAt(w, c) /\ job[t].op \in Structural
  BY <1>2, AtWork DEF Doing, Structural
<1>4. Moves(t) /\ pc'[t] = "attr" /\ job'[t] = job[t]
  BY <1>1, <1>2, Goes
<1>5. Touches(t)
  BY <1>2, <1>3 DEF Touches, SameClub, SameContent, SameMember, SameApply, members
<1>6. FOf(t)'
  <2>1. Whole(c) \in marred \/ \A a \in Accounts : c \notin own[a]
    BY <1>2, <1>3 DEF Relies, FreeAt, Empty
  <2>2. Knows(t)' /\ Expects(t)'
    BY <1>4 DEF Knows, Expects
  <2>. QED
    BY <1>2, <1>3, <1>4, <2>1, <2>2 DEF FOf, Spoilt, Whole, Relies
<1>7. DecisionsInOrder' /\ PendingAt(w, c)'
  BY <1>1, <1>2, <1>3, DecidesInOrder, PendingKeeps
<1>8. ASSUME NEW a \in Accounts PROVE AgreeAt(a, c)'
  BY <1>2, <1>3, <1>4, AgreeKeeps, CInvParts
<1>9. FreeAt(c)' /\ OwnerAt(c)'
  <2>1. Midway({"attr", "own"}, Accounts, c)'
    BY <1>3, <1>4 DEF Midway
  <2>. QED
    BY <1>2, <1>3, <2>1 DEF FreeAt, OwnerAt
<1>. QED
  BY <1>1, <1>2, <1>3, <1>4, <1>5, <1>6, <1>7, <1>8, <1>9, FrameStep

LEMMA SetAttrKeeps ==
    ASSUME CInv, NEW t \in Threads, SetAttr(t)
    PROVE  CInv'
<1>1. TInv /\ TInv' /\ DecisionsInOrder
  BY CreateType DEF CInv
<1>2. /\ pc[t] = "attr" /\ Active(t)
      /\ user' = [user EXCEPT ![job[t].club] = job[t].me]
      /\ managers' = [managers EXCEPT ![job[t].club] = {}]
      /\ content' = content \cup {job[t].club}
      /\ Goto(t, "own") /\ UNCHANGED <<list, own, members, applies>>
      /\ UNCHANGED <<job, open, marred, misdeeds>>
  BY DEF SetAttr, Active, Quiet, history
<1>3. PICK c \in Clubs, w \in Accounts :
        /\ c = job[t].club /\ w = job[t].who
        /\ Whole(c) \in marred \/ Relies(t)
        /\ PendingAt(w, c) /\ job[t].op \in Structural
  BY <1>2, AtWork DEF Doing, Structural
<1>4. Moves(t) /\ pc'[t] = "own" /\ job'[t] = job[t]
  BY <1>1, <1>2, Goes
<1>5. Touches(t)
  BY <1>1, <1>2, <1>3, TInvData
  DEF DataOK, Touches, SameClub, SameContent, SameMember, SameApply, members
<1>6. FOf(t)'
  <2>1. user'[c] = job[t].me
    BY <1>1, <1>2, <1>3, TInvData DEF DataOK
  <2>2. Knows(t)' /\ Expects(t)'
    BY <1>4 DEF Knows, Expects
  <2>. QED
    BY <1>2, <1>3, <1>4, <2>1, <2>2 DEF FOf, Spoilt, Whole, Relies
<1>7. DecisionsInOrder' /\ PendingAt(w, c)'
  BY <1>1, <1>2, <1>3, DecidesInOrder, PendingKeeps
<1>8. ASSUME NEW a \in Accounts PROVE AgreeAt(a, c)'
  BY <1>2, <1>3, <1>4, AgreeKeeps, CInvParts
<1>9. FreeAt(c)' /\ OwnerAt(c)'
  <2>1. Midway({"attr", "own"}, Accounts, c)'
    BY <1>3, <1>4 DEF Midway
  <2>. QED
    BY <1>2, <1>3, <2>1 DEF FreeAt, OwnerAt, Relies, Whole
<1>. QED
  BY <1>1, <1>2, <1>3, <1>4, <1>5, <1>6, <1>7, <1>8, <1>9, FrameStep

LEMMA EnterOwnKeeps ==
    ASSUME CInv, NEW t \in Threads, EnterOwn(t)
    PROVE  CInv'
<1>1. TInv /\ TInv' /\ DecisionsInOrder
  BY CreateType DEF CInv
<1>2. /\ pc[t] = "own" /\ Active(t) /\ Leave(t)
      /\ own' = [own EXCEPT ![job[t].me] = @ \cup {job[t].club}]
      /\ UNCHANGED <<list, user, managers, content, members, applies>>
      /\ UNCHANGED <<open, marred, misdeeds>>
  BY DEF EnterOwn, Active, attr, Quiet, history
<1>3. PICK c \in Clubs, w \in Accounts :
        /\ c = job[t].club /\ w = job[t].who
        /\ Whole(c) \in marred \/ Relies(t)
        /\ PendingAt(w, c) /\ job[t].op \in Structural /\ job[t].me \in Accounts
  BY <1>2, AtWork DEF Doing, Structural
<1>4. Moves(t) /\ FOf(t)'
  BY <1>1, <1>2, Leaves
<1>5. Touches(t)
  BY <1>1, <1>2, <1>3, TInvData
  DEF DataOK, Touches, SameClub, SameContent, SameMember, SameApply, members
<1>7. DecisionsInOrder' /\ PendingAt(w, c)'
  BY <1>1, <1>2, <1>3, DecidesInOrder, PendingKeeps
<1>8. ASSUME NEW a \in Accounts PROVE AgreeAt(a, c)'
  BY <1>2, <1>3, <1>4, AgreeKeeps, CInvParts
<1>9. FreeAt(c)' /\ OwnerAt(c)'
  <2>1. CASE Whole(c) \in marred
    BY <1>2, <2>1 DEF FreeAt, OwnerAt, Whole
  <2>2. CASE Relies(t)
    <3>1. /\ c \in list' /\ user'[c] = job[t].me
          /\ \A a \in Accounts : c \notin own[a]
      BY <1>2, <1>3, <2>2 DEF Relies
    <3>2. {a \in Accounts : c \in own'[a]} = {user'[c]}
      BY <1>1, <1>2, <1>3, <3>1, TInvData DEF DataOK
    <3>. QED
      BY <3>1, <3>2 DEF FreeAt, OwnerAt
  <2>. QED
    BY <1>3, <2>1, <2>2
<1>. QED
  BY <1>1, <1>2, <1>3, <1>4, <1>5, <1>7, <1>8, <1>9, FrameStep

LEMMA DisbandKeeps ==
    ASSUME CInv, NEW t \in Threads, Disband(t)
    PROVE  CInv'
<1>1. TInv /\ TInv' /\ KInv /\ DecisionsInOrder
  BY DisbandType DEF CInv
<1>2. PICK c \in Clubs, w \in Accounts :
        /\ c = job[t].club /\ w = job[t].who
        /\ Whole(c) \in marred \/ Relies(t)
        /\ OwnerAt(c) /\ PendingAt(w, c) /\ job[t].op \in Structural
        /\ job[t].me \in Accounts
  BY AtWork DEF Doing, Structural, Disband, Active
<1>3. /\ pc[t] = "disband" /\ Active(t) /\ Leave(t)
      /\ user' = [user EXCEPT ![c] = Nobody]
      /\ managers' = [managers EXCEPT ![c] = NoSet]
      /\ content' = content \ {c} /\ list' = list \ {c}
      /\ own' = [own EXCEPT ![job[t].me] = @ \ {c}]
      /\ clubsOf' = Dismissed(job[t].seen, c)
      /\ players' = [players EXCEPT ![c] = {}]
      /\ misdeeds' = IF user[c] = job[t].me THEN misdeeds
                                           ELSE misdeeds \cup {Whole(c)}
      /\ UNCHANGED <<applies, open, marred>>
  BY <1>2 DEF Disband, Active, Unless
<1>4. Moves(t) /\ FOf(t)'
  BY <1>1, <1>3, Leaves
<1>5. Touches(t)
  <2>1. \A a \in Accounts, d \in Clubs : d # c => SameMember(a, d)
    BY <1>1, <1>2, <1>3, TInvData DEF DataOK, SameMember, Dismissed
  <2>2. \A d \in Clubs : d # c => SameClub(d) /\ SameContent(d)
    BY <1>1, <1>2, <1>3, TInvData DEF DataOK, SameClub, SameContent
  <2>3. players'[c] = {}
    BY <1>1, <1>2, <1>3, TInvData DEF DataOK
  <2>. QED
    BY <1>2, <1>3, <2>1, <2>2, <2>3 DEF Touches, SameApply
<1>6. DecisionsInOrder' /\ PendingAt(w, c)'
  <2>1. Whole(c) \in marred \/ user[c] = job[t].me
    BY <1>2, <1>3 DEF Relies
  <2>2. misdeeds' \subseteq misdeeds \cup marred
    BY <1>3, <2>1
  <2>. QED
    BY <1>1, <1>2, <1>3, <2>2, DecidesInOrder, PendingKeeps
<1>7. ASSUME NEW a \in Accounts PROVE <<a, c>> \in marred \/ c \notin clubsOf'[a]
  <2>1. CASE Midway({"enter", "forget"}, {a}, c)
    <3>1. PICK s \in Threads : /\ pc[s] \in {"enter", "forget"}
                              /\ job[s].club = c /\ job[s].who = a
      BY <2>1 DEF Midway
    <3>2. s # t /\ Active(s)
      BY <1>3, <3>1 DEF Active
    <3>3. Blurred(s)
      BY <1>1, <1>2, <1>3, <3>1, <3>2 DEF KInv, Clash
    <3>. QED
      BY <3>1, <3>3 DEF Blurred
  <2>2. CASE c \in clubsOf[a] <=> a \in players[c]
    <3>1. FOf(t)
      BY CInvParts
    <3>2. a \in players[c] => a \in job[t].seen \/ <<a, c>> \in marred
      BY <1>2, <1>3, <3>1 DEF FOf, Knows
    <3>. QED
      BY <1>3, <2>2, <3>2 DEF Dismissed
  <2>3. AgreeAt(a, c)
    BY CInvParts
  <2>. QED
    BY <2>1, <2>2, <2>3 DEF AgreeAt
<1>8. ASSUME NEW a \in Accounts PROVE AgreeAt(a, c)'
  <2>1. players'[c] = {}
    BY <1>1, <1>2, <1>3, TInvData DEF DataOK
  <2>. QED
    BY <1>3, <1>7, <2>1 DEF AgreeAt
<1>9. OwnerAt(c)'
  BY <1>3 DEF OwnerAt
<1>10. FreeAt(c)'
  <2>1. CASE Whole(c) \in marred
    BY <1>3, <2>1 DEF FreeAt, Whole
  <2>2. CASE Whole(c) \notin marred
    <3>1. c \in list /\ user[c] = job[t].me
      BY <1>2, <1>3, <2>2 DEF Relies
    <3>2. ~Midway({"attr", "own"}, Accounts, c)
      <4>1. ASSUME NEW s \in Threads, pc[s] \in {"attr", "own"}, job[s].club = c
            PROVE  FALSE
        <5>1. s # t /\ Active(s)
          BY <1>3, <4>1 DEF Active
        <5>2. Spoilt(t)
          BY <1>1, <1>2, <1>3, <4>1, <5>1 DEF KInv, Clash
        <5>. QED
          BY <1>2, <2>2, <5>2 DEF Spoilt
      <4>. QED
        BY <4>1 DEF Midway
    <3>3. {a \in Accounts : c \in own[a]} = {job[t].me}
      BY <1>2, <2>2, <3>1, <3>2 DEF OwnerAt
    <3>4. \A a \in Accounts : c \notin own'[a]
      BY <1>1, <1>2, <1>3, <3>3, TInvData DEF DataOK
    <3>5. user'[c] = Nobody /\ managers'[c] = NoSet /\ players'[c] = {}
      BY <1>1, <1>2, <1>3, TInvData DEF DataOK
    <3>. QED
      BY <1>3, <1>7, <3>4, <3>5 DEF FreeAt, Empty
  <2>. QED
    BY <2>1, <2>2
<1>. QED
  BY <1>1, <1>2, <1>3, <1>4, <1>5, <1>6, <1>8, <1>9, <1>10, FrameStep

\* Commands about members change neither the club nor the applications.
LEMMA MemberStep ==
    ASSUME CInv, TInv', NEW t \in Threads, Active(t), Moves(t), FOf(t)',
           NEW c \in Clubs, NEW w \in Accounts, c = job[t].club, w = job[t].who,
           job[t].op \notin Structural,
           UNCHANGED <<list, user, managers, content, own, applies, open>>,
           \A a \in Accounts, d \in Clubs : (a = w /\ d = c) \/ SameMember(a, d),
           DecisionsInOrder', AgreeAt(w, c)',
           \/ c \in list \/ Whole(c) \in marred
           \/ w \notin players'[c] /\ clubsOf'[w] \subseteq clubsOf[w]
    PROVE  CInv'
<1>1. FreeAt(c) /\ PendingAt(w, c) /\ TInv
  BY CInvParts
<1>2. Touches(t)
  <2>1. players'[c] \subseteq players[c] \cup {w}
    <3>1. players'[c] \subseteq Accounts
      BY TInvData DEF TInv, TypeOK
    <3>. QED
      BY <3>1 DEF SameMember
  <2>. QED
    BY <2>1 DEF Touches, SameClub, SameContent, SameApply
<1>3. PendingAt(w, c)'
  BY <1>1, PendingKeeps DEF Moves
<1>4. FreeAt(c)'
  <2>1. CASE c \in list \/ Whole(c) \in marred
    BY <2>1 DEF FreeAt, Moves, Whole
  <2>2. CASE c \notin list /\ Whole(c) \notin marred
    <3>1. Empty(c) /\ w \notin players'[c] /\ clubsOf'[w] \subseteq clubsOf[w]
      BY <1>1, <2>2 DEF FreeAt
    <3>2. players'[c] = {}
      <4>1. players'[c] \subseteq Accounts
        BY TInvData DEF TInv, TypeOK
      <4>. QED
        BY <3>1, <4>1 DEF SameMember, Empty
    <3>3. \A a \in Accounts : c \in clubsOf'[a] => <<a, c>> \in marred'
      BY <3>1 DEF SameMember, Empty, Moves
    <3>. QED
      BY <3>1, <3>2, <3>3 DEF Empty, FreeAt
  <2>. QED
    BY <2>1, <2>2
<1>. QED
  BY <1>2, <1>3, <1>4, FrameStep

LEMMA EnrolKeeps ==
    ASSUME CInv, NEW t \in Threads, Enrol(t)
    PROVE  CInv'
<1>1. TInv /\ TInv' /\ DecisionsInOrder
  BY MemberType DEF CInv
<1>2. PICK c \in Clubs, w \in Accounts :
        /\ c = job[t].club /\ w = job[t].who
        /\ Whole(c) \in marred \/ Relies(t)
        /\ job[t].op \in {"join", "audit"}
  BY AtWork DEF Doing, Enrol, Active
<1>3. /\ pc[t] = "enrol" /\ Active(t) /\ Goto(t, "enter")
      /\ clubsOf' = [clubsOf EXCEPT ![w] = @ \cup {c}]
      /\ misdeeds' = IF job[t].op = "join" \/ Entitled(job[t].me, c) THEN misdeeds
                     ELSE misdeeds \cup {Whole(c)}
      /\ UNCHANGED <<list, user, managers, content, own, players, applies, open>>
      /\ UNCHANGED <<job, marred>>
  BY <1>2 DEF Enrol, Active, Unless, attr
<1>4. Moves(t) /\ pc'[t] = "enter" /\ job'[t] = job[t]
  BY <1>1, <1>3, Goes
<1>5. /\ c \in clubsOf'[w]
      /\ \A a \in Accounts, d \in Clubs : (a = w /\ d = c) \/ SameMember(a, d)
  BY <1>1, <1>2, <1>3, TInvData DEF DataOK, SameMember
<1>6. FOf(t)'
  <2>1. Knows(t)' /\ Expects(t)'
    BY <1>2, <1>4, <1>5 DEF Knows, Expects
  <2>2. Relies(t) => Relies(t)'
    BY <1>2, <1>3, <1>4 DEF Relies
  <2>. QED
    BY <1>2, <1>3, <1>4, <2>1, <2>2 DEF FOf, Spoilt, Whole
<1>7. DecisionsInOrder'
  <2>1. misdeeds' \subseteq misdeeds \cup marred
    BY <1>2, <1>3 DEF Relies
  <2>. QED
    BY <1>1, <1>3, <2>1, DecidesInOrder
<1>8. AgreeAt(w, c)'
  BY <1>2, <1>4 DEF AgreeAt, Midway
<1>9. job[t].op \notin Structural /\ (c \in list \/ Whole(c) \in marred)
  BY <1>2, <1>3 DEF Structural, Relies
<1>. QED
  BY <1>1, <1>2, <1>3, <1>4, <1>5, <1>6, <1>7, <1>8, <1>9, MemberStep

LEMMA EnterClubKeeps ==
    ASSUME CInv, NEW t \in Threads, EnterClub(t)
    PROVE  CInv'
<1>1. TInv /\ TInv' /\ DecisionsInOrder
  BY MemberType DEF CInv
<1>2. PICK c \in Clubs, w \in Accounts :
        /\ c = job[t].club /\ w = job[t].who
        /\ Whole(c) \in marred \/ Relies(t)
        /\ <<w, c>> \in marred \/ Expects(t)
        /\ job[t].op \in {"join", "audit"}
  BY AtWork DEF Doing, EnterClub, Active
<1>3. /\ pc[t] = "enter" /\ Active(t) /\ Leave(t)
      /\ players' = [players EXCEPT ![c] = @ \cup {w}]
      /\ UNCHANGED <<list, user, managers, content, own, clubsOf, applies, open>>
      /\ UNCHANGED <<marred, misdeeds>>
  BY <1>2 DEF EnterClub, Active, Quiet, history, attr
<1>4. Moves(t) /\ FOf(t)'
  BY <1>1, <1>3, Leaves
<1>5. /\ w \in players'[c]
      /\ \A a \in Accounts, d \in Clubs : (a = w /\ d = c) \/ SameMember(a, d)
  BY <1>1, <1>2, <1>3, TInvData DEF DataOK, SameMember
<1>7. DecisionsInOrder'
  BY <1>1, <1>3, DecidesInOrder
<1>8. AgreeAt(w, c)'
  BY <1>2, <1>3, <1>5 DEF AgreeAt, Expects
<1>9. job[t].op \notin Structural /\ (c \in list \/ Whole(c) \in marred)
  BY <1>2, <1>3 DEF Structural, Relies
<1>. QED
  BY <1>1, <1>2, <1>3, <1>4, <1>5, <1>7, <1>8, <1>9, MemberStep

LEMMA ExpelKeeps ==
    ASSUME CInv, NEW t \in Threads, Expel(t)
    PROVE  CInv'
<1>1. TInv /\ TInv' /\ DecisionsInOrder
  BY MemberType DEF CInv
<1>2. PICK c \in Clubs, w \in Accounts :
        /\ c = job[t].club /\ w = job[t].who
        /\ Whole(c) \in marred \/ Relies(t)
        /\ job[t].op \in {"leave", "kick"}
  BY AtWork DEF Doing, Expel, Active
<1>3. /\ pc[t] = "expel" /\ Active(t) /\ Goto(t, "forget")
      /\ players' = [players EXCEPT ![c] = @ \ {w}]
      /\ misdeeds' = IF job[t].op = "leave" \/ Entitled(job[t].me, c) THEN misdeeds
                     ELSE misdeeds \cup {Whole(c)}
      /\ UNCHANGED <<list, user, managers, content, own, clubsOf, applies, open>>
      /\ UNCHANGED <<job, marred>>
  BY <1>2 DEF Expel, Active, Unless, attr
<1>4. Moves(t) /\ pc'[t] = "forget" /\ job'[t] = job[t]
  BY <1>1, <1>3, Goes
<1>5. /\ w \notin players'[c] /\ clubsOf'[w] \subseteq clubsOf[w]
      /\ \A a \in Accounts, d \in Clubs : (a = w /\ d = c) \/ SameMember(a, d)
  BY <1>1, <1>2, <1>3, TInvData DEF DataOK, SameMember
<1>6. FOf(t)'
  <2>1. Knows(t)' /\ Expects(t)' /\ Relies(t)'
    BY <1>2, <1>4, <1>5 DEF Knows, Expects, Relies
  <2>. QED
    BY <2>1 DEF FOf
<1>7. DecisionsInOrder'
  <2>1. misdeeds' \subseteq misdeeds \cup marred
    BY <1>2, <1>3 DEF Relies
  <2>. QED
    BY <1>1, <1>3, <2>1, DecidesInOrder
<1>8. AgreeAt(w, c)'
  BY <1>2, <1>4 DEF AgreeAt, Midway
<1>9. job[t].op \notin Structural
  BY <1>2 DEF Structural
<1>. QED
  BY <1>1, <1>2, <1>3, <1>4, <1>5, <1>6, <1>7, <1>8, <1>9, MemberStep

LEMMA ForgetKeeps ==
    ASSUME CInv, NEW t \in Threads, Forget(t)
    PROVE  CInv'
<1>1. TInv /\ TInv' /\ DecisionsInOrder
  BY MemberType DEF CInv
<1>2. PICK c \in Clubs, w \in Accounts :
        /\ c = job[t].club /\ w = job[t].who
        /\ <<w, c>> \in marred \/ Expects(t)
        /\ FreeAt(c) /\ job[t].op \in {"leave", "kick"}
  BY AtWork DEF Doing, Forget, Active
<1>3. /\ pc[t] = "forget" /\ Active(t) /\ Leave(t)
      /\ clubsOf' = [clubsOf EXCEPT ![w] = @ \ {c}]
      /\ UNCHANGED <<list, user, managers, content, own, players, applies, open>>
      /\ UNCHANGED <<marred, misdeeds>>
  BY <1>2 DEF Forget, Active, Quiet, history, attr
<1>4. Moves(t) /\ FOf(t)'
  BY <1>1, <1>3, Leaves
<1>5. /\ c \notin clubsOf'[w] /\ clubsOf'[w] \subseteq clubsOf[w]
      /\ \A a \in Accounts, d \in Clubs : (a = w /\ d = c) \/ SameMember(a, d)
  BY <1>1, <1>2, <1>3, TInvData DEF DataOK, SameMember
<1>7. DecisionsInOrder'
  BY <1>1, <1>3, DecidesInOrder
<1>8. AgreeAt(w, c)'
  BY <1>2, <1>3, <1>5 DEF AgreeAt, Expects
<1>9. /\ job[t].op \notin Structural
      /\ c \in list \/ Whole(c) \in marred \/ w \notin players'[c]
  BY <1>2, <1>3 DEF Structural, FreeAt, Empty
<1>. QED
  BY <1>1, <1>2, <1>3, <1>4, <1>5, <1>7, <1>8, <1>9, MemberStep

\* Commands about applications change nothing else.
LEMMA ApplyStep ==
    ASSUME CInv, TInv', NEW t \in Threads, Active(t), Moves(t), FOf(t)',
           NEW c \in Clubs, NEW w \in Accounts, c = job[t].club, w = job[t].who,
           job[t].op \notin Structural, pc[t] \notin {"enter", "forget"},
           UNCHANGED <<list, user, managers, content, own, members, marred>>,
           \A a \in Accounts, d \in Clubs : (a = w /\ d = c) \/ SameApply(a, d),
           DecisionsInOrder', PendingAt(w, c)'
    PROVE  CInv'
<1>1. FreeAt(c) /\ AgreeAt(w, c)
  BY CInvParts
<1>2. Touches(t)
  BY DEF Touches, SameClub, SameContent, SameMember, members
<1>3. AgreeAt(w, c)'
  BY <1>1, AgreeKeeps
<1>4. FreeAt(c)'
  BY <1>1 DEF FreeAt, Empty, Whole, members
<1>. QED
  BY <1>2, <1>3, <1>4, FrameStep

LEMMA EnterApplyKeeps ==
    ASSUME CInv, NEW t \in Threads, EnterApply(t)
    PROVE  CInv'
<1>1. TInv /\ TInv' /\ DecisionsInOrder
  BY ApplyType DEF CInv
<1>2. PICK c \in Clubs, w \in Accounts :
        c = job[t].club /\ w = job[t].who /\ job[t].op = "apply"
  BY AtWork DEF Doing, EnterApply, Active
<1>3. /\ pc[t] = "apply" /\ Active(t) /\ Leave(t)
      /\ applies' = [applies EXCEPT ![c] = @ \cup {<<w, 0>>}]
      /\ open' = open \cup {<<w, c>>}
      /\ UNCHANGED <<list, user, managers, content, own, members, marred, misdeeds>>
  BY <1>2 DEF EnterApply, Active, attr
<1>4. Moves(t) /\ FOf(t)'
  BY <1>1, <1>3, Leaves
<1>5. \A a \in Accounts, d \in Clubs : (a = w /\ d = c) \/ SameApply(a, d)
  BY <1>1, <1>2, <1>3, TInvData DEF DataOK, SameApply
<1>6. DecisionsInOrder' /\ PendingAt(w, c)'
  BY <1>1, <1>3, DecidesInOrder DEF PendingAt
<1>7. job[t].op \notin Structural
  BY <1>2 DEF Structural
<1>. QED
  BY <1>1, <1>2, <1>3, <1>4, <1>5, <1>6, <1>7, ApplyStep

LEMMA UnlistKeeps ==
    ASSUME CInv, NEW t \in Threads, Unlist(t)
    PROVE  CInv'
<1>1. TInv /\ TInv' /\ DecisionsInOrder
  BY ApplyType DEF CInv
<1>2. PICK c \in Clubs, w \in Accounts :
        /\ c = job[t].club /\ w = job[t].who
        /\ Whole(c) \in marred \/ Relies(t)
        /\ <<w, c>> \in marred \/ Expects(t)
        /\ job[t].op = "audit"
  BY AtWork DEF Doing, Unlist, Active
<1>3. /\ pc[t] = "unlist" /\ Active(t) /\ Goto(t, "relist")
      /\ applies' = [applies EXCEPT ![c] = applies[c] \ {<<w, 0>>}]
      /\ UNCHANGED <<list, user, managers, content, own, members, marred, misdeeds>>
      /\ UNCHANGED <<open, job>>
  BY <1>2 DEF Unlist, Active, attr, Settled, Quiet, history
<1>4. Moves(t) /\ pc'[t] = "relist" /\ job'[t] = job[t]
  BY <1>1, <1>3, Goes
<1>5. /\ <<w, 0>> \notin applies'[c]
      /\ \A a \in Accounts, d \in Clubs : (a = w /\ d = c) \/ SameApply(a, d)
  BY <1>1, <1>2, <1>3, TInvData DEF DataOK, SameApply
<1>6. FOf(t)'
  <2>1. Knows(t)'
    BY <1>4 DEF Knows
  <2>2. Relies(t) => Relies(t)'
    BY <1>2, <1>3, <1>4 DEF Relies, Entitled, Exists, Unasked
  <2>3. Expects(t) => Expects(t)'
    BY <1>2, <1>3, <1>4, <1>5 DEF Expects
  <2>. QED
    BY <1>2, <1>3, <1>4, <2>1, <2>2, <2>3 DEF FOf, Spoilt, Blurred, Whole
<1>7. DecisionsInOrder' /\ PendingAt(w, c)'
  BY <1>1, <1>3, <1>5, DecidesInOrder DEF PendingAt
<1>8. job[t].op \notin Structural
  BY <1>2 DEF Structural
<1>. QED
  BY <1>1, <1>2, <1>3, <1>4, <1>5, <1>6, <1>7, <1>8, ApplyStep

LEMMA RelistKeeps ==
    ASSUME CInv, NEW t \in Threads, Relist(t)
    PROVE  CInv'
<1>1. TInv /\ TInv' /\ DecisionsInOrder
  BY ApplyType DEF CInv
<1>2. PICK c \in Clubs, w \in Accounts :
        /\ c = job[t].club /\ w = job[t].who
        /\ Whole(c) \in marred \/ Relies(t)
        /\ <<w, c>> \in marred \/ Expects(t)
        /\ job[t].op = "audit" /\ job[t].state # 0
  BY AtWork DEF Doing, Relist, Active
<1>3. /\ pc[t] = "relist" /\ Active(t)
      /\ applies' = [applies EXCEPT ![c] = @ \cup {<<w, job[t].state>>}]
      /\ open' = open \ {<<w, c>>}
      /\ misdeeds' = misdeeds \cup Wrongs(job[t])
      /\ UNCHANGED <<list, user, managers, content, own, members, marred>>
      /\ (Goto(t, "exists") /\ UNCHANGED job) \/ Leave(t)
  BY <1>2 DEF Relist, Active, attr
<1>4. Moves(t) /\ FOf(t)'
  <2>1. CASE Leave(t)
    BY <1>1, <1>3, <2>1, Leaves
  <2>2. CASE Goto(t, "exists") /\ UNCHANGED job
    <3>1. Moves(t) /\ pc'[t] = "exists" /\ job'[t] = job[t]
      BY <1>1, <1>3, <2>2, Goes
    <3>2. Knows(t)' /\ Expects(t)'
      BY <3>1 DEF Knows, Expects
    <3>3. Relies(t) => Relies(t)'
      BY <1>2, <1>3, <3>1 DEF Relies, Entitled, Exists
    <3>. QED
      BY <1>2, <1>3, <3>1, <3>2, <3>3 DEF FOf, Spoilt, Whole
  <2>. QED
    BY <1>3, <2>1, <2>2
<1>5. \A a \in Accounts, d \in Clubs : (a = w /\ d = c) \/ SameApply(a, d)
  BY <1>1, <1>2, <1>3, TInvData DEF DataOK, SameApply
<1>6. DecisionsInOrder'
  <2>1. <<w, c>> \in open \cup marred
    BY <1>2, <1>3 DEF Expects
  <2>2. Whole(c) \in marred \/ Unasked(job[t]) \/ Entitled(job[t].me, c)
    BY <1>2, <1>3 DEF Relies
  <2>3. Wrongs(job[t]) \subseteq marred
    BY <1>2, <2>1, <2>2 DEF Wrongs
  <2>. QED
    BY <1>1, <1>3, <2>3, DecidesInOrder
<1>7. PendingAt(w, c)'
  <2>1. CASE <<w, c>> \in marred
    BY <1>3, <2>1 DEF PendingAt
  <2>2. CASE Expects(t)
    <3>1. <<w, 0>> \notin applies[c]
      BY <1>2, <1>3, <2>2 DEF Expects
    <3>2. <<w, 0>> \notin applies'[c]
      BY <1>1, <1>2, <1>3, <3>1, TInvData DEF DataOK
    <3>. QED
      BY <3>2 DEF PendingAt
  <2>. QED
    BY <1>2, <2>1, <2>2
<1>8. job[t].op \notin Structural
  BY <1>2 DEF Structural
<1>. QED
  BY <1>1, <1>2, <1>3, <1>4, <1>5, <1>6, <1>7, <1>8, ApplyStep

LEMMA StoreManagersKeeps ==
    ASSUME CInv, NEW t \in Threads, StoreManagers(t)
    PROVE  CInv'
<1>1. TInv /\ TInv' /\ DecisionsInOrder
  BY ManagerType DEF CInv
<1>2. PICK c \in Clubs, w \in Accounts :
        /\ c = job[t].club /\ w = job[t].who
        /\ Whole(c) \in marred \/ Relies(t)
        /\ OwnerAt(c) /\ PendingAt(w, c) /\ job[t].op \in Structural
  BY AtWork DEF Doing, StoreManagers, Active, Structural
<1>3. /\ pc[t] = "store" /\ Active(t) /\ Leave(t)
      /\ managers' = [managers EXCEPT ![c] = Stored(job[t])]
      /\ misdeeds' = IF user[c] = job[t].me THEN misdeeds
                                           ELSE misdeeds \cup {Whole(c)}
      /\ UNCHANGED <<list, user, content, own, members, applies, open, marred>>
  BY <1>2 DEF StoreManagers, Active, Unless
<1>4. Moves(t) /\ FOf(t)'
  BY <1>1, <1>3, Leaves
<1>5. Touches(t)
  BY <1>1, <1>2, <1>3, TInvData
  DEF DataOK, Touches, SameClub, SameContent, SameMember, SameApply, members
<1>6. DecisionsInOrder' /\ PendingAt(w, c)'
  <2>1. misdeeds' \subseteq misdeeds \cup marred
    BY <1>2, <1>3 DEF Relies
  <2>. QED
    BY <1>1, <1>2, <1>3, <2>1, DecidesInOrder, PendingKeeps
<1>7. ASSUME NEW a \in Accounts PROVE AgreeAt(a, c)'
  BY <1>2, <1>3, <1>4, AgreeKeeps, CInvParts
<1>8. FreeAt(c)'
  BY <1>2, <1>3 DEF Relies, FreeAt, Whole
<1>9. OwnerAt(c)'
  BY <1>2, <1>3, <1>4, OwnerKeeps
<1>. QED
  BY <1>1, <1>2, <1>3, <1>4, <1>5, <1>6, <1>7, <1>8, <1>9, FrameStep

LEMMA StoreContentKeeps ==
    ASSUME CInv, NEW t \in Threads, StoreContent(t)
    PROVE  CInv'
<1>1. TInv /\ TInv' /\ DecisionsInOrder
  BY ManagerType DEF CInv
<1>2. PICK c \in Clubs, w \in Accounts :
        /\ c = job[t].club /\ w = job[t].who
        /\ Whole(c) \in marred \/ Relies(t)
        /\ AgreeAt(w, c) /\ PendingAt(w, c) /\ job[t].op = "edit"
        /\ job[t].me \in Accounts
  BY AtWork DEF Doing, StoreContent, Active
<1>3. /\ pc[t] = "content" /\ Active(t) /\ Leave(t)
      /\ content' = content \cup {c}
      /\ misdeeds' = IF Entitled(job[t].me, c) THEN misdeeds
                                               ELSE misdeeds \cup {Whole(c)}
      /\ UNCHANGED <<list, user, managers, own, members, applies, open, marred>>
  BY <1>2 DEF StoreContent, Active, Unless
<1>4. Moves(t) /\ FOf(t)'
  BY <1>1, <1>3, Leaves
<1>5. Whole(c) \in marred \/ (c \in list /\ Entitled(job[t].me, c) /\ Exists(c))
  <2>1. Entitled(job[t].me, c) => Exists(c)
    BY <1>2, ClubAssumption DEF Entitled, Exists, NoSet
  <2>. QED
    BY <1>2, <1>3, <2>1 DEF Relies
<1>6. Touches(t)
  BY <1>2, <1>3, <1>5
  DEF Touches, SameClub, SameContent, SameMember, SameApply, members, Spoilt
<1>7. DecisionsInOrder' /\ PendingAt(w, c)'
  <2>1. misdeeds' \subseteq misdeeds \cup marred
    BY <1>3, <1>5
  <2>. QED
    BY <1>1, <1>2, <1>3, <2>1, DecidesInOrder, PendingKeeps
<1>8. AgreeAt(w, c)'
  BY <1>2, <1>3, <1>4, AgreeKeeps
<1>9. FreeAt(c)' /\ job[t].op \notin Structural
  BY <1>2, <1>3, <1>5 DEF FreeAt, Whole, Structural
<1>. QED
  BY <1>1, <1>2, <1>3, <1>4, <1>6, <1>7, <1>8, <1>9, FrameStep

----------------------------------------------------------------------------
(* The invariant *)

LEMMA InitTypes == Init => TInv
<1>. SUFFICES ASSUME Init PROVE TInv
  OBVIOUS
<1>1. 1 \in Clubs /\ MaxOps \in Nat /\ MaxManagers \in Nat \ {0}
  BY ClubAssumption DEF Clubs
<1>2. PICK a \in Accounts :
        /\ user = [c \in Clubs |-> IF c = 1 THEN a ELSE Nobody]
        /\ own = [b \in Accounts |-> IF b = a THEN {1} ELSE {}]
  BY DEF Init
<1>3. user \in [Clubs -> Accounts \cup {Nobody}] /\ own \in [Accounts -> SUBSET Clubs]
  BY <1>1, <1>2
<1>4. managers \in [Clubs -> (SUBSET Accounts) \cup {NoSet}]
  BY DEF Init
<1>5. /\ clubsOf \in [Accounts -> SUBSET Clubs]
      /\ players \in [Clubs -> SUBSET Accounts]
      /\ applies \in [Clubs -> SUBSET (Accounts \X States)]
  BY DEF Init
<1>6. pc \in [Threads -> Steps] /\ job \in [Threads -> Jobs \cup {NoJob}]
  BY DEF Init, Steps
<1>7. \A t \in Threads : pc[t] = "idle" /\ job[t] = NoJob
  BY DEF Init
<1>8. TypeOK
  <2>1. /\ list \subseteq Clubs /\ content \subseteq Clubs /\ served \in 0..MaxOps
        /\ open \subseteq Pairs /\ marred \subseteq Keys /\ misdeeds \subseteq Keys
    BY <1>1 DEF Init
  <2>2. crashed \in BOOLEAN
    BY Zenon DEF Init
  <2>. QED
    BY <1>3, <1>4, <1>5, <1>6, <1>7, <2>1, <2>2 DEF TypeOK
<1>9. \A t \in Threads : Doing(t)
  BY <1>7 DEF Doing
<1>10. ManagersBounded
  <2>1. \A c \in Clubs : managers[c] # NoSet => managers[c] = {}
    BY DEF Init
  <2>2. Cardinality({}) = 0
    BY FS_EmptySet
  <2>. QED
    BY <1>1, <2>1, <2>2 DEF ManagersBounded
<1>. QED
  BY <1>6, <1>8, <1>9, <1>10 DEF TInv

LEMMA InitClub == Init => CInv
<1>. SUFFICES ASSUME Init PROVE CInv
  OBVIOUS
<1>1. TInv
  BY InitTypes
<1>2. PICK a \in Accounts :
        /\ user = [c \in Clubs |-> IF c = 1 THEN a ELSE Nobody]
        /\ own = [b \in Accounts |-> IF b = a THEN {1} ELSE {}]
  BY DEF Init
<1>3. \A t \in Threads : pc[t] = "idle"
  BY DEF Init
<1>4. KInv /\ \A t \in Threads : FOf(t)
  BY <1>3 DEF KInv, Clash, Active, FOf, Knows
<1>5. DecisionsInOrder
  BY DEF Init, DecisionsInOrder, EntitledOnly, JudgedOnce
<1>6. \A b \in Accounts, c \in Clubs : AgreeAt(b, c) /\ PendingAt(b, c)
  BY DEF Init, AgreeAt, PendingAt
<1>7. ASSUME NEW c \in Clubs PROVE FreeAt(c) /\ OwnerAt(c)
  <2>1. CASE c = 1
    <3>1. c \in list /\ user[c] = a
      BY <1>2, <2>1 DEF Init
    <3>2. {b \in Accounts : c \in own[b]} = {a}
      BY <1>2, <2>1
    <3>. QED
      BY <3>1, <3>2 DEF FreeAt, OwnerAt
  <2>2. CASE c # 1
    BY <1>2, <2>2 DEF Init, FreeAt, OwnerAt, Empty
  <2>. QED
    BY <2>1, <2>2
<1>. QED
  BY <1>1, <1>4, <1>5, <1>6, <1>7, CInvParts

LEMMA CInvNext == CInv /\ [Next]_vars => CInv'
<1>. SUFFICES ASSUME CInv, [Next]_vars PROVE CInv'
  OBVIOUS
<1>1. CASE UNCHANGED vars
  <2>1. TInv /\ TInv'
    BY TInvNext DEF CInv
  <2>2. /\ UNCHANGED <<list, user, managers, content, own, clubsOf, players, applies>>
        /\ UNCHANGED <<pc, job, open, marred, misdeeds>>
    BY <1>1 DEF vars, store, attr, members, history
  <2>3. KInv' /\ FInv' /\ PInv'
    BY <2>2 DEF CInv, KInv, Clash, FInv, PInv, Active, Spoilt, Blurred, Whole, Relies,
       Expects, Knows, Entitled, Exists
  <2>4. MembershipAgrees' /\ OneOwner'
    BY <2>2 DEF CInv, MembershipAgrees, OneOwner, Midway, Whole
  <2>5. NothingLeftBehind' /\ DecisionsInOrder'
    BY <2>2 DEF CInv, NothingLeftBehind, DecisionsInOrder, EntitledOnly, JudgedOnce,
       Whole
  <2>. QED
    BY <2>1, <2>3, <2>4, <2>5 DEF CInv
<1>2. ASSUME NEW t \in Threads, Ask(t) PROVE CInv'
  <2>1. TInv
    BY DEF CInv
  <2>2. PICK j \in Jobs : \E x \in Steps \ {"idle"} : Opens(t, j, x)
    BY <1>2, <2>1, AskOpens
  <2>. QED
    BY <2>2, OpensKeeps
<1>3. ASSUME NEW t \in Threads, Work(t) PROVE CInv'
  BY <1>3, NumberKeeps, EnterListKeeps, SetAttrKeeps, EnterOwnKeeps,
     ReadMembersKeeps, DisbandKeeps, CheckKeeps, EnrolKeeps, EnterClubKeeps,
     ExpelKeeps, ForgetKeeps, EnterApplyKeeps, UnlistKeeps, RelistKeeps,
     ReadManagersKeeps, StoreManagersKeeps, StoreContentKeeps DEF Work
<1>4. ASSUME NEW t \in Threads, Crash(t) PROVE CInv'
  BY <1>4, CrashKeeps
<1>. QED
  BY <1>1, <1>2, <1>3, <1>4 DEF Next

----------------------------------------------------------------------------
(* The theorems *)

\* Every variable keeps its type, whatever requests (hall/club.py) interleave
\* and wherever a worker dies.
THEOREM TypeCorrect == Spec => []TypeOK
<1>1. TInv => TypeOK
  BY DEF TInv
<1>. QED
  BY <1>1, InitTypes, TInvNext, PTL DEF Spec

\* However additions of managers race, a club never has more than the limit:
\* what /club/add_manager stores is a set that it found small enough, with one
\* more member.
THEOREM ManagersTheorem == Spec => []ManagersBounded
<1>1. TInv => ManagersBounded
  BY DEF TInv
<1>. QED
  BY <1>1, InitTypes, TInvNext, PTL DEF Spec

\* The record of a membership under the player and the one under the club,
\* written by two commands, agree once the request has ended, unless it
\* overlapped another one for the same player, or one that changes the club,
\* or its worker died.
THEOREM MembershipTheorem == Spec => []MembershipAgrees
<1>1. CInv => MembershipAgrees
  BY DEF CInv
<1>. QED
  BY <1>1, InitClub, CInvNext, PTL DEF Spec

\* A disbanded club leaves nothing of itself under its number, which the next
\* creation uses again: /club/disbandment deletes what it has read, and without
\* an overlap that is everything.
THEOREM LeftoverTheorem == Spec => []NothingLeftBehind
<1>1. CInv => NothingLeftBehind
  BY DEF CInv
<1>. QED
  BY <1>1, InitClub, CInvNext, PTL DEF Spec

\* A club is in the list of one account, the owner its attributes name,
\* although /club/create computes the number by one command and uses it by
\* three others.
THEOREM OwnerTheorem == Spec => []OneOwner
<1>1. CInv => OneOwner
  BY DEF CInv
<1>. QED
  BY <1>1, InitClub, CInvNext, PTL DEF Spec

\* Those who are asked for their right before they decide about a club have it
\* at the moment they do, although it was looked up by an earlier command, and
\* an application gets one verdict, unless the request overlapped one that
\* changed who may or another verdict.  An application that a disbanded club
\* has left behind is the exception: nobody is asked, anybody may write the
\* verdict, and the theorem promises no more than that it is one verdict and
\* that it makes nobody a member.
THEOREM DecisionsTheorem == Spec => []DecisionsInOrder
<1>1. CInv => DecisionsInOrder
  BY DEF CInv
<1>. QED
  BY <1>1, InitClub, CInvNext, PTL DEF Spec

----------------------------------------------------------------------------
(* Creation implements the quota of clubs *)

Holds(t) == pc[t] \in {"number", "list", "attr", "own"}

\* The quota's variables.
Used == [a \in Accounts |-> Cardinality(own[a])]
Held == [a \in Accounts |-> Creating(a)]

\* The others go on with what they do.
Alone(t) == \A s \in Threads : s # t => pc'[s] = pc[s] /\ job'[s] = job[s]

LEMMA HeldSame ==
    ASSUME NEW t \in Threads, Alone(t), Holds(t)' <=> Holds(t),
           Holds(t) => job'[t].me = job[t].me
    PROVE  Held' = Held
<1>1. \A a \in Accounts : Creating(a)' = Creating(a)
  BY DEF Creating, Alone, Holds
<1>. QED
  BY <1>1 DEF Held

LEMMA HeldMore ==
    ASSUME NEW t \in Threads, Alone(t), ~Holds(t), Holds(t)',
           NEW a \in Accounts, job'[t].me = a
    PROVE  Held' = [Held EXCEPT ![a] = @ \cup {t}] /\ t \in Held'[a] \ Held[a]
<1>1. /\ \A b \in Accounts : b # a => Creating(b)' = Creating(b)
      /\ Creating(a)' = Creating(a) \cup {t} /\ t \notin Creating(a)
  BY DEF Creating, Alone, Holds
<1>. QED
  BY <1>1 DEF Held

LEMMA HeldLess ==
    ASSUME NEW t \in Threads, Alone(t), Holds(t), ~Holds(t)',
           NEW a \in Accounts, job[t].me = a
    PROVE  Held' = [Held EXCEPT ![a] = @ \ {t}] /\ t \in Held[a]
<1>1. /\ \A b \in Accounts : b # a => Creating(b)' = Creating(b)
      /\ Creating(a)' = Creating(a) \ {t} /\ t \in Creating(a)
  BY DEF Creating, Alone, Holds
<1>. QED
  BY <1>1 DEF Held

LEMMA ClubSets ==
    ASSUME NEW S \in SUBSET Clubs, NEW c \in Clubs
    PROVE  /\ IsFiniteSet(S) /\ Cardinality(S) \in Nat
           /\ c \in S => Cardinality(S \ {c}) = Cardinality(S) - 1 /\ Cardinality(S) > 0
           /\ c \notin S => Cardinality(S \cup {c}) = Cardinality(S) + 1
<1>1. MaxClub \in Int /\ 1 \in Int
  BY ClubAssumption
<1>2. IsFiniteSet(Clubs)
  BY <1>1, FS_Interval DEF Clubs
<1>3. IsFiniteSet(S)
  BY <1>2, FS_Subset
<1>4. Cardinality(S) \in Nat
  BY <1>3, FS_CardinalityType
<1>5. c \in S => Cardinality(S \ {c}) = Cardinality(S) - 1
  BY <1>3, FS_RemoveElement
<1>6. c \in S => Cardinality(S) > 0
  <2>1. Cardinality(S) = 0 => S = {}
    BY <1>3, FS_EmptySet
  <2>. QED
    BY <1>4, <2>1
<1>7. c \notin S => Cardinality(S \cup {c}) = Cardinality(S) + 1
  BY <1>3, FS_AddElement
<1>. QED
  BY <1>3, <1>4, <1>5, <1>6, <1>7

LEMMA QuotaPass ==
    ASSUME NEW t \in Threads, NEW a \in Accounts, Used[a] < MaxOwn,
           t \in Held'[a] \ Held[a], Held' = [Held EXCEPT ![a] = @ \cup {t}],
           Used' = Used
    PROVE  Limited!Next
<1>1. Limited!Pass(a, t)
  BY DEF Limited!Pass, Used, Held
<1>. QED
  BY <1>1 DEF Limited!Next

LEMMA QuotaUse ==
    ASSUME NEW t \in Threads, NEW a \in Accounts, t \in Held[a],
           Held' = [Held EXCEPT ![a] = @ \ {t}],
           Used' = [Used EXCEPT ![a] = @ + 1]
    PROVE  Limited!Next
<1>1. Limited!Use(a, t)
  BY DEF Limited!Use, Used, Held
<1>. QED
  BY <1>1 DEF Limited!Next

LEMMA QuotaGiveUp ==
    ASSUME NEW t \in Threads, NEW a \in Accounts, t \in Held[a],
           Held' = [Held EXCEPT ![a] = @ \ {t}], Used' = Used
    PROVE  Limited!Next
<1>1. Limited!GiveUp(a, t)
  BY DEF Limited!GiveUp, Used, Held
<1>. QED
  BY <1>1 DEF Limited!Next

LEMMA QuotaFree ==
    ASSUME NEW a \in Accounts, Used[a] > 0, Used' = [Used EXCEPT ![a] = @ - 1],
           Held' = Held
    PROVE  Limited!Next
<1>1. Limited!Free(a)
  BY DEF Limited!Free, Used, Held
<1>. QED
  BY <1>1 DEF Limited!Next

LEMMA QuotaStutter ==
    ASSUME Used' = Used, Held' = Held
    PROVE  UNCHANGED Limited!vars
  BY DEF Limited!vars, Used, Held

LEMMA WorksAlone ==
    ASSUME TInv, NEW t \in Threads, Work(t)
    PROVE  Alone(t)
<1>1. pc \in [Threads -> Steps] /\ job \in [Threads -> Jobs \cup {NoJob}]
  BY TInvData
<1>2. ASSUME NEW x, Goto(t, x) PROVE \A s \in Threads : s # t => pc'[s] = pc[s]
  BY <1>1, <1>2 DEF Goto
<1>3. ASSUME NEW j, job' = [job EXCEPT ![t] = j]
      PROVE  \A s \in Threads : s # t => job'[s] = job[s]
  BY <1>1, <1>3
<1>4. CASE Leave(t)
  BY <1>1, <1>4 DEF Leave, Goto, Alone
<1>5. ASSUME NEW x, Goto(t, x), UNCHANGED job PROVE Alone(t)
  BY <1>2, <1>5 DEF Alone
<1>6. CASE Number(t)
  <2>1. Goto(t, "list") /\ \E n \in Clubs : job' = [job EXCEPT ![t] = [job[t] EXCEPT !.club = n]]
    BY <1>6 DEF Number, Serve
  <2>. QED
    BY <1>2, <1>3, <2>1 DEF Alone
<1>7. ASSUME NEW S, NEW x, job' = [job EXCEPT ![t].seen = S], Goto(t, x)
      PROVE  Alone(t)
  <2>1. job' = [job EXCEPT ![t] = [job[t] EXCEPT !.seen = S]]
    BY <1>1, <1>7, Zenon
  <2>. QED
    BY <1>2, <1>3, <1>7, <2>1 DEF Alone
<1>8. CASE ReadMembers(t)
  <2>1. /\ job' = [job EXCEPT ![t].seen = players[job[t].club]]
        /\ Goto(t, "disband")
    BY <1>8, Zenon DEF ReadMembers
  <2>. QED
    BY <1>7, <2>1, Zenon
<1>9. CASE ReadManagers(t)
  <2>1. CASE CanChange(job[t])
    <3>1. job' = [job EXCEPT ![t].seen = Changed(job[t])] /\ Goto(t, "store")
      BY <1>9, <2>1, Zenon DEF ReadManagers
    <3>. QED
      BY <1>7, <3>1, Zenon
  <2>2. CASE ~CanChange(job[t])
    BY <1>4, <1>9, <2>2 DEF ReadManagers
  <2>. QED
    BY <2>1, <2>2
<1>10. CASE EnterList(t) \/ SetAttr(t) \/ EnterOwn(t) \/ Disband(t)
  BY <1>4, <1>5, <1>10 DEF EnterList, SetAttr, EnterOwn, Disband
<1>11. CASE CheckExists(t) \/ Enrol(t) \/ EnterClub(t) \/ Expel(t) \/ Forget(t)
  BY <1>4, <1>5, <1>11 DEF CheckExists, Enrol, EnterClub, Expel, Forget
<1>12. CASE CheckOwner(t) \/ EnterApply(t) \/ ReadApplies(t) \/ Unlist(t) \/ Relist(t)
  BY <1>4, <1>5, <1>12 DEF CheckOwner, EnterApply, ReadApplies, Unlist, Relist
<1>13. CASE StoreManagers(t) \/ StoreContent(t)
  BY <1>4, <1>13 DEF StoreManagers, StoreContent
<1>. QED
  BY <1>6, <1>8, <1>9, <1>10, <1>11, <1>12, <1>13 DEF Work

LEMMA OwnsNumber ==
    ASSUME NEW S \in SUBSET Clubs
    PROVE  Cardinality(S) \in Nat
<1>1. 1 \in Clubs
  BY ClubAssumption DEF Clubs
<1>. QED
  BY <1>1, ClubSets

\* The steps of a creation, and the disbandment, by the commands they are.
LEMMA CreateMoves ==
    ASSUME TInv, NEW t \in Threads, Work(t)
    PROVE  /\ pc[t] = "own" => EnterOwn(t)
           /\ pc[t] = "disband" => Disband(t)
           /\ pc[t] \in {"number", "list", "attr"} =>
                /\ UNCHANGED own /\ pc'[t] \in {"list", "attr", "own"}
                /\ job'[t].me = job[t].me
<1>1. \/ Number(t) \/ EnterList(t) \/ SetAttr(t) \/ EnterOwn(t) \/ Disband(t)
      \/ pc[t] \notin {"number", "list", "attr", "own", "disband"}
  BY DEF Work, ReadMembers, CheckExists, Enrol, EnterClub, Expel, Forget, CheckOwner,
     EnterApply, ReadApplies, Unlist, Relist, ReadManagers, StoreManagers, StoreContent
<1>2. CASE Number(t)
  <2>1. PICK n \in Clubs, j \in Jobs :
          /\ pc[t] = "number" /\ j.me = job[t].me
          /\ pc' = [pc EXCEPT ![t] = "list"] /\ job' = [job EXCEPT ![t] = j]
          /\ UNCHANGED store
    BY <1>2, NumberStep
  <2>. QED
    BY <2>1, TInvData DEF store
<1>3. CASE EnterList(t)
  BY <1>3, TInvData DEF EnterList, Goto
<1>4. CASE SetAttr(t)
  BY <1>4, TInvData DEF SetAttr, Goto
<1>5. CASE EnterOwn(t)
  BY <1>5 DEF EnterOwn
<1>6. CASE Disband(t)
  BY <1>6 DEF Disband
<1>. QED
  BY <1>1, <1>2, <1>3, <1>4, <1>5, <1>6

\* Requests that create no club, and commands of theirs other than the
\* disbandment, are no steps of the quota.
LEMMA OthersStutter ==
    ASSUME TInv, NEW t \in Threads, Work(t), ~Holds(t), pc[t] # "disband"
    PROVE  UNCHANGED own /\ ~Holds(t)'
<1>. USE DEF Holds
<1>1. pc \in [Threads -> Steps] /\ Doing(t)
  BY TInvData
<1>2. ASSUME NEW x, Goto(t, x), x \notin {"number", "list", "attr", "own"}
      PROVE  ~Holds(t)'
  BY <1>1, <1>2 DEF Goto
<1>3. CASE ReadMembers(t) \/ ReadManagers(t)
  BY <1>2, <1>3, Zenon DEF ReadMembers, ReadManagers, ReadOnly, store, Leave
<1>4. CASE CheckExists(t) \/ Enrol(t) \/ EnterClub(t) \/ Expel(t) \/ Forget(t)
  BY <1>2, <1>4 DEF CheckExists, Enrol, EnterClub, Expel, Forget, ReadOnly, store, Leave
<1>5. CASE CheckOwner(t)
  <2>1. /\ UNCHANGED own
        /\ Goto(t, AfterOwner(job[t].op)) \/ Goto(t, "idle")
        /\ job[t].op \in {"kick", "audit", "edit"}
    BY <1>1, <1>5 DEF CheckOwner, ReadOnly, store, Leave, Doing
  <2>2. AfterOwner(job[t].op) \in {"expel", "applies", "content"}
    BY <2>1, Zenon DEF AfterOwner
  <2>. QED
    BY <1>2, <2>1, <2>2
<1>6. CASE EnterApply(t) \/ ReadApplies(t) \/ Unlist(t) \/ Relist(t)
  BY <1>2, <1>6 DEF EnterApply, ReadApplies, Unlist, Relist, ReadOnly, store, Leave
<1>7. CASE StoreManagers(t) \/ StoreContent(t)
  BY <1>2, <1>7 DEF StoreManagers, StoreContent, Leave
<1>8. ~(Number(t) \/ EnterList(t) \/ SetAttr(t) \/ EnterOwn(t) \/ Disband(t))
  BY DEF Number, EnterList, SetAttr, EnterOwn, Disband
<1>. QED
  BY <1>3, <1>4, <1>5, <1>6, <1>7, <1>8 DEF Work

LEMMA QuotaInit == Init => Limited!Init
<1>. SUFFICES ASSUME Init PROVE Limited!Init
  OBVIOUS
<1>1. PICK a \in Accounts : own = [b \in Accounts |-> IF b = a THEN {1} ELSE {}]
  BY DEF Init
<1>2. Cardinality({1}) = 1 /\ Cardinality({}) = 0
  BY FS_Singleton, FS_EmptySet
<1>3. MaxOwn \in Nat \ {0}
  BY ClubAssumption
<1>4. Used \in [Accounts -> 0..MaxOwn]
  BY <1>1, <1>2, <1>3 DEF Used
<1>5. Held = [b \in Accounts |-> {}]
  BY DEF Held, Creating, Init
<1>. QED
  BY <1>4, <1>5 DEF Limited!Init, Used, Held

LEMMA QuotaStep == TInv /\ [Next]_vars => [Limited!Next]_(Limited!vars)
<1>. SUFFICES ASSUME TInv, [Next]_vars, ~(UNCHANGED Limited!vars) PROVE Limited!Next
  OBVIOUS
<1>0. /\ pc \in [Threads -> Steps] /\ job \in [Threads -> Jobs \cup {NoJob}]
      /\ own \in [Accounts -> SUBSET Clubs]
  BY TInvData DEF DataOK
<1>1. UNCHANGED own => Used' = Used
  BY DEF Used
<1>2. CASE UNCHANGED vars
  <2>1. Used' = Used
    BY <1>1, <1>2 DEF vars, store
  <2>2. Held' = Held
    BY <1>2 DEF vars, Held, Creating
  <2>. QED
    BY <2>1, <2>2, QuotaStutter
<1>3. ASSUME NEW t \in Threads, Ask(t) PROVE Limited!Next
  <2>1. PICK j \in Jobs : \E x \in Steps \ {"idle"} : Opens(t, j, x)
    BY <1>3, AskOpens
  <2>2. PICK x \in Steps \ {"idle"} : Opens(t, j, x)
    BY <2>1
  <2>3. /\ pc' = [pc EXCEPT ![t] = x] /\ job' = [job EXCEPT ![t] = j]
        /\ Opening(j, x) /\ UNCHANGED own /\ pc[t] = "idle"
    BY <2>2 DEF Opens, Goto, Serve, store
  <2>4. Alone(t) /\ ~Holds(t) /\ pc'[t] = x /\ job'[t] = j /\ Used' = Used
    BY <1>0, <1>1, <2>3 DEF Alone, Holds
  <2>5. CASE x = "number"
    <3>1. /\ j.op = "create" /\ ~OwnsTooMany(j.me) /\ j.me \in Accounts
          /\ Holds(t)'
      BY <2>3, <2>4, <2>5 DEF Opening, Jobs, Holds
    <3>2. Used[j.me] < MaxOwn
      <4>1. Cardinality(own[j.me]) \in Nat
        BY <1>0, <3>1, OwnsNumber
      <4>. QED
        BY <3>1, <4>1, ClubAssumption DEF OwnsTooMany, Used
    <3>3. /\ Held' = [Held EXCEPT ![j.me] = @ \cup {t}]
          /\ t \in Held'[j.me] \ Held[j.me]
      BY <2>4, <3>1, HeldMore
    <3>. QED
      BY <2>4, <3>1, <3>2, <3>3, QuotaPass
  <2>6. CASE x # "number"
    <3>1. ~Holds(t)'
      BY <2>3, <2>4, <2>6 DEF Opening, Holds
    <3>2. Held' = Held
      BY <2>4, <3>1, HeldSame
    <3>. QED
      BY <2>4, <3>2, QuotaStutter
  <2>. QED
    BY <2>5, <2>6
<1>4. ASSUME NEW t \in Threads, Work(t) PROVE Limited!Next
  <2>1. Alone(t)
    BY <1>4, WorksAlone
  <2>2. CASE pc[t] = "own"
    <3>1. PICK a \in Accounts, c \in Clubs : a = job[t].me /\ c = job[t].club
      BY <2>2, JobType
    <3>2. own' = [own EXCEPT ![a] = @ \cup {c}] /\ Leave(t)
      BY <1>4, <2>2, <3>1, CreateMoves DEF EnterOwn
    <3>3. Held' = [Held EXCEPT ![a] = @ \ {t}] /\ t \in Held[a]
      <4>1. Holds(t) /\ ~Holds(t)'
        BY <1>0, <2>2, <3>2 DEF Holds, Leave, Goto
      <4>. QED
        BY <2>1, <3>1, <4>1, HeldLess
    <3>4. CASE c \in own[a]
      <4>1. own' = own
        BY <1>0, <3>1, <3>2, <3>4
      <4>. QED
        BY <1>1, <3>3, <4>1, QuotaGiveUp
    <3>5. CASE c \notin own[a]
      <4>1. Cardinality(own[a] \cup {c}) = Cardinality(own[a]) + 1
        BY <1>0, <3>5, ClubSets
      <4>2. Used' = [Used EXCEPT ![a] = @ + 1]
        BY <1>0, <3>2, <4>1 DEF Used
      <4>. QED
        BY <3>3, <4>2, QuotaUse
    <3>. QED
      BY <3>4, <3>5
  <2>3. CASE pc[t] = "disband"
    <3>1. PICK a \in Accounts, c \in Clubs : a = job[t].me /\ c = job[t].club
      BY <2>3, JobType
    <3>2. own' = [own EXCEPT ![a] = @ \ {c}] /\ Leave(t)
      BY <1>4, <2>3, <3>1, CreateMoves DEF Disband
    <3>3. Held' = Held
      <4>1. ~Holds(t) /\ ~Holds(t)'
        BY <1>0, <2>3, <3>2 DEF Holds, Leave, Goto
      <4>. QED
        BY <2>1, <4>1, HeldSame
    <3>4. CASE c \notin own[a]
      <4>1. own' = own
        BY <1>0, <3>1, <3>2, <3>4
      <4>. QED
        BY <1>1, <3>3, <4>1, QuotaStutter
    <3>5. CASE c \in own[a]
      <4>1. /\ Cardinality(own[a] \ {c}) = Cardinality(own[a]) - 1
            /\ Cardinality(own[a]) > 0
        BY <1>0, <3>5, ClubSets
      <4>2. Used' = [Used EXCEPT ![a] = @ - 1] /\ Used[a] > 0
        BY <1>0, <3>2, <4>1 DEF Used
      <4>. QED
        BY <3>3, <4>2, QuotaFree
    <3>. QED
      BY <3>4, <3>5
  <2>4. CASE pc[t] \in {"number", "list", "attr"}
    <3>1. UNCHANGED own /\ Holds(t) /\ Holds(t)' /\ job'[t].me = job[t].me
      BY <1>0, <1>4, <2>4, CreateMoves DEF Holds
    <3>2. Held' = Held
      BY <2>1, <3>1, HeldSame
    <3>. QED
      BY <1>1, <3>1, <3>2, QuotaStutter
  <2>5. CASE ~Holds(t) /\ pc[t] # "disband"
    <3>1. UNCHANGED own /\ ~Holds(t)'
      BY <1>4, <2>5, OthersStutter
    <3>2. Held' = Held
      BY <2>1, <2>5, <3>1, HeldSame
    <3>. QED
      BY <1>1, <3>1, <3>2, QuotaStutter
  <2>. QED
    BY <2>2, <2>3, <2>4, <2>5 DEF Holds
<1>5. ASSUME NEW t \in Threads, Crash(t) PROVE Limited!Next
  <2>1. /\ UNCHANGED own /\ pc[t] # "idle" /\ pc' = [pc EXCEPT ![t] = "idle"]
        /\ job' = [job EXCEPT ![t] = NoJob]
    BY <1>5 DEF Crash, Leave, Goto, store
  <2>2. Alone(t) /\ ~Holds(t)' /\ Used' = Used
    BY <1>0, <1>1, <2>1 DEF Alone, Holds
  <2>3. CASE Holds(t)
    <3>1. PICK a \in Accounts : a = job[t].me
      BY <2>1, JobType
    <3>2. Held' = [Held EXCEPT ![a] = @ \ {t}] /\ t \in Held[a]
      BY <2>2, <2>3, <3>1, HeldLess
    <3>. QED
      BY <2>2, <3>2, QuotaGiveUp
  <2>4. CASE ~Holds(t)
    BY <2>2, <2>4, HeldSame, QuotaStutter
  <2>. QED
    BY <2>3, <2>4
<1>. QED
  BY <1>2, <1>3, <1>4, <1>5 DEF Next

\* Creation, whose limit is compared by one command and used up by another
\* three commands later, implements the quota: an account overshoots its limit
\* by no more than one club for each other thread, and disbandment gives a club
\* back.
THEOREM QuotaTheorem == Spec => ClubsAreLimited
<1>1. Spec => Limited!Init /\ [][Limited!Next]_(Limited!vars)
  BY QuotaInit, QuotaStep, InitTypes, TInvNext, PTL DEF Spec
<1>. QED
  BY <1>1 DEF ClubsAreLimited, Limited!Spec

-----------------------------------------------------------------------------
(* How far the limit of clubs is exceeded *)

Owned(a) == Cardinality(own[a])

\* The clubs of an account and the requests that may still add one.
Promised(a) == Owned(a) + Cardinality(Creating(a))

PromiseInv == \A a \in Accounts : Promised(a) < MaxOwn + Cardinality(Threads)

LEMMA CreatorSets ==
    ASSUME NEW S \in SUBSET Threads, NEW t \in Threads
    PROVE  /\ IsFiniteSet(S) /\ Cardinality(S) \in Nat
           /\ Cardinality(S) <= Cardinality(Threads)
           /\ t \in S => Cardinality(S \ {t}) = Cardinality(S) - 1
<1>1. IsFiniteSet(S) /\ Cardinality(S) <= Cardinality(Threads)
  BY ClubAssumption, FS_Subset
<1>2. Cardinality(S) \in Nat
  BY <1>1, FS_CardinalityType
<1>3. t \in S => Cardinality(S \ {t}) = Cardinality(S) - 1
  BY <1>1, FS_RemoveElement
<1>. QED
  BY <1>1, <1>2, <1>3

LEMMA ThreadsNumber == Cardinality(Threads) \in Nat \ {0}
<1>1. Cardinality(Threads) \in Nat
  BY ClubAssumption, FS_CardinalityType
<1>2. Cardinality(Threads) # 0
  BY ClubAssumption, FS_EmptySet
<1>. QED
  BY <1>1, <1>2

\* A step of the quota changes the promise of one account.
LEMMA PromiseOthers ==
    ASSUME NEW a \in Accounts, NEW b \in Accounts, a # b,
           Held' = Held \/ \E S : Held' = [Held EXCEPT ![a] = S],
           Used' = Used \/ \E n : Used' = [Used EXCEPT ![a] = n]
    PROVE  Promised(b)' = Promised(b)
<1>1. Held'[b] = Held[b] /\ Used'[b] = Used[b]
  BY DEF Held, Used
<1>2. Creating(b)' = Creating(b) /\ Owned(b)' = Owned(b)
  BY <1>1 DEF Held, Used, Owned
<1>. QED
  BY <1>2 DEF Promised

\* It keeps the promise: only Pass adds a request, and it has seen fewer clubs
\* than the limit.
LEMMA PromiseNext ==
    ASSUME TInv, TInv', PromiseInv, [Limited!Next]_(Limited!vars)
    PROVE  PromiseInv'
<1>0. ASSUME NEW a \in Accounts
      PROVE  /\ Owned(a) \in Nat /\ Owned(a)' \in Nat
             /\ Creating(a) \in SUBSET Threads /\ Creating(a)' \in SUBSET Threads
             /\ Cardinality(Creating(a)) \in Nat
             /\ Promised(a) < MaxOwn + Cardinality(Threads)
  <2>1. own[a] \in SUBSET Clubs /\ own'[a] \in SUBSET Clubs
    <3>1. own \in [Accounts -> SUBSET Clubs]
      BY TInvData DEF DataOK
    <3>2. own' \in [Accounts -> SUBSET Clubs]
      BY DEF TInv, TypeOK, DataOK
    <3>. QED
      BY <3>1, <3>2
  <2>2. Owned(a) \in Nat
    BY <2>1, OwnsNumber DEF Owned
  <2>3. Owned(a)' \in Nat
    BY <2>1, OwnsNumber DEF Owned
  <2>4. Creating(a) \in SUBSET Threads /\ Creating(a)' \in SUBSET Threads
    BY DEF Creating
  <2>5. Cardinality(Creating(a)) \in Nat
    BY <2>4, ClubAssumption, CreatorSets
  <2>. QED
    BY <2>2, <2>3, <2>4, <2>5 DEF PromiseInv
<1>1. MaxOwn \in Nat /\ Cardinality(Threads) \in Nat
  BY ClubAssumption, ThreadsNumber
<1>2. ASSUME NEW a \in Accounts
      PROVE  /\ Used[a] = Owned(a) /\ Used'[a] = Owned(a)'
             /\ Held[a] = Creating(a) /\ Held'[a] = Creating(a)'
  BY DEF Used, Held, Owned
<1>3. CASE UNCHANGED Limited!vars
  <2>1. Used' = Used /\ Held' = Held
    BY <1>3 DEF Limited!vars, Used, Held
  <2>2. ASSUME NEW a \in Accounts PROVE Promised(a)' = Promised(a)
    BY <1>2, <2>1 DEF Promised
  <2>. QED
    BY <1>0, <2>2 DEF PromiseInv
<1>4. ASSUME NEW a \in Accounts, NEW t \in Threads, Limited!Pass(a, t)
      PROVE  PromiseInv'
  <2>1. /\ Used[a] < MaxOwn /\ t \in Held'[a] \ Held[a] /\ Used' = Used
        /\ Held' = [Held EXCEPT ![a] = Held[a] \cup {t}]
    BY <1>4 DEF Limited!Pass, Used, Held
  <2>2. Owned(a) < MaxOwn /\ Owned(a)' = Owned(a)
    BY <1>2, <2>1
  <2>3. Cardinality(Creating(a)') \in Nat
        /\ Cardinality(Creating(a)') <= Cardinality(Threads)
    BY <1>0, CreatorSets
  <2>4. Promised(a)' < MaxOwn + Cardinality(Threads)
    BY <1>0, <1>1, <2>2, <2>3 DEF Promised
  <2>. QED
    BY <1>0, <2>1, <2>4, PromiseOthers DEF PromiseInv
<1>5. ASSUME NEW a \in Accounts, NEW t \in Threads, Limited!Use(a, t)
      PROVE  PromiseInv'
  <2>1. /\ t \in Held[a] /\ Used' = [Used EXCEPT ![a] = Used[a] + 1]
        /\ Held' = [Held EXCEPT ![a] = Held[a] \ {t}]
    BY <1>5 DEF Limited!Use, Used, Held
  <2>2. Used'[a] = Used[a] + 1 /\ Held'[a] = Held[a] \ {t}
    BY <2>1 DEF Used, Held
  <2>3. /\ t \in Creating(a) /\ Owned(a)' = Owned(a) + 1
        /\ Creating(a)' = Creating(a) \ {t}
    BY <1>2, <2>1, <2>2
  <2>4. Cardinality(Creating(a)') = Cardinality(Creating(a)) - 1
    BY <1>0, <2>3, CreatorSets
  <2>5. Promised(a)' < MaxOwn + Cardinality(Threads)
    BY <1>0, <2>3, <2>4 DEF Promised
  <2>. QED
    BY <1>0, <2>1, <2>5, PromiseOthers DEF PromiseInv
<1>6. ASSUME NEW a \in Accounts, NEW t \in Threads, Limited!GiveUp(a, t)
      PROVE  PromiseInv'
  <2>1. /\ t \in Held[a] /\ Used' = Used
        /\ Held' = [Held EXCEPT ![a] = Held[a] \ {t}]
    BY <1>6 DEF Limited!GiveUp, Used, Held
  <2>2. Used'[a] = Used[a] /\ Held'[a] = Held[a] \ {t}
    BY <2>1 DEF Used, Held
  <2>3. /\ t \in Creating(a) /\ Owned(a)' = Owned(a)
        /\ Creating(a)' = Creating(a) \ {t}
    BY <1>2, <2>1, <2>2
  <2>4. Cardinality(Creating(a)') = Cardinality(Creating(a)) - 1
    BY <1>0, <2>3, CreatorSets
  <2>5. Promised(a)' < MaxOwn + Cardinality(Threads)
    BY <1>0, <1>1, <2>3, <2>4 DEF Promised
  <2>. QED
    BY <1>0, <2>1, <2>5, PromiseOthers DEF PromiseInv
<1>7. ASSUME NEW a \in Accounts, Limited!Free(a)
      PROVE  PromiseInv'
  <2>1. Used' = [Used EXCEPT ![a] = Used[a] - 1] /\ Held' = Held
    BY <1>7 DEF Limited!Free, Used, Held
  <2>2. Used'[a] = Used[a] - 1 /\ Held'[a] = Held[a]
    BY <2>1 DEF Used, Held
  <2>3. Owned(a)' = Owned(a) - 1 /\ Creating(a)' = Creating(a)
    BY <1>2, <2>2
  <2>4. Promised(a)' < MaxOwn + Cardinality(Threads)
    BY <1>0, <1>1, <2>3 DEF Promised
  <2>. QED
    BY <1>0, <2>1, <2>4, PromiseOthers DEF PromiseInv
<1>. QED
  BY <1>3, <1>4, <1>5, <1>6, <1>7 DEF Limited!Next

LEMMA InitPromise == Init => PromiseInv
<1>. SUFFICES ASSUME Init, NEW a \in Accounts
              PROVE  Promised(a) < MaxOwn + Cardinality(Threads)
  BY DEF PromiseInv
<1>1. own[a] = {1} \/ own[a] = {}
  <2>1. PICK b \in Accounts : own = [x \in Accounts |-> IF x = b THEN {1} ELSE {}]
    BY DEF Init
  <2>. QED
    BY <2>1
<1>2. Cardinality({1}) = 1 /\ Cardinality({}) = 0
  BY FS_Singleton, FS_EmptySet
<1>3. Creating(a) = {}
  BY DEF Creating, Init
<1>4. Owned(a) \in {0, 1} /\ Cardinality(Creating(a)) = 0
  BY <1>1, <1>2, <1>3 DEF Owned
<1>5. MaxOwn \in Nat \ {0} /\ Cardinality(Threads) \in Nat \ {0}
  BY ClubAssumption, ThreadsNumber
<1>. QED
  BY <1>4, <1>5 DEF Promised

\* However creations race, and wherever workers die, an account never has as
\* many clubs as the limit and the number of threads together: the limit that
\* /club/create compares is overshot at most once for each other thread.
THEOREM OwnedTheorem == Spec => []Limited!UsesBounded
<1>1. TInv /\ TInv' /\ PromiseInv /\ [Next]_vars => PromiseInv'
  BY QuotaStep, PromiseNext
<1>2. TInv /\ PromiseInv => Limited!UsesBounded
  <2>1. SUFFICES ASSUME TInv, PromiseInv, NEW a \in Accounts
                 PROVE  Owned(a) < MaxOwn + Limited!Cardinality(Threads)
    BY DEF Limited!UsesBounded, Owned
  <2>0. Limited!Cardinality(Threads) = Cardinality(Threads)
    BY Zenon DEF Limited!Cardinality, Cardinality
  <2>2. own[a] \in SUBSET Clubs /\ Creating(a) \in SUBSET Threads
    BY <2>1, TInvData DEF DataOK, Creating
  <2>3. Owned(a) \in Nat /\ Cardinality(Creating(a)) \in Nat
    <3>1. Owned(a) \in Nat
      BY <2>2, OwnsNumber DEF Owned
    <3>2. IsFiniteSet(Creating(a))
      BY <2>2, ClubAssumption, FS_Subset
    <3>. QED
      BY <3>1, <3>2, FS_CardinalityType
  <2>4. Promised(a) < MaxOwn + Cardinality(Threads)
    BY <2>1 DEF PromiseInv
  <2>. QED
    BY <2>0, <2>3, <2>4, ClubAssumption, ThreadsNumber DEF Promised
<1>. QED
  BY <1>1, <1>2, InitPromise, InitTypes, TInvNext, PTL DEF Spec
=============================================================================
