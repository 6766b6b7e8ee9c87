--------------------------- MODULE SessionProofs ---------------------------
(***************************************************************************)
(* Proofs for Session, for every number of threads and requests: how many  *)
(* users one person becomes, how often the presents of a login are given,  *)
(* that session tables expire, that the session that counts was written    *)
(* and is not an old one, and that the login pool is left.                 *)
(***************************************************************************)
EXTENDS Session, FiniteSetTheorems, TLAPS

N == Cardinality(Threads)

\* The threads whose next command is one of S.
At(S) == {t \in Threads : pc[t] \in S}

\* The steps up to the one that makes a user, and to the one that makes a sid.
BeforeIncr == {"poolCheck", "poolAdd", "reg", "incr", "taken", "number"}
BeforeRead == BeforeIncr \cup {"create", "poolRem", "lookup", "first",
                               "welcome", "gift", "enrol", "read"}
\* The steps of a login that knows its user, and that knows its sid.
KnowsUid == {"create", "first", "welcome", "gift", "enrol", "read", "exists",
             "platform", "sign", "table", "lock", "poolEnd"}
KnowsSid == {"exists", "platform", "sign", "table"}
\* The steps of a login that a registration takes as well.
Shared == {"read", "exists", "platform", "table", "poolDrop"}
\* The logins by account and password.
ByAccount == PassLogins \cup NameLogins
OfSession == {"info", "verify", "alive", "extend", "stamp"}

\* Every request makes at most one user and one session id: what was made and
\* what can still be made are no more than the requests served.
Counted ==
    /\ created + Cardinality(At(BeforeIncr)) <= served
    /\ issued + Cardinality(At(BeforeRead)) <= served

\* What a request knows at its next command.
JobOK ==
    \A t \in Threads :
        /\ pc[t] \in LoginSteps => job[t].kind \in Logins \cup {"register"}
        /\ pc[t] \in LoginSteps \ Shared => job[t].kind \in Logins
        /\ pc[t] \in RegisterSteps => job[t].kind = "register"
        /\ pc[t] \in {"poolCheck", "poolAdd"} =>
              job[t].kind \in AgainLogins \cup ByAccount
        /\ job[t].kind \in PassLogins => job[t].uid \in Uids
        /\ pc[t] \in KnowsUid => job[t].uid \in Uids
        /\ pc[t] \in KnowsSid => job[t].sid \in Sids
        /\ pc[t] = "lock" => job[t].kind \in FishLogins
        /\ pc[t] = "poolRem" => job[t].kind \in AgainLogins
        /\ pc[t] \in {"incr", "create"} => job[t].kind \in CodeLogins
        /\ pc[t] \in KnowsSid /\ job[t].sid = Web => job[t].kind \in CodeLogins
        /\ pc[t] \in {"lookup", "poolRem"} /\ job[t].kind \notin ByAccount
              => account \in Uids
        /\ pc[t] = "lookup" /\ job[t].kind \in NameLogins => named \in Uids
        /\ pc[t] \in OfSession => /\ job[t].kind \in {"refresh", "extend", "join"}
                                  /\ job[t].sid \in written

TInv == TypeOK /\ Counted /\ JobOK

----------------------------------------------------------------------------
(* Users: once the WeChat id has an account, nobody begins to make one.    *)
Makers == At({"incr", "create"})

UInv ==
    /\ account = NoUid => users = {}
    /\ Cardinality(users) + Cardinality(Makers) <= N
    /\ IsFiniteSet(users)

(* Coins: once the user is welcome, nobody begins to give.                 *)
Givers(u) == {t \in At({"welcome", "gift"}) : job[t].uid = u}

GInv ==
    /\ \A u \in Uids : /\ u \notin welcomed => given[u] = 0
                       /\ given[u] + Cardinality(Givers(u)) <= N
    /\ \A t \in At({"gift"}) : job[t].uid \in welcomed

(* Lock count: of the logins that will raise it the one that read last has *)
(* read a number that leaves room for its own present.                     *)
Raisers(u) ==
    {t \in At(KnowsSid \cup {"lock"}) :
        job[t].uid = u /\ job[t].kind \in FishLogins /\ job[t].seen < MaxLock}

\* The presents of k logins.
Presents(k) == DayLock * k

Room(u) ==
    LET k == Cardinality(Raisers(u))
    IN \/ lock[u] + Presents(k) <= MaxLock + Presents(N - 1)
       \/ \E t \in Raisers(u) :
             lock[u] + AddLock(job[t].seen) + Presents(k - 1)
                <= MaxLock + Presents(N - 1)

LInv == \A u \in Uids : Room(u)

(* Session ids: a login that has made one, and in those 10 milliseconds    *)
(* was the only one of its user to do so, is alone with it until the table *)
(* is written.                                                             *)
Fresh(t) ==
    pc[t] \in KnowsSid /\ job[t].sid \notin twice \cup {Web} =>
        /\ job[t].sid \notin written
        /\ \A s \in Threads \ {t} :
              pc[s] \in KnowsSid => job[s].sid # job[t].sid
        /\ pc[t] \notin {"sign", "table"} =>
              \A u \in Uids : /\ platform[u] # job[t].sid
                              /\ job[t].sid \notin replaced[u]

SInv ==
    /\ \A t \in Threads : Fresh(t)
    /\ \A t \in Threads : pc[t] \in KnowsSid => job[t].sid <= issued
    /\ \A s \in Sids : table[s] # "none" => s \in written
    /\ \A s \in written : s <= issued
    /\ \A u \in Uids : /\ platform[u] <= issued
                       /\ made[u] <= issued
                       /\ \A s \in replaced[u] : s <= issued
    /\ ReplacedStaysOut

(* The pool: whoever added the WeChat id and has not removed it has not    *)
(* been looked up yet.                                                     *)
Holds(t, n) ==
    /\ PoolName(t) = n
    /\ job[t].kind \in Logins
    /\ pc[t] \in LoginSteps \ {"poolCheck", "poolAdd"}
    /\ n = WeixinName => pc[t] \in {"reg", "poolRem", "poolDrop"}

PInv ==
    crashed \/ \A n \in pool : n \in stuck \/ \E t \in Threads : Holds(t, n)

IInv ==
    /\ TInv /\ UInv /\ GInv /\ LInv /\ SInv /\ PInv
    /\ SessionsExpire /\ CurrentWasWritten

----------------------------------------------------------------------------
(* Counting threads *)

LEMMA NType == N \in Nat /\ N >= 1
  BY SessionAssumption, FS_CardinalityType, FS_EmptySet DEF N

LEMMA SomeThreads ==
    ASSUME NEW S \in SUBSET Threads
    PROVE  /\ IsFiniteSet(S)
           /\ Cardinality(S) \in Nat
           /\ Cardinality(S) <= N
           /\ \A t \in S : Cardinality(S) >= 1
<1>1. IsFiniteSet(S) /\ Cardinality(S) <= N
  BY SessionAssumption, FS_Subset DEF N
<1>2. Cardinality(S) \in Nat
  BY <1>1, FS_CardinalityType
<1>3. S # {} => Cardinality(S) # 0
  BY <1>1, FS_EmptySet
<1>. QED
  BY <1>1, <1>2, <1>3

\* One thread more, one thread less.
LEMMA OneThread ==
    ASSUME NEW S \in SUBSET Threads, NEW t \in Threads
    PROVE  /\ t \notin S => Cardinality(S \cup {t}) = Cardinality(S) + 1
           /\ t \in S => Cardinality(S \ {t}) = Cardinality(S) - 1
           /\ Cardinality(S \ {t}) <= Cardinality(S)
<1>1. IsFiniteSet(S) /\ Cardinality(S) \in Nat
  BY SomeThreads
<1>2. t \notin S => Cardinality(S \cup {t}) = Cardinality(S) + 1
  BY <1>1, FS_AddElement
<1>3. Cardinality(S \ {t}) = IF t \in S THEN Cardinality(S) - 1 ELSE Cardinality(S)
  BY <1>1, FS_RemoveElement
<1>. QED
  BY <1>1, <1>2, <1>3

\* What a step of one thread does to a count: A before it, B after it.
LEMMA StepCount ==
    ASSUME NEW A, NEW B, NEW t \in Threads,
           A \in SUBSET Threads, B \in SUBSET Threads,
           \A s \in Threads : s # t => (s \in A <=> s \in B)
    PROVE  /\ Cardinality(A) \in Nat /\ Cardinality(B) \in Nat
           /\ Cardinality(A) <= N /\ Cardinality(B) <= N
           /\ Cardinality(B) <= Cardinality(A) + 1
           /\ t \notin B => Cardinality(B) <= Cardinality(A)
           /\ t \in A => Cardinality(B) <= Cardinality(A)
           /\ t \in A /\ t \notin B => Cardinality(B) = Cardinality(A) - 1
           /\ t \notin A /\ t \in B => Cardinality(B) = Cardinality(A) + 1
           /\ (t \in A <=> t \in B) => B = A
<1>1. /\ Cardinality(A) \in Nat /\ Cardinality(B) \in Nat
      /\ Cardinality(A) <= N /\ Cardinality(B) <= N
  BY SomeThreads
<1>2. CASE t \in A <=> t \in B
  <2>1. A = B
    BY <1>2
  <2>. QED
    BY <1>1, <1>2, <2>1
<1>3. CASE t \in A /\ t \notin B
  <2>1. B = A \ {t}
    BY <1>3
  <2>2. Cardinality(B) = Cardinality(A) - 1
    BY <1>3, <2>1, OneThread
  <2>. QED
    BY <1>1, <1>3, <2>2
<1>4. CASE t \notin A /\ t \in B
  <2>1. B = A \cup {t}
    BY <1>4
  <2>2. Cardinality(B) = Cardinality(A) + 1
    BY <1>4, <2>1, OneThread
  <2>. QED
    BY <1>1, <1>4, <2>2
<1>. QED
  BY <1>2, <1>3, <1>4

\* The same for the threads at one of the steps S.
LEMMA CountAt ==
    ASSUME NEW S, NEW t \in Threads,
           \A s \in Threads : s # t => pc'[s] = pc[s]
    PROVE  /\ Cardinality(At(S)) \in Nat /\ Cardinality(At(S)') \in Nat
           /\ Cardinality(At(S)') <= Cardinality(At(S)) + 1
           /\ pc'[t] \notin S => Cardinality(At(S)') <= Cardinality(At(S))
           /\ pc[t] \in S => Cardinality(At(S)') <= Cardinality(At(S))
           /\ pc[t] \in S /\ pc'[t] \notin S
                => Cardinality(At(S)') = Cardinality(At(S)) - 1
<1>1. At(S) \in SUBSET Threads /\ At(S)' \in SUBSET Threads
  BY DEF At
<1>2. \A s \in Threads : s # t => (s \in At(S) <=> s \in At(S)')
  BY DEF At
<1>3. (t \in At(S) <=> pc[t] \in S) /\ (t \in At(S)' <=> pc'[t] \in S)
  BY DEF At
<1>. HIDE DEF At
<1>. DEFINE A == At(S)
            B == At(S)'
<1>4. A \in SUBSET Threads /\ B \in SUBSET Threads
      /\ \A s \in Threads : s # t => (s \in A <=> s \in B)
  BY <1>1, <1>2
<1>. HIDE DEF A, B
<1>5. /\ Cardinality(A) \in Nat /\ Cardinality(B) \in Nat
      /\ Cardinality(B) <= Cardinality(A) + 1
      /\ t \notin B => Cardinality(B) <= Cardinality(A)
      /\ t \in A => Cardinality(B) <= Cardinality(A)
      /\ t \in A /\ t \notin B => Cardinality(B) = Cardinality(A) - 1
  BY <1>4, StepCount
<1>. QED
  BY <1>3, <1>5 DEF A, B

----------------------------------------------------------------------------
(* Types and counters *)

USE DEF Steps, LoginSteps, RegisterSteps, BeforeIncr, BeforeRead, KnowsUid,
        KnowsSid, Shared, OfSession, Logins, CodeLogins, AgainLogins,
        PassLogins, NameLogins, ByAccount, FishLogins, NoSid, Web, NoUid,
        WeixinName, RegName, NoName, gate, ids

LEMMA InitType == Init => TInv
<1> SUFFICES ASSUME Init PROVE TInv
  OBVIOUS
<1>1. TypeOK
  <2>1. NoJob \in Jobs
    BY DEF NoJob, Jobs, Kinds
  <2>2. /\ job \in [Threads -> Jobs] /\ pc \in [Threads -> Steps]
        /\ platform \in [Uids -> Sids \cup {NoSid}]
        /\ made \in [Uids -> (Sids \ {Web}) \cup {NoSid}]
        /\ owner \in [Sids -> Uids \cup {NoUid}]
        /\ table \in [Sids -> {"full", "stub", "none"}]
    BY <2>1 DEF Init
  <2>3. /\ lock \in [Uids -> Nat] /\ given \in [Uids -> Nat]
        /\ replaced \in [Uids -> SUBSET Sids]
        /\ users \subseteq Uids /\ ttl \subseteq Sids /\ welcomed \subseteq Uids
        /\ pool \subseteq Names /\ written \subseteq Sids
        /\ stuck \subseteq Names /\ twice \subseteq Sids
    BY DEF Init
  <2>4. /\ created \in 0..MaxOps /\ served \in 0..MaxOps /\ issued \in 0..MaxOps
        /\ account \in Uids \cup {NoUid} /\ named \in Uids \cup {NoUid}
    BY SessionAssumption DEF Init
  <2>5. crashed \in BOOLEAN
    BY Zenon DEF Init
  <2>. QED
    BY <2>2, <2>3, <2>4, <2>5, Zenon DEF TypeOK
<1>2. JobOK
  BY DEF Init, JobOK, NoJob
<1>3. Counted
  <2>1. At(BeforeIncr) = {} /\ At(BeforeRead) = {}
    BY DEF Init, At
  <2>. QED
    <3>1. Cardinality(At(BeforeIncr)) = 0 /\ Cardinality(At(BeforeRead)) = 0
      BY <2>1, FS_EmptySet
    <3>. HIDE DEF BeforeIncr, BeforeRead
    <3>. QED
      BY <3>1 DEF Init, Counted
<1>. QED
  BY <1>1, <1>2, <1>3 DEF TInv

\* A request that begins.
LEMMA BeginType ==
    ASSUME TInv, NEW t \in Threads, NEW step \in Steps, NEW k \in Kinds,
           NEW u \in Uids \cup {NoUid}, NEW s \in Sids \cup {NoSid},
           Begin(t, step, k, u, s),
           step \in LoginSteps => /\ step \in {"reg", "poolCheck", "poolAdd"}
                                  /\ k \in Logins,
           step \in RegisterSteps => step = "taken" /\ k = "register",
           step \in {"poolCheck", "poolAdd"} => k \in AgainLogins \cup ByAccount,
           k \in PassLogins => u \in Uids,
           step \in OfSession => /\ k \in {"refresh", "extend", "join"}
                                 /\ s \in written
    PROVE  TInv'
<1>1. TypeOK'
  BY SessionAssumption
  DEF TInv, TypeOK, Begin, people, sessions, Jobs, NoJob
<1>2. JobOK'
  BY DEF TInv, TypeOK, JobOK, Begin, people, sessions, NoJob
<1>3. Counted'
  <2>1. /\ Cardinality(At(BeforeIncr)') <= Cardinality(At(BeforeIncr)) + 1
        /\ Cardinality(At(BeforeRead)') <= Cardinality(At(BeforeRead)) + 1
        /\ Cardinality(At(BeforeIncr)) \in Nat
        /\ Cardinality(At(BeforeIncr)') \in Nat
        /\ Cardinality(At(BeforeRead)) \in Nat
        /\ Cardinality(At(BeforeRead)') \in Nat
    <3>1. pc \in [Threads -> Steps] /\ pc' = [pc EXCEPT ![t] = step]
      BY DEF TInv, TypeOK, Begin
    <3>2. \A S : /\ Cardinality(At(S)) \in Nat /\ Cardinality(At(S)') \in Nat
                 /\ Cardinality(At(S)') <= Cardinality(At(S)) + 1
      BY <3>1, CountAt
    <3>. QED
      BY <3>2
  <2>. QED
    BY <2>1, SessionAssumption
    DEF TInv, TypeOK, Counted, Begin, people, sessions
<1>. QED
  BY <1>1, <1>2, <1>3 DEF TInv

\* A step that makes neither a user nor a session id.
LEMMA CountKept ==
    ASSUME TInv, NEW t \in Threads, NEW p \in Steps, pc' = [pc EXCEPT ![t] = p],
           created' = created, issued' = issued, served' = served,
           p \in BeforeIncr => pc[t] \in BeforeIncr,
           p \in BeforeRead => pc[t] \in BeforeRead
    PROVE  Counted'
<1>1. pc \in [Threads -> Steps]
  BY DEF TInv, TypeOK
<1>2. /\ Cardinality(At(BeforeIncr)') <= Cardinality(At(BeforeIncr))
      /\ Cardinality(At(BeforeIncr)) \in Nat
      /\ Cardinality(At(BeforeIncr)') \in Nat
  BY <1>1, CountAt
<1>3. /\ Cardinality(At(BeforeRead)') <= Cardinality(At(BeforeRead))
      /\ Cardinality(At(BeforeRead)) \in Nat
      /\ Cardinality(At(BeforeRead)') \in Nat
  BY <1>1, CountAt
<1>. QED
  BY <1>2, <1>3, SessionAssumption DEF TInv, TypeOK, Counted

\* A request that ends.
LEMMA LeaveJob ==
    ASSUME TInv, NEW t \in Threads, Leave(t), written \subseteq written',
           account' = account, named' = named
    PROVE  /\ pc' \in [Threads -> Steps] /\ job' \in [Threads -> Jobs]
           /\ JobOK'
<1>1. NoJob \in Jobs
  BY DEF NoJob, Jobs, Kinds
<1>2. pc' \in [Threads -> Steps] /\ job' \in [Threads -> Jobs]
  BY <1>1 DEF TInv, TypeOK, Leave
<1>3. JobOK'
  BY DEF TInv, TypeOK, JobOK, Leave, NoJob
<1>. QED
  BY <1>2, <1>3

\* A login that goes on, and knows what it has to know.
LEMMA GotoJob ==
    ASSUME TInv, NEW t \in Threads, NEW step \in LoginSteps \cup RegisterSteps,
           Goto(t, step), pc[t] \in LoginSteps \cup RegisterSteps,
           written \subseteq written',
           step \in LoginSteps \ Shared => job[t].kind \in Logins,
           step \in RegisterSteps => job[t].kind = "register",
           step \in {"poolCheck", "poolAdd"} =>
              job[t].kind \in AgainLogins \cup ByAccount,
           account \in Uids => account' \in Uids,
           named \in Uids => named' \in Uids,
           step \in KnowsUid => job[t].uid \in Uids,
           step = "lock" => job[t].kind \in FishLogins,
           step = "poolRem" => job[t].kind \in AgainLogins,
           step \in {"incr", "create"} => job[t].kind \in CodeLogins,
           step \in KnowsSid => pc[t] \in KnowsSid,
           step \in {"lookup", "poolRem"} /\ job[t].kind \notin ByAccount
              => account' \in Uids,
           step = "lookup" /\ job[t].kind \in NameLogins => named' \in Uids
    PROVE  /\ pc' \in [Threads -> Steps] /\ job' \in [Threads -> Jobs]
           /\ JobOK'
<1>2. pc' \in [Threads -> Steps] /\ job' \in [Threads -> Jobs]
  BY DEF TInv, TypeOK, Goto
<1>3. JobOK'
  BY DEF TInv, TypeOK, JobOK, Goto
<1>. QED
  BY <1>2, <1>3

LEMMA PoolNames ==
    ASSUME NEW t \in Threads
    PROVE  /\ job[t].kind \in AgainLogins => PoolName(t) = WeixinName
           /\ job[t].kind \in PassLogins => PoolName(t) = job[t].uid
           /\ job[t].kind \in NameLogins \cup {"register"}
                => PoolName(t) = RegName
           /\ job[t].kind \notin AgainLogins \cup ByAccount \cup {"register"}
                => PoolName(t) = NoName
<1>. DEFINE k == job[t].kind
<1>1. /\ k \in AgainLogins => k \notin ByAccount \cup {"register"}
      /\ k \in PassLogins => k \notin AgainLogins \cup NameLogins \cup {"register"}
  OBVIOUS
<1>. QED
  BY <1>1 DEF PoolName

\* Where registration leads: a user is made for a code, and only while the
\* WeChat id has none; only a login with the WeChat id leaves the pool early.
LEMMA RegLeads ==
    ASSUME TInv, NEW t \in Threads, Reg(t)
    PROVE  \E step \in {"incr", "lookup", "poolRem", "poolDrop"} :
              /\ Goto(t, step)
              /\ step = "incr" => account = NoUid /\ job[t].kind \in CodeLogins
              /\ step = "poolRem" <=> /\ job[t].kind \in AgainLogins
                                      /\ step # "poolDrop"
              /\ step = "lookup" => /\ job[t].kind \notin ByAccount
                                          => account # NoUid
                                    /\ job[t].kind \in NameLogins
                                          => named # NoUid
              /\ step = "poolRem" => account # NoUid
<1>1. PICK step \in NextAfterReg(job[t].kind) : Goto(t, step)
  BY DEF Reg
<1>2. CASE job[t].kind \in CodeLogins
  <2>1. step \in {IF account = NoUid THEN "incr" ELSE "lookup", "poolDrop"}
    BY <1>1, <1>2 DEF NextAfterReg
  <2>. QED
    BY <1>1, <1>2, <2>1
<1>3. CASE job[t].kind \in AgainLogins
  <2>1. step \in (IF account = NoUid THEN {} ELSE {"poolRem"}) \cup {"poolDrop"}
    BY <1>1, <1>3 DEF NextAfterReg
  <2>. QED
    BY <1>1, <1>3, <2>1
<1>4. CASE job[t].kind \in PassLogins
  <2>1. step \in {"lookup", "poolDrop"}
    BY <1>1, <1>4 DEF NextAfterReg
  <2>. QED
    BY <1>1, <1>4, <2>1
<1>5. CASE job[t].kind \in NameLogins
  <2>1. step \in (IF named = NoUid THEN {} ELSE {"lookup"}) \cup {"poolDrop"}
    BY <1>1, <1>5 DEF NextAfterReg
  <2>. QED
    BY <1>1, <1>5, <2>1
<1>. QED
  BY <1>2, <1>3, <1>4, <1>5 DEF TInv, JobOK, Reg

\* What the login does to the pool when its session id has a table: nothing,
\* or it takes a name out, or its name stays for good.
LEMMA ExistsGate ==
    ASSUME NEW t \in Threads, Exists(t)
    PROVE  \/ pool' = pool /\ stuck' = stuck
           \/ /\ pool' = pool /\ stuck' = stuck \cup ({PoolName(t)} \cap pool)
              /\ job[t].kind \in {"fishPass", "fishName"}
           \/ /\ pool' = pool \ {AccountName(t)}
              /\ stuck' = stuck \ {AccountName(t)}
              /\ job[t].kind \in Logins \ FishLogins
<1>1. CASE table[job[t].sid] = "none"
  BY <1>1 DEF Exists
<1>2. CASE table[job[t].sid] # "none"
  <2>1. CASE job[t].kind \in {"fishPass", "fishName"}
    BY <1>2, <2>1 DEF Exists
  <2>2. CASE job[t].kind \in Logins \ FishLogins
    BY <1>2, <2>2 DEF Exists, TakeOut
  <2>3. CASE job[t].kind \notin {"fishPass", "fishName"} \cup (Logins \ FishLogins)
    BY <1>2, <2>3 DEF Exists
  <2>. QED
    BY <2>1, <2>2, <2>3
<1>. QED
  BY <1>1, <1>2

\* The user that a login finds; one by the account of a WeChat user has him.
LEMMA LookupFinds ==
    ASSUME TInv, NEW t \in Threads, Lookup(t)
    PROVE  \E u \in Uids : /\ job' = [job EXCEPT ![t].uid = u]
                           /\ job[t].kind \in PassLogins => u = job[t].uid
<1>1. pc[t] = "lookup"
  BY DEF Lookup
<1>2. CASE job[t].kind \in PassLogins
  BY <1>1, <1>2 DEF Lookup, TInv, JobOK
<1>3. CASE job[t].kind \in NameLogins
  BY <1>1, <1>3 DEF Lookup, TInv, JobOK
<1>4. CASE job[t].kind \notin ByAccount
  BY <1>1, <1>4 DEF Lookup, TInv, JobOK
<1>. QED
  BY <1>2, <1>3, <1>4

LEMMA LoginType ==
    ASSUME TInv, NEW t \in Threads, LoginStep(t)
    PROVE  TInv'
<1>1. CASE PoolCheck(t)
  <2>1. /\ pc' \in [Threads -> Steps] /\ job' \in [Threads -> Jobs]
        /\ JobOK'
    BY <1>1, LeaveJob, GotoJob
    DEF PoolCheck, Check, TInv, JobOK, people, sessions
  <2>2. TypeOK'
    BY <1>1, <2>1
    DEF PoolCheck, Check, TInv, TypeOK, people, sessions
  <2>3. Counted'
    BY <1>1, CountKept DEF PoolCheck, Check, Leave, Goto, people
  <2>. QED
    BY <2>1, <2>2, <2>3 DEF TInv
<1>2. CASE PoolAdd(t)
  <2>1. /\ pc' \in [Threads -> Steps] /\ job' \in [Threads -> Jobs]
        /\ JobOK'
    BY <1>2, GotoJob
    DEF PoolAdd, TInv, JobOK, people, sessions
  <2>2. TypeOK'
    BY <1>2, <2>1, PoolNames
    DEF PoolAdd, TInv, TypeOK, JobOK, Names, people, sessions
  <2>3. Counted'
    BY <1>2, CountKept DEF PoolAdd, Goto, people
  <2>. QED
    BY <2>1, <2>2, <2>3 DEF TInv
<1>3. CASE Reg(t)
  <2>0. PICK step \in {"incr", "lookup", "poolRem", "poolDrop"} :
           /\ Goto(t, step) /\ (step = "incr" => job[t].kind \in CodeLogins)
           /\ step \in {"lookup", "poolRem"} /\ job[t].kind \notin ByAccount
                 => account # NoUid
           /\ step = "lookup" /\ job[t].kind \in NameLogins => named # NoUid
           /\ job[t].kind \in Logins
           /\ step = "poolRem" => job[t].kind \in AgainLogins
    BY <1>3, RegLeads DEF Reg, TInv, JobOK
  <2>1. /\ pc' \in [Threads -> Steps] /\ job' \in [Threads -> Jobs]
        /\ JobOK'
    <3>1. /\ account # NoUid => account \in Uids
          /\ named # NoUid => named \in Uids
      BY DEF TInv, TypeOK
    <3>2. /\ account' = account /\ named' = named /\ written' = written
          /\ pc[t] = "reg"
      BY <1>3 DEF Reg, people, sessions
    <3>. QED
      BY <2>0, <3>1, <3>2, GotoJob
  <2>2. TypeOK'
    BY <1>3, <2>1
    DEF Reg, TInv, TypeOK, people, sessions
  <2>3. Counted'
    BY <1>3, <2>0, CountKept DEF Reg, Goto, people
  <2>. QED
    BY <2>1, <2>2, <2>3 DEF TInv
<1>4. CASE Create(t)
  <2>1. /\ pc' \in [Threads -> Steps] /\ job' \in [Threads -> Jobs]
        /\ JobOK'
    BY <1>4, GotoJob
    DEF Create, TInv, JobOK, sessions
  <2>2. TypeOK'
    BY <1>4, <2>1
    DEF Create, TInv, TypeOK, JobOK, sessions
  <2>3. Counted'
    BY <1>4, CountKept DEF Create, Goto
  <2>. QED
    BY <2>1, <2>2, <2>3 DEF TInv
<1>5. CASE PoolRem(t)
  <2>1. /\ pc' \in [Threads -> Steps] /\ job' \in [Threads -> Jobs]
        /\ JobOK'
    BY <1>5, GotoJob
    DEF PoolRem, TInv, JobOK, people, sessions
  <2>2. TypeOK'
    BY <1>5, <2>1
    DEF PoolRem, TakeOut, TInv, TypeOK, people, sessions
  <2>3. Counted'
    BY <1>5, CountKept DEF PoolRem, Goto, people
  <2>. QED
    BY <2>1, <2>2, <2>3 DEF TInv
<1>6. CASE PoolDrop(t)
  <2>1. /\ pc' \in [Threads -> Steps] /\ job' \in [Threads -> Jobs]
        /\ JobOK'
    BY <1>6, LeaveJob
    DEF PoolDrop, people, sessions
  <2>2. TypeOK'
    BY <1>6, <2>1
    DEF PoolDrop, TakeOut, TInv, TypeOK, people, sessions
  <2>3. Counted'
    BY <1>6, CountKept DEF PoolDrop, Leave, people
  <2>. QED
    BY <2>1, <2>2, <2>3 DEF TInv
<1>7. CASE First(t)
  <2>1. /\ pc' \in [Threads -> Steps] /\ job' \in [Threads -> Jobs]
        /\ JobOK'
    BY <1>7, GotoJob
    DEF First, TInv, JobOK, people, sessions
  <2>2. TypeOK'
    BY <1>7, <2>1
    DEF First, TInv, TypeOK, people, sessions
  <2>3. Counted'
    BY <1>7, CountKept DEF First, Goto, people
  <2>. QED
    BY <2>1, <2>2, <2>3 DEF TInv
<1>8. CASE Welcome(t)
  <2>1. /\ pc' \in [Threads -> Steps] /\ job' \in [Threads -> Jobs]
        /\ JobOK'
    BY <1>8, GotoJob
    DEF Welcome, TInv, JobOK, sessions
  <2>2. TypeOK'
    BY <1>8, <2>1
    DEF Welcome, WelcomedAfter, TInv, TypeOK, JobOK, sessions
  <2>3. Counted'
    BY <1>8, CountKept DEF Welcome, Goto
  <2>. QED
    BY <2>1, <2>2, <2>3 DEF TInv
<1>9. CASE Gift(t)
  <2>1. /\ pc' \in [Threads -> Steps] /\ job' \in [Threads -> Jobs]
        /\ JobOK'
    BY <1>9, GotoJob
    DEF Gift, TInv, JobOK, sessions
  <2>2. TypeOK'
    BY <1>9, <2>1
    DEF Gift, TInv, TypeOK, JobOK, sessions
  <2>3. Counted'
    BY <1>9, CountKept DEF Gift, Goto
  <2>. QED
    BY <2>1, <2>2, <2>3 DEF TInv
<1>10. CASE Exists(t)
  <2>1. /\ pc' \in [Threads -> Steps] /\ job' \in [Threads -> Jobs]
        /\ JobOK'
    BY <1>10, LeaveJob, GotoJob
    DEF Exists, TInv, JobOK, people, sessions
  <2>2. pool' \subseteq Names /\ stuck' \subseteq Names
    BY <1>10, ExistsGate DEF TInv, TypeOK
  <2>3. TypeOK'
    BY <1>10, <2>1, <2>2
    DEF Exists, TInv, TypeOK, people, sessions
  <2>4. Counted'
    BY <1>10, CountKept DEF Exists, Leave, Goto, people
  <2>. QED
    BY <2>1, <2>3, <2>4 DEF TInv
<1>11. CASE SetPlatform(t)
  <2>1. /\ pc' \in [Threads -> Steps] /\ job' \in [Threads -> Jobs]
        /\ JobOK'
    BY <1>11, GotoJob
    DEF SetPlatform, TInv, JobOK, people
  <2>2. TypeOK'
    BY <1>11, <2>1
    DEF SetPlatform, TInv, TypeOK, JobOK, people
  <2>3. Counted'
    BY <1>11, CountKept DEF SetPlatform, Goto, people
  <2>. QED
    BY <2>1, <2>2, <2>3 DEF TInv
<1>12. CASE WriteTable(t)
  <2>1. /\ pc' \in [Threads -> Steps] /\ job' \in [Threads -> Jobs]
        /\ JobOK'
    BY <1>12, GotoJob, LeaveJob
    DEF WriteTable, TInv, JobOK, people, TableOf
  <2>2. TypeOK'
    BY <1>12, <2>1
    DEF WriteTable, TableOf, TtlAfterLogin, TInv, TypeOK, JobOK, people
  <2>3. Counted'
    BY <1>12, CountKept DEF WriteTable, Goto, Leave, people
  <2>. QED
    BY <2>1, <2>2, <2>3 DEF TInv
<1>13. CASE GiveLock(t)
  <2>0. AddLock(job[t].seen) \in Nat
    BY SessionAssumption DEF AddLock, Least, TInv, TypeOK, Jobs
  <2>1. /\ pc' \in [Threads -> Steps] /\ job' \in [Threads -> Jobs]
        /\ JobOK'
    BY <1>13, GotoJob
    DEF GiveLock, TInv, JobOK, sessions
  <2>2. TypeOK'
    BY <1>13, <2>1, <2>0
    DEF GiveLock, TInv, TypeOK, JobOK, sessions
  <2>3. Counted'
    BY <1>13, CountKept DEF GiveLock, Goto
  <2>. QED
    BY <2>1, <2>2, <2>3 DEF TInv
<1>14. CASE PoolEnd(t)
  <2>1. /\ pc' \in [Threads -> Steps] /\ job' \in [Threads -> Jobs]
        /\ JobOK'
    BY <1>14, LeaveJob
    DEF PoolEnd, people, sessions
  <2>2. TypeOK'
    BY <1>14, <2>1
    DEF PoolEnd, PoolAfter, TakeOut, TInv, TypeOK, people, sessions
  <2>3. Counted'
    BY <1>14, CountKept DEF PoolEnd, Leave, people
  <2>. QED
    BY <2>1, <2>2, <2>3 DEF TInv
<1>15. CASE Incr(t)
  <2>1. pc \in [Threads -> Steps] /\ pc' = [pc EXCEPT ![t] = "create"]
    BY <1>15 DEF Incr, TInv, TypeOK
  <2>2. /\ Cardinality(At(BeforeIncr)') = Cardinality(At(BeforeIncr)) - 1
        /\ Cardinality(At(BeforeIncr)) \in Nat
        /\ Cardinality(At(BeforeIncr)') \in Nat
    BY <1>15, <2>1, CountAt DEF Incr
  <2>3. /\ Cardinality(At(BeforeRead)') <= Cardinality(At(BeforeRead))
        /\ Cardinality(At(BeforeRead)) \in Nat
        /\ Cardinality(At(BeforeRead)') \in Nat
    BY <1>15, <2>1, CountAt DEF Incr
  <2>4. Counted' /\ created + 1 <= MaxOps
    BY <1>15, <2>2, <2>3, SessionAssumption
    DEF Incr, TInv, TypeOK, Counted
  <2>5. created + 1 \in Uids /\ created + 1 \in 0..MaxOps
    BY <2>4, SessionAssumption DEF Uids, TInv, TypeOK
  <2>6. TypeOK'
    BY <1>15, <2>5 DEF Incr, TInv, TypeOK, Jobs, sessions
  <2>7. JobOK'
    BY <1>15, <2>5 DEF Incr, TInv, TypeOK, JobOK, Jobs, sessions
  <2>. QED
    BY <2>4, <2>6, <2>7 DEF TInv
<1>16. CASE Lookup(t)
  <2>0. PICK u \in Uids : job' = [job EXCEPT ![t].uid = u]
    BY <1>16, LookupFinds
  <2>1. TypeOK'
    BY <1>16, <2>0 DEF Lookup, TInv, TypeOK, Jobs, people, sessions
  <2>2. JobOK'
    BY <1>16, <2>0 DEF Lookup, TInv, TypeOK, JobOK, Jobs, people, sessions
  <2>3. Counted'
    BY <1>16, CountKept DEF Lookup, people
  <2>. QED
    BY <2>1, <2>2, <2>3 DEF TInv
<1>17. CASE Read(t)
  <2>1. pc \in [Threads -> Steps]
    BY DEF TInv, TypeOK
  <2>2. CASE pc' = [pc EXCEPT ![t] = "exists"]
    <3>0. /\ pc[t] = "read" /\ pc \in [Threads -> Steps]
          /\ pc' = [pc EXCEPT ![t] = "exists"]
      BY <1>17, <2>1, <2>2 DEF Read
    <3>1. /\ Cardinality(At(BeforeRead)') = Cardinality(At(BeforeRead)) - 1
          /\ Cardinality(At(BeforeRead)) \in Nat
          /\ Cardinality(At(BeforeRead)') \in Nat
      BY <3>0, CountAt
    <3>2. /\ Cardinality(At(BeforeIncr)') <= Cardinality(At(BeforeIncr))
          /\ Cardinality(At(BeforeIncr)) \in Nat
          /\ Cardinality(At(BeforeIncr)') \in Nat
      BY <3>0, CountAt
    <3>3. /\ issued + 1 <= MaxOps /\ issued \in Nat
          /\ issued' = issued \/ issued' = issued + 1
          /\ served' = served /\ created' = created
      <4>1. /\ issued' = issued \/ issued' = issued + 1
            /\ served' = served /\ created' = created
        BY <1>17 DEF Read, people
      <4>2. issued + Cardinality(At(BeforeRead)) <= served
            /\ served \in 0..MaxOps /\ issued \in 0..MaxOps
        BY DEF TInv, TypeOK, Counted
      <4>3. Cardinality(At(BeforeRead)) >= 1
        BY <3>1
      <4>. QED
        BY <3>1, <4>1, <4>2, <4>3, SessionAssumption
    <3>4. 0 \in Sids /\ issued + 1 \in Sids /\ issued' \in 0..MaxOps
      BY <3>3, SessionAssumption DEF Sids
    <3>5. lock[job[t].uid] \in Nat /\ job[t].uid \in Uids
      BY <1>17 DEF Read, TInv, TypeOK, JobOK
    <3>6. FreshSid(job[t].uid) \in Sids \ {Web}
      BY <3>3, <3>4, <3>5 DEF FreshSid, TInv, TypeOK
    <3>7. job' \in [Threads -> Jobs]
      BY <1>17, <3>4, <3>5, <3>6 DEF Read, Goto, TInv, TypeOK, Jobs
    <3>8. made' \in [Uids -> (Sids \ {Web}) \cup {NoSid}] /\ twice' \subseteq Sids
      <4>1. made[job[t].uid] = NoSid \/ made[job[t].uid] \in Sids
        BY <3>5 DEF TInv, TypeOK
      <4>2. /\ made' = made \/ made' = [made EXCEPT ![job[t].uid] = FreshSid(job[t].uid)]
            /\ \/ twice' = twice
               \/ made[job[t].uid] # NoSid /\ twice' = twice \cup {made[job[t].uid]}
        BY <1>17 DEF Read
      <4>. QED
        BY <3>6, <4>1, <4>2 DEF TInv, TypeOK
    <3>9. TypeOK'
      BY <1>17, <2>2, <3>4, <3>7, <3>8
      DEF Read, TInv, TypeOK, people, sessions
    <3>10. JobOK'
      BY <1>17, <2>2, <3>4, <3>6
      DEF Read, Goto, TInv, TypeOK, JobOK, Jobs, people, sessions
    <3>11. Counted'
      BY <3>1, <3>2, <3>3, SessionAssumption DEF TInv, TypeOK, Counted
    <3>. QED
      BY <3>9, <3>10, <3>11 DEF TInv
  <2>3. CASE /\ \/ Goto(t, "poolDrop")
                \/ Goto(t, "poolEnd") /\ job[t].kind \in Logins
             /\ UNCHANGED ids
    <3>1. /\ pc' \in [Threads -> Steps] /\ job' \in [Threads -> Jobs]
          /\ JobOK'
      BY <1>17, <2>3, GotoJob DEF Read, TInv, JobOK, people, sessions
    <3>2. TypeOK'
      BY <1>17, <2>3, <3>1 DEF Read, TInv, TypeOK, people, sessions
    <3>3. Counted'
      BY <1>17, <2>3, CountKept DEF Read, Goto, people
    <3>. QED
      BY <3>1, <3>2, <3>3 DEF TInv
  <2>. QED
    BY <1>17, <2>2, <2>3 DEF Read
<1>. QED
  BY <1>1, <1>2, <1>3, <1>4, <1>5, <1>6, <1>7, <1>8, <1>9, <1>10, <1>11, <1>12,
     <1>13, <1>14, <1>15, <1>16, <1>17
  DEF LoginStep

\* A number for a new user, whichever way he is made.
LEMMA NumberType ==
    ASSUME TInv, NEW t \in Threads, Number(t)
    PROVE  TInv'
<1>1. /\ pc \in [Threads -> Steps] /\ pc' = [pc EXCEPT ![t] = "enrol"]
      /\ pc[t] = "number"
  BY DEF Number, TInv, TypeOK
<1>2. /\ Cardinality(At(BeforeIncr)') = Cardinality(At(BeforeIncr)) - 1
      /\ Cardinality(At(BeforeIncr)) \in Nat
      /\ Cardinality(At(BeforeIncr)') \in Nat
  BY <1>1, CountAt
<1>3. /\ Cardinality(At(BeforeRead)') <= Cardinality(At(BeforeRead))
      /\ Cardinality(At(BeforeRead)) \in Nat
      /\ Cardinality(At(BeforeRead)') \in Nat
  BY <1>1, CountAt
<1>4. Counted' /\ created + 1 <= MaxOps
  BY <1>2, <1>3, SessionAssumption DEF Number, TInv, TypeOK, Counted
<1>5. created + 1 \in Uids /\ created + 1 \in 0..MaxOps
  BY <1>4, SessionAssumption DEF Uids, TInv, TypeOK
<1>6. TypeOK'
  BY <1>5 DEF Number, TInv, TypeOK, Jobs, sessions
<1>7. JobOK'
  BY <1>1, <1>5 DEF Number, TInv, TypeOK, JobOK, Jobs, sessions
<1>. QED
  BY <1>4, <1>6, <1>7 DEF TInv

LEMMA RegisterType ==
    ASSUME TInv, NEW t \in Threads, RegisterStep(t)
    PROVE  TInv'
<1>1. CASE Taken(t)
  <2>1. /\ pc' \in [Threads -> Steps] /\ job' \in [Threads -> Jobs]
        /\ JobOK'
    BY <1>1, LeaveJob, GotoJob
    DEF Taken, Check, TInv, JobOK, people, sessions
  <2>2. TypeOK'
    BY <1>1, <2>1 DEF Taken, Check, TInv, TypeOK, people, sessions
  <2>3. Counted'
    BY <1>1, CountKept DEF Taken, Check, Leave, Goto, people
  <2>. QED
    BY <2>1, <2>2, <2>3 DEF TInv
<1>2. CASE Enrol(t)
  <2>1. /\ pc' \in [Threads -> Steps] /\ job' \in [Threads -> Jobs]
        /\ JobOK'
    BY <1>2, GotoJob DEF Enrol, TInv, JobOK, sessions
  <2>2. TypeOK'
    BY <1>2, <2>1 DEF Enrol, TInv, TypeOK, JobOK, sessions
  <2>3. Counted'
    BY <1>2, CountKept DEF Enrol, Goto
  <2>. QED
    BY <2>1, <2>2, <2>3 DEF TInv
<1>3. CASE Sign(t)
  <2>1. /\ pc' \in [Threads -> Steps] /\ job' \in [Threads -> Jobs]
        /\ JobOK'
    BY <1>3, GotoJob DEF Sign, TInv, JobOK, people, sessions
  <2>2. TypeOK'
    BY <1>3, <2>1 DEF Sign, TInv, TypeOK, Names, people, sessions
  <2>3. Counted'
    BY <1>3, CountKept DEF Sign, Goto, people
  <2>. QED
    BY <2>1, <2>2, <2>3 DEF TInv
<1>. QED
  BY <1>1, <1>2, <1>3, NumberType DEF RegisterStep

\* A request with a session, that goes on.
LEMMA RequestGoto ==
    ASSUME TInv, NEW t \in Threads, NEW step \in {"alive", "extend", "stamp"},
           Goto(t, step), pc[t] \in OfSession, account' = account,
           named' = named, written' = written
    PROVE  /\ pc' \in [Threads -> Steps] /\ job' \in [Threads -> Jobs]
           /\ JobOK'
<1>1. pc' \in [Threads -> Steps] /\ job' \in [Threads -> Jobs]
  BY DEF TInv, TypeOK, Goto
<1>2. JobOK'
  BY DEF TInv, TypeOK, JobOK, Goto
<1>. QED
  BY <1>1, <1>2

LEMMA RequestType ==
    ASSUME TInv, NEW t \in Threads, RequestStep(t) \/ Crash(t)
    PROVE  TInv'
<1>1. CASE Info(t)
  <2>1. TypeOK'
    BY <1>1 DEF Info, TInv, TypeOK, JobOK, Jobs, people, sessions
  <2>2. JobOK'
    BY <1>1 DEF Info, TInv, TypeOK, JobOK, Jobs, people, sessions
  <2>3. Counted'
    BY <1>1, CountKept DEF Info, people
  <2>. QED
    BY <2>1, <2>2, <2>3 DEF TInv
<1>2. CASE Verify(t)
  <2>1. /\ pc' \in [Threads -> Steps] /\ job' \in [Threads -> Jobs]
        /\ JobOK'
    BY <1>2, LeaveJob, RequestGoto DEF Verify, Check, people, sessions
  <2>2. TypeOK'
    BY <1>2, <2>1 DEF Verify, Check, TInv, TypeOK, people, sessions
  <2>3. Counted'
    BY <1>2, CountKept DEF Verify, Check, Leave, Goto, people
  <2>. QED
    BY <2>1, <2>2, <2>3 DEF TInv
<1>3. CASE Alive(t)
  <2>1. /\ pc' \in [Threads -> Steps] /\ job' \in [Threads -> Jobs]
        /\ JobOK'
    BY <1>3, LeaveJob, RequestGoto DEF Alive, Check, people, sessions
  <2>2. TypeOK'
    BY <1>3, <2>1 DEF Alive, Check, TInv, TypeOK, people, sessions
  <2>3. Counted'
    BY <1>3, CountKept DEF Alive, Check, Leave, Goto, people
  <2>. QED
    BY <2>1, <2>2, <2>3 DEF TInv
<1>4. CASE Extend(t)
  <2>1. /\ pc' \in [Threads -> Steps] /\ job' \in [Threads -> Jobs]
        /\ JobOK'
    BY <1>4, LeaveJob DEF Extend, people
  <2>2. TypeOK'
    BY <1>4, <2>1 DEF Extend, TInv, TypeOK, JobOK, people
  <2>3. Counted'
    BY <1>4, CountKept DEF Extend, Leave, people
  <2>. QED
    BY <2>1, <2>2, <2>3 DEF TInv
<1>5. CASE Stamp(t)
  <2>1. /\ pc' \in [Threads -> Steps] /\ job' \in [Threads -> Jobs]
        /\ JobOK'
    BY <1>5, LeaveJob DEF Stamp, people
  <2>2. TypeOK'
    BY <1>5, <2>1 DEF Stamp, TInv, TypeOK, people
  <2>3. Counted'
    BY <1>5, CountKept DEF Stamp, Leave, people
  <2>. QED
    BY <2>1, <2>2, <2>3 DEF TInv
<1>6. CASE Crash(t)
  <2>1. /\ pc' \in [Threads -> Steps] /\ job' \in [Threads -> Jobs]
        /\ JobOK'
    BY <1>6, LeaveJob DEF Crash, people, sessions
  <2>2. TypeOK'
    <3>1. crashed' \in BOOLEAN
      BY <1>6, Zenon DEF Crash
    <3>. QED
      BY <1>6, <2>1, <3>1 DEF Crash, TInv, TypeOK, people, sessions
  <2>3. Counted'
    BY <1>6, CountKept DEF Crash, Leave, people
  <2>. QED
    BY <2>1, <2>2, <2>3 DEF TInv
<1>. QED
  BY <1>1, <1>2, <1>3, <1>4, <1>5, <1>6 DEF RequestStep

LEMMA ExpireType ==
    ASSUME TInv, NEW s \in Sids, Expire(s)
    PROVE  TInv'
<1>1. TypeOK'
  BY DEF Expire, TInv, TypeOK, people
<1>2. JobOK'
  BY DEF Expire, TInv, JobOK, people
<1>3. Counted'
  BY DEF Expire, TInv, Counted, At, people
<1>. QED
  BY <1>1, <1>2, <1>3 DEF TInv

LEMMA TickType ==
    ASSUME TInv, Tick
    PROVE  TInv'
<1>1. TypeOK'
  BY DEF Tick, TInv, TypeOK, people, sessions
<1>2. JobOK'
  BY DEF Tick, TInv, JobOK, people, sessions
<1>3. Counted'
  BY DEF Tick, TInv, Counted, At, people
<1>. QED
  BY <1>1, <1>2, <1>3 DEF TInv

LEMMA NextType == TInv /\ [Next]_vars => TInv'
<1> SUFFICES ASSUME TInv, [Next]_vars PROVE TInv'
  OBVIOUS
<1>1. ASSUME NEW t \in Threads, NEW k \in Logins, Login(t, k)
      PROVE  TInv'
  <2>1. k \in Kinds /\ NoSid \in Sids \cup {NoSid}
    BY DEF Kinds
  <2>2. PICK u \in IF k \in PassLogins THEN users ELSE {NoUid} :
           Begin(t, CASE k \in CodeLogins -> "reg"
                      [] k \in {"hallAgain", "hallPass", "hallName"} -> "poolCheck"
                      [] k \in {"fishAgain", "fishPass", "fishName"} -> "poolAdd",
                 k, u, NoSid)
    BY <1>1 DEF Login
  <2>3. u \in Uids \cup {NoUid} /\ (k \in PassLogins => u \in Uids)
    BY <2>2 DEF TInv, TypeOK
  <2>4. CASE k \in CodeLogins
    <3>1. Begin(t, "reg", k, u, NoSid)
      BY <2>2, <2>4
    <3>. QED
      BY <2>1, <2>3, <2>4, <3>1, BeginType
  <2>5. CASE k \in {"hallAgain", "hallPass", "hallName"}
    <3>1. Begin(t, "poolCheck", k, u, NoSid)
      BY <2>2, <2>5
    <3>. QED
      BY <2>1, <2>3, <2>5, <3>1, BeginType
  <2>6. CASE k \in {"fishAgain", "fishPass", "fishName"}
    <3>1. Begin(t, "poolAdd", k, u, NoSid)
      BY <2>2, <2>6
    <3>. QED
      BY <2>1, <2>3, <2>6, <3>1, BeginType
  <2>. QED
    BY <2>4, <2>5, <2>6
<1>2. ASSUME NEW t \in Threads, NEW s \in Sids,
             Refresh(t, s) \/ JoinRoom(t, s) \/ ExtendSession(t, s)
      PROVE  TInv'
  <2>1. {"refresh", "extend", "join"} \subseteq Kinds
    BY DEF Kinds
  <2>2. CASE Refresh(t, s)
    BY <2>1, <2>2, BeginType DEF Refresh
  <2>3. CASE JoinRoom(t, s)
    BY <2>1, <2>3, BeginType DEF JoinRoom
  <2>4. CASE ExtendSession(t, s)
    BY <2>1, <2>4, BeginType DEF ExtendSession
  <2>. QED
    BY <1>2, <2>2, <2>3, <2>4
<1>3. CASE UNCHANGED vars
  <2>1. TypeOK' /\ JobOK'
    BY <1>3 DEF TInv, TypeOK, JobOK, vars
  <2>2. Counted'
    BY <1>3 DEF TInv, Counted, At, vars
  <2>. QED
    BY <2>1, <2>2 DEF TInv
<1>4. ASSUME NEW t \in Threads, Register(t) PROVE TInv'
  <2>1. "register" \in Kinds
    BY DEF Kinds
  <2>. QED
    BY <1>4, <2>1, BeginType DEF Register
<1>. QED
  BY <1>1, <1>2, <1>3, <1>4, LoginType, RegisterType, RequestType, ExpireType,
     TickType
  DEF Next

\* Every request keeps its state in its types: the user and session ids stay
\* below the bound although they are counted without one, because each request
\* makes at most one of either.
THEOREM TypeCorrect == Spec => []TypeOK
<1>1. Init => TInv
  BY InitType
<1>2. TInv /\ [Next]_vars => TInv'
  BY NextType
<1>3. TInv => TypeOK
  BY DEF TInv
<1>. QED
  BY <1>1, <1>2, <1>3, PTL DEF Spec

----------------------------------------------------------------------------
(* What a step can be *)

Begins(t) ==
    \/ \E step \in {"reg", "poolCheck", "poolAdd"},
          k \in Logins, u \in Uids \cup {NoUid} :
             Begin(t, step, k, u, NoSid)
    \/ Begin(t, "taken", "register", NoUid, NoSid)
    \/ \E step \in {"info", "alive"}, k \in {"refresh", "extend", "join"},
          s \in written :
             Begin(t, step, k, NoUid, s)

LEMMA StepCases ==
    ASSUME TInv, [Next]_vars
    PROVE  \/ UNCHANGED vars
           \/ \E s \in Sids : Expire(s)
           \/ Tick
           \/ \E t \in Threads : \/ Begins(t) \/ LoginStep(t) \/ RegisterStep(t)
                                 \/ RequestStep(t) \/ Crash(t)
<1>1. ASSUME NEW t \in Threads, NEW k \in Logins, Login(t, k)
      PROVE  Begins(t)
  <2>2. PICK u \in IF k \in PassLogins THEN users ELSE {NoUid} :
           Begin(t, CASE k \in CodeLogins -> "reg"
                      [] k \in {"hallAgain", "hallPass", "hallName"} -> "poolCheck"
                      [] k \in {"fishAgain", "fishPass", "fishName"} -> "poolAdd",
                 k, u, NoSid)
    BY <1>1 DEF Login
  <2>3. u \in Uids \cup {NoUid}
    BY <2>2 DEF TInv, TypeOK
  <2>4. CASE k \in CodeLogins
    <3>1. Begin(t, "reg", k, u, NoSid)
      BY <2>2, <2>4
    <3>. QED
      BY <2>3, <3>1 DEF Begins
  <2>5. CASE k \in {"hallAgain", "hallPass", "hallName"}
    <3>1. Begin(t, "poolCheck", k, u, NoSid)
      BY <2>2, <2>5
    <3>. QED
      BY <2>3, <3>1 DEF Begins
  <2>6. CASE k \in {"fishAgain", "fishPass", "fishName"}
    <3>1. Begin(t, "poolAdd", k, u, NoSid)
      BY <2>2, <2>6
    <3>. QED
      BY <2>3, <3>1 DEF Begins
  <2>. QED
    BY <2>4, <2>5, <2>6
<1>2. ASSUME NEW t \in Threads, NEW s \in Sids,
             Refresh(t, s) \/ JoinRoom(t, s) \/ ExtendSession(t, s)
      PROVE  Begins(t)
  BY <1>2 DEF Refresh, JoinRoom, ExtendSession, Begins
<1>3. ASSUME NEW t \in Threads, Register(t) PROVE Begins(t)
  BY <1>3 DEF Register, Begins
<1>. QED
  BY <1>1, <1>2, <1>3 DEF Next

----------------------------------------------------------------------------
(* The users of one person *)

\* A step that enters neither of the steps that make a user.
LEMMA UsersKept ==
    ASSUME UInv, users' = users, account' = account,
           \A t \in Threads : pc'[t] \in {"incr", "create"}
                                 => pc[t] \in {"incr", "create"}
    PROVE  UInv'
<1>1. Makers \in SUBSET Threads /\ Makers' \in SUBSET Threads
      /\ Makers' \subseteq Makers
  BY DEF Makers, At
<1>2. IsFiniteSet(Makers)
  BY <1>1, SomeThreads
<1>3. Cardinality(Makers') <= Cardinality(Makers)
  BY <1>1, <1>2, FS_Subset
<1>4. Cardinality(Makers') \in Nat /\ Cardinality(Makers) \in Nat
  BY <1>1, SomeThreads
<1>5. Cardinality(users) \in Nat
  BY FS_CardinalityType DEF UInv
<1>. QED
  BY <1>3, <1>4, <1>5, NType DEF UInv

LEMMA UsersStep ==
    ASSUME TInv, UInv, NEW t \in Threads,
           \/ Begins(t) \/ LoginStep(t) \/ RegisterStep(t) \/ RequestStep(t)
           \/ Crash(t)
    PROVE  UInv'
<1>. USE DEF TInv, TypeOK
<1>1. CASE Reg(t)
  <2>1. PICK step \in {"incr", "lookup", "poolRem", "poolDrop"} :
            Goto(t, step) /\ (step = "incr" => account = NoUid)
    BY <1>1, RegLeads
  <2>2. CASE step = "incr"
    <3>1. account = NoUid /\ account' = NoUid /\ users = {} /\ users' = {}
      BY <1>1, <2>1, <2>2 DEF Reg, people, UInv
    <3>2. Makers' \in SUBSET Threads
      BY DEF Makers, At
    <3>3. Cardinality(Makers') <= N /\ Cardinality(Makers') \in Nat
      BY <3>2, SomeThreads
    <3>4. Cardinality(users') = 0 /\ IsFiniteSet(users')
      BY <3>1, FS_EmptySet
    <3>. QED
      BY <3>1, <3>3, <3>4, NType DEF UInv
  <2>3. CASE step # "incr"
    BY <1>1, <2>1, <2>3, UsersKept DEF Reg, Goto, people
  <2>. QED
    BY <2>2, <2>3
<1>2. CASE Create(t)
  <2>1. users' = users \cup {job[t].uid} /\ account' \in Uids
    BY <1>2 DEF Create, JobOK
  <2>2. Cardinality(users') <= Cardinality(users) + 1 /\ IsFiniteSet(users')
    <3>1. IsFiniteSet(users) /\ Cardinality(users) \in Nat
      BY FS_CardinalityType DEF UInv
    <3>2. /\ IsFiniteSet(users \cup {job[t].uid})
          /\ \/ Cardinality(users \cup {job[t].uid}) = Cardinality(users)
             \/ Cardinality(users \cup {job[t].uid}) = Cardinality(users) + 1
      BY <3>1, FS_AddElement
    <3>. QED
      BY <2>1, <3>1, <3>2
  <2>3. Cardinality(users) \in Nat /\ Cardinality(users') \in Nat
    BY <2>2, FS_CardinalityType DEF UInv
  <2>4. pc[t] = "create" /\ pc'[t] = "lookup"
        /\ \A s \in Threads : s # t => pc'[s] = pc[s]
    BY <1>2 DEF Create, Goto
  <2>5. /\ Cardinality(Makers') = Cardinality(Makers) - 1
        /\ Cardinality(Makers) \in Nat /\ Cardinality(Makers') \in Nat
    BY <2>4, CountAt DEF Makers
  <2>6. account' # NoUid
    BY <2>1, SessionAssumption DEF Uids
  <2>. QED
    BY <2>2, <2>3, <2>5, <2>6, NType DEF UInv
<1>3. CASE Begins(t)
  <2>1. /\ users' = users /\ account' = account
        /\ \A s \in Threads : pc'[s] \in {"incr", "create"} => pc'[s] = pc[s]
    BY <1>3 DEF Begins, Begin, people
  <2>. QED
    BY <2>1, UsersKept
<1>4. CASE PoolCheck(t) \/ PoolAdd(t) \/ PoolRem(t) \/ PoolDrop(t) \/ PoolEnd(t)
  BY <1>4, UsersKept
  DEF PoolCheck, PoolAdd, PoolRem, PoolDrop, PoolEnd, Check, Goto, Leave, people
<1>5. CASE Incr(t)
  BY <1>5, UsersKept DEF Incr
<1>6. CASE Lookup(t) \/ First(t) \/ Welcome(t) \/ Gift(t)
  BY <1>6, UsersKept DEF Lookup, First, Welcome, Gift, Goto, people
<1>7. CASE Read(t) \/ Exists(t) \/ SetPlatform(t) \/ WriteTable(t) \/ GiveLock(t)
  BY <1>7, UsersKept
  DEF Read, Exists, SetPlatform, WriteTable, GiveLock, Check, Goto, Leave, people
<1>8. CASE RequestStep(t)
  BY <1>8, UsersKept
  DEF RequestStep, Info, Verify, Alive, Extend, Stamp, Check, Goto, Leave, people
<1>9. CASE Crash(t)
  BY <1>9, UsersKept DEF Crash, Leave, people
<1>10. CASE RegisterStep(t)
  BY <1>10, UsersKept
  DEF RegisterStep, Taken, Number, Enrol, Sign, Check, Goto, Leave, people
<1>. QED
  BY <1>1, <1>2, <1>3, <1>4, <1>5, <1>6, <1>7, <1>8, <1>9, <1>10 DEF LoginStep

LEMMA UsersNext == TInv /\ UInv /\ [Next]_vars => UInv'
<1> SUFFICES ASSUME TInv, UInv, [Next]_vars PROVE UInv'
  OBVIOUS
<1>1. CASE UNCHANGED vars
  BY <1>1, UsersKept DEF vars
<1>2. ASSUME NEW s \in Sids, Expire(s) PROVE UInv'
  BY <1>2, UsersKept DEF Expire, people
<1>3. CASE Tick
  BY <1>3, UsersKept DEF Tick, people
<1>. QED
  BY <1>1, <1>2, <1>3, StepCases, UsersStep

----------------------------------------------------------------------------
(* The first coins *)

\* A step that enters neither of the steps that give the coins.
LEMMA GiversKept ==
    ASSUME TInv, GInv, given' = given, welcomed' = welcomed,
           \A t \in Threads : pc'[t] \in {"welcome", "gift"} =>
                                 pc'[t] = pc[t] /\ job'[t].uid = job[t].uid
    PROVE  GInv'
<1>1. ASSUME NEW u \in Uids
      PROVE  /\ u \notin welcomed' => given'[u] = 0
             /\ given'[u] + Cardinality(Givers(u)') <= N
  <2>1. Givers(u) \in SUBSET Threads /\ Givers(u)' \in SUBSET Threads
        /\ Givers(u)' \subseteq Givers(u)
    BY DEF Givers, At
  <2>2. IsFiniteSet(Givers(u)) /\ Cardinality(Givers(u)) \in Nat
        /\ Cardinality(Givers(u)') \in Nat
    BY <2>1, SomeThreads
  <2>3. Cardinality(Givers(u)') <= Cardinality(Givers(u))
    BY <2>1, <2>2, FS_Subset
  <2>. QED
    BY <2>2, <2>3, NType DEF GInv, TInv, TypeOK
<1>2. \A t \in At({"gift"})' : job'[t].uid \in welcomed'
  BY DEF GInv, At
<1>. QED
  BY <1>1, <1>2 DEF GInv

LEMMA GiversStep ==
    ASSUME TInv, GInv, NEW t \in Threads,
           \/ Begins(t) \/ LoginStep(t) \/ RegisterStep(t) \/ RequestStep(t)
           \/ Crash(t)
    PROVE  GInv'
<1>. USE DEF TInv, TypeOK
<1>1. CASE First(t)
  <2>1. CASE job[t].uid \in welcomed
    BY <1>1, <2>1, GiversKept DEF First, Goto, people
  <2>2. CASE job[t].uid \notin welcomed
    <3>1. /\ given' = given /\ welcomed' = welcomed /\ job' = job
          /\ pc' = [pc EXCEPT ![t] = "welcome"]
      BY <1>1, <2>2 DEF First, Goto, people
    <3>2. ASSUME NEW u \in Uids
          PROVE  given'[u] + Cardinality(Givers(u)') <= N
      <4>1. Givers(u)' \in SUBSET Threads
        BY DEF Givers, At
      <4>2. Cardinality(Givers(u)') \in Nat /\ Cardinality(Givers(u)') <= N
        BY <4>1, SomeThreads
      <4>3. CASE u = job[t].uid
        <5>1. given'[u] = 0
          BY <2>2, <3>1, <4>3 DEF GInv
        <5>. QED
          BY <4>2, <5>1, NType
      <4>4. CASE u # job[t].uid
        <5>1. Givers(u)' = Givers(u)
          BY <1>1, <3>1, <4>4 DEF Givers, At, First
        <5>. QED
          BY <3>1, <5>1 DEF GInv
      <4>. QED
        BY <4>3, <4>4
    <3>3. \A s \in At({"gift"})' : job'[s].uid \in welcomed'
      BY <3>1 DEF GInv, At
    <3>. QED
      BY <3>1, <3>2, <3>3 DEF GInv
  <2>. QED
    BY <2>1, <2>2
<1>2. CASE Welcome(t)
  <2>1. /\ given' = given /\ welcomed' = welcomed \cup {job[t].uid}
        /\ job' = job /\ pc[t] = "welcome" /\ pc' = [pc EXCEPT ![t] = "gift"]
    BY <1>2 DEF Welcome, WelcomedAfter, Goto
  <2>2. \A u \in Uids : Givers(u)' = Givers(u)
    BY <2>1 DEF Givers, At
  <2>3. \A s \in At({"gift"})' : job'[s].uid \in welcomed'
    BY <2>1 DEF GInv, At
  <2>. QED
    BY <2>1, <2>2, <2>3 DEF GInv
<1>3. CASE Gift(t)
  <2>1. /\ given' = [given EXCEPT ![job[t].uid] = @ + 1] /\ welcomed' = welcomed
        /\ job' = job /\ pc[t] = "gift" /\ pc' = [pc EXCEPT ![t] = "read"]
        /\ job[t].uid \in welcomed
    BY <1>3 DEF Gift, Goto, GInv, At
  <2>2. ASSUME NEW u \in Uids
        PROVE  given'[u] + Cardinality(Givers(u)') <= N
    <3>1. Givers(u) \in SUBSET Threads /\ Givers(u)' \in SUBSET Threads
          /\ \A s \in Threads : s # t => (s \in Givers(u) <=> s \in Givers(u)')
      BY <2>1 DEF Givers, At
    <3>2. CASE u = job[t].uid
      <4>1. t \in Givers(u) /\ t \notin Givers(u)'
        BY <2>1, <3>2 DEF Givers, At
      <4>2. Cardinality(Givers(u)') = Cardinality(Givers(u)) - 1
            /\ Cardinality(Givers(u)) \in Nat
        BY <3>1, <4>1, StepCount
      <4>3. given'[u] = given[u] + 1 /\ given[u] \in Nat
        BY <2>1, <3>2
      <4>4. given[u] + Cardinality(Givers(u)) <= N
        BY DEF GInv
      <4>. QED
        BY <4>2, <4>3, <4>4, NType
    <3>3. CASE u # job[t].uid
      <4>1. Givers(u)' = Givers(u) /\ given'[u] = given[u]
        BY <2>1, <3>3 DEF Givers, At
      <4>. QED
        BY <4>1 DEF GInv
    <3>. QED
      BY <3>2, <3>3
  <2>3. \A s \in At({"gift"})' : job'[s].uid \in welcomed'
    BY <2>1 DEF GInv, At
  <2>4. \A u \in Uids : u \notin welcomed' => given'[u] = 0
    BY <2>1 DEF GInv
  <2>. QED
    BY <2>2, <2>3, <2>4 DEF GInv
<1>4. CASE Begins(t)
  <2>1. /\ given' = given /\ welcomed' = welcomed
        /\ \A s \in Threads : pc'[s] \in {"welcome", "gift"} =>
              pc'[s] = pc[s] /\ job'[s].uid = job[s].uid
    BY <1>4 DEF Begins, Begin, people
  <2>. QED
    BY <2>1, GiversKept
<1>5. CASE PoolCheck(t) \/ PoolAdd(t) \/ PoolRem(t) \/ PoolDrop(t) \/ PoolEnd(t)
  BY <1>5, GiversKept
  DEF PoolCheck, PoolAdd, PoolRem, PoolDrop, PoolEnd, Check, Goto, Leave, people
<1>6. CASE Reg(t)
  <2>1. PICK step \in {"incr", "lookup", "poolRem", "poolDrop"} : Goto(t, step)
    BY <1>6, RegLeads
  <2>. QED
    BY <1>6, <2>1, GiversKept DEF Reg, Goto, people
<1>7. CASE Incr(t) \/ Create(t) \/ Lookup(t)
  BY <1>7, GiversKept DEF Incr, Create, Lookup, Goto, people
<1>8. CASE Read(t) \/ Exists(t) \/ SetPlatform(t) \/ WriteTable(t) \/ GiveLock(t)
  BY <1>8, GiversKept
  DEF Read, Exists, SetPlatform, WriteTable, GiveLock, Check, Goto, Leave, people
<1>9. CASE RequestStep(t)
  BY <1>9, GiversKept
  DEF RequestStep, Info, Verify, Alive, Extend, Stamp, Check, Goto, Leave, people
<1>10. CASE Crash(t)
  BY <1>10, GiversKept DEF Crash, Leave, people
<1>11. CASE RegisterStep(t)
  BY <1>11, GiversKept
  DEF RegisterStep, Taken, Number, Enrol, Sign, Check, Goto, Leave, people
<1>. QED
  BY <1>1, <1>2, <1>3, <1>4, <1>5, <1>6, <1>7, <1>8, <1>9, <1>10, <1>11
  DEF LoginStep

LEMMA GiversNext == TInv /\ GInv /\ [Next]_vars => GInv'
<1> SUFFICES ASSUME TInv, GInv, [Next]_vars PROVE GInv'
  OBVIOUS
<1>1. CASE UNCHANGED vars
  BY <1>1, GiversKept DEF vars
<1>2. ASSUME NEW s \in Sids, Expire(s) PROVE GInv'
  BY <1>2, GiversKept DEF Expire, people
<1>3. CASE Tick
  BY <1>3, GiversKept DEF Tick, people
<1>. QED
  BY <1>1, <1>2, <1>3, StepCases, GiversStep

----------------------------------------------------------------------------
(* The daily present *)

LEMMA PresentsStep ==
    ASSUME NEW k \in Int
    PROVE  /\ Presents(k) \in Int
           /\ Presents(k) = Presents(k - 1) + DayLock
           /\ k >= 0 => Presents(k) >= 0
  BY SessionAssumption DEF Presents

LEMMA PresentsMonotone ==
    ASSUME NEW j \in Int, NEW k \in Int, j <= k
    PROVE  Presents(j) <= Presents(k)
<1>1. PICK d \in Nat : k = j + d
  <2>. k - j \in Nat /\ k = j + (k - j)
    OBVIOUS
  <2>. QED
    OBVIOUS
<1>2. Presents(k) = Presents(j) + DayLock * d
  BY <1>1, SessionAssumption DEF Presents
<1>3. DayLock * d \in Nat
  BY SessionAssumption
<1>. QED
  BY <1>2, <1>3, PresentsStep

\* A present is no more than a day's, and none for whoever has read the limit;
\* it does not pass the limit of the number that was read.
LEMMA OnePresent ==
    ASSUME NEW n \in Nat
    PROVE  /\ AddLock(n) \in Nat /\ AddLock(n) <= DayLock
           /\ n >= MaxLock => AddLock(n) = 0
           /\ n < MaxLock => n + AddLock(n) <= MaxLock
  BY SessionAssumption DEF AddLock, Least

LEMMA RaisersType ==
    ASSUME NEW u
    PROVE  Raisers(u) \in SUBSET Threads /\ Raisers(u)' \in SUBSET Threads
  BY DEF Raisers, At

\* A login that raises the number, or gives up, was room for in any case.
LEMMA RoomLess ==
    ASSUME TInv, NEW u \in Uids, Room(u), NEW t \in Raisers(u),
           Raisers(u)' = Raisers(u) \ {t},
           \A s \in Raisers(u) \ {t} : job'[s].seen = job[s].seen,
           lock'[u] \in Nat,
           lock'[u] <= lock[u] + AddLock(job[t].seen)
    PROVE  Room(u)'
<1>. DEFINE k == Cardinality(Raisers(u))
            bound == MaxLock + Presents(N - 1)
<1>1. t \in Threads /\ k \in Nat /\ k >= 1
  BY RaisersType, SomeThreads
<1>2. Cardinality(Raisers(u)') = k - 1
  BY <1>1, RaisersType, OneThread
<1>3. /\ Presents(k) = Presents(k - 1) + DayLock
      /\ Presents(k - 1) = Presents(k - 2) + DayLock
      /\ Presents(k) \in Int /\ Presents(k - 1) \in Int /\ Presents(k - 2) \in Int
      /\ DayLock \in Nat
  <2>1. k - 1 \in Int /\ k - 2 \in Int /\ (k - 1) - 1 = k - 2
    BY <1>1
  <2>2. Presents(k - 1) = Presents((k - 1) - 1) + DayLock
    BY <2>1, PresentsStep
  <2>3. Presents(k) = Presents(k - 1) + DayLock
    BY <1>1, PresentsStep
  <2>. QED
    BY <1>1, <2>1, <2>2, <2>3, PresentsStep, SessionAssumption
<1>4. bound \in Int
  BY NType, PresentsStep, SessionAssumption
<1>5. \A s \in Raisers(u) : AddLock(job[s].seen) \in Nat
                            /\ AddLock(job[s].seen) <= DayLock
  <2>1. \A s \in Raisers(u) : job[s].seen \in Nat
    BY DEF Raisers, At, TInv, TypeOK, Jobs
  <2>. QED
    BY <2>1, OnePresent
<1>6. lock[u] \in Nat
  BY DEF TInv, TypeOK
<1>. HIDE DEF bound
<1>7. CASE lock[u] + Presents(k) <= bound
  <2>1. lock'[u] + Presents(k - 1) <= bound
    BY <1>3, <1>4, <1>5, <1>6, <1>7
  <2>. QED
    BY <1>2, <2>1 DEF Room, bound
<1>8. ASSUME NEW w \in Raisers(u),
             lock[u] + AddLock(job[w].seen) + Presents(k - 1) <= bound
      PROVE  Room(u)'
  <2>1. CASE w = t
    <3>1. lock'[u] + Presents(k - 1) <= bound
      BY <1>3, <1>4, <1>5, <1>6, <1>8, <2>1
    <3>. QED
      BY <1>2, <3>1 DEF Room, bound
  <2>2. CASE w # t
    <3>1. w \in Raisers(u)' /\ job'[w].seen = job[w].seen
      BY <2>2
    <3>2. lock'[u] + AddLock(job[w].seen) + Presents(k - 2) <= bound
      BY <1>3, <1>4, <1>5, <1>6, <1>8
    <3>3. (k - 1) - 1 = k - 2
      BY <1>1
    <3>4. lock'[u] + AddLock(job'[w].seen) + Presents(Cardinality(Raisers(u)') - 1)
            <= bound
      BY <1>2, <3>1, <3>2, <3>3
    <3>. QED
      BY <3>1, <3>4 DEF Room, bound
  <2>. QED
    BY <2>1, <2>2
<1>. QED
  BY <1>7, <1>8 DEF Room, bound

LEMMA RoomSame ==
    ASSUME NEW u \in Uids, Room(u), Raisers(u)' = Raisers(u),
           \A s \in Raisers(u) : job'[s].seen = job[s].seen,
           lock'[u] = lock[u]
    PROVE  Room(u)'
  BY DEF Room

\* A login that has just read the number has left room for its present.
LEMMA RoomMore ==
    ASSUME TInv, NEW u \in Uids, NEW t \in Raisers(u)', t \in Threads,
           lock'[u] = lock[u], job'[t].seen = lock[u], lock[u] < MaxLock
    PROVE  Room(u)'
<1>. DEFINE k == Cardinality(Raisers(u)')
<1>1. k \in Nat /\ k <= N /\ k >= 1
  BY RaisersType, SomeThreads
<1>2. lock[u] \in Nat
  BY DEF TInv, TypeOK
<1>3. lock[u] + AddLock(lock[u]) <= MaxLock /\ AddLock(lock[u]) \in Nat
  BY <1>2, OnePresent
<1>4. k - 1 \in Int /\ N - 1 \in Int /\ k - 1 <= N - 1
  BY <1>1, NType
<1>5. Presents(k - 1) <= Presents(N - 1)
  BY <1>4, PresentsMonotone
<1>6. Presents(k - 1) \in Int /\ Presents(N - 1) \in Int
  BY <1>4, PresentsStep
<1>7. lock[u] + AddLock(lock[u]) + Presents(k - 1) <= MaxLock + Presents(N - 1)
  BY <1>2, <1>3, <1>5, <1>6, SessionAssumption
<1>8. lock'[u] + AddLock(job'[t].seen) + Presents(k - 1)
        <= MaxLock + Presents(N - 1)
  BY <1>7
<1>. QED
  BY <1>8 DEF Room

\* A step that neither reads the lock count nor raises it.
LEMMA LockKept ==
    ASSUME TInv, LInv, NEW t \in Threads, lock' = lock,
           \A s \in Threads : s # t => pc'[s] = pc[s] /\ job'[s] = job[s],
           pc'[t] \in KnowsSid \cup {"lock"} =>
              pc[t] \in KnowsSid \cup {"lock"} /\ job'[t] = job[t]
    PROVE  LInv'
<1> SUFFICES ASSUME NEW u \in Uids PROVE Room(u)'
  BY DEF LInv
<1>1. Room(u) /\ lock'[u] = lock[u] /\ lock[u] \in Nat
  BY DEF LInv, TInv, TypeOK
<1>2. Raisers(u)' \subseteq Raisers(u)
      /\ \A s \in Threads : s # t => (s \in Raisers(u) <=> s \in Raisers(u)')
  BY DEF Raisers, At
<1>3. \A s \in Raisers(u)' : job'[s].seen = job[s].seen
  BY DEF Raisers, At
<1>4. Raisers(u) \in SUBSET Threads
  BY RaisersType
<1>5. CASE t \in Raisers(u) \ Raisers(u)'
  <2>1. Raisers(u)' = Raisers(u) \ {t}
    BY <1>2, <1>4, <1>5
  <2>2. job[t].seen \in Nat
    BY DEF TInv, TypeOK, Jobs
  <2>3. lock'[u] <= lock[u] + AddLock(job[t].seen)
    BY <1>1, <2>2, OnePresent
  <2>. QED
    BY <1>1, <1>3, <1>5, <2>1, <2>3, RoomLess
<1>6. CASE t \notin Raisers(u) \ Raisers(u)'
  <2>1. Raisers(u)' = Raisers(u)
    BY <1>2, <1>4, <1>6
  <2>. QED
    BY <1>1, <1>3, <2>1, RoomSame
<1>. QED
  BY <1>5, <1>6

\* The login reads the number with which it will reckon its present.
LEMMA LockRead ==
    ASSUME TInv, LInv, NEW t \in Threads, Read(t)
    PROVE  LInv'
<1>. USE DEF TInv, TypeOK
<1>1. CASE \/ Goto(t, "poolDrop") \/ Goto(t, "poolEnd")
  BY <1>1, LockKept DEF Read, Goto, people
<1>2. CASE /\ pc' = [pc EXCEPT ![t] = "exists"]
           /\ \E s : job' = [job EXCEPT ![t] =
                 [kind |-> job[t].kind, uid |-> job[t].uid, sid |-> s,
                  seen |-> IF job[t].kind \in FishLogins
                             THEN lock[job[t].uid] ELSE 0]]
  <2> SUFFICES ASSUME NEW u \in Uids PROVE Room(u)'
    BY DEF LInv
  <2>1. /\ pc[t] = "read" /\ lock' = lock /\ lock[u] \in Nat /\ Room(u)
        /\ \A s \in Threads : s # t => pc'[s] = pc[s] /\ job'[s] = job[s]
        /\ job'[t].kind = job[t].kind /\ job'[t].uid = job[t].uid
        /\ job[t].kind \in FishLogins => job'[t].seen = lock[job[t].uid]
    BY <1>2 DEF Read, people, LInv
  <2>2. \A s \in Threads : s # t => (s \in Raisers(u) <=> s \in Raisers(u)')
    BY <2>1 DEF Raisers, At
  <2>3. t \notin Raisers(u)
    BY <2>1 DEF Raisers, At
  <2>4. Raisers(u) \in SUBSET Threads /\ Raisers(u)' \in SUBSET Threads
    BY RaisersType
  <2>5. CASE t \in Raisers(u)'
    <3>1. job'[t].seen = lock[u] /\ lock[u] < MaxLock
      BY <2>1, <2>5 DEF Raisers, At
    <3>. QED
      BY <2>1, <2>5, <3>1, RoomMore
  <2>6. CASE t \notin Raisers(u)'
    <3>1. Raisers(u)' = Raisers(u)
      <4>1. \A s \in Threads : s \in Raisers(u)' <=> s \in Raisers(u)
        BY <2>2, <2>3, <2>6
      <4>. QED
        BY <2>4, <4>1
    <3>2. \A s \in Raisers(u) : job'[s].seen = job[s].seen
      BY <2>1, <2>3, <2>4
    <3>. QED
      BY <2>1, <3>1, <3>2, RoomSame
  <2>. QED
    BY <2>5, <2>6
<1>. QED
  BY <1>1, <1>2 DEF Read

\* The login gives what it has reckoned.
LEMMA LockGive ==
    ASSUME TInv, LInv, NEW t \in Threads, GiveLock(t)
    PROVE  LInv'
<1>. USE DEF TInv, TypeOK
<1> SUFFICES ASSUME NEW u \in Uids PROVE Room(u)'
  BY DEF LInv
<1>1. /\ pc[t] = "lock" /\ pc' = [pc EXCEPT ![t] = "poolEnd"] /\ job' = job
      /\ job[t].kind \in FishLogins /\ job[t].uid \in Uids /\ Room(u)
      /\ job[t].seen \in Nat /\ lock[u] \in Nat
  BY DEF GiveLock, Goto, JobOK, Jobs, LInv
<1>2. AddLock(job[t].seen) \in Nat
      /\ (job[t].seen >= MaxLock => AddLock(job[t].seen) = 0)
  BY <1>1, OnePresent
<1>3. CASE t \in Raisers(u)
  <2>1. Raisers(u)' = Raisers(u) \ {t}
    BY <1>1 DEF Raisers, At
  <2>2. lock'[u] \in Nat /\ lock'[u] <= lock[u] + AddLock(job[t].seen)
    BY <1>1, <1>2 DEF GiveLock
  <2>. QED
    BY <1>1, <1>3, <2>1, <2>2, RoomLess
<1>4. CASE t \notin Raisers(u)
  <2>1. Raisers(u)' = Raisers(u)
    BY <1>1, <1>4 DEF Raisers, At
  <2>2. job[t].uid # u \/ job[t].seen >= MaxLock
    BY <1>1, <1>4, SessionAssumption DEF Raisers, At
  <2>3. lock'[u] = lock[u]
    BY <1>1, <1>2, <2>2 DEF GiveLock
  <2>. QED
    BY <1>1, <2>1, <2>3, RoomSame
<1>. QED
  BY <1>3, <1>4

LEMMA LockStep ==
    ASSUME TInv, LInv, NEW t \in Threads,
           \/ Begins(t) \/ LoginStep(t) \/ RegisterStep(t) \/ RequestStep(t)
           \/ Crash(t)
    PROVE  LInv'
<1>. USE DEF TInv, TypeOK
<1>1. CASE Begins(t)
  <2>1. /\ lock' = lock /\ pc'[t] \notin KnowsSid \cup {"lock"}
        /\ \A s \in Threads : s # t => pc'[s] = pc[s] /\ job'[s] = job[s]
    BY <1>1 DEF Begins, Begin, people
  <2>. QED
    BY <2>1, LockKept
<1>2. CASE PoolCheck(t) \/ PoolAdd(t) \/ PoolRem(t) \/ PoolDrop(t) \/ PoolEnd(t)
  BY <1>2, LockKept
  DEF PoolCheck, PoolAdd, PoolRem, PoolDrop, PoolEnd, Check, Goto, Leave, people
<1>3. CASE Reg(t)
  <2>1. PICK step \in {"incr", "lookup", "poolRem", "poolDrop"} : Goto(t, step)
    BY <1>3, RegLeads
  <2>. QED
    BY <1>3, <2>1, LockKept DEF Reg, Goto, people
<1>4. CASE Incr(t) \/ Create(t) \/ Lookup(t) \/ First(t) \/ Welcome(t) \/ Gift(t)
  BY <1>4, LockKept DEF Incr, Create, Lookup, First, Welcome, Gift, Goto, people
<1>5. CASE Exists(t) \/ SetPlatform(t) \/ WriteTable(t)
  BY <1>5, LockKept
  DEF Exists, SetPlatform, WriteTable, Check, Goto, Leave, people
<1>6. CASE RequestStep(t)
  BY <1>6, LockKept
  DEF RequestStep, Info, Verify, Alive, Extend, Stamp, Check, Goto, Leave, people
<1>7. CASE Crash(t)
  BY <1>7, LockKept DEF Crash, Leave, people
<1>8. CASE RegisterStep(t)
  BY <1>8, LockKept
  DEF RegisterStep, Taken, Number, Enrol, Sign, Check, Goto, Leave, people
<1>. QED
  BY <1>1, <1>2, <1>3, <1>4, <1>5, <1>6, <1>7, <1>8, LockRead, LockGive
  DEF LoginStep

LEMMA LockNext == TInv /\ LInv /\ [Next]_vars => LInv'
<1> SUFFICES ASSUME TInv, LInv, [Next]_vars PROVE LInv'
  OBVIOUS
<1>1. CASE lock' = lock /\ pc' = pc /\ job' = job
  BY <1>1, LockKept, SessionAssumption
<1>2. CASE UNCHANGED vars
  BY <1>1, <1>2 DEF vars
<1>3. ASSUME NEW s \in Sids, Expire(s) PROVE LInv'
  BY <1>1, <1>3 DEF Expire, people
<1>4. CASE Tick
  BY <1>1, <1>4 DEF Tick, people
<1>. QED
  BY <1>2, <1>3, <1>4, StepCases, LockStep

----------------------------------------------------------------------------
(* Session ids *)

\* A step that makes, sets and writes no session id.
LEMMA SidsKept ==
    ASSUME SInv, UNCHANGED <<platform, table, written, replaced, issued, made,
                             twice>>,
           \A t \in Threads : pc'[t] \in KnowsSid =>
              /\ pc[t] \in KnowsSid
              /\ pc'[t] \notin {"sign", "table"} => pc[t] \notin {"sign", "table"}
              /\ job'[t].sid = job[t].sid
    PROVE  SInv'
<1>1. \A t \in Threads : Fresh(t)'
  BY DEF SInv, Fresh
<1>. QED
  BY <1>1 DEF SInv, ReplacedStaysOut

\* The session id s of the user u, when it is made: the one of all web logins,
\* a new one, or the one that he made in these 10 milliseconds.
Made(u, s) ==
    \/ s = Web /\ UNCHANGED ids
    \/ /\ s = issued + 1 /\ issued' = issued + 1
       /\ made' = [made EXCEPT ![u] = s] /\ twice' = twice
    \/ /\ s = made[u] /\ issued' = issued
       /\ made' = [made EXCEPT ![u] = s] /\ twice' = twice \cup {s}

LEMMA SidsMade ==
    ASSUME TInv, TInv', SInv, NEW t \in Threads, Read(t)
    PROVE  SInv'
<1>. USE DEF TInv, TypeOK
<1>1. CASE \/ Goto(t, "poolDrop") /\ UNCHANGED ids
           \/ Goto(t, "poolEnd") /\ UNCHANGED ids
  BY <1>1, SidsKept DEF Read, Goto, sessions
<1>2. CASE /\ pc' = [pc EXCEPT ![t] = "exists"]
           /\ \E s, n : /\ job' = [job EXCEPT ![t] =
                             [kind |-> job[t].kind, uid |-> job[t].uid,
                              sid |-> s, seen |-> n]]
                        /\ Made(job[t].uid, s)
  <2>1. PICK s \in Sids :
           /\ \A r \in Threads : r # t => pc'[r] = pc[r] /\ job'[r] = job[r]
           /\ pc'[t] = "exists" /\ job'[t].sid = s
           /\ Made(job[t].uid, s)
    BY <1>2 DEF JobOK
  <2>2. /\ UNCHANGED <<platform, table, written, replaced>> /\ pc[t] = "read"
        /\ issued \in Nat /\ job[t].uid \in Uids
    BY <1>2, SessionAssumption DEF Read, sessions, JobOK
  <2>3. /\ issued' \in Nat /\ issued <= issued' /\ s <= issued'
        /\ twice \subseteq twice'
        /\ s \in twice' \cup {Web} \/ s > issued
        /\ \A u \in Uids : made'[u] <= issued'
    <3>0. /\ \A u \in Uids : made[u] \in Int /\ made[u] <= issued
          /\ made \in [Uids -> (Sids \ {Web}) \cup {NoSid}]
      <4>1. \A x \in (Sids \ {Web}) \cup {NoSid} : x \in Int
        BY SessionAssumption DEF Sids
      <4>2. made \in [Uids -> (Sids \ {Web}) \cup {NoSid}]
        OBVIOUS
      <4>3. \A u \in Uids : made[u] <= issued
        BY Zenon DEF SInv
      <4>. QED
        BY <4>1, <4>2, <4>3
    <3>. HIDE DEF TInv, TypeOK
    <3>1. CASE s = Web /\ UNCHANGED ids
      BY <2>2, <3>0, <3>1
    <3>2. CASE /\ s = issued + 1 /\ issued' = issued + 1
               /\ made' = [made EXCEPT ![job[t].uid] = s] /\ twice' = twice
      BY <2>2, <3>0, <3>2
    <3>3. CASE /\ s = made[job[t].uid] /\ issued' = issued
               /\ made' = [made EXCEPT ![job[t].uid] = s]
               /\ twice' = twice \cup {s}
      BY <2>2, <3>0, <3>3
    <3>. QED
      BY <2>1, <3>1, <3>2, <3>3 DEF Made
  <2>4. \A x \in written : x \in Int /\ x <= issued
    BY SessionAssumption DEF Sids, SInv
  <2>5. \A u \in Uids : /\ platform[u] \in Int /\ platform[u] <= issued
                        /\ \A x \in replaced[u] : x \in Int /\ x <= issued
    <3>1. \A x \in Sids \cup {NoSid} : x \in Int
      BY SessionAssumption DEF Sids
    <3>2. \A u \in Uids : platform[u] \in Int /\ \A x \in replaced[u] : x \in Int
      BY <3>1
    <3>. QED
      BY <3>2, Zenon DEF SInv
  <2>6. \A r \in Threads : pc[r] \in KnowsSid => /\ job[r].sid \in Int
                                                 /\ job[r].sid <= issued
    <3>1. \A x \in Sids : x \in Int
      BY SessionAssumption DEF Sids
    <3>2. \A r \in Threads : pc[r] \in KnowsSid => job[r].sid \in Int
      BY <3>1 DEF JobOK
    <3>. QED
      BY <3>2 DEF SInv
  <2>7. s \in Int
    BY <2>1, SessionAssumption DEF Sids
  <2>8. s > issued => /\ s \notin written
                      /\ \A u \in Uids : platform[u] # s /\ s \notin replaced[u]
                      /\ \A r \in Threads : pc[r] \in KnowsSid => job[r].sid # s
    BY <2>2, <2>4, <2>5, <2>6, <2>7
  <2>9. Fresh(t)'
    BY <2>1, <2>2, <2>3, <2>8 DEF Fresh
  <2>10. ASSUME NEW r \in Threads \ {t} PROVE Fresh(r)'
    <3>1. Fresh(r) /\ pc'[r] = pc[r] /\ job'[r] = job[r]
      BY <2>1 DEF SInv
    <3>2. pc[r] \in KnowsSid /\ job[r].sid \notin twice' \cup {Web} =>
             job[r].sid # s
      BY <2>3, <2>8
    <3>. QED
      BY <2>1, <2>2, <2>3, <3>1, <3>2 DEF Fresh
  <2>11. /\ \A x \in written' : x <= issued'
         /\ \A u \in Uids : /\ platform'[u] <= issued'
                            /\ \A x \in replaced'[u] : x <= issued'
    BY <2>2, <2>3, <2>4, <2>5
  <2>12. \A r \in Threads : pc'[r] \in KnowsSid => job'[r].sid <= issued'
    BY <2>1, <2>2, <2>3, <2>6
  <2>13. ReplacedStaysOut'
    BY <2>2, <2>3 DEF SInv, ReplacedStaysOut
  <2>14. \A x \in Sids : table'[x] # "none" => x \in written'
    BY <2>2 DEF SInv
  <2>15. \A r \in Threads : Fresh(r)'
    BY <2>9, <2>10
  <2>. QED
    BY <2>3, <2>11, <2>12, <2>13, <2>14, <2>15 DEF SInv
<1>. QED
  BY <1>1, <1>2 DEF Read, FreshSid, Made

LEMMA SidsSet ==
    ASSUME TInv, SInv, NEW t \in Threads, SetPlatform(t)
    PROVE  SInv'
<1>. USE DEF TInv, TypeOK
<1>. DEFINE v == job[t].uid
            x == job[t].sid
<1>1. /\ v \in Uids /\ x \in Sids /\ pc[t] = "platform" /\ job' = job
      /\ pc' = [pc EXCEPT ![t] = "table"] \/ pc' = [pc EXCEPT ![t] = "sign"]
      /\ platform' = [platform EXCEPT ![v] = x]
      /\ replaced' = [replaced EXCEPT ![v] = @ \cup ({platform[v]} \ {NoSid})]
      /\ UNCHANGED <<table, written, issued, made, twice>>
  BY DEF SetPlatform, Goto, JobOK
<1>2. x <= issued
  BY <1>1 DEF SInv
<1>3. x \notin twice \cup {Web} => \A u \in Uids : platform[u] # x /\ x \notin replaced[u]
  BY <1>1 DEF SInv, Fresh
<1>. HIDE DEF v, x
<1>4. \A u \in Uids : /\ platform'[u] <= issued' /\ made'[u] <= issued'
                      /\ \A y \in replaced'[u] : y <= issued'
  BY <1>1, <1>2 DEF SInv
<1>5. ReplacedStaysOut'
  BY <1>1, <1>3 DEF SInv, ReplacedStaysOut
<1>6. ASSUME NEW r \in Threads PROVE Fresh(r)'
  <2>1. CASE r = t
    BY <1>1, <2>1 DEF SInv, Fresh
  <2>2. CASE r # t /\ pc[r] \in KnowsSid /\ job[r].sid \notin twice \cup {Web}
    <3>1. x # job[r].sid
      BY <1>1, <2>2 DEF SInv, Fresh, x
    <3>2. \A q \in Threads \ {r} : pc'[q] \in KnowsSid => job'[q].sid # job'[r].sid
      BY <1>1, <2>2 DEF SInv, Fresh
    <3>3. pc'[r] \notin {"sign", "table"} =>
             \A u \in Uids : /\ platform'[u] # job'[r].sid
                             /\ job'[r].sid \notin replaced'[u]
      BY <1>1, <2>2, <3>1 DEF SInv, Fresh
    <3>. QED
      BY <1>1, <2>2, <3>2, <3>3 DEF SInv, Fresh
  <2>3. CASE r # t /\ (pc[r] \notin KnowsSid \/ job[r].sid \in twice \cup {Web})
    BY <1>1, <2>3 DEF Fresh
  <2>. QED
    BY <2>1, <2>2, <2>3
<1>7. \A r \in Threads : pc'[r] \in KnowsSid => job'[r].sid <= issued'
  BY <1>1 DEF SInv
<1>. QED
  BY <1>1, <1>4, <1>5, <1>6, <1>7 DEF SInv

LEMMA SidsWritten ==
    ASSUME TInv, SInv, NEW t \in Threads, WriteTable(t)
    PROVE  SInv'
<1>. USE DEF TInv, TypeOK
<1>1. /\ job[t].sid \in Sids /\ pc[t] = "table" /\ pc'[t] \notin KnowsSid
      /\ \A r \in Threads : r # t => pc'[r] = pc[r] /\ job'[r] = job[r]
      /\ table' = [table EXCEPT ![job[t].sid] = "full"]
      /\ written' = written \cup {job[t].sid}
      /\ UNCHANGED <<platform, replaced, issued, made, twice>>
  BY DEF WriteTable, TableOf, Goto, Leave, JobOK
<1>2. job[t].sid <= issued
  BY <1>1 DEF SInv
<1>3. \A r \in Threads : Fresh(r)'
  BY <1>1 DEF SInv, Fresh
<1>. QED
  BY <1>1, <1>2, <1>3 DEF SInv, ReplacedStaysOut

LEMMA SidsStep ==
    ASSUME TInv, TInv', SInv, NEW t \in Threads,
           \/ Begins(t) \/ LoginStep(t) \/ RegisterStep(t) \/ RequestStep(t)
           \/ Crash(t)
    PROVE  SInv'
<1>. USE DEF TInv, TypeOK
<1>1. CASE Begins(t)
  <2>1. /\ UNCHANGED <<platform, table, written, replaced, issued, made, twice>>
        /\ \A s \in Threads : pc'[s] \in KnowsSid => pc'[s] = pc[s]
                                                     /\ job'[s] = job[s]
    BY <1>1 DEF Begins, Begin, sessions
  <2>. QED
    BY <2>1, SidsKept
<1>2. CASE PoolCheck(t) \/ PoolAdd(t) \/ PoolRem(t) \/ PoolDrop(t) \/ PoolEnd(t)
  BY <1>2, SidsKept
  DEF PoolCheck, PoolAdd, PoolRem, PoolDrop, PoolEnd, Check, Goto, Leave, sessions
<1>3. CASE Reg(t)
  <2>1. PICK step \in {"incr", "lookup", "poolRem", "poolDrop"} : Goto(t, step)
    BY <1>3, RegLeads
  <2>. QED
    BY <1>3, <2>1, SidsKept DEF Reg, Goto, sessions
<1>4. CASE Incr(t) \/ Create(t) \/ Lookup(t) \/ First(t) \/ Welcome(t) \/ Gift(t)
  BY <1>4, SidsKept
  DEF Incr, Create, Lookup, First, Welcome, Gift, Goto, sessions
<1>5. CASE Exists(t) \/ GiveLock(t)
  BY <1>5, SidsKept DEF Exists, GiveLock, Check, Goto, Leave, sessions
<1>6. CASE Info(t) \/ Verify(t) \/ Alive(t) \/ Extend(t)
  BY <1>6, SidsKept
  DEF Info, Verify, Alive, Extend, Check, Goto, Leave, sessions
<1>7. CASE Stamp(t)
  <2>1. /\ UNCHANGED <<platform, written, replaced, issued, made, twice>>
        /\ table' = [table EXCEPT ![job[t].sid] = IF @ = "none" THEN "stub" ELSE @]
        /\ job[t].sid \in written
        /\ \A r \in Threads : pc'[r] \in KnowsSid => pc'[r] = pc[r]
                                                     /\ job'[r] = job[r]
    BY <1>7 DEF Stamp, Leave, JobOK
  <2>2. \A r \in Threads : Fresh(r)'
    BY <2>1 DEF SInv, Fresh
  <2>3. \A s \in Sids : table'[s] # "none" => s \in written'
    BY <2>1 DEF SInv
  <2>. QED
    BY <2>1, <2>2, <2>3 DEF SInv, ReplacedStaysOut
<1>8. CASE Crash(t)
  BY <1>8, SidsKept DEF Crash, Leave, sessions
<1>9. CASE RegisterStep(t)
  BY <1>9, SidsKept
  DEF RegisterStep, Taken, Number, Enrol, Sign, Check, Goto, Leave, sessions
<1>. QED
  BY <1>1, <1>2, <1>3, <1>4, <1>5, <1>6, <1>7, <1>8, <1>9,
     SidsMade, SidsSet, SidsWritten
  DEF LoginStep, RequestStep

LEMMA SidsNext == TInv /\ TInv' /\ SInv /\ [Next]_vars => SInv'
<1> SUFFICES ASSUME TInv, TInv', SInv, [Next]_vars PROVE SInv'
  OBVIOUS
<1>1. CASE UNCHANGED vars
  BY <1>1, SidsKept DEF vars
<1>2. ASSUME NEW s \in Sids, Expire(s) PROVE SInv'
  <2>1. /\ UNCHANGED <<platform, written, replaced, issued, made, twice, pc, job>>
        /\ table' = [table EXCEPT ![s] = "none"]
    BY <1>2 DEF Expire
  <2>2. \A r \in Threads : Fresh(r)'
    BY <2>1 DEF SInv, Fresh
  <2>3. \A x \in Sids : table'[x] # "none" => x \in written'
    BY <2>1 DEF SInv, TInv, TypeOK
  <2>. QED
    BY <2>1, <2>2, <2>3 DEF SInv, ReplacedStaysOut
<1>3. CASE Tick
  <2>1. /\ UNCHANGED <<platform, table, written, replaced, issued, twice, pc, job>>
        /\ made' = [u \in Uids |-> NoSid]
    BY <1>3 DEF Tick, sessions
  <2>2. issued \in Nat
    BY SessionAssumption DEF TInv, TypeOK
  <2>3. \A r \in Threads : Fresh(r)'
    BY <2>1 DEF SInv, Fresh
  <2>. QED
    BY <2>1, <2>2, <2>3 DEF SInv, ReplacedStaysOut
<1>. QED
  BY <1>1, <1>2, <1>3, StepCases, SidsStep

----------------------------------------------------------------------------
(* The tables and their time *)

LEMMA ExpireNext == TInv /\ SessionsExpire /\ [Next]_vars => SessionsExpire'
<1> SUFFICES ASSUME TInv, SessionsExpire, [Next]_vars PROVE SessionsExpire'
  OBVIOUS
<1>. USE DEF TInv, TypeOK
<1>1. CASE table' = table /\ ttl \subseteq ttl'
  BY <1>1 DEF SessionsExpire
<1>2. ASSUME NEW t \in Threads, WriteTable(t) PROVE SessionsExpire'
  BY <1>2 DEF WriteTable, TableOf, TtlAfterLogin, SessionsExpire
<1>3. ASSUME NEW t \in Threads, Stamp(t) PROVE SessionsExpire'
  BY <1>3 DEF Stamp, SessionsExpire
<1>4. ASSUME NEW s \in Sids, Expire(s) PROVE SessionsExpire'
  BY <1>4 DEF Expire, SessionsExpire
<1>5. ASSUME NEW t \in Threads, Begins(t) PROVE SessionsExpire'
  BY <1>1, <1>5 DEF Begins, Begin, sessions
<1>6. ASSUME NEW t \in Threads,
             \/ PoolCheck(t) \/ PoolAdd(t) \/ Reg(t) \/ Incr(t) \/ Create(t)
             \/ PoolRem(t) \/ Lookup(t) \/ First(t) \/ Welcome(t) \/ Gift(t)
             \/ Read(t) \/ Exists(t) \/ GiveLock(t) \/ PoolEnd(t) \/ PoolDrop(t)
      PROVE  SessionsExpire'
  BY <1>1, <1>6
  DEF PoolCheck, PoolAdd, Reg, Incr, Create, PoolRem, Lookup, First, Welcome,
      Gift, Read, Exists, GiveLock, PoolEnd, PoolDrop, Check, sessions
<1>7. ASSUME NEW t \in Threads, SetPlatform(t) PROVE SessionsExpire'
  BY <1>1, <1>7 DEF SetPlatform
<1>8. ASSUME NEW t \in Threads,
             Info(t) \/ Verify(t) \/ Alive(t) \/ Extend(t) \/ Crash(t)
      PROVE  SessionsExpire'
  BY <1>1, <1>8 DEF Info, Verify, Alive, Extend, Crash, Check, sessions
<1>9. CASE UNCHANGED vars
  BY <1>1, <1>9 DEF vars
<1>10. ASSUME NEW t \in Threads, RegisterStep(t) PROVE SessionsExpire'
  BY <1>1, <1>10
  DEF RegisterStep, Taken, Number, Enrol, Sign, Check, sessions
<1>11. CASE Tick
  BY <1>1, <1>11 DEF Tick, sessions
<1>. QED
  BY <1>2, <1>3, <1>4, <1>5, <1>6, <1>7, <1>8, <1>9, <1>10, <1>11, StepCases
  DEF LoginStep, RequestStep

----------------------------------------------------------------------------
(* The session that counts *)

\* A step that sets no platform session and leaves no table to be written.
LEMMA CurrentKept ==
    ASSUME TInv, CurrentWasWritten, platform' = platform, written' = written,
           crashed' = crashed,
           \A t \in Threads : pc[t] \in {"sign", "table"} =>
              pc'[t] \in {"sign", "table"} /\ job'[t].sid = job[t].sid
    PROVE  CurrentWasWritten'
  BY DEF CurrentWasWritten

LEMMA CurrentStep ==
    ASSUME TInv, CurrentWasWritten, NEW t \in Threads,
           \/ Begins(t) \/ LoginStep(t) \/ RegisterStep(t) \/ RequestStep(t)
           \/ Crash(t)
    PROVE  CurrentWasWritten'
<1>. USE DEF TInv, TypeOK
<1>1. CASE SetPlatform(t)
  <2>1. /\ platform' = [platform EXCEPT ![job[t].uid] = job[t].sid]
        /\ pc[t] = "platform" /\ job' = job /\ pc'[t] \in {"sign", "table"}
        /\ \A r \in Threads : r # t => pc'[r] = pc[r]
        /\ written' = written /\ crashed' = crashed /\ job[t].uid \in Uids
    BY <1>1 DEF SetPlatform, Goto, JobOK
  <2>2. ASSUME ~crashed, NEW u \in Uids
        PROVE  \/ platform'[u] \in written' \cup {NoSid}
               \/ \E r \in Threads : /\ pc'[r] \in {"sign", "table"}
                                      /\ job'[r].sid = platform'[u]
    <3>1. CASE u = job[t].uid
      <4>1. pc'[t] \in {"sign", "table"} /\ job'[t].sid = platform'[u]
        BY <2>1, <3>1
      <4>. QED
        BY <4>1
    <3>2. CASE u # job[t].uid
      BY <2>1, <2>2, <3>2 DEF CurrentWasWritten
    <3>. QED
      BY <3>1, <3>2
  <2>. QED
    BY <2>1, <2>2 DEF CurrentWasWritten
<1>2. CASE WriteTable(t)
  <2>1. /\ platform' = platform /\ written' = written \cup {job[t].sid}
        /\ crashed' = crashed
        /\ \A r \in Threads : r # t => pc'[r] = pc[r] /\ job'[r] = job[r]
    BY <1>2 DEF WriteTable, TableOf, Goto, Leave
  <2>2. ASSUME ~crashed, NEW u \in Uids
        PROVE  \/ platform'[u] \in written' \cup {NoSid}
               \/ \E r \in Threads : /\ pc'[r] \in {"sign", "table"}
                                      /\ job'[r].sid = platform'[u]
    BY <2>1, <2>2 DEF CurrentWasWritten
  <2>. QED
    BY <2>1, <2>2 DEF CurrentWasWritten
<1>3. CASE Begins(t)
  <2>1. /\ platform' = platform /\ written' = written /\ crashed' = crashed
        /\ \A s \in Threads : pc[s] \in {"sign", "table"} =>
              pc'[s] = pc[s] /\ job'[s] = job[s]
    BY <1>3 DEF Begins, Begin, sessions
  <2>. QED
    BY <2>1, CurrentKept
<1>4. CASE PoolCheck(t) \/ PoolAdd(t) \/ PoolRem(t) \/ PoolDrop(t) \/ PoolEnd(t)
  BY <1>4, CurrentKept
  DEF PoolCheck, PoolAdd, PoolRem, PoolDrop, PoolEnd, Check, Goto, Leave, sessions
<1>5. CASE Reg(t)
  <2>1. PICK step \in {"incr", "lookup", "poolRem", "poolDrop"} : Goto(t, step)
    BY <1>5, RegLeads
  <2>. QED
    BY <1>5, <2>1, CurrentKept DEF Reg, Goto, sessions
<1>6. CASE Incr(t) \/ Create(t) \/ Lookup(t) \/ First(t) \/ Welcome(t) \/ Gift(t)
  BY <1>6, CurrentKept
  DEF Incr, Create, Lookup, First, Welcome, Gift, Goto, sessions
<1>7. CASE Read(t) \/ Exists(t) \/ GiveLock(t)
  BY <1>7, CurrentKept DEF Read, Exists, GiveLock, Check, Goto, Leave, sessions
<1>8. CASE RequestStep(t)
  BY <1>8, CurrentKept
  DEF RequestStep, Info, Verify, Alive, Extend, Stamp, Check, Goto, Leave, sessions
<1>9. CASE Crash(t)
  <2>1. crashed'
    BY <1>9 DEF Crash
  <2>. QED
    BY <2>1 DEF CurrentWasWritten
<1>10. CASE RegisterStep(t)
  BY <1>10, CurrentKept
  DEF RegisterStep, Taken, Number, Enrol, Sign, Check, Goto, Leave, sessions
<1>. QED
  BY <1>1, <1>2, <1>3, <1>4, <1>5, <1>6, <1>7, <1>8, <1>9, <1>10 DEF LoginStep

LEMMA CurrentNext ==
    TInv /\ CurrentWasWritten /\ [Next]_vars => CurrentWasWritten'
<1> SUFFICES ASSUME TInv, CurrentWasWritten, [Next]_vars PROVE CurrentWasWritten'
  OBVIOUS
<1>1. CASE UNCHANGED vars
  BY <1>1, CurrentKept DEF vars
<1>2. ASSUME NEW s \in Sids, Expire(s) PROVE CurrentWasWritten'
  BY <1>2, CurrentKept DEF Expire
<1>3. CASE Tick
  BY <1>3, CurrentKept DEF Tick, sessions
<1>. QED
  BY <1>1, <1>2, <1>3, StepCases, CurrentStep

----------------------------------------------------------------------------
(* The login pool *)

\* A step of a login that adds nothing and still holds what it held.
LEMMA PoolHeld ==
    ASSUME PInv, NEW t \in Threads, crashed' = crashed, pool' \subseteq pool,
           \A n \in pool' : n \in stuck => n \in stuck',
           \A s \in Threads : s # t => pc'[s] = pc[s] /\ job'[s] = job[s],
           \A n \in pool' : Holds(t, n) => n \in stuck' \/ Holds(t, n)'
    PROVE  PInv'
<1> SUFFICES ASSUME ~crashed, NEW n \in pool', n \notin stuck'
             PROVE  \E s \in Threads : Holds(s, n)'
  BY DEF PInv
<1>1. PICK s \in Threads : Holds(s, n)
  BY DEF PInv
<1>2. CASE s = t
  BY <1>1, <1>2
<1>3. CASE s # t
  <2>1. pc'[s] = pc[s] /\ job'[s] = job[s]
    BY <1>3
  <2>2. Holds(s, n)'
    BY <1>1, <2>1 DEF Holds, PoolName
  <2>. QED
    BY <2>2
<1>. QED
  BY <1>2, <1>3

\* Who holds a name: a login by WeChat id that is not yet looked up, or one by
\* account.
LEMMA Holders ==
    ASSUME TInv, NEW t \in Threads, NEW n \in pool, Holds(t, n)
    PROVE  \/ /\ n = WeixinName /\ job[t].kind \in AgainLogins
              /\ pc[t] \in {"reg", "poolRem", "poolDrop"}
           \/ /\ n # WeixinName /\ job[t].kind \in PassLogins
              /\ n = job[t].uid
           \/ n = RegName /\ job[t].kind \in NameLogins
<1>1. n \in Uids \/ n = WeixinName \/ n = RegName
  BY DEF TInv, TypeOK, Names
<1>2. n # NoName
  BY <1>1, SessionAssumption DEF Uids
<1>3. job[t].kind \in PassLogins => job[t].uid \in Uids /\ job[t].uid # WeixinName
  BY SessionAssumption DEF TInv, JobOK, Uids
<1>. QED
  BY <1>2, <1>3, PoolNames DEF Holds

\* A login goes on with the name it holds, unless it is the WeChat id and the
\* step is not one that holds it.
LEMMA HoldsOn ==
    ASSUME TInv, NEW t \in Threads, NEW step \in LoginSteps,
           pc'[t] = step, step \notin {"poolCheck", "poolAdd"},
           job'[t].kind = job[t].kind,
           job[t].kind \in PassLogins => job'[t].uid = job[t].uid,
           job[t].kind \in AgainLogins /\ pc[t] \in {"reg", "poolRem", "poolDrop"}
              => WeixinName \notin pool' \/ step \in {"reg", "poolRem", "poolDrop"},
           pool' \subseteq pool
    PROVE  \A n \in pool' : Holds(t, n) => Holds(t, n)'
<1> SUFFICES ASSUME NEW n \in pool', Holds(t, n) PROVE Holds(t, n)'
  OBVIOUS
<1>1. n \in pool
  OBVIOUS
<1>2. PoolName(t)' = n
  <2>1. CASE job[t].kind \in AgainLogins
    <3>1. job'[t].kind \in AgainLogins /\ n = WeixinName
      BY <1>1, <2>1, Holders
    <3>. QED
      BY <3>1 DEF PoolName
  <2>2. CASE job[t].kind \in PassLogins
    <3>1. /\ job'[t].kind \in PassLogins /\ job'[t].kind \notin AgainLogins
          /\ job'[t].uid = n
      BY <1>1, <2>2, Holders
    <3>. QED
      BY <3>1 DEF PoolName
  <2>3. CASE job[t].kind \in NameLogins
    <3>1. job'[t].kind \in NameLogins /\ n = RegName
      BY <1>1, <2>3, Holders
    <3>. QED
      BY <3>1 DEF PoolName
  <2>. QED
    BY <1>1, <2>1, <2>2, <2>3, Holders
<1>3. n = WeixinName => pc'[t] \in {"reg", "poolRem", "poolDrop"}
  BY <1>1, Holders
<1>. QED
  BY <1>2, <1>3 DEF Holds

\* At the end of a login the account of its user is the name that it holds.
LEMMA AccountHeld ==
    ASSUME TInv, NEW t \in Threads, NEW n \in pool, Holds(t, n),
           pc[t] \notin {"reg", "poolRem", "poolDrop"}
    PROVE  n = AccountName(t)
<1>1. CASE job[t].kind \in PassLogins
  <2>1. n = job[t].uid /\ job[t].kind \notin NameLogins
    BY <1>1, Holders
  <2>. QED
    BY <2>1 DEF AccountName
<1>2. CASE job[t].kind \in NameLogins
  <2>1. n = RegName
    BY <1>2, Holders
  <2>. QED
    BY <1>2, <2>1 DEF AccountName
<1>. QED
  BY <1>1, <1>2, Holders

LEMMA PoolStep ==
    ASSUME TInv, PInv, NEW t \in Threads,
           \/ Begins(t) \/ LoginStep(t) \/ RegisterStep(t) \/ RequestStep(t)
           \/ Crash(t)
    PROVE  PInv'
<1>. USE DEF TInv, TypeOK
<1>1. CASE /\ \/ pc[t] \in {"idle", "poolCheck"} \cup OfSession
              \/ pc[t] \in RegisterSteps
           /\ crashed' = crashed /\ pool' = pool /\ stuck' = stuck
           /\ \A s \in Threads : s # t => pc'[s] = pc[s] /\ job'[s] = job[s]
  <2>1. \A n : ~Holds(t, n)
    BY <1>1 DEF Holds
  <2>. QED
    BY <1>1, <2>1, PoolHeld
<1>2. CASE Begins(t)
  BY <1>1, <1>2 DEF Begins, Begin
<1>3. CASE Taken(t) \/ Number(t) \/ Enrol(t)
  BY <1>1, <1>3 DEF Taken, Number, Enrol, Check, Goto, Leave
<1>4. CASE Sign(t)
  <2>1. /\ pc[t] = "sign" /\ pool' = pool \cup {RegName}
        /\ stuck' = stuck \cup {RegName} /\ crashed' = crashed
        /\ \A s \in Threads : s # t => pc'[s] = pc[s] /\ job'[s] = job[s]
    BY <1>4 DEF Sign, Goto
  <2>2. ASSUME ~crashed, NEW n \in pool, n \notin stuck
        PROVE  \E s \in Threads : Holds(s, n)'
    <3>1. PICK s \in Threads : Holds(s, n)
      BY <2>2 DEF PInv
    <3>2. s # t
      BY <2>1, <3>1 DEF Holds
    <3>3. Holds(s, n)'
      BY <2>1, <3>1, <3>2 DEF Holds, PoolName
    <3>. QED
      BY <3>3
  <2>. QED
    BY <2>1, <2>2 DEF PInv
<1>5. CASE PoolCheck(t)
  BY <1>1, <1>5 DEF PoolCheck, Check, Goto, Leave
<1>6. CASE RequestStep(t)
  BY <1>1, <1>6
  DEF RequestStep, Info, Verify, Alive, Extend, Stamp, Check, Goto, Leave
<1>7. CASE PoolAdd(t)
  <2>1. /\ pc[t] = "poolAdd" /\ pc' = [pc EXCEPT ![t] = "reg"] /\ job' = job
        /\ crashed' = crashed /\ pool' = pool \cup {PoolName(t)}
        /\ stuck' = stuck /\ job[t].kind \in Logins
    BY <1>7 DEF PoolAdd, Goto, JobOK
  <2>2. Holds(t, PoolName(t))'
    BY <2>1 DEF Holds, PoolName
  <2>3. ASSUME ~crashed, NEW n \in pool, n \notin stuck
        PROVE  \E s \in Threads : Holds(s, n)'
    <3>1. PICK s \in Threads : Holds(s, n)
      BY <2>3 DEF PInv
    <3>2. s # t
      BY <2>1, <3>1 DEF Holds
    <3>3. Holds(s, n)'
      BY <2>1, <3>1, <3>2 DEF Holds, PoolName
    <3>. QED
      BY <3>3
  <2>4. PoolName(t)' = PoolName(t)
    BY <2>1 DEF PoolName
  <2>. QED
    BY <2>1, <2>2, <2>3, <2>4 DEF PInv
<1>8. CASE Reg(t)
  <2>1. PICK step \in {"incr", "lookup", "poolRem", "poolDrop"} :
           /\ Goto(t, step)
           /\ job[t].kind \in AgainLogins => step \in {"poolRem", "poolDrop"}
    BY <1>8, RegLeads
  <2>2. /\ pc'[t] = step /\ job' = job /\ pool' = pool /\ crashed' = crashed
        /\ stuck' = stuck
        /\ \A s \in Threads : s # t => pc'[s] = pc[s]
    BY <1>8, <2>1 DEF Reg, Goto
  <2>3. \A n \in pool' : Holds(t, n) => Holds(t, n)'
    BY <2>1, <2>2, HoldsOn
  <2>. QED
    BY <2>2, <2>3, PoolHeld
<1>9. CASE PoolRem(t)
  <2>1. /\ pc'[t] = "lookup" /\ job' = job /\ pool' = pool \ {WeixinName}
        /\ stuck' = stuck \ {WeixinName}
        /\ crashed' = crashed /\ \A s \in Threads : s # t => pc'[s] = pc[s]
    BY <1>9 DEF PoolRem, TakeOut, Goto
  <2>2. \A n \in pool' : Holds(t, n) => Holds(t, n)'
    BY <2>1, HoldsOn
  <2>. QED
    BY <2>1, <2>2, PoolHeld
<1>10. CASE PoolDrop(t)
  <2>1. /\ pool' = pool \ {PoolName(t)} /\ stuck' = stuck \ {PoolName(t)}
        /\ crashed' = crashed
        /\ \A s \in Threads : s # t => pc'[s] = pc[s] /\ job'[s] = job[s]
    BY <1>10 DEF PoolDrop, TakeOut, Leave
  <2>2. \A n \in pool' : ~Holds(t, n)
    BY <2>1 DEF Holds
  <2>. QED
    BY <2>1, <2>2, PoolHeld
<1>11. CASE PoolEnd(t)
  <2>1. PICK names \in {{AccountName(t)}, {PoolName(t)}} :
           pool' = pool \ names /\ stuck' = stuck \ names
    BY <1>11 DEF PoolEnd, PoolAfter, TakeOut
  <2>2. /\ crashed' = crashed /\ pc[t] = "poolEnd"
        /\ \A s \in Threads : s # t => pc'[s] = pc[s] /\ job'[s] = job[s]
    BY <1>11 DEF PoolEnd, Leave
  <2>3. \A n \in pool' : ~Holds(t, n)
    BY <2>1, <2>2, AccountHeld DEF Holds
  <2>. QED
    BY <2>1, <2>2, <2>3, PoolHeld
<1>12. CASE Exists(t)
  <2>1. /\ crashed' = crashed /\ pc[t] = "exists"
        /\ \A s \in Threads : s # t => pc'[s] = pc[s] /\ job'[s] = job[s]
    BY <1>12 DEF Exists, Leave, Goto
  <2>2. CASE table[job[t].sid] = "none"
    <3>1. pc'[t] = "platform" /\ job' = job /\ pool' = pool /\ stuck' = stuck
      BY <1>12, <2>2 DEF Exists, Goto
    <3>2. \A n \in pool' : Holds(t, n) => Holds(t, n)'
      BY <2>1, <3>1, HoldsOn
    <3>. QED
      BY <2>1, <3>1, <3>2, PoolHeld
  <2>3. CASE job[t].kind \in {"fishPass", "fishName"} /\ table[job[t].sid] # "none"
    <3>1. pool' = pool /\ stuck' = stuck \cup ({PoolName(t)} \cap pool)
      BY <1>12, <2>3 DEF Exists
    <3>2. \A n \in pool' : Holds(t, n) => n \in stuck'
      BY <3>1 DEF Holds
    <3>. QED
      BY <2>1, <3>1, <3>2, PoolHeld
  <2>4. CASE job[t].kind \in Logins \ FishLogins /\ table[job[t].sid] # "none"
    <3>1. pool' = pool \ {AccountName(t)} /\ stuck' = stuck \ {AccountName(t)}
      BY <1>12, <2>4 DEF Exists, TakeOut
    <3>2. \A n \in pool' : ~Holds(t, n)
      BY <2>1, <3>1, AccountHeld
    <3>. QED
      BY <2>1, <3>1, <3>2, PoolHeld
  <2>5. CASE /\ job[t].kind \notin {"fishPass", "fishName"} \cup (Logins \ FishLogins)
             /\ table[job[t].sid] # "none"
    <3>1. pool' = pool /\ stuck' = stuck
      BY <1>12, <2>5 DEF Exists
    <3>2. \A n \in pool : ~Holds(t, n)
      <4> SUFFICES ASSUME NEW n \in pool, Holds(t, n) PROVE FALSE
        OBVIOUS
      <4>1. n = WeixinName /\ pc[t] \in {"reg", "poolRem", "poolDrop"}
        BY <2>5, Holders
      <4>. QED
        BY <2>1, <4>1
    <3>. QED
      BY <2>1, <3>1, <3>2, PoolHeld
  <2>. QED
    BY <2>2, <2>3, <2>4, <2>5
<1>13. CASE /\ pc[t] \in LoginSteps \ {"reg", "poolRem", "poolDrop"}
            /\ pc'[t] \in LoginSteps \ {"poolCheck", "poolAdd"}
            /\ pool' = pool /\ stuck' = stuck /\ crashed' = crashed
            /\ \A s \in Threads : s # t => pc'[s] = pc[s] /\ job'[s] = job[s]
            /\ job'[t].kind = job[t].kind
            /\ job[t].kind \in PassLogins => job'[t].uid = job[t].uid
  <2>1. \A n \in pool' : Holds(t, n) => Holds(t, n)'
    BY <1>13, HoldsOn
  <2>. QED
    BY <1>13, <2>1, PoolHeld
<1>14. CASE /\ job[t].kind = "register" /\ pool' = pool /\ stuck' = stuck
            /\ crashed' = crashed
            /\ \A s \in Threads : s # t => pc'[s] = pc[s] /\ job'[s] = job[s]
  <2>1. \A n : ~Holds(t, n)
    BY <1>14 DEF Holds
  <2>. QED
    BY <1>14, <2>1, PoolHeld
<1>15. CASE Incr(t) \/ Create(t)
  BY <1>13, <1>15 DEF Incr, Create, Goto, JobOK, Jobs
<1>16. CASE Lookup(t)
  <2>1. PICK u \in Uids : /\ job' = [job EXCEPT ![t].uid = u]
                         /\ job[t].kind \in PassLogins => u = job[t].uid
    BY <1>16, LookupFinds
  <2>. QED
    BY <1>13, <1>16, <2>1 DEF Lookup, Jobs
<1>17. CASE First(t) \/ Welcome(t) \/ Gift(t) \/ GiveLock(t)
  BY <1>13, <1>17 DEF First, Welcome, Gift, GiveLock, Goto
<1>18. CASE SetPlatform(t) \/ WriteTable(t)
  <2>1. CASE job[t].kind = "register"
    BY <1>14, <1>18, <2>1 DEF SetPlatform, WriteTable, Goto, Leave
  <2>2. CASE job[t].kind # "register"
    BY <1>13, <1>18, <2>2 DEF SetPlatform, WriteTable, Goto
  <2>. QED
    BY <2>1, <2>2
<1>19. CASE Read(t)
  BY <1>13, <1>19 DEF Read, Goto
<1>20. CASE Crash(t)
  <2>1. crashed'
    BY <1>20 DEF Crash
  <2>. QED
    BY <2>1 DEF PInv
<1>. QED
  BY <1>2, <1>3, <1>4, <1>5, <1>6, <1>7, <1>8, <1>9, <1>10, <1>11, <1>12, <1>15,
     <1>16, <1>17, <1>18, <1>19, <1>20
  DEF LoginStep, RegisterStep

LEMMA PoolNext == TInv /\ PInv /\ [Next]_vars => PInv'
<1> SUFFICES ASSUME TInv, PInv, [Next]_vars PROVE PInv'
  OBVIOUS
<1>1. CASE UNCHANGED <<pool, stuck, crashed, pc, job>>
  <2>1. \A t \in Threads, n \in pool : Holds(t, n) => Holds(t, n)'
    BY <1>1 DEF Holds, PoolName
  <2>. QED
    BY <1>1, <2>1 DEF PInv
<1>2. CASE UNCHANGED vars
  BY <1>1, <1>2 DEF vars
<1>3. ASSUME NEW s \in Sids, Expire(s) PROVE PInv'
  BY <1>1, <1>3 DEF Expire
<1>4. CASE Tick
  BY <1>1, <1>4 DEF Tick
<1>. QED
  BY <1>2, <1>3, <1>4, StepCases, PoolStep

----------------------------------------------------------------------------
(* The theorems *)

LEMMA InitAll == Init => IInv
<1> SUFFICES ASSUME Init PROVE IInv
  OBVIOUS
<1>1. TInv
  BY InitType
<1>2. UInv
  <2>1. Makers = {} /\ users = {}
    BY DEF Init, Makers, At
  <2>. QED
    BY <2>1, FS_EmptySet, NType DEF UInv
<1>3. GInv
  <2>1. At({"gift"}) = {} /\ \A u \in Uids : given[u] = 0 /\ Givers(u) = {}
    BY DEF Init, Givers, At
  <2>. QED
    BY <2>1, FS_EmptySet, NType DEF GInv
<1>4. LInv
  <2> SUFFICES ASSUME NEW u \in Uids PROVE Room(u)
    BY DEF LInv
  <2>1. lock[u] = 0 /\ Raisers(u) = {}
    BY DEF Init, Raisers, At
  <2>2. Cardinality(Raisers(u)) = 0
    BY <2>1, FS_EmptySet
  <2>3. N - 1 \in Nat
    BY NType
  <2>4. Presents(0) = 0 /\ Presents(N - 1) \in Nat
    BY <2>3, SessionAssumption, PresentsStep DEF Presents
  <2>. QED
    BY <2>1, <2>2, <2>4, SessionAssumption DEF Room
<1>5. SInv
  BY SessionAssumption DEF Init, SInv, Fresh, ReplacedStaysOut
<1>6. PInv /\ SessionsExpire /\ CurrentWasWritten
  BY DEF Init, PInv, SessionsExpire, CurrentWasWritten
<1>. QED
  BY <1>1, <1>2, <1>3, <1>4, <1>5, <1>6 DEF IInv

LEMMA NextAll == IInv /\ [Next]_vars => IInv'
  BY NextType, UsersNext, GiversNext, LockNext, SidsNext, PoolNext, ExpireNext,
     CurrentNext
  DEF IInv

LEMMA AlwaysIInv == Spec => []IInv
  BY InitAll, NextAll, PTL DEF Spec

\* Registration looks for the WeChat id with one command and stores it with a
\* later one (wechatData.py): one person becomes at most one user for each
\* thread, however many requests are served, because nobody begins to make a
\* user once there is one.
THEOREM UsersTheorem == Spec => []UsersBounded
<1>1. IInv => UsersBounded
  <2> SUFFICES ASSUME IInv PROVE UsersBounded
    OBVIOUS
  <2>1. Makers \in SUBSET Threads
    BY DEF Makers, At
  <2>2. Cardinality(Makers) \in Nat /\ Cardinality(users) \in Nat
    BY <2>1, SomeThreads, FS_CardinalityType DEF IInv, UInv
  <2>. QED
    BY <2>2, NType DEF IInv, UInv, UsersBounded, N
<1>. QED
  BY <1>1, AlwaysIInv, PTL

\* The first coins are given once for each thread at most, and the lock count
\* passes its limit by at most one day's present for each thread but one,
\* although login reads both before it writes them (fish.py).
THEOREM PresentsTheorem == Spec => []PresentsBounded
<1>1. IInv => GiftsBounded
  <2> SUFFICES ASSUME IInv, NEW u \in Uids PROVE given[u] <= Cardinality(Threads)
    BY DEF GiftsBounded
  <2>1. Givers(u) \in SUBSET Threads
    BY DEF Givers, At
  <2>2. Cardinality(Givers(u)) \in Nat
    BY <2>1, SomeThreads
  <2>3. given[u] \in Nat /\ given[u] + Cardinality(Givers(u)) <= N
    BY DEF IInv, GInv, TInv, TypeOK
  <2>. QED
    BY <2>2, <2>3, NType DEF N
<1>2. IInv => LockCountBounded
  <2> SUFFICES ASSUME IInv, NEW u \in Uids
               PROVE  lock[u] <= MaxLock + (Cardinality(Threads) - 1) * DayLock
    BY DEF LockCountBounded
  <2>. DEFINE k == Cardinality(Raisers(u))
  <2>1. k \in Nat /\ \A t \in Raisers(u) : k >= 1
    BY RaisersType, SomeThreads
  <2>2. lock[u] \in Nat /\ Room(u)
    BY DEF IInv, TInv, TypeOK, LInv
  <2>3. Presents(N - 1) \in Int
    BY NType, PresentsStep
  <2>4. lock[u] <= MaxLock + Presents(N - 1)
    <3>1. CASE lock[u] + Presents(k) <= MaxLock + Presents(N - 1)
      <4>1. Presents(k) \in Int /\ Presents(k) >= 0
        BY <2>1, PresentsStep
      <4>. QED
        BY <2>2, <2>3, <3>1, <4>1, SessionAssumption
    <3>2. ASSUME NEW t \in Raisers(u),
                 lock[u] + AddLock(job[t].seen) + Presents(k - 1)
                    <= MaxLock + Presents(N - 1)
          PROVE  lock[u] <= MaxLock + Presents(N - 1)
      <4>1. k - 1 \in Int /\ k - 1 >= 0
        BY <2>1
      <4>2. Presents(k - 1) \in Int /\ Presents(k - 1) >= 0
        BY <4>1, PresentsStep
      <4>3. job[t].seen \in Nat
        BY RaisersType DEF IInv, TInv, TypeOK, Jobs
      <4>4. AddLock(job[t].seen) \in Nat
        BY <4>3, OnePresent
      <4>. QED
        BY <2>2, <2>3, <3>2, <4>2, <4>4, SessionAssumption
    <3>. QED
      BY <2>2, <3>1, <3>2 DEF Room
  <2>5. Presents(N - 1) = (Cardinality(Threads) - 1) * DayLock
    BY NType, SessionAssumption DEF Presents, N
  <2>. QED
    BY <2>4, <2>5
<1>. QED
  BY <1>1, <1>2, AlwaysIInv, PTL DEF PresentsBounded

\* A table that names an account has a time to live, also when /hall/joinRoom
\* writes to one that has just expired (hall.py).
THEOREM SessionsExpireTheorem == Spec => []SessionsExpire
  BY AlwaysIInv, PTL DEF IInv

\* The platform session of a user has had its table, or will get it from a
\* login that is under way, unless that was cut off; and once another login has
\* replaced it, it never counts again, in whatever order the logins make, set
\* and write their ids, with the exceptions the code makes: an id that its user
\* was given twice, by two logins within 10 milliseconds (the id is the md5 of
\* the user id and time.time() as a string), and the sid 0 of all web logins.
THEOREM CurrentTheorem == Spec => []CurrentIsSound
<1>1. IInv => CurrentIsSound
  BY DEF IInv, SInv, CurrentIsSound
<1>. QED
  BY <1>1, AlwaysIInv, PTL

\* A name in the login pool belongs to a login that is under way, unless one
\* was cut off, or the name is one of the two kinds that the code leaves behind
\* itself: that of a registration by account, which puts it in as it ends, and
\* that of a fish login by account that found its session id in use and raised.
\* Every other login that ends, whichever way, leaves the hall open.
THEOREM PoolTheorem == Spec => []PoolReleased
<1>1. IInv => PoolReleased
  BY DEF IInv, PInv, PoolReleased, Holds
<1>. QED
  BY <1>1, AlwaysIInv, PTL
============================================================================
