------------------------------ MODULE Session ------------------------------
(***************************************************************************)
(* Logging in and the sessions that come of it, for one WeChat user and    *)
(* one account name: /fish/login, /account/reg/login (fish/fish.py),       *)
(* /hall/login (hall/hall.py), registration (model/hallModel.py,           *)
(* wechat/wechatData.py), and the requests that check and renew a session: *)
(* /refresh, /extendSession, /hall/joinRoom.                               *)
(*                                                                         *)
(* platform is the session id that counts for a user id; a session table   *)
(* names the user and lives forty minutes.  Both are written by every      *)
(* login, in this order, and read by every request, in the other one.      *)
(***************************************************************************)
EXTENDS Integers, FiniteSets

CONSTANTS
    Threads,   \* server threads
    MaxLock,   \* GIVE_LOCK_COUNT_DAY_LOGIN_MAX (99)
    DayLock,   \* GIVE_LOCK_COUNT_DAY_LOGIN (30)
    MaxOps,    \* bound: requests served
    Offered    \* bound: the kinds of login that clients use

ASSUME SessionAssumption ==
    /\ IsFiniteSet(Threads) /\ Threads # {}
    /\ MaxLock \in Nat /\ DayLock \in Nat /\ MaxOps \in Nat

NoSid == -1
Web == 0               \* the sid of every web login
Sids == 0..MaxOps
NoUid == 0
Uids == 1..MaxOps
WeixinName == 0        \* the WeChat id as a name in the login pool
NoName == -1
RegName == -2          \* the account name that /account/reg/login registers
Names == Uids \cup {WeixinName, RegName}

VARIABLES
    account,   \* WEIXIN2ACCOUNT of the WeChat user, NoUid if there is none
    named,     \* FORMAT_ACCOUNT2USER_TABLE of the account name RegName
    created,   \* FORMAT_USER_COUNT_TABLE
    users,     \* the user ids made for the WeChat user
    platform,  \* FORMAT_USER_PLATFORM_SESSION of each user id
    table,     \* FORMAT_USER_HALL_SESSION: "full", "stub" (no account), "none"
    owner,     \* its field uid
    ttl,       \* the session tables that have a TTL
    welcomed,  \* ACCOUNT4WEIXIN_SET4FISH
    lock,      \* lockCount of each user
    pool,      \* FORMAT_LOGIN_POOL_SET: WeixinName, or the uid of an account
    pc,        \* the next command of each thread
    job,       \* the request it serves
    served,    \* bound: requests so far
    issued,    \* how many session ids were made
    made,      \* the session id each user made in these 10 milliseconds
    given,     \* history: how often the first coins were set
    written,   \* history: session tables ever written by a login
    replaced,  \* history: what platform held before, for each user
    twice,     \* history: session ids that were made more than once
    stuck,     \* history: names in the pool that their login never takes out
    crashed    \* history: whether a worker died

people == <<account, named, created, users, welcomed, lock, given>>
ids == <<issued, made, twice>>
gate == <<pool, stuck>>
sessions == <<platform, table, owner, ttl, written, replaced>>
vars == <<account, named, created, users, platform, table, owner, ttl, welcomed,
          lock, pool, pc, job, served, issued, made, given, written, replaced,
          twice, stuck, crashed>>

Kinds == {"none", "fish", "fishWeb", "fishAgain", "hall", "hallWeb",
          "hallAgain", "fishPass", "hallPass", "fishName", "hallName",
          "register", "refresh", "extend", "join"}
\* Logins that bring a fresh WeChat code (types 1, 3, 4), the WeChat id and
\* password of an earlier login (type 2), account and password (type 0): the
\* account of a WeChat user, or the name that was registered.
CodeLogins == {"fish", "fishWeb", "hall", "hallWeb"}
AgainLogins == {"fishAgain", "hallAgain"}
PassLogins == {"fishPass", "hallPass"}
NameLogins == {"fishName", "hallName"}
FishLogins == {"fish", "fishWeb", "fishAgain", "fishPass", "fishName"}
Logins == CodeLogins \cup AgainLogins \cup PassLogins \cup NameLogins

Jobs == [kind : Kinds, uid : Uids \cup {NoUid}, sid : Sids \cup {NoSid},
         seen : Nat]
NoJob == [kind |-> "none", uid |-> NoUid, sid |-> NoSid, seen |-> 0]

LoginSteps == {"poolCheck", "poolAdd", "reg", "incr", "create", "poolRem",
               "lookup", "first", "welcome", "gift", "read", "exists", "platform",
               "table", "lock", "poolEnd", "poolDrop"}
RegisterSteps == {"taken", "number", "enrol", "sign"}
Steps == {"idle"} \cup LoginSteps \cup RegisterSteps
                  \cup {"info", "verify", "alive", "extend", "stamp"}

TypeOK ==
    /\ account \in Uids \cup {NoUid}
    /\ named \in Uids \cup {NoUid}
    /\ created \in 0..MaxOps
    /\ users \subseteq Uids
    /\ platform \in [Uids -> Sids \cup {NoSid}]
    /\ table \in [Sids -> {"full", "stub", "none"}]
    /\ owner \in [Sids -> Uids \cup {NoUid}]
    /\ ttl \subseteq Sids
    /\ welcomed \subseteq Uids
    /\ lock \in [Uids -> Nat]
    /\ pool \subseteq Names
    /\ pc \in [Threads -> Steps]
    /\ job \in [Threads -> Jobs]
    /\ served \in 0..MaxOps
    /\ issued \in 0..MaxOps
    /\ made \in [Uids -> (Sids \ {Web}) \cup {NoSid}]
    /\ given \in [Uids -> Nat]
    /\ written \subseteq Sids
    /\ replaced \in [Uids -> SUBSET Sids]
    /\ twice \subseteq Sids
    /\ stuck \subseteq Names
    /\ crashed \in BOOLEAN

Init ==
    /\ account = NoUid
    /\ named = NoUid
    /\ created = 0
    /\ users = {}
    /\ platform = [u \in Uids |-> NoSid]
    /\ table = [s \in Sids |-> "none"]
    /\ owner = [s \in Sids |-> NoUid]
    /\ ttl = {}
    /\ welcomed = {}
    /\ lock = [u \in Uids |-> 0]
    /\ pool = {}
    /\ pc = [t \in Threads |-> "idle"]
    /\ job = [t \in Threads |-> NoJob]
    /\ served = 0
    /\ issued = 0
    /\ made = [u \in Uids |-> NoSid]
    /\ given = [u \in Uids |-> 0]
    /\ written = {}
    /\ replaced = [u \in Uids |-> {}]
    /\ twice = {}
    /\ stuck = {}
    /\ crashed = FALSE

Begin(t, step, k, u, s) ==
    /\ pc[t] = "idle"
    /\ served < MaxOps
    /\ served' = served + 1
    /\ pc' = [pc EXCEPT ![t] = step]
    /\ job' = [job EXCEPT ![t] =
                  [kind |-> k, uid |-> u, sid |-> s, seen |-> 0]]
    /\ UNCHANGED <<people, sessions, gate, ids, crashed>>

Goto(t, step) == pc' = [pc EXCEPT ![t] = step] /\ UNCHANGED job

Leave(t) ==
    /\ pc' = [pc EXCEPT ![t] = "idle"]
    /\ job' = [job EXCEPT ![t] = NoJob]

\* A command that only reads.
Check(t, here, refused, next) ==
    /\ pc[t] = here
    /\ IF refused THEN Leave(t) ELSE Goto(t, next)
    /\ UNCHANGED <<people, sessions, gate, served, ids, crashed>>

----------------------------------------------------------------------------
(* Login: the WeChat id, and the user it belongs to. *)

\* What the client sent as its account, under which it is in the pool: the
\* WeChat id, the account, or a code that is used once and not kept here.
PoolName(t) ==
    CASE job[t].kind \in AgainLogins -> WeixinName
      [] job[t].kind \in PassLogins -> job[t].uid
      [] job[t].kind \in NameLogins \cup {"register"} -> RegName
      [] OTHER -> NoName

\* The account in the table of the user.
AccountName(t) == IF job[t].kind \in NameLogins THEN RegName ELSE job[t].uid

\* SREM of names from the pool.
TakeOut(names) ==
    /\ pool' = pool \ names
    /\ stuck' = stuck \ names

\* Only the hall looks into the pool before it goes on.  A login by account
\* names a user; one by WeChat id or code does not.
Login(t, k) ==
    \E u \in IF k \in PassLogins THEN users ELSE {NoUid} :
        Begin(t, CASE k \in CodeLogins -> "reg"
                   [] k \in {"hallAgain", "hallPass", "hallName"} -> "poolCheck"
                   [] k \in {"fishAgain", "fishPass", "fishName"} -> "poolAdd",
              k, u, NoSid)

PoolCheck(t) == Check(t, "poolCheck", PoolName(t) \in pool, "poolAdd")

PoolAdd(t) ==
    /\ pc[t] = "poolAdd"
    /\ pool' = pool \cup {PoolName(t)}
    /\ Goto(t, "reg")
    /\ UNCHANGED <<people, sessions, stuck, served, ids, crashed>>

\* Mutant of NextAfterReg: a user is made without looking for one.
AlwaysCreate(k) ==
    CASE k \in CodeLogins -> {"incr", "poolDrop"}
      [] k \in AgainLogins ->
           (IF account = NoUid THEN {} ELSE {"poolRem"}) \cup {"poolDrop"}
      [] k \in PassLogins -> {"lookup", "poolDrop"}
      [] k \in NameLogins ->
           (IF named = NoUid THEN {} ELSE {"lookup"}) \cup {"poolDrop"}

\* onReg and onRegFish: with a code that WeChat knows, a user that is not
\* found is made; with a password, the login fails without such a user or with
\* another password.
NextAfterReg(k) ==
    CASE k \in CodeLogins ->
           {IF account = NoUid THEN "incr" ELSE "lookup", "poolDrop"}
      [] k \in AgainLogins ->
           (IF account = NoUid THEN {} ELSE {"poolRem"}) \cup {"poolDrop"}
      [] k \in PassLogins -> {"lookup", "poolDrop"}
      [] k \in NameLogins ->
           (IF named = NoUid THEN {} ELSE {"lookup"}) \cup {"poolDrop"}

Reg(t) ==
    /\ pc[t] = "reg"
    /\ \E step \in NextAfterReg(job[t].kind) : Goto(t, step)
    /\ UNCHANGED <<people, sessions, gate, served, ids, crashed>>

\* setOpenid2account4fish and its like: a new number ...
Incr(t) ==
    /\ pc[t] = "incr"
    /\ created' = created + 1
    /\ job' = [job EXCEPT ![t].uid = created + 1]
    /\ pc' = [pc EXCEPT ![t] = "create"]
    /\ UNCHANGED <<account, named, users, welcomed, lock, given, sessions, gate,
                   served, ids, crashed>>

\* ... and one pipeline for the user table and the WeChat id.
Create(t) ==
    /\ pc[t] = "create"
    /\ users' = users \cup {job[t].uid}
    /\ account' = job[t].uid
    /\ Goto(t, "lookup")
    /\ UNCHANGED <<named, created, welcomed, lock, given, sessions, gate, served,
                   ids, crashed>>

\* onReg takes the WeChat id out of the pool as soon as it is verified.
PoolRem(t) ==
    /\ pc[t] = "poolRem"
    /\ TakeOut({WeixinName})
    /\ Goto(t, "lookup")
    /\ UNCHANGED <<people, sessions, served, ids, crashed>>

\* A login that fails takes out what it has put in.
PoolDrop(t) ==
    /\ pc[t] = "poolDrop"
    /\ TakeOut({PoolName(t)})
    /\ Leave(t)
    /\ UNCHANGED <<people, sessions, served, ids, crashed>>

\* redis.get(WEIXIN2ACCOUNT), redis.get(FORMAT_ACCOUNT2USER_TABLE): whoever the
\* id or the name belongs to by now.  The account of a WeChat user stays his.
Lookup(t) ==
    /\ pc[t] = "lookup"
    /\ job' = [job EXCEPT ![t].uid = CASE job[t].kind \in PassLogins -> @
                                       [] job[t].kind \in NameLogins -> named
                                       [] OTHER -> account]
    /\ pc' = [pc EXCEPT ![t] = IF job[t].kind \in FishLogins THEN "first"
                                                              ELSE "read"]
    /\ UNCHANGED <<people, sessions, gate, served, ids, crashed>>

----------------------------------------------------------------------------
(* /account/reg/login: the account name and its user. *)

Register(t) == Begin(t, "taken", "register", NoUid, NoSid)

\* SMEMBERS register:account:set.
Taken(t) == Check(t, "taken", named # NoUid, "number")

\* register_by_account: a new number, and one pipeline for the user table and
\* the account name.
Number(t) ==
    /\ pc[t] = "number"
    /\ created' = created + 1
    /\ job' = [job EXCEPT ![t].uid = created + 1]
    /\ pc' = [pc EXCEPT ![t] = "enrol"]
    /\ UNCHANGED <<account, named, users, welcomed, lock, given, sessions, gate,
                   served, ids, crashed>>

Enrol(t) ==
    /\ pc[t] = "enrol"
    /\ named' = job[t].uid
    /\ Goto(t, "read")
    /\ UNCHANGED <<account, created, users, welcomed, lock, given, sessions, gate,
                   served, ids, crashed>>

\* SADD of the account to the login pool, which nothing in the rest of the
\* handler takes out again.
Sign(t) ==
    /\ pc[t] = "sign"
    /\ pool' = pool \cup {RegName}
    /\ stuck' = stuck \cup {RegName}
    /\ Goto(t, "table")
    /\ UNCHANGED <<people, sessions, served, ids, crashed>>

----------------------------------------------------------------------------
(* Login: the first coins. *)

First(t) ==
    /\ pc[t] = "first"
    /\ Goto(t, IF job[t].uid \in welcomed THEN "read" ELSE "welcome")
    /\ UNCHANGED <<people, sessions, gate, served, ids, crashed>>

\* Mutant of WelcomedAfter: the user is not remembered.
WelcomedNobody(t) == welcomed

\* SADD ACCOUNT4WEIXIN_SET4FISH.
WelcomedAfter(t) == welcomed \cup {job[t].uid}

Welcome(t) ==
    /\ pc[t] = "welcome"
    /\ welcomed' = WelcomedAfter(t)
    /\ Goto(t, "gift")
    /\ UNCHANGED <<account, named, created, users, lock, given, sessions, gate,
                   served, ids, crashed>>

\* HSET, not HINCRBY: what the purse held is overwritten.
Gift(t) ==
    /\ pc[t] = "gift"
    /\ given' = [given EXCEPT ![job[t].uid] = @ + 1]
    /\ Goto(t, "read")
    /\ UNCHANGED <<account, named, created, users, welcomed, lock, sessions, gate,
                   served, ids, crashed>>

----------------------------------------------------------------------------
(* Login: the session. *)

\* The clock of time.time(), which str() cuts to hundredths of a second.
Tick ==
    /\ \E u \in Uids : made[u] # NoSid
    /\ made' = [u \in Uids |-> NoSid]
    /\ UNCHANGED <<people, sessions, gate, pc, job, served, issued, twice, crashed>>

\* Mutant of FreshSid: the id does not depend on the time.
TimelessSid(u) == u

\* md5(str(uid) + str(time.time())): the same again for a user who logs in
\* twice before the clock moves.
FreshSid(u) == IF made[u] = NoSid THEN issued + 1 ELSE made[u]

\* HMGET of the user: a frozen user is refused; a web login to the hall gets
\* no session, a web login to the fish game gets the sid 0.
Read(t) ==
    LET k == job[t].kind
        u == job[t].uid
    IN /\ pc[t] = "read"
       /\ \/ Goto(t, "poolDrop") /\ UNCHANGED ids
          \/ k = "hallWeb" /\ Goto(t, "poolEnd") /\ UNCHANGED ids
          \/ /\ k = "fishWeb"
             /\ job' = [job EXCEPT ![t] = [kind |-> k, uid |-> u, sid |-> Web,
                                           seen |-> lock[u]]]
             /\ pc' = [pc EXCEPT ![t] = "exists"]
             /\ UNCHANGED ids
          \/ /\ k \notin {"fishWeb", "hallWeb"}
             /\ job' = [job EXCEPT ![t] =
                           [kind |-> k, uid |-> u, sid |-> FreshSid(u),
                            seen |-> IF k \in FishLogins THEN lock[u] ELSE 0]]
             /\ pc' = [pc EXCEPT ![t] = "exists"]
             /\ issued' = IF made[u] = NoSid THEN issued + 1 ELSE issued
             /\ made' = [made EXCEPT ![u] = FreshSid(u)]
             /\ twice' = IF made[u] = NoSid THEN twice ELSE twice \cup {made[u]}
       /\ UNCHANGED <<people, sessions, gate, served, crashed>>

\* A table of this name: the hall takes the account out of the pool and
\* refuses; the fish game raises over its log message and leaves it there.
Exists(t) ==
    /\ pc[t] = "exists"
    /\ IF table[job[t].sid] = "none"
         THEN Goto(t, "platform") /\ UNCHANGED gate
         ELSE /\ Leave(t)
              /\ CASE job[t].kind \in {"fishPass", "fishName"} ->
                        /\ stuck' = stuck \cup ({PoolName(t)} \cap pool)
                        /\ UNCHANGED pool
                   [] job[t].kind \in Logins \ FishLogins ->
                        TakeOut({AccountName(t)})
                   [] OTHER -> UNCHANGED gate
    /\ UNCHANGED <<people, sessions, served, ids, crashed>>

\* The test of the builtin "type" against 3 never holds, so that fish sets
\* the platform session for web logins too.
SetPlatform(t) ==
    LET u == job[t].uid
    IN /\ pc[t] = "platform"
       /\ platform' = [platform EXCEPT ![u] = job[t].sid]
       /\ replaced' = [replaced EXCEPT ![u] = @ \cup ({platform[u]} \ {NoSid})]
       /\ Goto(t, IF job[t].kind = "register" THEN "sign" ELSE "table")
       /\ UNCHANGED <<people, table, owner, ttl, written, gate, served, ids,
                      crashed>>

\* Mutant of TtlAfterLogin: the pipeline has no EXPIRE.
NoTtl(s) == ttl

\* pipe.expire(SessionTable, 60*40).
TtlAfterLogin(s) == ttl \cup {s}

\* FORMAT_USER_HALL_SESSION%(sid).
TableOf(t) == job[t].sid

WriteTable(t) ==
    LET s == TableOf(t)
    IN /\ pc[t] = "table"
       /\ table' = [table EXCEPT ![s] = "full"]
       /\ owner' = [owner EXCEPT ![s] = job[t].uid]
       /\ ttl' = TtlAfterLogin(s)
       /\ written' = written \cup {s}
       /\ IF job[t].kind = "register"
            THEN Leave(t)
            ELSE Goto(t, IF job[t].kind \in FishLogins THEN "lock" ELSE "poolEnd")
       /\ UNCHANGED <<people, platform, replaced, gate, served, ids, crashed>>

Least(m, n) == IF m < n THEN m ELSE n

\* min(MAX - lockCount, DAY), of the number that was read before.
AddLock(n) == IF n < MaxLock THEN Least(MaxLock - n, DayLock) ELSE 0

\* Players who have signed in today get nothing.
GiveLock(t) ==
    LET u == job[t].uid
    IN /\ pc[t] = "lock"
       /\ \/ lock' = [lock EXCEPT ![u] = @ + AddLock(job[t].seen)]
          \/ UNCHANGED lock
       /\ Goto(t, "poolEnd")
       /\ UNCHANGED <<account, named, created, users, welcomed, given, sessions,
                      gate, served, ids, crashed>>

\* Mutant of PoolAfter: a login that succeeds does not leave the pool.
PoolKept(t) == {{}}

\* A login ends with SREM of the account of the user, or of what the client
\* sent when an answer of a guild is waiting for the player.
PoolAfter(t) == {{AccountName(t)}, {PoolName(t)}}

PoolEnd(t) ==
    /\ pc[t] = "poolEnd"
    /\ \E names \in PoolAfter(t) : TakeOut(names)
    /\ Leave(t)
    /\ UNCHANGED <<people, sessions, served, ids, crashed>>

----------------------------------------------------------------------------
(* Requests with a session id that was once handed out. *)

Refresh(t, s) == s \in written /\ Begin(t, "info", "refresh", NoUid, s)
JoinRoom(t, s) == s \in written /\ Begin(t, "info", "join", NoUid, s)

\* /extendSession does not ask whose session it is.
ExtendSession(t, s) ==
    s \in written /\ Begin(t, "alive", "extend", NoUid, s)

\* getInfoBySid: HMGET of the table ...
Info(t) ==
    /\ pc[t] = "info"
    /\ job' = [job EXCEPT ![t].uid = IF table[job[t].sid] = "full"
                                       THEN owner[job[t].sid] ELSE NoUid]
    /\ pc' = [pc EXCEPT ![t] = "verify"]
    /\ UNCHANGED <<people, sessions, gate, served, ids, crashed>>

\* ... and GET of the platform session, which without a uid is nil.
Verify(t) ==
    LET u == job[t].uid
    IN Check(t, "verify",
             u # NoUid /\ platform[u] # NoSid /\ platform[u] # job[t].sid,
             "alive")

\* EXISTS of the table.  /refresh then looks for the user of the account it
\* has read; /hall/joinRoom writes to the table before it does.
Alive(t) ==
    LET k == job[t].kind
    IN Check(t, "alive",
             \/ table[job[t].sid] = "none"
             \/ k = "refresh" /\ job[t].uid = NoUid,
             IF k = "join" THEN "stamp" ELSE "extend")

\* EXPIRE changes nothing if there is no such table any more.
Extend(t) ==
    LET s == job[t].sid
    IN /\ pc[t] = "extend"
       /\ ttl' = IF table[s] = "none" THEN ttl ELSE ttl \cup {s}
       /\ Leave(t)
       /\ UNCHANGED <<people, platform, table, owner, written, replaced, gate,
                      served, ids, crashed>>

\* HMSET action, roomid: makes the table anew if it has just expired.
Stamp(t) ==
    LET s == job[t].sid
    IN /\ pc[t] = "stamp"
       /\ table' = [table EXCEPT ![s] = IF @ = "none" THEN "stub" ELSE @]
       /\ Leave(t)
       /\ UNCHANGED <<people, platform, owner, ttl, written, replaced, gate,
                      served, ids, crashed>>

\* redis drops a session table at the end of its time.
Expire(s) ==
    /\ s \in ttl
    /\ table' = [table EXCEPT ![s] = "none"]
    /\ owner' = [owner EXCEPT ![s] = NoUid]
    /\ ttl' = ttl \ {s}
    /\ UNCHANGED <<people, platform, written, replaced, gate, pc, job, served,
                   ids, crashed>>

\* A number without a user, a welcome without coins, a platform session
\* without a table, a name in the pool.  Elsewhere a login that is cut off
\* leaves what one that ends there leaves as well.
HalfDone(t) ==
    \/ pc[t] \in {"create", "enrol", "gift", "sign", "table"}
    \/ pc[t] \in LoginSteps \ {"poolCheck", "poolAdd"} /\ PoolName(t) \in pool

\* The worker dies between two commands (bound: once).
Crash(t) ==
    /\ HalfDone(t)
    /\ ~crashed
    /\ crashed' = TRUE
    /\ Leave(t)
    /\ UNCHANGED <<people, sessions, gate, served, ids>>

----------------------------------------------------------------------------
LoginStep(t) ==
    \/ PoolCheck(t) \/ PoolAdd(t) \/ Reg(t) \/ Incr(t) \/ Create(t)
    \/ PoolRem(t)
    \/ Lookup(t) \/ First(t) \/ Welcome(t) \/ Gift(t) \/ Read(t) \/ Exists(t)
    \/ SetPlatform(t) \/ WriteTable(t) \/ GiveLock(t) \/ PoolEnd(t)
    \/ PoolDrop(t)

RegisterStep(t) == Taken(t) \/ Number(t) \/ Enrol(t) \/ Sign(t)

RequestStep(t) ==
    Info(t) \/ Verify(t) \/ Alive(t) \/ Extend(t) \/ Stamp(t)

Next ==
    \/ \E t \in Threads, k \in Offered \cap Logins : Login(t, k)
    \/ \E t \in Threads : Register(t) \/ RegisterStep(t)
    \/ \E t \in Threads, s \in Sids :
         Refresh(t, s) \/ JoinRoom(t, s) \/ ExtendSession(t, s)
    \/ \E t \in Threads : LoginStep(t) \/ RequestStep(t) \/ Crash(t)
    \/ \E s \in Sids : Expire(s)
    \/ Tick

Spec == Init /\ [][Next]_vars

(***************************************************************************)
(* Properties                                                              *)
(***************************************************************************)

\* Registration looks for the WeChat id and stores it with a later command:
\* one person can become several users, one for each thread at most.
UsersBounded == Cardinality(users) <= Cardinality(Threads)

\* The first coins of a user are set once for each thread at most.
GiftsBounded == \A u \in Uids : given[u] <= Cardinality(Threads)

\* lockCount is read at the start of a login and raised at its end: the limit
\* can be passed by one day's present for each other thread, never by more.
LockCountBounded ==
    \A u \in Uids :
        lock[u] <= MaxLock + (Cardinality(Threads) - 1) * DayLock

\* What a login gives away is bounded although each part of it is looked up by
\* one command and given by a later one: GiftsBounded for the first coins,
\* LockCountBounded for the daily present.
PresentsBounded == GiftsBounded /\ LockCountBounded

\* /hall/joinRoom writes to a session table that may have expired since it
\* was looked at, and leaves one without a TTL: but such a table names no
\* account, so that no session outlives its time.
SessionsExpire == \A s \in Sids : table[s] = "full" => s \in ttl

\* The platform session is set before the table is written.  Nobody is locked
\* out by that: the session that counts has had its table, unless its login
\* is still under way or was cut off.
CurrentWasWritten ==
    crashed \/ \A u \in Uids :
        \/ platform[u] \in written \cup {NoSid}
        \/ \E t \in Threads : /\ pc[t] \in {"sign", "table"}
                               /\ job[t].sid = platform[u]

\* A session that another login has replaced never counts again, in whatever
\* order the logins make their sids and set them, unless its id was made a
\* second time, by two logins of the user within 10 milliseconds (web logins
\* share one).
ReplacedStaysOut ==
    \A u \in Uids : platform[u] \notin replaced[u] \ (twice \cup {Web})

\* The session that counts for a user has had its table and has not been
\* replaced before, although logins that overlap make, set and write their
\* sessions in different orders; but for ids that were made twice.
CurrentIsSound == CurrentWasWritten /\ ReplacedStaysOut

\* The pool that keeps a player from logging in to the hall twice at a time is
\* left again by a login that was not cut off, although the logins take names
\* out that others have put in, with two exceptions: the name that
\* /account/reg/login puts in stays until a later login takes it out, and so
\* does the account of a fish login that made a session id which had a table.
PoolReleased ==
    \A n \in pool :
        \/ crashed
        \/ n \in stuck
        \/ \E t \in Threads : /\ PoolName(t) = n /\ job[t].kind \in Logins
                              /\ pc[t] \in LoginSteps \ {"poolCheck", "poolAdd"}
============================================================================
