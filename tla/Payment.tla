------------------------------ MODULE Payment ------------------------------
(***************************************************************************)
(* WeChat orders and App Store receipts.  /onWeChatPay writes an order     *)
(* table that lives for an hour, WeChat calls /notifyServer until it is    *)
(* answered SUCCESS, and the handler marks the order, credits the player,  *)
(* keeps statistics and answers, each with commands of its own             *)
(* (fish/fish_pay.py and fish/fish_util/fish_pay_func.py for fish orders,  *)
(* hall/hall.py and hall/hall_func.py for hall orders).  WeChat is         *)
(* modelled from how the code uses it: it repeats an unanswered            *)
(* notification, an answer can get lost, and a notification can overtake   *)
(* the one before.  One player, one day; every order is for one unit.      *)
(***************************************************************************)
EXTENDS Naturals, Sequences, FiniteSets

CONSTANTS
    Threads,       \* server threads
    FishOrders,    \* order numbers of /fish/onWeChatPay
    CardOrders,    \* order numbers of /hall/onWeChatPay for room cards
    GoldOrders,    \* the same for goods of type 2, gold
    FishReceipts,  \* App Store transaction ids sent to /fish/onAppleStorePay
    CardReceipts,  \* and to /hall/onAppleStorePay
    MaxFaults      \* bound: duplicates, lost answers, crashes and errors

Orders == FishOrders \cup CardOrders \cup GoldOrders
Receipts == FishReceipts \cup CardReceipts
Keys == Orders \cup Receipts
NoKey == "nokey"

ASSUME PaymentAssumption ==
    /\ IsFiniteSet(Threads)
    /\ FishOrders \cap CardOrders = {} /\ GoldOrders \cap CardOrders = {}
    /\ FishOrders \cap GoldOrders = {} /\ FishReceipts \cap CardReceipts = {}
    /\ Orders \cap Receipts = {}
    /\ NoKey \notin Keys
    /\ MaxFaults \in Nat

VARIABLES
    table,      \* type field of the order's table; "none": no such key
    full,       \* the tables that hold account and roomCards
    ttl,        \* the tables that have a TTL
    pending,    \* PENDING_ORDER
    succeeded,  \* SUCCEED_ORDER
    paid,       \* orders the player has paid at WeChat
    settled,    \* orders for which WeChat has seen SUCCESS
    credited,   \* how often the player was credited, by order and receipt
    shared,     \* how often the agents were given their share
    logged,     \* how often the credit was written to the player's record
    rmb,        \* how often the order was added to allplayer:charge:rmb:sum
    mark,       \* receipts stored under APP_PAY_ORDER_ITEM
    counted,    \* FISH_RECHARGE_USER_DAY_IDS holds the player
    users,      \* recharge_user_total of the day
    recharge,   \* USER4AGENT_RECHARGE, <<>> when there is no such key
    todo,       \* the steps each thread still has to take
    at,         \* the order or receipt it handles
    first,      \* what it read before it filled its pipeline
    faults,     \* bound: faults so far
    hit,        \* history: faults that concerned each order or receipt
    swallowed   \* history: orders for which an exception was caught, logged
                \* and forgotten, so that the notification went on

tables == <<table, full, ttl, pending, succeeded>>
wechat == <<paid, settled>>
books == <<credited, shared, logged, rmb, mark, counted, users, recharge>>
thread == <<todo, at, first>>
vars == <<table, full, ttl, pending, succeeded, paid, settled, credited,
          shared, logged, rmb, mark, counted, users, recharge, todo, at,
          first, faults, hit, swallowed>>

Steps == {"exists", "update", "load", "stat", "share", "credit", "log",
          "sum", "answer", "mark"}

TypeOK ==
    /\ table \in [Orders -> {"none", "pending", "successful"}]
    /\ full \subseteq Orders /\ ttl \subseteq Orders
    /\ pending \subseteq Orders /\ succeeded \subseteq Orders
    /\ paid \subseteq Orders /\ settled \subseteq Orders
    /\ credited \in [Keys -> Nat] /\ shared \in [Keys -> Nat]
    /\ logged \in [Keys -> Nat] /\ rmb \in [Keys -> Nat]
    /\ mark \subseteq Receipts
    /\ counted \in BOOLEAN /\ users \in Nat
    /\ recharge \in Seq(Nat) /\ Len(recharge) <= 1
    /\ todo \in [Threads -> Seq(Steps)]
    /\ at \in [Threads -> Keys \cup {NoKey}]
    /\ first \in [Threads -> BOOLEAN]
    /\ faults \in 0..MaxFaults
    /\ hit \in [Keys -> Nat]
    /\ swallowed \subseteq Orders

Init ==
    /\ table = [o \in Orders |-> "none"]
    /\ full = {} /\ ttl = {} /\ pending = {} /\ succeeded = {}
    /\ paid = {} /\ settled = {}
    /\ credited = [k \in Keys |-> 0] /\ shared = [k \in Keys |-> 0]
    /\ logged = [k \in Keys |-> 0] /\ rmb = [k \in Keys |-> 0]
    /\ mark = {}
    /\ counted = FALSE /\ users = 0 /\ recharge = <<>>
    /\ todo = [t \in Threads |-> <<>>]
    /\ at = [t \in Threads |-> NoKey]
    /\ first = [t \in Threads |-> FALSE]
    /\ faults = 0
    /\ hit = [k \in Keys |-> 0]
    /\ swallowed = {}

CountFault(k) ==
    /\ faults < MaxFaults
    /\ faults' = faults + 1
    /\ hit' = [hit EXCEPT ![k] = @ + 1]

Fault(k) == CountFault(k) /\ UNCHANGED swallowed

NoFault == UNCHANGED <<faults, hit, swallowed>>

\* An exception is caught where it is raised, and the caller never learns.
Swallow(o) ==
    /\ CountFault(o)
    /\ swallowed' = swallowed \cup {o}

Handled(k) == \E t \in Threads : at[t] = k

\* A request that comes in while one for the same order or receipt is still
\* being handled counts as a fault.
Arrives(k) == IF Handled(k) THEN Fault(k) ELSE NoFault

Idle(t) == at[t] = NoKey

Begin(t, k, steps) ==
    /\ Idle(t)
    /\ todo' = [todo EXCEPT ![t] = steps]
    /\ at' = [at EXCEPT ![t] = k]
    /\ UNCHANGED first

\* The request ends; what it had read is forgotten.
Leave(t) ==
    /\ todo' = [todo EXCEPT ![t] = <<>>]
    /\ at' = [at EXCEPT ![t] = NoKey]
    /\ first' = [first EXCEPT ![t] = FALSE]

\* Thread t takes a step of the given name.
Does(t, step) == todo[t] # <<>> /\ Head(todo[t]) = step

Done(t) ==
    IF Tail(todo[t]) = <<>>
      THEN Leave(t)
      ELSE /\ todo' = [todo EXCEPT ![t] = Tail(todo[t])]
           /\ UNCHANGED <<at, first>>

----------------------------------------------------------------------------
(* The order. *)

\* WeChat has accepted the order; the table, the sets and the TTL are written
\* in one pipeline before the client gets what it needs to pay.
OnWeChatPay(o) ==
    /\ o \notin pending
    /\ table' = [table EXCEPT ![o] = "pending"]
    /\ full' = full \cup {o}
    /\ pending' = pending \cup {o}
    /\ ttl' = ttl \cup {o}
    /\ UNCHANGED <<succeeded, wechat, books, thread>> /\ NoFault

\* The player pays, possibly after the hour: the order that is sent to WeChat
\* has no time_expire.
Pay(o) ==
    /\ o \in pending /\ o \notin paid
    /\ paid' = paid \cup {o}
    /\ UNCHANGED <<tables, settled, books, thread>> /\ NoFault

\* redis drops the order table at the end of its hour.
OrderExpires(o) ==
    /\ o \in ttl
    /\ table' = [table EXCEPT ![o] = "none"]
    /\ full' = full \ {o}
    /\ ttl' = ttl \ {o}
    /\ UNCHANGED <<pending, succeeded, wechat, books, thread>> /\ NoFault

----------------------------------------------------------------------------
(* /notifyServer. *)

\* Mutant of NotifySteps: the answer is sent before the RMB sum is raised.
AnswerBeforeSum(o) ==
    <<"exists", "update", "load">> \o
    (IF o \in FishOrders THEN <<"stat", "credit", "answer">>
                         ELSE <<"credit", "log", "answer", "sum">>)

\* Mutant of NotifySteps: the agents get their share twice.
ShareTwice(o) ==
    <<"exists", "update", "load", "stat", "share", "share", "credit", "log",
      "sum", "answer">>

\* What is done once the order has been found and is whole:
\* do_add_fishcoin_2_members, or addRoomCard2Member and the RMB sum.
NotifySteps(o) ==
    CASE o \in FishOrders ->
           <<"exists", "update", "load", "stat", "credit", "answer">>
      [] o \in CardOrders ->
           <<"exists", "update", "load", "stat", "share", "credit", "log",
             "sum", "answer">>
      [] o \in GoldOrders ->
           <<"exists", "update", "load", "credit", "log", "sum", "answer">>

\* WeChat sends the notification again as long as it has not seen SUCCESS.
Notify(t, o) ==
    /\ o \in paid \ settled
    /\ Arrives(o)
    /\ Begin(t, o, NotifySteps(o))
    /\ UNCHANGED <<tables, wechat, books>>

\* verfiyRcvDatas: no table, no order; the answer is FAIL.
VerifyExists(t) ==
    /\ Does(t, "exists")
    /\ IF table[at[t]] = "none" THEN Leave(t) ELSE Done(t)
    /\ UNCHANGED <<tables, wechat, books>> /\ NoFault

\* Mutant of Persist: the pipeline does not remove the TTL.
NoPersist(o) == ttl' = ttl

\* pipe.persist(orderTable).
Persist(o) == ttl' = ttl \ {o}

\* verfiyRcvDatas, the pipeline.  HMSET creates the table anew if its hour
\* has just ended; SREM names the table and not the order number that is in
\* the set, and removes nothing.
VerifyUpdate(t) ==
    /\ Does(t, "update")
    /\ table' = [table EXCEPT ![at[t]] = "successful"]
    /\ succeeded' = succeeded \cup {at[t]}
    /\ Persist(at[t])
    /\ Done(t)
    /\ UNCHANGED <<full, pending, wechat, books>> /\ NoFault

\* Without a table the log message names an undefined variable, without the
\* account the user table is None: both raise, and no answer is sent.
LoadOrder(t) ==
    /\ Does(t, "load")
    /\ IF at[t] \in full THEN Done(t) ELSE Leave(t)
    /\ UNCHANGED <<tables, wechat, books>> /\ NoFault

\* The read whose result decides what goes into the pipeline: SISMEMBER of
\* the day's users (fish), EXISTS of the recharge total (cards).
ReadStat(t) ==
    /\ Does(t, "stat")
    /\ first' = [first EXCEPT ![t] = IF at[t] \in FishOrders
                                       THEN ~counted ELSE recharge = <<>>]
    /\ todo' = [todo EXCEPT ![t] = Tail(todo[t])]
    /\ UNCHANGED <<tables, wechat, books, at>> /\ NoFault

\* do_pay_record catches what the read, or a price that is no integer, raises:
\* it logs, returns None and drops its pipeline.  do_add_fishcoin_2_members
\* does not look at the result, and WeChat is answered SUCCESS.
PayRecordFails(t) ==
    /\ Does(t, "stat")
    /\ at[t] \in FishOrders
    /\ Swallow(at[t])
    /\ todo' = [todo EXCEPT ![t] = <<"answer">>]
    /\ UNCHANGED <<tables, wechat, books, at, first>>

\* countRateOfAgent, which runs before the pipeline of the credit is executed
\* (for a receipt: after it).
Share(t) ==
    /\ Does(t, "share")
    /\ shared' = [shared EXCEPT ![at[t]] = @ + 1]
    /\ Done(t)
    /\ UNCHANGED <<tables, wechat, credited, logged, rmb, mark, counted, users,
                   recharge>>
    /\ NoFault

\* Mutant of RechargeAfter: the total counts every card twice.
RechargeTwice(t) ==
    IF first[t] \/ recharge = <<>> THEN <<2>> ELSE <<recharge[1] + 2>>

\* SET 0 if the total was absent when it was read, then INCRBY.
RechargeAfter(t) ==
    IF first[t] \/ recharge = <<>> THEN <<1>> ELSE <<recharge[1] + 1>>

\* pipe.sadd(FISH_RECHARGE_USER_DAY_IDS, user_id).
AddToDay(t) == counted' = (counted \/ first[t])

\* The command or the pipeline that credits the player.
Credit(t) ==
    /\ Does(t, "credit")
    /\ credited' = [credited EXCEPT ![at[t]] = @ + 1]
    /\ IF at[t] \in FishOrders
         THEN AddToDay(t) /\ users' = IF first[t] THEN users + 1 ELSE users
         ELSE UNCHANGED <<counted, users>>
    /\ recharge' = IF at[t] \in CardOrders THEN RechargeAfter(t) ELSE recharge
    /\ Done(t)
    /\ UNCHANGED <<tables, wechat, shared, logged, rmb, mark>> /\ NoFault

\* The player's record: PLAYER_DAY_USE_CARD, or saveBuyGoldRecord.
LogCredit(t) ==
    /\ Does(t, "log")
    /\ logged' = [logged EXCEPT ![at[t]] = @ + 1]
    /\ Done(t)
    /\ UNCHANGED <<tables, wechat, credited, shared, rmb, mark, counted, users,
                   recharge>>
    /\ NoFault

\* saveBuyGoldRecord catches every exception; the gold was credited before.
GoldRecordFails(t) ==
    /\ Does(t, "log")
    /\ at[t] \in GoldOrders
    /\ Swallow(at[t])
    /\ Done(t)
    /\ UNCHANGED <<tables, wechat, books>>

\* INCR allplayer:charge:rmb:sum.
RmbSum(t) ==
    /\ Does(t, "sum")
    /\ rmb' = [rmb EXCEPT ![at[t]] = @ + 1]
    /\ Done(t)
    /\ UNCHANGED <<tables, wechat, credited, shared, logged, mark, counted,
                   users, recharge>>
    /\ NoFault

\* The answer SUCCESS, which WeChat sees unless it gets lost.
Answer(t) ==
    /\ Does(t, "answer")
    /\ \/ settled' = settled \cup {at[t]} /\ NoFault
       \/ UNCHANGED settled /\ Fault(at[t])
    /\ Done(t)
    /\ UNCHANGED <<tables, paid, books>>

\* The worker dies between two commands; no answer is sent.
Crash(t) ==
    /\ ~Idle(t)
    /\ Fault(at[t])
    /\ Leave(t)
    /\ UNCHANGED <<tables, wechat, books>>

----------------------------------------------------------------------------
(* /onAppleStorePay. *)

\* The hall also keeps a record and gives the agents their share.
AppleSteps(k) ==
    IF k \in FishReceipts THEN <<"credit", "mark">>
                          ELSE <<"credit", "mark", "log", "share">>

\* The receipt is valid and its transaction id is not stored yet.  A client
\* that has no answer sends its receipt again.
OnAppleStorePay(t, k) ==
    /\ k \notin mark
    /\ Arrives(k)
    /\ Begin(t, k, AppleSteps(k))
    /\ UNCHANGED <<tables, wechat, books>>

\* Mutant of StoreMark: the transaction id is not stored.
ForgetMark(k) == mark' = mark

\* redis.set(APP_PAY_ORDER_ITEM, productid).
StoreMark(k) == mark' = mark \cup {k}

AppleMark(t) ==
    /\ Does(t, "mark")
    /\ StoreMark(at[t])
    /\ Done(t)
    /\ UNCHANGED <<tables, wechat, credited, shared, logged, rmb, counted,
                   users, recharge>>
    /\ NoFault

----------------------------------------------------------------------------
Step(t) ==
    \/ VerifyExists(t) \/ VerifyUpdate(t) \/ LoadOrder(t) \/ ReadStat(t)
    \/ Share(t) \/ Credit(t) \/ LogCredit(t) \/ RmbSum(t) \/ Answer(t)
    \/ AppleMark(t)

\* What goes wrong while thread t serves a request.
Fails(t) == Crash(t) \/ PayRecordFails(t) \/ GoldRecordFails(t)

Next ==
    \/ \E o \in Orders : OnWeChatPay(o) \/ Pay(o) \/ OrderExpires(o)
    \/ \E t \in Threads, o \in Orders : Notify(t, o)
    \/ \E t \in Threads, k \in Receipts : OnAppleStorePay(t, k)
    \/ \E t \in Threads : Step(t) \/ Fails(t)

Spec == Init /\ [][Next]_vars

(***************************************************************************)
(* A thread that serves a request goes on, and WeChat repeats a            *)
(* notification that nobody handles until it is answered.  There may be    *)
(* more such orders than threads: a notification that again and again      *)
(* finds a thread free is served at last, because connections wait in the  *)
(* order in which they come.                                               *)
(***************************************************************************)
Fairness ==
    /\ \A t \in Threads : WF_vars(Step(t))
    /\ \A o \in Orders :
         SF_vars(~Handled(o) /\ \E t \in Threads : Notify(t, o))

FairSpec == Spec /\ Fairness

(***************************************************************************)
(* Properties                                                              *)
(***************************************************************************)

\* An order marked as successful is neither dropped by redis nor will be,
\* although its hour may end while the notification is being handled: what
\* verfiyRcvDatas has accepted is still there for the credit.
SucceededStays ==
    \A o \in succeeded : table[o] = "successful" /\ o \notin ttl

\* Orders and receipts are credited at least once per success, not exactly
\* once: but every credit after the first costs a crash, a lost answer or a
\* request that overtook another.
CreditsNeedFaults == \A k \in Keys : credited[k] <= 1 + hit[k]

\* WeChat is told SUCCESS only for orders whose books are complete: player
\* credited, and for hall orders the record written and the sum raised.  The
\* exceptions are the two that the code makes by swallowing an error: a fish
\* order may be settled without a credit, a gold order without its record.
SettledIsBooked ==
    \A o \in settled :
        /\ credited[o] >= 1 \/ o \in FishOrders \cap swallowed
        /\ o \notin FishOrders =>
             /\ logged[o] >= 1 \/ o \in GoldOrders \cap swallowed
             /\ rmb[o] >= 1
        /\ o \in CardOrders => shared[o] >= 1

\* The agents' share of a card order is written before the credit: each share
\* without a credit belongs to a thread on its way there or to a crash.
SharesAreEarned ==
    \A o \in CardOrders :
        shared[o] <= credited[o] + hit[o]
                     + Cardinality({t \in Threads : at[t] = o})

\* do_pay_record reads the day's set before its pipeline writes it, so the
\* player can be counted more than once, but at most once by each thread.
UsersOvershootBounded == users <= Cardinality(Threads)

\* The recharge total of a player never runs ahead of the credits of his card
\* orders, although SET 0 and INCRBY follow a read made earlier.
CardCredits ==
    Cardinality(UNION {{o} \X (1..credited[o]) : o \in CardOrders})

RechargeNeverAhead == recharge # <<>> => recharge[1] <= CardCredits

\* Statistics that a pipeline writes after an earlier read stray in one
\* direction and by a bounded amount: UsersOvershootBounded for the day's
\* paying users, RechargeNeverAhead for the recharge total.
StatisticsBounded == UsersOvershootBounded /\ RechargeNeverAhead

\* Once the notification of a payment has been verified while the order table
\* was whole, the player is credited in the end, whatever crashes, because
\* WeChat goes on asking; unless it is a fish order whose credit failed with
\* an error that do_pay_record swallowed, which ends the asking.
VerifiedGetsCredited ==
    \A o \in Orders :
        (o \in succeeded /\ o \in full)
            ~> (credited[o] >= 1 \/ o \in FishOrders \cap swallowed)
============================================================================
