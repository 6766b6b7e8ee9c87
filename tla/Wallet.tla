------------------------------- MODULE Wallet -------------------------------
(***************************************************************************)
(* One player's purse and safe box: /box/save, /box/take, the lock and     *)
(* password of the box (fish/fish_bag.py), /currency/exchange              *)
(* (fish/fish_exchange.py), /buyCoin (fish/fish_pay.py) and the VIP level  *)
(* it records (fish/fish_util/fish_pay_func.py).                           *)
(*                                                                         *)
(* A handler checks a balance with one redis command and changes balances  *)
(* with HINCRBY commands that follow, one round trip each, while the other *)
(* threads of the server do the same: after its check a request is the     *)
(* list of the increments it still has to send.                            *)
(***************************************************************************)
EXTENDS Integers, Sequences, FiniteSets

CONSTANTS
    Requests,    \* the server threads that can serve this player at once
    Items,       \* item ids: 1 is the diamond, 2 the coin
    Nums,        \* the quantities a client asks for in save and take
    Courses,     \* currency:change:course records
    Goods,       \* goods records of /buyCoin
    Prices,      \* the prices a client sends with a purchase: any integers
    Doors,       \* the VIP thresholds, in ascending order
    Passwords,   \* the box passwords a client may send or be given
    Start,       \* the player's purse at the beginning
    StartGoods,  \* player:uid:<uid>:hesh at the beginning
    MaxDebit,    \* no request takes more than this of an item
    MaxOps       \* bound: requests that change balances

Diamond == 1
Coin == 2
NoPwd == "none"
Unset == "unset"
Locked == "1"
Open == "2"

CourseRecords ==
    [cost_type : Items, gain_type : Items, cost : Nat, gain : Nat]
GoodsRecords == [cards : Nat, present : Nat, price : Nat]

ASSUME WalletAssumption ==
    /\ IsFiniteSet(Requests) /\ Requests # {}
    /\ {Diamond, Coin} \subseteq Items
    /\ Items \subseteq Nat
    /\ Nums \subseteq Nat
    /\ Courses \subseteq CourseRecords
    /\ Goods \subseteq GoodsRecords
    /\ Prices \subseteq Int
    /\ Doors \in Seq(Nat \ {0})
    /\ NoPwd \notin Passwords
    /\ Start \in [Items -> Nat]
    /\ StartGoods \in [Items -> Nat]
    /\ MaxDebit \in Nat
    /\ \A n \in Nums : n <= MaxDebit
    /\ \A c \in Courses : c.cost <= MaxDebit
    /\ MaxOps \in Nat

(***************************************************************************)
(* The hashes that hold quantities.  "purse" is users:<uid> diamond and    *)
(* coin, and player:item:uid:<uid> for every other item; "stray" is the    *)
(* field of player:item that /box/take fills for an item that is not kept  *)
(* there; "goods" is player:uid:<uid>:hesh, which only the exchange uses;  *)
(* "sums" are the statistics fish:diamond:charge:sum and                   *)
(* fish:diamond2coin:sum.                                                  *)
(***************************************************************************)
Accounts == {"purse", "box", "stray", "goods", "sums"}

VARIABLES
    bal,       \* the quantity of each item in each account
    pwd,       \* users:<uid> box_pwd
    lock,      \* users:<uid> box_lock
    charge,    \* users:<uid> vip_charge
    level,     \* users:<uid> vip_level
    pc,        \* where each request is
    req,       \* what each request asks for
    credits,   \* the HINCRBYs that a request sends before its debit
    debit,     \* the HINCRBY with which a request ends
    levels,    \* the HSETs of vip_level that a request still has to send
    served,    \* bound: balance-changing requests accepted so far
    crashed,   \* history: whether a request was cut off
    flow,      \* history: what exchanges and purchases added to purse and box
    peak,      \* history: the highest sum that vip_charge has ever been
    torn       \* history: whether the HSETs that belong to the latest charge
               \* were cut off, or mixed with those of another one

money == <<bal, flow>>
safe == <<pwd, lock>>
vip == <<charge, level, peak, torn>>
work == <<credits, debit, levels>>
vars == <<bal, pwd, lock, charge, level, pc, req, credits, debit, levels,
          served, crashed, flow, peak, torn>>

Increments == [acct : Accounts, item : Items, num : Int]
NoDebit == [acct |-> "goods", item |-> Diamond, num |-> 0]
NoReq == [op |-> "none"]

\* What the later steps of a request still need to know of it.
Asked ==
    [op : {"none", "save", "take", "exchange"}]
      \cup [op : {"take"}, item : Items, num : Nums]
      \cup [op : {"exchange"}, course : Courses]
      \cup [op : {"buy"}, price : Prices]

Put(a, i, n) == [acct |-> a, item |-> i, num |-> n]

Steps == {"idle", "take", "exchange", "work", "vip", "level", "unlock"}

TypeOK ==
    /\ bal \in [Accounts -> [Items -> Int]]
    /\ pwd \in Passwords \cup {NoPwd}
    /\ lock \in {Unset, Locked, Open}
    /\ charge \in Int
    /\ level \in 0..Len(Doors)
    /\ pc \in [Requests -> Steps]
    /\ req \in [Requests -> Asked]
    /\ credits \in [Requests -> Seq(Increments)]
    /\ debit \in [Requests -> Increments]
    /\ levels \in [Requests -> Seq(1..Len(Doors))]
    /\ served \in 0..MaxOps
    /\ crashed \in BOOLEAN
    /\ flow \in [Items -> Int]
    /\ peak \in Int
    /\ torn \in BOOLEAN

Init ==
    /\ bal = [a \in Accounts |-> CASE a = "purse" -> Start
                                   [] a = "goods" -> StartGoods
                                   [] OTHER -> [i \in Items |-> 0]]
    /\ pwd = NoPwd
    /\ lock = Unset
    /\ charge = 0
    /\ level = 0
    /\ pc = [r \in Requests |-> "idle"]
    /\ req = [r \in Requests |-> NoReq]
    /\ credits = [r \in Requests |-> <<>>]
    /\ debit = [r \in Requests |-> NoDebit]
    /\ levels = [r \in Requests |-> <<>>]
    /\ served = 0
    /\ crashed = FALSE
    /\ flow = [i \in Items |-> 0]
    /\ peak = 0
    /\ torn = FALSE

(***************************************************************************)
(* Accept(r, q, cs, d): request r, asking for q, has passed its last check *)
(* and will send the increments cs and then d.                             *)
(***************************************************************************)
Accept(r, q, cs, d) ==
    /\ served < MaxOps
    /\ served' = served + 1
    /\ pc' = [pc EXCEPT ![r] = "work"]
    /\ req' = [req EXCEPT ![r] = q]
    /\ credits' = [credits EXCEPT ![r] = cs]
    /\ debit' = [debit EXCEPT ![r] = d]
    /\ UNCHANGED <<money, safe, vip, levels, crashed>>

Refuse(r) ==
    /\ pc' = [pc EXCEPT ![r] = "idle"]
    /\ req' = [req EXCEPT ![r] = NoReq]
    /\ UNCHANGED <<money, safe, vip, work, served, crashed>>

\* The request goes on to its next check.
Continue(r, step, q) ==
    /\ pc' = [pc EXCEPT ![r] = step]
    /\ req' = [req EXCEPT ![r] = q]
    /\ UNCHANGED <<money, safe, vip, work, served, crashed>>

----------------------------------------------------------------------------
(* /box/save *)

\* Mutant of SaveCovered: the balance is not compared.
SaveUnchecked(i, n) == TRUE

\* int(num) > cur is refused.
SaveCovered(i, n) == n <= bal["purse"][i]

\* Mutant of SaveMoves: the purse is debited first.
SaveMovesDebitFirst(i, n) ==
    [credits |-> <<Put("purse", i, -n)>>, debit |-> Put("box", i, n)]

\* The box is credited, then the purse debited, whatever the item.
SaveMoves(i, n) ==
    [credits |-> <<Put("box", i, n)>>, debit |-> Put("purse", i, -n)]

BoxSave(r, i, n) ==
    /\ pc[r] = "idle"
    /\ n > 0
    /\ SaveCovered(i, n)
    /\ Accept(r, [op |-> "save"], SaveMoves(i, n).credits,
              SaveMoves(i, n).debit)

(***************************************************************************)
(* /box/take: the lock is read first, the content of the box afterwards.   *)
(***************************************************************************)
BoxTakeLock(r, i, n) ==
    /\ pc[r] = "idle"
    /\ n >= 0
    /\ lock = Open
    /\ Continue(r, "take", [op |-> "take", item |-> i, num |-> n])

\* "if item 1", then "if item 2 ... else": a diamond enters both branches.
TakeMoves(i, n) ==
    [credits |-> IF i = Diamond
                   THEN <<Put("purse", i, n), Put("stray", i, n)>>
                   ELSE <<Put("purse", i, n)>>,
     debit |-> Put("box", i, -n)]

BoxTake(r) ==
    /\ pc[r] = "take"
    /\ LET i == req[r].item
           n == req[r].num
       IN IF n > bal["box"][i]
            THEN Refuse(r)
            ELSE Accept(r, [op |-> "take"], TakeMoves(i, n).credits,
                        TakeMoves(i, n).debit)

(***************************************************************************)
(* /currency/exchange: the password is read first, the balance afterwards. *)
(* Diamonds are paid from the box, coins from the purse; the third branch  *)
(* ends with an HINCRBY of +cost.                                          *)
(***************************************************************************)
ExchangePwd(r, c) ==
    /\ pc[r] = "idle"
    /\ pwd # NoPwd
    /\ Continue(r, "exchange", [op |-> "exchange", course |-> c])

\* Where the exchange looks up whether the cost is covered.
PaidFrom(c) ==
    CASE c.cost_type = Diamond -> "box"
      [] c.cost_type = Coin -> "purse"
      [] OTHER -> "goods"

\* Diamonds bought with coins are credited twice, in purse and box.
ExchangeCredits(c) ==
    CASE c.cost_type = Coin /\ c.gain_type = Diamond ->
           <<Put("purse", Diamond, c.gain), Put("box", Diamond, c.gain)>>
      [] c.cost_type = Diamond /\ c.gain_type = Coin ->
           <<Put("box", Coin, c.gain), Put("sums", Coin, c.gain)>>
      [] OTHER -> <<Put("box", c.gain_type, c.gain)>>

ExchangeDebit(c) ==
    IF c.cost_type \in {Diamond, Coin}
      THEN Put(PaidFrom(c), c.cost_type, -c.cost)
      ELSE Put("goods", c.cost_type, c.cost)

CurrencyExchange(r) ==
    /\ pc[r] = "exchange"
    /\ LET c == req[r].course
       IN IF bal[PaidFrom(c)][c.cost_type] < c.cost
            THEN Refuse(r)
            ELSE Accept(r, [op |-> "exchange"], ExchangeCredits(c),
                        ExchangeDebit(c))

(***************************************************************************)
(* /buyCoin: password and lock in one HMGET; the diamonds go to the box,   *)
(* then vip_charge_record adds the price the CLIENT sent, which nothing    *)
(* compares with the goods and which may be negative, and writes the       *)
(* level.  (A price that is no integer makes the HINCRBY fail: a Crash.)   *)
(***************************************************************************)
BuyCoin(r, g, price) ==
    /\ pc[r] = "idle"
    /\ pwd # NoPwd
    /\ lock = Open
    /\ Accept(r, [op |-> "buy", price |-> price],
              <<Put("sums", Diamond, g.price),
                Put("box", Diamond, g.cards + g.present)>>, NoDebit)

\* The number of doors that a sum has reached: what the last HSET writes.
LevelOf(sum) == Cardinality({k \in 1..Len(Doors) : sum >= Doors[k]})

\* Mutant of NewLevels: the doors are tried in descending order.
NewLevelsDescending(r) ==
    LET n == LevelOf(charge + req[r].price)
    IN  [k \in 1..n |-> n + 1 - k]

\* Mutant of NewLevels: the doors are numbered from two.
NewLevelsShifted(r) == [k \in 1..LevelOf(charge + req[r].price) |-> k + 1]

\* The HSETs that follow the charge: one for each door, in ascending order.
NewLevels(r) == [k \in 1..LevelOf(charge + req[r].price) |-> k]

\* HINCRBY vip_charge returns the new sum; one HSET follows for each door.
VipCharge(r) ==
    /\ pc[r] = "vip"
    /\ charge' = charge + req[r].price
    /\ peak' = IF charge' > peak THEN charge' ELSE peak
    /\ levels' = [levels EXCEPT ![r] = NewLevels(r)]
    /\ torn' = (\E q \in Requests : levels[q] # <<>>)
    /\ pc' = [pc EXCEPT ![r] = "level"]
    /\ UNCHANGED <<money, safe, level, req, credits, debit, served, crashed>>

VipLevel(r) ==
    /\ pc[r] = "level"
    /\ IF levels[r] = <<>>
         THEN /\ pc' = [pc EXCEPT ![r] = "idle"]
              /\ req' = [req EXCEPT ![r] = NoReq]
              /\ UNCHANGED <<level, levels>>
         ELSE /\ level' = Head(levels[r])
              /\ levels' = [levels EXCEPT ![r] = Tail(@)]
              /\ UNCHANGED <<pc, req>>
    /\ UNCHANGED <<money, safe, charge, peak, torn, credits, debit, served,
                   crashed>>

----------------------------------------------------------------------------
(* The increments of an accepted request. *)

Apply(e) == bal' = [bal EXCEPT ![e.acct][e.item] = @ + e.num]

\* Exchanges and purchases change what the player owns, transfers do not.
Record(r, e) ==
    flow' = IF req[r].op \in {"exchange", "buy"} /\ e.acct \in {"purse", "box"}
              THEN [flow EXCEPT ![e.item] = @ + e.num]
              ELSE flow

CreditStep(r) ==
    /\ pc[r] = "work"
    /\ credits[r] # <<>>
    /\ Apply(Head(credits[r]))
    /\ Record(r, Head(credits[r]))
    /\ credits' = [credits EXCEPT ![r] = Tail(@)]
    /\ UNCHANGED <<safe, vip, pc, req, debit, levels, served, crashed>>

DebitStep(r) ==
    /\ pc[r] = "work"
    /\ credits[r] = <<>>
    /\ Apply(debit[r])
    /\ Record(r, debit[r])
    /\ debit' = [debit EXCEPT ![r] = NoDebit]
    /\ IF req[r].op = "buy"
         THEN /\ pc' = [pc EXCEPT ![r] = "vip"]
              /\ UNCHANGED req
         ELSE /\ pc' = [pc EXCEPT ![r] = "idle"]
              /\ req' = [req EXCEPT ![r] = NoReq]
    /\ UNCHANGED <<safe, vip, credits, levels, served, crashed>>

\* The worker dies, or its connection to redis breaks, between two commands.
Crash(r) ==
    /\ pc[r] \in {"work", "vip", "level"}
    /\ crashed' = TRUE
    /\ pc' = [pc EXCEPT ![r] = "idle"]
    /\ req' = [req EXCEPT ![r] = NoReq]
    /\ credits' = [credits EXCEPT ![r] = <<>>]
    /\ debit' = [debit EXCEPT ![r] = NoDebit]
    /\ levels' = [levels EXCEPT ![r] = <<>>]
    /\ torn' = (torn \/ levels[r] # <<>>)
    /\ UNCHANGED <<money, safe, charge, level, peak, served>>

----------------------------------------------------------------------------
(* The lock of the box. *)

\* /set/box/pwd: no check of an earlier password; one HMSET.
SetBoxPwd(p) ==
    /\ pwd' = p
    /\ lock' = Locked
    /\ UNCHANGED <<money, vip, pc, req, work, served, crashed>>

\* /box/lock, if a lock was ever set.
BoxLock ==
    /\ lock # Unset
    /\ lock' = Locked
    /\ UNCHANGED <<money, pwd, vip, pc, req, work, served, crashed>>

\* /box/unlock compares with the password in redis ...
BoxUnlockPwd(r, p) ==
    /\ pc[r] = "idle"
    /\ p = pwd
    /\ Continue(r, "unlock", NoReq)

\* ... and opens the lock with its next command.
BoxUnlock(r) ==
    /\ pc[r] = "unlock"
    /\ lock' = Open
    /\ pc' = [pc EXCEPT ![r] = "idle"]
    /\ UNCHANGED <<money, pwd, vip, req, work, served, crashed>>

\* /box/find/pwd with the right code: a new password, the lock as it was.
BoxFindPwd(p) ==
    /\ pwd' = p
    /\ UNCHANGED <<money, lock, vip, pc, req, work, served, crashed>>

\* A login locks the box of a player who has a password.
Login ==
    /\ pwd # NoPwd
    /\ lock' = Locked
    /\ UNCHANGED <<money, pwd, vip, pc, req, work, served, crashed>>

----------------------------------------------------------------------------
Step(r) ==
    \/ \E i \in Items, n \in Nums : BoxSave(r, i, n) \/ BoxTakeLock(r, i, n)
    \/ BoxTake(r)
    \/ \E c \in Courses : ExchangePwd(r, c)
    \/ CurrencyExchange(r)
    \/ \E g \in Goods, price \in Prices : BuyCoin(r, g, price)
    \/ VipCharge(r) \/ VipLevel(r)
    \/ CreditStep(r) \/ DebitStep(r) \/ Crash(r)
    \/ \E p \in Passwords : BoxUnlockPwd(r, p)
    \/ BoxUnlock(r)

Next ==
    \/ \E r \in Requests : Step(r)
    \/ \E p \in Passwords : SetBoxPwd(p) \/ BoxFindPwd(p)
    \/ BoxLock
    \/ Login

Spec == Init /\ [][Next]_vars

(***************************************************************************)
(* Properties                                                              *)
(***************************************************************************)

Idle == \A r \in Requests : pc[r] \notin {"work", "vip", "level"}
Owned(i) == bal["purse"][i] + bal["box"][i]

\* /box/save and /box/take credit the one side before they debit the other:
\* wherever a worker dies, and however requests interleave, purse and box
\* together never hold less than exchanges and purchases left there.
TransferNeverLoses ==
    \A i \in Items : Owned(i) >= Start[i] + flow[i]

\* When no request is under way and none was cut off, saving and taking have
\* moved items between purse and box without making or losing any.
TransferExact ==
    Idle /\ ~crashed => \A i \in Items : Owned(i) = Start[i] + flow[i]

\* A transfer between purse and box, two increments with nothing to undo the
\* first, never loses (TransferNeverLoses) and gains only where it was cut off
\* (TransferExact).
TransfersSound == TransferNeverLoses /\ TransferExact

\* The balance is checked with one command and debited with a later one, so
\* it can fall below zero; but only by what the other threads had checked
\* before: one debit per thread at most, less the one that was covered.
OverdraftBounded ==
    \A a \in {"purse", "box"}, i \in Items :
        bal[a][i] >= -(Cardinality(Requests) - 1) * MaxDebit

\* The level in users:<uid> is written by several HSETs after the charge was
\* added, possibly by several threads at once, and a charge may be negative:
\* the level never exceeds what the highest recorded charge was worth ...
LevelWasEarned == level <= LevelOf(peak)

\* ... and it is not left behind: once the HSETs of a purchase have been sent,
\* neither mixed with those of another purchase nor cut off, the level is that
\* of the recorded charge, if the charge has reached a door at all.
LevelIsCurrent ==
    /\ ~torn
    /\ \A r \in Requests : levels[r] = <<>>
    /\ LevelOf(charge) > 0
    => level = LevelOf(charge)

\* The VIP level was earned (LevelWasEarned) and, between purchases that were
\* not torn, is the one the charge stands for (LevelIsCurrent).
VipLevelSound == LevelWasEarned /\ LevelIsCurrent
=============================================================================
