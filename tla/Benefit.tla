------------------------------ MODULE Benefit ------------------------------
(***************************************************************************)
(* The relief coins of one player: /fish/getBenefitInfo makes a token of   *)
(* the time and SETs it, /fish/takeBenefit spends it                       *)
(* (fish/fish_benefit.py, fish/fish_util/fish_benefit_fun.py).  The web    *)
(* server runs one thread per request and every redis command is a round   *)
(* trip of its own, so a request is a little state machine: takeBenefit    *)
(* compares its token, computes the date, reads the counter of that date,  *)
(* computes the date AGAIN, sends one MULTI/EXEC pipeline and at last puts *)
(* a TTL on the counter's table.                                           *)
(***************************************************************************)
EXTENDS Naturals, FiniteSets

CONSTANTS
    Takers,        \* the server threads that can serve this player at once
    SaveTimes,     \* save_times of FISH_CONSTS_CONFIG: grants per day
    BenefitCoin,   \* save_money of FISH_CONSTS_CONFIG: coins of one grant
    MaxDay,        \* bound: the days 0..MaxDay are explored
    MaxTokens,     \* bound: the instants of the clock, each worth a token
    MaxInfos       \* bound: how often getBenefitInfo is called

ASSUME BenefitAssumption ==
    /\ IsFiniteSet(Takers)
    /\ SaveTimes \in Nat \ {0}
    /\ BenefitCoin \in Nat
    /\ MaxDay \in Nat
    /\ MaxTokens \in Nat \ {0}
    /\ MaxInfos \in Nat

VARIABLES
    today,      \* the server's date
    count,      \* FISH_BENEFIT_COIN_TABLE of each day, the player's field
    ttl,        \* the days whose table has a TTL
    token,      \* USER_BENEFIT_TOKEN of the player, NoToken if deleted
    clock,      \* str(time.time()): the time, in hundredths of a second
    issued,     \* calls of getBenefitInfo so far
    coin,       \* coins credited to the player by takeBenefit
    stage,      \* where each request is
    tok,        \* the token a request carries, or is about to SET
    checkDay,   \* the date computed in can_take_benefit
    takeDay,    \* the date computed in do_take_benefit
    amount,     \* benefit_info['benefit_coin'] read by the check
    taken,      \* history: grants made on each day
    spent,      \* history: grants made with each token
    sets        \* history: how often each token was SET

store == <<count, ttl, token, coin>>
history == <<taken, spent, sets>>
benefitVars == <<today, count, ttl, token, clock, issued, coin, stage, tok,
                 checkDay, takeDay, amount, taken, spent, sets>>

Days == 0..MaxDay
NoToken == 0
Tokens == 1..MaxTokens

\* to_int(save_money), tripled by check_spring_time within the hour 19.
Amounts == {BenefitCoin, 3 * BenefitCoin}

ReliefSteps == {"idle", "set", "token", "date", "read", "takeDate", "pipe",
                "expire"}

BenefitTypeOK ==
    /\ today \in Days
    /\ count \in [Days -> Nat]
    /\ ttl \subseteq Days
    /\ token \in Tokens \cup {NoToken}
    /\ clock \in Tokens
    /\ issued \in 0..MaxInfos
    /\ coin \in Nat
    /\ stage \in [Takers -> ReliefSteps]
    /\ tok \in [Takers -> Tokens \cup {NoToken}]
    /\ checkDay \in [Takers -> Days]
    /\ takeDay \in [Takers -> Days]
    /\ amount \in [Takers -> Nat]
    /\ taken \in [Days -> Nat]
    /\ spent \in [Tokens -> Nat]
    /\ sets \in [Tokens -> Nat]

BenefitInit ==
    /\ today = 0
    /\ count = [d \in Days |-> 0]
    /\ ttl = {}
    /\ token = NoToken
    /\ clock = 1
    /\ issued = 0
    /\ coin = 0
    /\ stage = [r \in Takers |-> "idle"]
    /\ tok = [r \in Takers |-> NoToken]
    /\ checkDay = [r \in Takers |-> 0]
    /\ takeDay = [r \in Takers |-> 0]
    /\ amount = [r \in Takers |-> 0]
    /\ taken = [d \in Days |-> 0]
    /\ spent = [t \in Tokens |-> 0]
    /\ sets = [t \in Tokens |-> 0]

(***************************************************************************)
(* getBenefitInfo: whatever can_take_benefit says, a token is made of the  *)
(* time and the session, md5(str(time.time()) + sid), and SET by a command *)
(* of its own.  str shows hundredths of a second: all the calls of one     *)
(* instant make the same token, which may have been spent in the meantime. *)
(***************************************************************************)
GetBenefitInfo(r) ==
    /\ stage[r] = "idle"
    /\ issued < MaxInfos
    /\ issued' = issued + 1
    /\ tok' = [tok EXCEPT ![r] = clock]
    /\ stage' = [stage EXCEPT ![r] = "set"]
    /\ UNCHANGED <<today, store, clock, checkDay, takeDay, amount, history>>

\* redis.set(USER_BENEFIT_TOKEN, token): it replaces whatever is there.
SetToken(r) ==
    /\ stage[r] = "set"
    /\ token' = tok[r]
    /\ sets' = [sets EXCEPT ![tok[r]] = @ + 1]
    /\ stage' = [stage EXCEPT ![r] = "idle"]
    /\ UNCHANGED <<today, count, ttl, clock, issued, coin, tok, checkDay,
                   takeDay, amount, taken, spent>>

\* The time moves on by a hundredth of a second.
Tick ==
    /\ clock < MaxTokens
    /\ clock' = clock + 1
    /\ UNCHANGED <<today, store, issued, stage, tok, checkDay, takeDay,
                   amount, history>>

\* Mutant of LocalDate: the date of another time zone.
OtherZoneDate == today + 1

\* time.strftime("%Y-%m-%d", time.localtime()), wherever it is computed.
LocalDate == today

\* A request with a valid session arrives; its token is a field of the client.
TakeBenefit(r) ==
    /\ stage[r] = "idle"
    /\ \E t \in Tokens : tok' = [tok EXCEPT ![r] = t]
    /\ stage' = [stage EXCEPT ![r] = "token"]
    /\ UNCHANGED <<today, store, clock, issued, checkDay, takeDay, amount,
                   history>>

\* The token is compared with the one in redis; it is not consumed yet.
CheckToken(r) ==
    /\ stage[r] = "token"
    /\ stage' = [stage EXCEPT ![r] = IF tok[r] = token THEN "date" ELSE "idle"]
    /\ UNCHANGED <<today, store, clock, issued, tok, checkDay, takeDay,
                   amount, history>>

\* can_take_benefit computes the date whose counter it is going to read.
CheckDate(r) ==
    /\ stage[r] = "date"
    /\ checkDay' = [checkDay EXCEPT ![r] = LocalDate]
    /\ stage' = [stage EXCEPT ![r] = "read"]
    /\ UNCHANGED <<today, store, clock, issued, tok, takeDay, amount,
                   history>>

\* Mutant of LimitReached: < instead of <=.
LimitPassed(r) == SaveTimes < count[checkDay[r]]

\* take_count <= user_take_count, on the date computed before.
LimitReached(r) == SaveTimes <= count[checkDay[r]]

\* can_take_benefit: refuse, or go on with the amount of this hour.
CanTakeBenefit(r) ==
    /\ stage[r] = "read"
    /\ IF LimitReached(r)
         THEN /\ stage' = [stage EXCEPT ![r] = "idle"]
              /\ UNCHANGED amount
         ELSE /\ stage' = [stage EXCEPT ![r] = "takeDate"]
              /\ \E a \in Amounts : amount' = [amount EXCEPT ![r] = a]
    /\ UNCHANGED <<today, store, clock, issued, tok, checkDay, takeDay,
                   history>>

\* do_take_benefit computes the date a second time.
TakeDate(r) ==
    /\ stage[r] = "takeDate"
    /\ takeDay' = [takeDay EXCEPT ![r] = LocalDate]
    /\ stage' = [stage EXCEPT ![r] = "pipe"]
    /\ UNCHANGED <<today, store, clock, issued, tok, checkDay, amount,
                   history>>

\* Mutant of DeleteToken: the token is not deleted in the pipeline.
KeepToken == token' = token

\* pipe.delete(USER_BENEFIT_TOKEN): whichever token the key holds by now.
DeleteToken == token' = NoToken

\* pipe.execute(): counter, coins and the deletion of the token, atomically.
ExecutePipe(r) ==
    /\ stage[r] = "pipe"
    /\ count' = [count EXCEPT ![takeDay[r]] = @ + 1]
    /\ coin' = coin + amount[r]
    /\ DeleteToken
    /\ taken' = [taken EXCEPT ![takeDay[r]] = @ + 1]
    /\ spent' = [spent EXCEPT ![tok[r]] = @ + 1]
    /\ stage' = [stage EXCEPT ![r] = "expire"]
    /\ UNCHANGED <<today, ttl, clock, issued, tok, checkDay, takeDay, amount,
                   sets>>

\* redis.expire(table, 86400), after which the answer is sent.
SetExpire(r) ==
    /\ stage[r] = "expire"
    /\ ttl' = ttl \cup {takeDay[r]}
    /\ stage' = [stage EXCEPT ![r] = "idle"]
    /\ UNCHANGED <<today, count, token, clock, issued, coin, tok, checkDay,
                   takeDay, amount, history>>

\* The date changes under the requests that are being served.
Midnight ==
    /\ today < MaxDay
    /\ today' = today + 1
    /\ UNCHANGED <<store, clock, issued, stage, tok, checkDay, takeDay,
                   amount, history>>

\* redis drops a table 24 hours after its last EXPIRE: not on its own day.
DropTable(d) ==
    /\ d \in ttl
    /\ d < today
    /\ count' = [count EXCEPT ![d] = 0]
    /\ ttl' = ttl \ {d}
    /\ UNCHANGED <<today, token, clock, issued, coin, stage, tok, checkDay,
                   takeDay, amount, history>>

ReliefStep(r) ==
    \/ GetBenefitInfo(r) \/ SetToken(r)
    \/ TakeBenefit(r) \/ CheckToken(r) \/ CheckDate(r) \/ CanTakeBenefit(r)
    \/ TakeDate(r) \/ ExecutePipe(r) \/ SetExpire(r)

BenefitNext ==
    \/ Tick
    \/ \E r \in Takers : ReliefStep(r)
    \/ Midnight
    \/ \E d \in Days : DropTable(d)

BenefitSpec == BenefitInit /\ [][BenefitNext]_benefitVars

(***************************************************************************)
(* Properties                                                              *)
(***************************************************************************)

\* The counter is read in can_take_benefit and incremented later, so the
\* daily limit can be passed by the requests already beyond the check, and by
\* the ones that were checked against yesterday's counter: but never by more
\* than one grant for each of the other server threads, whatever the dates.
DailyOvershootBounded ==
    \A d \in Days : taken[d] <= SaveTimes - 1 + Cardinality(Takers)

\* takeBenefit compares the token and deletes it only in the pipeline, two
\* reads later; getBenefitInfo may make the same token again and SET it after
\* it was spent.  A token is worth at most one grant per server thread for
\* each time it was SET, also when other tokens are SET in between.
TokenOvershootBounded ==
    \A t \in Tokens : spent[t] <= sets[t] * Cardinality(Takers)

============================================================================
