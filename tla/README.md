# Verification of the fish and hall web server

The repository is the web server of a group of mobile games: a fishing game
(`srcs/mahjong/fish`), a hall from which mahjong and card games are entered
(`srcs/mahjong/hall`), the models both use (`srcs/mahjong/model`), an
administration site (`srcs/mahjong/admin`) and a few workers (`srcs/tasks`).
This directory holds TLA+ models of its core, the TLC runs that check them on
small instances, and theorems about them whose proofs TLAPS checks.

## 1. What makes this system hard

The server is Python 2 on bottle, served by paste's thread pool
(`srcs/index.py:22`), possibly by several processes.  **All** state is in one
redis; there is no lock, no WATCH and no Lua script.  A handler is a sequence of
redis commands and pipelines.  Each of them is atomic, a handler is not: between
any two commands another thread may run any command of any handler.  Almost
every handler has the form *read, compare, write later*.  So the questions that
tests hardly reach are:

* how far can a limit (a daily limit, a balance, a list size) be passed when
  several requests have passed its check;
* what is left behind when a worker dies between two commands that belong
  together (there is no rollback and nothing to recover from);
* what happens when a notification or a client request comes twice;
* what happens when redis drops a key (EXPIRE) between two commands.

Every module therefore takes **one redis command or pipeline as one step**, and
lets a worker die between any two steps where that leaves something behind.

## 2. Inventory

| component | state in redis | operations | hard behaviour | what makes it correct | module |
|---|---|---|---|---|---|
| relief coins | count per player and day, one token per player | `getBenefitInfo`, `takeBenefit` | check, then pipeline; two readings of the date; midnight; token made of a 10 ms clock, stored later, compared, then deleted | grants per day and per stored token stay bounded | `Benefit` |
| wallet, safe box, exchange | `users:<uid>` diamond, coin, vip; `box:user:<uid>`; `player:item` | box save/take/lock/unlock/password, `/currency/exchange`, `/buyCoin` | two HINCRBYs per transfer, balance checked before; price named by the client | nothing lost in a transfer, bounded overdraft, VIP level earned and not left behind | `Wallet` |
| payments | order tables with TTL, pending and succeeded sets, receipts, statistics | `onWeChatPay`, `notifyServer`, `onAppleStorePay` | repeated and overlapping notifications, lost answers, crashes, swallowed exceptions, expiry of the order | credited at least once, a second time only after a fault; books complete when answered | `Payment` |
| friends | one set per player, list of requests, hash per request | invite, accept, refuse, delete | two sets written by two commands; limits checked before | mutual friendship, bounded sets and lists | `Friends` |
| letters | set of names per player, hash per letter | send, read, claim attachment, delete, clean-up | content after name, claim before deletion, any player may name any letter | a letter has content, is claimed a bounded number of times | `Mail` |
| login, registration and sessions | WeChat id and account name to user, user tables, platform session, session tables with TTL, login pool | `/fish/login`, `/account/reg/login`, `/hall/login`, refresh, extendSession, joinRoom | parallel first logins, overlapping sessions, ids made of a 10 ms clock, expiry between check and write | bounded users and presents, sessions expire and are replaced for good, pool left | `Session` |
| sign-in, share reward, exchange code | marks per player and day or month, as sets, hash fields and whole lists | `doSign`, `doSignMonth`, `onGetShareReward`, `onShareCallback`, `exchageCode` | mark read, then set; lists read, extended and written back; midnight in between | a second reward only after an overlap or crash, nobody marked and not paid, goals reached | `Rewards` |
| activities | counters of rewards given, date of the last answer | `/question/answer`, `/surver/answer` | counter read, later raised; the date of the start stored at the end | rewards within their number | `Rewards` |
| party matchmaking | waiting list, marks per player, protocol queue, service status with TTL | loop and worker in `srcs/tasks`, hall handlers | LRANGE, then LPOP against players who leave; one mutex; four actors on one list | nobody forgotten, matched twice or after leaving without a cause; tables fill, the queue is read | `Party` |
| clubs | list of numbers, hash per club, membership under club and player, applications | `hall/club.py` | two writes per membership; numbers, managers and rights read before | records agree, one owner, rights respected, limits | `Club` |
| reward exchange | tickets, stock, card numbers | `/reward/exchange` | none: `doExchange` returns before it does anything ("测试阶段", test phase) | | not modelled |
| nicknames | nickname set | complete profile | looked up, later added | names unique | not modelled |
| guild membership | `parentAg`, member sets, card balances | `joinGroup`, `checkjoinGroup`, `bindGroup` | balance read, then SET | one guild, cards carried along | not modelled |
| gold rooms | waiting lists, match marks | workers in `srcs/tasks`, hall handlers | like the party | | not modelled |
| hall rooms | rooms of game servers | create, enter, exit room | protocol with game servers outside of the repository | | only joinRoom's session |
| xiaoxiaole, niuniu | boards | random draws | large state | | not modelled |
| ranks, statistics, broadcasts | sorted sets, lists | periodic recomputation | none between requests | | not modelled |
| administration | single keys | forms | none | | not modelled |
| third-party code | | redis, bottle, paste, protobuf, SMS, websocket | | | external |

The components meet in the user hash `users:<uid>`: relief, letters, payments,
the exchange and the first login all raise or set `coin`; a login locks the safe
box (`Login` in `Wallet`); every handler starts with `getInfoBySid` (`Info` in
`Session`).  The models are separate because these meetings are increments of one
field, which commute.  The exception is the first login's HSET of `coin`, which
overwrites the purse; `GiftsBounded` in `Session` counts it.

## 3. Modules

Each component has a module with its state, actions and properties; an `MC`
module that gives TLC its constants and symmetry; a `Proofs` module with its
theorems.  `WalletProofs` extends both `Wallet` and `Benefit`, which is why the
names of `Benefit` are its own (`BenefitSpec`).  `PROJECT.json` maps every definition to its lines.

**Benefit** (`fish_benefit.py`, `fish_benefit_fun.py`).  One player, any number of
concurrent requests.  `count` is the hash of each day, `token` the key that
`getBenefitInfo` sets, `taken`, `spent` and `sets` are histories.  A token is the
MD5 of the session and of `str(time.time())`, which shows hundredths of a second:
`clock` counts those, every `GetBenefitInfo` of one instant makes the same token, and
`SetToken`, a command of its own, may store it after it was spent.  A `takeBenefit`
request is `TakeBenefit` (the request with any token), `CheckToken` (GET and
comparison), `CheckDate` and `CanTakeBenefit` (the limit), `TakeDate` (the date
again), `ExecutePipe` (count, coins, token), `SetExpire`.  `Tick`, `Midnight` and
`DropTable` are the environment.

**Wallet** (`fish_bag.py`, `fish_exchange.py`, `fish_pay.py`, `fish_pay_func.py`).
One player.  `bal[account][item]` holds every quantity; an accepted request
carries the HINCRBYs it will send (`credits`, then `debit`), so that every
interleaving of them is a behaviour.  `BoxSave`, `BoxTakeLock`/`BoxTake`,
`ExchangePwd`/`CurrencyExchange`, `BuyCoin` are the checks; `SaveMoves`,
`TakeMoves`, `ExchangeCredits`, `ExchangeDebit` the increments, with the code's
peculiarities (a diamond taken from the box is also counted in `player:item`;
diamonds bought with coins are credited in both places; the third branch of the
exchange adds its cost).  `VipCharge`, `VipLevel` are `vip_charge_record`.  The
price that raises the charge is a form field of `/buyCoin` that nobody compares
with the goods (`fish_pay.py:36`, `:105`): any integer, also a negative one.  `peak`
is the highest charge there was, `torn` says that the levels of the last purchase
were mixed with those of another one or not all written.
Verification codes sent by SMS are abstracted to "the right code".

**Payment** (`fish_pay.py`, `fish_pay_func.py`, `hall.py`, `hall_func.py`).  Orders
of three kinds (fish, room cards, gold) and receipts of two, one player, one day.
A thread carries the list of steps that are left (`todo`), which
`NotifySteps` and `AppleSteps` choose by kind in the order of the code.  The
environment repeats unanswered notifications (`Notify`), loses answers, lets
requests overlap, kills workers, and expires order tables; all but expiry and
orderly repetition count as faults (`hit`).  Two functions catch every exception
and let the notification go on: `PayRecordFails` is `do_pay_record`, which returns
before it credits, and `GoldRecordFails` is `saveBuyGoldRecord`; what they swallow
is recorded in `swallowed`.  The four copies of `onWeChatPay`
(fish and hall, each with a variant for another merchant) write the same keys and
are one action.  That the goods of a receipt exist is assumed.

**Friends** (`fish_friend.py`).  `friends[u]` and `reqs[u]` are the set and the
list; each of the three readings and three writes of an invitation, the two
counts and four writes of an acceptance, and the two writes of refusal and
deletion are steps.  The player and the request that a client names when it
accepts or refuses are two fields nobody compares, so they range over all players
and requests, whether there was an invitation or not.  The call on the misspelt
`reids`, which raises when a list is full, is the refusal in `Room`.  `marred` records the pairs for which an
acceptance and a deletion overlapped or a worker died.

**Mail** (`fish_friend.py`).  `box[u]` is the set of names, `whole` and `stub` the
hashes (all fields, or only `isRead`, which `/read/mail` sets for any name).  A
letter is named by sender and second, so that two of one second share a hash.
As in the code, the sender's whole purse is what is attached, and only the
postage is paid; the number of warheads is any integer of the client's.  Whoever
knows the name of a letter may claim or delete it; `stray` records the letters
to which a player did so who is not a recipient.

**Session** (`fish.py`, `hall.py`, `hallModel.py`, `wechatData.py`, `utilt.py`).
One WeChat user who may become several users of the server, and one account name.
`Reg` is
`onReg`/`onRegFish`, `Incr` and `Create` the registration, `First`, `Welcome`,
`Gift` the first coins, `Read`, `Exists`, `SetPlatform`, `WriteTable` the session,
`GiveLock` the daily present, `PoolCheck`, `PoolAdd`, `PoolRem`, `PoolDrop`,
`PoolEnd` the login pool.  `/account/reg/login` is `Register`, `Taken`, `Number`,
`Enrol` (the account name `RegName` and its user), `Read` to `WriteTable` as in a
login, and `Sign`, which puts the name into the pool; logins of kind `fishName` and
`hallName` use it.  A session id is the MD5 of the user and of hundredths of a
second: `made` holds the id that a user's logins make until the next `Tick`,
and `twice` those that were made more than once.  `stuck` names what a login has
put into the pool and will never take out.  `Offered` bounds the kinds of login that
clients use.  `Info`, `Verify`, `Alive`, `Extend`, `Stamp` are what
`/refresh`, `/extendSession` and `/hall/joinRoom` do to a session.  Codes of
WeChat are used once, so the pool entry of such a login is not kept.  Left out:
joining a guild on login, the party waiting list, messages to game servers, keys
the game server writes (`kick:session`).

**Rewards** (`fish.py`, `fish_benefit.py`, `fish_benefit_fun.py`, `fish_spring.py`).
Everything a player gets once.  A reward is a key: its kind, its player, and a
day, a goal of the month or nothing.  Marks are kept as the code keeps them:
`marks` (sets and hash fields), `quizDate` (one date per player), `signed` and
`receive` (read, extended and written back as a whole).  `Look`/`Mark`/`Pay`
serve the rewards with a mark of their own, `Stock`/`Draw` the prizes of the
quiz, `Read` to `Grant` a sign-in, `ReadGoals` to `StoreGoals` the month's
goals.  A day of the calendar may promise tools (`tools`, `consts.GIVE_TOOLS`): the
handler then skips the credit, counts the sign-in, and raises on its last line over
a name that is not defined (`GrantTools`).  `excuse` counts, per reward, requests that
overlapped another on the same key of redis, and crashes; `lost` the requests that
died, or raised, between mark and credit, of which there may be any number.

**Party** (`tasks/party_service.py`, `tasks/party_worker.py`, `hall.py`).  Four
actors on one waiting list: the loop that matches (`loop`, with the players it has
read and the round it is in), the worker that serves the queue of protocols
(five threads, one mutex, hence one at a time), the threads of the hall, and the
game server, which is external: it reads matches, opens and closes rooms and
tells the service so.  The loop matches the same first players in every round, as
the code does (`NextRound`); `PopWaiting` pops whoever is first by then.  The
status of the service expires, is closed by a protocol and set again by the loop.
`marred` names what went wrong: `crowd` (two tables waiting at once), `twice`,
`again`, `stale` (pushes that met something of the same player), `late` (a
withdrawal during the match), `crash`, `mutex`, `asked` (a push while
`/checkJoinPartyRoom` is about to answer), `denied` (it told a waiting player not to
have applied), `unheeded` (`/notJoinPartyRoom` told a player who waits or is matched to
be out).  `/notJoinPartyRoom` (`HallMine`, `HallCancel`) answers with success and takes
nobody off the list; `withdrawn` holds whom it told so, until the player joins
again.  `/checkJoinPartyRoom` is `HallAway`, `HallWanted`, `HallListed`,
`HallMatched`.  One game is modelled, hence one list, although the marks of an
account are the same for all games: what happens to a player who applies for two
games is outside of the model.

**Club** (`hall/club.py`).  A club is a number in `list`, a hash (`user`,
`managers`, `content`), an entry in `own`; a membership an entry in `clubsOf` and
one in `players`.  A request carries what it has read (`seen`); `Disorder`
records which club or membership an overlapping request or a crash has `marred`,
and `misdeeds` what was done by somebody who at that moment was not entitled,
though asked for the right, or a second time.  An audit whose club is gone asks for no
right (`Unasked`), and writes its verdict.

**Quota**, an abstract specification: a request that finds fewer than `Limit` uses
of a key may use it later, whatever others have used meanwhile.  It is what the
code's pattern *compare, then raise* is worth.  `Rewards` implements it for
every reward with a mark of its own (`Limit` 1, `ClaimsAreLimited`), `Club` for
the clubs an account may own (`Limit` `MaxOwn`, given back by disbandment,
`ClubsAreLimited`); both by `INSTANCE Quota WITH` a refinement mapping whose
holders are the requests between comparison and use.  TLC checks both refinements
on the instances of the runs, `RewardsProofs` and `ClubProofs` prove them, and
with them the bound that `Quota` promises (`UsesBounded`).

Other modules do not meet: what components share is the user hash, see section 2.

## 4. Runs

The passing runs use two server threads, because every race below is one of a
request against one other, or against time; the bounds in the properties are
stated in the number of threads and proved for every number.
`party` has one hall thread beside the loop, the worker and the game server.
Thread and player names are symmetric; the runs with liveness properties
(`payment_live`, `party_live`) use no symmetry.  `CHECK_DEADLOCK` is off where the
bound on requests ends every behaviour.

| run | bounds | shows |
|---|---|---|
| `benefit` | 2 requests at a time, limit 2, 2 days, 2 instants and hence tokens, 3 info requests; 619,624 states | `BenefitTypeOK`; `DailyOvershootBounded`: at most one grant beyond the limit for each other request, even over midnight; `TokenOvershootBounded`: one grant per request for each time a token is stored |
| `wallet` | 2 requests, 3 items, 3 courses, 2 goods, prices 3 and -2, 3 accepted operations; 1,384,515 states | `TypeOK`; `TransfersSound` (nothing is lost even by a crash, nothing gained without one), `OverdraftBounded`, `VipLevelSound` (never above the highest charge's worth; the charge's own after purchases that were not torn) |
| `payment` | 2 fish, 1 card and 1 gold orders, a card receipt, 1 fault; 2,857,775 states | `SucceededStays`, `CreditsNeedFaults`, `SettledIsBooked`, `SharesAreEarned`, `StatisticsBounded` |
| `payment_live` | 3 orders, one of each kind, 2 threads, 1 fault, fairness; 108,241 states | `VerifiedGetsCredited` |
| `friends` | 3 players, limit 0, 3 requests; 1,642,484 states | `FriendsBounded`, `RequestsBounded`, `MutualUnlessMarred` |
| `mail` | 2 players, postage 1, warheads 0 and -1, 2 seconds, 4 requests; 2,386,776 states | `ClaimsBounded`, `ListedIsWhole`, `PostageBounded` |
| `session` | 3 requests, one crash, lock count at most 1 by 1, logins without `fishAgain`, `hall`, `fishPass` and `hallPass`; 2,547,374 states | `UsersBounded`, `PresentsBounded`, `SessionsExpire`, `CurrentIsSound`, `PoolReleased` |
| `rewards` | 2 players, 2 days, goals 1 and 2, 1 prize, 2 right answers, 3 requests, any number of crashes; 515,674 states | `SecondNeedsExcuse`, `MarkedIsPaid`, `GoalsAreReached`, `PrizesBounded`, `ClaimsAreLimited` (refinement of `Quota`) |
| `party` | 4 players, tables of 2, 4 requests, 1 fault; 1,538,941 states | `ForgottenNeedsCause`, `MatchedOnce`, `MatchedHaveApplied` |
| `party_live` | 2 players, a table of 2, 3 requests, 1 fault, fairness; 157,649 states | `TablesFill` (a full table does not stay, and whoever is at its head is marked as matched unless others withdrew or a named cause occurred), `QueueIsRead` |
| `party_forgotten` | as `party`, no fault | counterexample to `WaitersNotForgotten`, see below |
| `club` | 3 players, 2 numbers, 1 club per owner, 1 manager, 3 requests, 1 crash; 206,392 states | `MembershipAgrees`, `NothingLeftBehind`, `OneOwner`, `DecisionsInOrder`, `ManagersBounded`, `ClubsAreLimited` (refinement of `Quota`) |

Limits are small (0 to 3) so that the runs reach them; the numbers of requests
are such that a limit can be reached *and* passed by two threads that have both
looked before.  Three operations suffice for one that fills, one that races and
one that meets the outcome; `mail` has four because a letter must be sent before
it is claimed twice.  Two days are enough for one midnight inside a request; two
instants for a token that replaces another, and three info requests to make one of
them twice and store it again after it was spent.  One price in `wallet` reaches the
third door at once, the other takes the charge back under a door.  In `session`
(`Offered`), every step of the handlers is taken: the kinds left out combine steps of
those that are there (a login with the account and the password of a WeChat user
goes the way of one with the registered name), and the proofs are for all kinds.  In
`payment`, one fault suffices for a second credit, and two fish orders for a race
on the statistics of the day; a fish receipt would take the first two steps of the
card receipt; `payment_live` has more orders than threads, so that
an order can be kept waiting by others.  `rewards` signs in twice and claims the
goal, over one midnight.  `party` has two tables of players, and a request for
each of them; `party_live` one table.  In `club`, one club exists at the start,
so that three requests suffice to disband it, take its number again and join it;
two accounts and four requests show nothing else.

The type invariant is listed in `benefit` and `wallet`.  The other modules' `TypeOK` holds in
the same instances (add it to `INVARIANTS`) and is proved of all but `Friends`;
their configurations list what says something of the code.
The inductive invariants of `PaymentProofs`, `MailProofs`, `SessionProofs`,
`RewardsProofs`, `PartyProofs` (`IInv`), `ClubProofs` (`CInv`) and of the transfers (`SInv` of `WalletProofs`) also pass as
invariants of these instances.

Every property has a mutant: a definition changed the way a plausible slip would
change the code (a dropped check, a missing EXPIRE, a swapped order), which the
property catches.

### Where the code does not do what it says

`party_forgotten` ends with a counterexample to what the service answers.  With
two full tables waiting, the loop takes the same slice of the list in both
rounds (`party_worker.py:112`): the first two players are matched twice, the
other two are popped and neither waiting nor matched, and `onCheckJoinPartyRoom`
tells them that they have not applied (`party_worker.py:209`).  `ForgottenNeedsCause`
in run `party` shows that, apart from withdrawals, double entries and a death of
the service, this is the only way for the service to forget a player.

The models reproduce other places where the code differs from its own comments
or answers, without a run of their own:

* `fish_benefit.py:113`: a relief token is the MD5 of the session and of a clock of
  hundredths of a second, so that two requests can make the same one;
  `fish.py:125`, `fish.py:267` and `hall.py:207` make session ids of user and clock
  likewise.  A token that was spent, or a session that was replaced, can come back
  (`TokenOvershootBounded` counts, `CurrentIsSound` excepts it);
* `fish_pay.py:36`: the price of a purchase is a form field of the client, and
  `fish_pay.py:105` adds it to the VIP charge; a negative one takes the charge back and
  leaves the level (`VipLevelSound` speaks of the highest charge);
* `fish_pay_func.py:54`: `do_pay_record` catches any exception, logs it and returns
  None; its caller does not look, and WeChat is answered SUCCESS for an order that was
  never credited.  `goldModel.py:330` does the same with the record of a gold order
  (`SettledIsBooked` and `VerifiedGetsCredited` except both);
* `fish_friend.py:45` and `:172`: whoever knows the name of a letter may claim or
  delete it, and it stays listed with its recipient (`ListedIsWhole` excepts it);
* `fish.py:142`: `/account/reg/login` puts the account into the login pool, and nothing
  in the handler takes it out: `hall.py:135` refuses that player until a login
  to the fish game does.  `fish.py:272` and `fish.py:128` raise over their log
  message (`realAccount` is not defined) before they take the account out
  (`PoolReleased` excepts both by `stuck`);
* `fish_benefit.py:240` and `:272`: on a day that promises tools a sign-in is marked
  and counted, nothing is credited, and the answer raises over `sign_warheads`
  (`MarkedIsPaid` and `GoalsAreReached` count such requests as `lost`);
* `fish_exchange.py:89` adds the cost of an exchange under the comment "consume"
  (`ExchangeDebit` in `Wallet`);
* `hall_func.py:438` asks EXISTS now and sends SET 0 with the pipeline, so that an
  order's amount can be erased (`RechargeNeverAhead` is therefore an inequality);
* `fish_friend.py:86` takes the size of `player:mail` while letters are in
  `player:mails`, so that no letter box is ever full;
* `fish.py:279` compares the builtin `type` with 3;
* `hall.py:946` puts a player who withdraws from the party ("取消加入娱乐模式房间",
  cancels joining the party room) into a list that nobody reads, and answers with
  code 0: the player stays in the waiting list and can be matched.
  `MatchedHaveApplied` says that this happens only to players who were in the list
  or matched when they were told so (`unheeded`);
* `hall.py:1098` asks whether the mark of a match is empty, while
  `party_worker.py:116` stores the number of seats in it: a player who is matched and
  has no room yet is told not to have applied ("未申请加入娱乐模式").
  `ForgottenNeedsCause` promises nothing of this answer to matched players, and of the
  answers to waiting ones that they are right;
* `club.py:777` asks whether the requester may judge an application only if the
  club exists, and applications survive a disbandment: once a club is disbanded,
  anybody may write a verdict on what it has left behind, without any overlap.  That
  verdict makes nobody a member while there is no club.  `DecisionsInOrder` speaks of
  the requests that are asked for their right;
* `club.py:296` reads the configured number of clubs an account may own, and compares
  with a hard-coded 10 in the next line (`MaxOwn` is that 10);
* `hall.py:143`: a worker that dies during a login leaves the name in the login
  pool, which has no TTL (`PoolReleased` excepts it);
* outside of the models, `club.py:881` looks for the player in the list of clubs
  *of the club's number*, and `hall.py:509` sets the cards of a guild member from
  an earlier read.

The bounds of the passing runs are attained: where a handler answers "already
taken", "already sent" or "already exists", a request that overlaps it does get
through.  With two threads, one relief token that was stored once can pay twice
(`fish_benefit.py:54`), one App Store receipt can be credited twice
(`fish_pay.py:188`, the second request counting as the fault of
`CreditsNeedFaults`), a player can stand twice in the same list of friend requests
(`fish_friend.py:394`), and the coins of the first login can be set twice
(`fish.py:223`), one share reward can be
paid twice (`fish.py:568`), and an account can own one club too many
(`club.py:300`).

### Fairness

`payment_live` (`FairSpec`): weak fairness of each thread's step, since paste runs
its threads as long as the process lives and a crash is an action of its own; and
strong fairness of a notification for a paid order that no thread handles.  WeChat
repeats a notification that was not answered with SUCCESS, and paste queues
connections in their order, so that an order is served again and again although
other orders may hold all threads in between; weak fairness would not say so.
WeChat in fact gives up after some hours; the property says what holds as long as
it does not.

`party_live` (`LiveSpec`): weak fairness of the loop, which runs every second in a
thread that never ends, and strong fairness of the worker, whose threads poll
the queue every tenth of a second while the status of the service exists.  The
status may be gone at times, and the loop restores it again and again.

Nothing forces a player to pay, to join or to withdraw, a table to expire, the
game server to open a room or a fault to happen.

## 5. Theorems

The theorems hold for every value of the constants that satisfies the named
assumptions of the modules: finite sets of requests or threads, not empty, natural
limits, for `Wallet` that the debits are bounded by `MaxDebit`, that prices are
integers and the doors of the VIP levels positive, for `Club` that the answer
`Nobody` is no account.

| module | theorem | statement |
|---|---|---|
| `WalletProofs` | `BenefitTypeCorrect`, `DailyOvershoot`, `TokenOvershoot` | the three invariants of run `benefit` |
| `WalletProofs` | `TypeCorrect`, `Overdraft`, `VipLevelTheorem`, `TransfersTheorem` | the four invariants of run `wallet` |
| `PaymentProofs` | `TypeCorrect`, `SucceededTheorem`, `CreditsTheorem`, `SettledTheorem`, `SharesTheorem`, `StatisticsTheorem` | `TypeOK` and the five invariants of run `payment` |
| `FriendsProofs` | `FriendLimit`, `RequestLimit`, `FriendshipMutual` | the three invariants of run `friends` |
| `MailProofs` | `TypeCorrect`, `PostageTheorem`, `ClaimsTheorem`, `ListedTheorem` | `TypeOK` and the three invariants of run `mail` |
| `SessionProofs` | `TypeCorrect`, `UsersTheorem`, `PresentsTheorem`, `SessionsExpireTheorem`, `CurrentTheorem`, `PoolTheorem` | `TypeOK` and the five invariants of run `session` |
| `ClubProofs` | `TypeCorrect`, `ManagersTheorem`, `MembershipTheorem`, `LeftoverTheorem`, `OwnerTheorem`, `DecisionsTheorem` | `TypeOK` and the five invariants of run `club` |
| `ClubProofs` | `QuotaTheorem`, `OwnedTheorem` | the refinement `ClubsAreLimited`, and the quota's promise: an account owns fewer clubs than `MaxOwn` and the number of threads together |
| `RewardsProofs` | `TypeCorrect`, `SecondTheorem`, `MarkedTheorem`, `GoalsTheorem`, `PrizesTheorem` | `TypeOK` and the four invariants of run `rewards` |
| `RewardsProofs` | `QuotaTheorem`, `ClaimsTheorem` | the refinement `ClaimsAreLimited`, and the quota's promise: a reward with a mark of its own is credited at most once by each thread |
| `PartyProofs` | `TypeCorrect`, `MatchedOnceTheorem`, `MatchedHaveAppliedTheorem`, `ForgottenTheorem` | `TypeOK` and the three invariants of run `party` |

The bounds are not inductive: a state in which a limit has just been reached
says nothing of the requests that have already passed its check.

* *Relief.*  `Late(d)` is the set of requests that can still make a grant on day d
  without reading a counter that holds that day's grants.  Once the limit is
  reached, grants and late requests together stay within the bound
  (`LateBounded`); one that is granted leaves the set, and none enters, because
  the counter of the present day is exact (`DatesOrdered`).
  `HoldingBounded` is the argument for tokens: each time a token is stored pays
  for one grant per request, and while it is current the last of these has paid
  for none, because the first grant deletes the key.  A request that compares with
  a current token joins those that hold it (`Holding`), who are paid for by then.
* *Wallet.*  A simple count of pending debits would give a bound that is one debit
  too weak.  `Covered` says that of the debits pending on a balance the one
  that was checked last was covered when it was checked; while it is pending, the
  others account for the overdraft, and afterwards one request less does.
  `LevelsEarned`, for the VIP level, says that what a request has still to write is
  at most what the highest charge was worth, which only grows although the charge
  does not; `LevelsCurrent`, that as long as the last purchase is not torn nobody
  else writes levels, and its last one is the charge's.  For transfers,
  `Balance` compares purse and box with what exchanges and purchases left there
  and what transfers under way have credited and not yet debited.  Sums over
  requests are out of the provers' reach, so the latter is the size of a set of
  units (`Units`), one for each item that a request owes; `Shape` says which
  increments a transfer still has to send.
* *Payment.*  `TInv` says which steps a handler of each kind has left, so that each
  command can be looked at on its own.  `Credits` counts the credits of a key with
  the threads that are on their way to one, against the faults; `Booked` says what
  a handler has written by each of its steps, but for the orders whose exception was
  swallowed; `Shares` counts shares without a
  credit with the threads that will make it.  The player is counted among the
  day's users by threads that found him missing, which nobody does afterwards
  (`NInv`).  The recharge total is compared with the set of single credits, because
  a sum over orders is again out of reach.
* *Friends.*  `Bounded(u)` counts, with the friends of u, the threads that have
  found room and not yet taken it.  For mutuality, `Witnessed` names for each
  one-sided friendship the request that is half way, `HalfWay` says that nobody
  has undone its first half, and `Apart` that acceptance and deletion of a pair
  that is not marred do not overlap.  `Listing(u)` is `Bounded` for the list of
  requests; LREM never makes a list longer, which is why `Without` is written with
  the positions that are kept and not by recursion.
* *Mail.*  A letter that is whole can still be claimed by every thread that does not
  handle it: `Claims` adds those to the claims made and begun.  `Solvent` counts the
  postage that was promised as paid.  `Listed` follows a name that was given once,
  met no crash and no stranger from the first command of its letter to the last:
  whoever claims it is the player whose box lists it, and takes it off that box
  before the letter is erased.
* *Session.*  Once the WeChat id has an account nobody begins to make one, so users and
  makers together stay within the number of threads (`UInv`), and likewise for the
  coins (`GInv`).  `Room` says that of the logins that will raise the lock count the
  one that read last has read a number that leaves room for its own present.
  `Fresh` says that a login is alone with the session id it has made, unless the id
  was made twice, until it has written the table; `Counted`, that ids stay below the
  number of requests.  `PInv` names, for every name in the pool, the login that will
  take it out, unless the name is stuck.
* *Club.*  `Relies(t)` is what thread t has read about its club and depends on at its
  next command (whose club it is, who the managers are, that it is listed), and
  `Expects(t)` the same for the player it is about; both may fail only if the club
  or the membership is marred.  `KInv` says that requests which can get each other
  in disorder have left their mark, so a step of one thread cannot take away what
  an unmarred other relies on: `FrameStep` proves that once, from what a command
  touches (`Touches`), and each command's lemma shows only what it does to its own
  club and player.  `Knows` says that a disbandment has read every member that is
  not marred, `PInv` that a pending application has no verdict.  An audit either was
  asked for its right, and then relies on it, or found no club; if there is one by its
  next commands, the club is marred.  For the
  refinement, a creation is `Pass` at its comparison and `Use` at its last command,
  or `GiveUp` if its number was in the list already or its worker died; a
  disbandment is `Free`; every other command is a stuttering step.
* *Rewards.*  `TInv` says, besides the types, what each step knows of its request.
  `ClaimInv`: a reward of a set or a hash that was credited is marked, and its mark
  stays.  `Budget(k)` counts the credits of reward k together with the
  requests under way that may still credit it or lose its mark, against one and
  the excuses; it need not hold once the mark turns all of them away (`Calm`).  A
  list that is written back whole can take a mark away, so a request under way
  for *another* player of the list counts as long as what it has read lacks the
  mark (`Harmless`).  The field of the quiz holds one date, which midnight makes
  stale: `QuizBudget` says what holds before and after, `DateInv` that the quiz of
  a day to come has not been answered.  `BackedInv` says that marks are justified,
  also those that a request has read and will write back.  `GoalInv` compares the
  count of the month with the credits of sign-ins, the requests about to make one
  and those that were lost (`lost` is a number for each reward, because a day may lose
  several), again as the size of a set; `PrizeInv` adds to
  the prizes drawn what the pools in flight still hold.
* *Quota.*  In both refinements, `PromiseInv` bounds the uses of a key together with
  the requests that have passed its comparison: a request passes only below the
  limit, where the others are at most all requests but one, and a use turns a
  holder into a use.  That it is preserved follows from the refinement: only steps
  of the quota change either.
* *Party.*  The loop copies the first players of the list, and then pops as many,
  one by one, while others push and withdraw.  `MatchSound` says that a copied
  player who still waits, k-th of the table, is no further from the front than k
  less the number popped, so that the loop will pop every one of them; and with
  `Distinct`, `TablesApart`, `WaitApart` that nobody waits twice, has two seats, or
  waits and has one (`SeatInv`).  `Wanted` follows an application from the list
  through the loop to the match; a withdrawal that did not find the account in
  the list must not meet a later entry of it.  For `ForgottenNeedsCause` more is
  needed: that the list *begins* with exactly the players still to be popped
  (`Prefix`), so that whoever is popped is the player whose tables are changed
  next (`Popping`); and that what is still queued about a room that is over does
  not unseat a player who has applied again (`Left`): the worker reads the
  opening of a room before its end, and a push while the player counts as
  seated or matched is one of the causes.  These hold as long as none of the
  causes has occurred, and causes are never taken back (`MarredGrows`).  For the
  answers of the hall, `AskedInv` says that a player about to be told not to have
  applied was not in the list and has not joined since, and `HeededInv` that a player
  told to be out is neither waiting nor matched, as long as nobody in either state
  was told so.  LREM keeps
  the order of what stays; as in `Friends`, `Without` is written with the ranks of
  the positions that are kept, and `Sieved` says what the proofs use of it.

Only model-checked:

* `VerifiedGetsCredited`, `TablesFill`, `QueueIsRead`: liveness and fairness are
  beyond the prover;
* `TypeOK` of `Friends`: the proofs there use the part of it they need (`FType`,
  `Lists`), and not the hashes.

## 6. Plan and what is not modelled

1. **Done**: `Benefit`, `Wallet`, `Payment`, `Friends`, `Mail`, `Session`,
   `Rewards`, `Party`, `Club`, and the abstract `Quota` with two refinements.
2. **Proved**: every safety invariant of the passing runs, both refinements of
   `Quota`, and what `Quota` promises of them.
3. **Left to TLC**: liveness, see section 5.

Not modelled, and why:

* *Nicknames* (`fish_bag.py:271-344`): a SISMEMBER
  and a later SADD, the pattern of `Quota` again; codes and messages around it
  come from outside.
* *Guild membership* (`hall.py:342-520`): one member's fields written by one
  request after another, and a card balance SET from an earlier read.
* *Gold rooms*: lists, worker and protocol queue of the form of the party's.
* *Reward exchange*: disabled by an early return; the rest cannot be reached.
* *Hall rooms and game servers*: the protocol's other side is not in the
  repository.
* *xiaoxiaole and niuniu*: game mathematics with random draws over large boards.
* *Ranks, statistics, broadcasts, notices, administration, scheduler,
  maintenance scripts*: single writes or periodic recomputation, no protocol.
* *Third-party code*, more than half of the lines of Python: redis's
  client, bottle, paste, protobuf, SMS kit and websocket are libraries.  Redis is
  modelled by how the handlers use it.

Within the modelled parts: in `Party`, the result keys and their five-second
polling, the statistics of the day, balances, the count of players per account
and the message `wantServer`; in `Rewards`, the mark of an opened quiz (which only
a page reads), amounts and missing configuration; in `Club`, rooms and their
automatic creation and pages that only read; in `Payment`, `/checkOrder` and the
amount of an agent's share; in `Friends`, comments and room invitations.

## 7. Running it

    tlc -workers 2 -config MCWallet.cfg MCWallet
    tlapm WalletProofs.tla
