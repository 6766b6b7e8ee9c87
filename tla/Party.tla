------------------------------- MODULE Party -------------------------------
(***************************************************************************)
(* Party matchmaking: players wait in a list, and a loop takes as many of  *)
(* them as the game has seats.  Four parties share the list: the threads   *)
(* of the hall (hall.py), the loop of the party service (party_service.py, *)
(* self_check), the worker of the service that serves the protocols of a   *)
(* queue (party_worker.py; five threads and one mutex, so one at a time),  *)
(* and the game server, which is external.  One game and one rule, hence   *)
(* one list.  Every redis command or pipeline is a step.                   *)
(***************************************************************************)
EXTENDS Integers, Sequences, FiniteSets

CONSTANTS
    Accounts,   \* players
    Threads,    \* hall threads
    Seats,      \* party_player_count of the game
    MaxOps,     \* bound: requests and protocols sent by players
    MaxFaults   \* bound: crashes, expiries and failures of redis

ASSUME PartyAssumption ==
    /\ IsFiniteSet(Accounts) /\ IsFiniteSet(Threads)
    /\ Seats \in Nat \ {0}
    /\ MaxOps \in Nat /\ MaxFaults \in Nat

VARIABLES
    wait,     \* WAIT_JOIN_PARTY_ROOM_PLAYERS
    mark,     \* accounts with ACCOUNT2WAIT_JOIN_PARTY_TABLE
    fin,      \* accounts with IS_MATCH_FINISHED
    seated,   \* ALREADY_IN_PARTY_ROOM_PLAYERS and its table for each account
    cancels,  \* CANCEL_JOIN_PARTY_ROOM_PLAYERS, as a set
    queue,    \* FORMAT_PARTY_SERVICE_PROTOCOL_TABLE
    status,   \* FORMAT_PARTY_SERVICE_STATUS: absent, without or with a TTL
    matches,  \* the protocols the game server has not read
    rooms,    \* the game server's rooms, each with its players
    away,     \* accounts with EXIT_PLAYER, set by the game server
    loop,     \* the loop of the service: its next command and variables
    worker,   \* the worker that holds the mutex
    hall,     \* the hall threads
    applied,  \* history: who has joined and has not been taken off the list
    withdrawn,\* history: whom /notJoinPartyRoom has told to be out of it
    marred,   \* history: what went wrong so far
    served,   \* bound: requests and protocols so far
    faults    \* bound: faults so far

lists == <<wait, mark, fin, seated>>
game == <<matches, rooms, away>>
actors == <<loop, worker, hall>>
bounds == <<served, faults>>
vars == <<lists, cancels, queue, status, game, actors, applied, withdrawn,
          marred, bounds>>

Members(s) == {s[i] : i \in 1..Len(s)}

\* LREM of everything of who.  The entries that stay keep their order: the k-th
\* of them comes from the k-th position that is kept.
Nth(positions, k) ==
    CHOOSE n \in positions : Cardinality({m \in positions : m <= n}) = k

Without(s, who) ==
    LET kept == {n \in 1..Len(s) : s[n] \notin who}
    IN [k \in 1..Cardinality(kept) |-> s[Nth(kept, k)]]

Heads == {"joinPartyRoom", "cancelJoinPartyRoom", "close",
          "joinPartyRoomSuccess", "PartyRoomLeaveSuccess"}
Causes == {"crowd", "twice", "again", "stale", "late", "crash", "mutex",
           "asked", "denied", "unheeded"}
LoopSteps == {"feed", "expire", "range", "pop", "unmark", "finish", "send"}
WorkerSteps == {"idle", "lpop", "exit", "look", "push", "mine", "get", "scan",
                "cancel", "success", "leave", "close", "down", "dead"}
HallSteps == {"idle", "exit", "look", "push", "get", "scan", "rem", "mine",
              "ask", "check", "unfin", "wanted", "list", "matched"}

\* An actor between two requests.
Idle == [pc |-> "idle", who |-> <<>>, found |-> FALSE]
Resting == [pc |-> "feed", players |-> <<>>, len |-> 0, i |-> 0]

TypeOK ==
    /\ wait \in Seq(Accounts)
    /\ mark \subseteq Accounts /\ fin \subseteq Accounts
    /\ seated \subseteq Accounts /\ cancels \subseteq Accounts
    /\ queue \in Seq([head : Heads, who : Seq(Accounts)])
    /\ status \in {"none", "forever", "ttl"}
    /\ matches \in Seq(Seq(Accounts)) /\ rooms \in Seq(Seq(Accounts))
    /\ away \subseteq Accounts
    /\ loop \in [pc : LoopSteps, players : Seq(Accounts), len : Nat, i : Nat]
    /\ worker \in [pc : WorkerSteps, who : Seq(Accounts), found : BOOLEAN]
    /\ hall \in [Threads -> [pc : HallSteps, who : Seq(Accounts),
                             found : BOOLEAN]]
    /\ applied \subseteq Accounts /\ withdrawn \subseteq Accounts
    /\ marred \subseteq Causes
    /\ served \in 0..MaxOps /\ faults \in 0..MaxFaults

Init ==
    /\ wait = <<>> /\ mark = {} /\ fin = {} /\ seated = {} /\ cancels = {}
    /\ queue = <<>> /\ status = "none"
    /\ matches = <<>> /\ rooms = <<>> /\ away = {}
    /\ loop = Resting
    /\ worker = Idle
    /\ hall = [t \in Threads |-> Idle]
    /\ applied = {} /\ withdrawn = {} /\ marred = {}
    /\ served = 0 /\ faults = 0

----------------------------------------------------------------------------
(* Changes of the waiting list, by hall and worker alike                   *)

Matching == loop.pc \in {"pop", "unmark", "finish", "send"}

\* The service has not yet been told, or is being told, of a's room.
SuccessPending(a) ==
    \/ worker.pc = "success" /\ a \in Members(worker.who)
    \/ \E p \in Members(queue) : /\ p.head = "joinPartyRoomSuccess"
                                 /\ a \in Members(p.who)

\* Account a is matched, in a room or being matched.
Engaged(a) ==
    \/ SuccessPending(a)
    \/ a \in fin \cup seated
    \/ \E m \in Members(matches) \cup Members(rooms) : a \in Members(m)
    \/ Matching /\ a \in Members(loop.players)

\* What pushing account a into the list amounts to, for the history: a second
\* entry, an entry of somebody matched, an entry between the reading and the
\* deletion of something of a's, an entry while /checkJoinPartyRoom, which has
\* not found a in the list, is about to say so.
PushCause(a) ==
    {c \in Causes :
        \/ c = "twice" /\ a \in Members(wait)
        \/ c = "again" /\ Engaged(a)
        \/ c = "stale" /\ worker.pc = "cancel" /\ worker.who = <<a>>
        \/ c = "stale" /\ \E t \in Threads : /\ hall[t].pc = "unfin"
                                            /\ hall[t].who = <<a>>
        \/ c = "asked" /\ \E t \in Threads : /\ hall[t].pc = "matched"
                                            /\ hall[t].who = <<a>>}

\* The pipeline of joinPartyRoom.
PushWaiting(who) ==
    /\ wait' = wait \o who
    /\ mark' = mark \cup Members(who)
    /\ applied' = applied \cup Members(who)
    /\ withdrawn' = withdrawn \ Members(who)
    /\ marred' = marred \cup PushCause(who[1])
    /\ UNCHANGED <<fin, seated>>

\* What withdrawing account a amounts to.
RemoveCause(a) == IF Engaged(a) THEN {"late"} ELSE {}

\* /notJoinPartyRoom answers with success, and account a is left where it is.
IgnoreCause(a) ==
    IF Engaged(a) \/ a \in Members(wait) THEN {"unheeded"} ELSE {}

\* What the service knows of account a (onCheckJoinPartyRoom): a room, a match,
\* or a place in the list.
Answered(a) == a \in seated \cup fin \/ a \in mark \cap Members(wait)

\* A player whom the loop has popped and not marked as matched, or whom the
\* game server has in a room of which the worker will hear.
InTransit(a) ==
    \/ loop.pc \in {"unmark", "finish"} /\ loop.players[loop.i] = a
    \/ a \in away
    \/ SuccessPending(a)

\* Account a has joined and not withdrawn, and is not matched.
Waits(a) == a \in applied \ (withdrawn \cup seated \cup fin) /\ ~InTransit(a)

----------------------------------------------------------------------------
(* The loop of the party service.                                          *)

\* SET takes the TTL away until EXPIRE sets it again.
FeedStatus ==
    /\ loop.pc = "feed"
    /\ status' = "forever"
    /\ loop' = [loop EXCEPT !.pc = "expire"]
    /\ UNCHANGED <<lists, cancels, queue, game, worker, hall, applied,
                   withdrawn, marred, bounds>>

FeedExpire ==
    /\ loop.pc = "expire"
    /\ status' = IF status = "none" THEN "none" ELSE "ttl"
    /\ loop' = [loop EXCEPT !.pc = "range"]
    /\ UNCHANGED <<lists, cancels, queue, game, worker, hall, applied,
                   withdrawn, marred, bounds>>

\* Mutant of NextRound: a table that is just full does not suffice.
NextRoundLate(players, n) ==
    IF n > Seats
      THEN [pc |-> "pop", players |-> SubSeq(players, 1, Seats),
            len |-> n - Seats, i |-> 1]
      ELSE Resting

\* The next round: the same first players, as long as there are enough.
NextRound(players, n) ==
    IF n >= Seats
      THEN [pc |-> "pop", players |-> SubSeq(players, 1, Seats),
            len |-> n - Seats, i |-> 1]
      ELSE Resting

ReadWaiting ==
    /\ loop.pc = "range"
    /\ loop' = NextRound(wait, Len(wait))
    /\ marred' = IF Len(wait) >= 2 * Seats THEN marred \cup {"crowd"}
                                           ELSE marred
    /\ UNCHANGED <<lists, cancels, queue, status, game, worker, hall, applied,
                   withdrawn, bounds>>

\* Mutant of Popped: the list is popped from the wrong end.
PoppedLast == IF wait = <<>> THEN <<>> ELSE SubSeq(wait, 1, Len(wait) - 1)

\* Mutant of Popped: the list is read and not popped.
PoppedNot == wait

Popped == IF wait = <<>> THEN <<>> ELSE Tail(wait)

\* LPOP, whoever comes first now; then the tables of the player read before.
PopWaiting ==
    /\ loop.pc = "pop"
    /\ wait' = Popped
    /\ loop' = [loop EXCEPT !.pc = "unmark"]
    /\ UNCHANGED <<mark, fin, seated, cancels, queue, status, game, worker,
                   hall, applied, withdrawn, marred, bounds>>

DeleteMark ==
    /\ loop.pc = "unmark"
    /\ mark' = mark \ {loop.players[loop.i]}
    /\ loop' = [loop EXCEPT !.pc = "finish"]
    /\ UNCHANGED <<wait, fin, seated, cancels, queue, status, game, worker,
                   hall, applied, withdrawn, marred, bounds>>

SetFinished ==
    /\ loop.pc = "finish"
    /\ fin' = fin \cup {loop.players[loop.i]}
    /\ loop' = IF loop.i < Seats
                 THEN [loop EXCEPT !.pc = "pop", !.i = @ + 1]
                 ELSE [loop EXCEPT !.pc = "send"]
    /\ UNCHANGED <<wait, mark, seated, cancels, queue, status, game, worker,
                   hall, applied, withdrawn, marred, bounds>>

\* The match is sent to the first game server; without one it is dropped.
SendMatch ==
    /\ loop.pc = "send"
    /\ \/ matches' = Append(matches, loop.players)
       \/ UNCHANGED matches
    /\ loop' = NextRound(loop.players, loop.len)
    /\ UNCHANGED <<lists, cancels, queue, status, rooms, away, worker, hall,
                   applied, withdrawn, marred, bounds>>

Loop ==
    \/ FeedStatus \/ FeedExpire \/ ReadWaiting \/ PopWaiting \/ DeleteMark
    \/ SetFinished \/ SendMatch

----------------------------------------------------------------------------
(* The worker: protocols are taken from the queue until it is empty.       *)

WorkerAt(step) == worker.pc = step
WorkerGoto(step) == worker' = [worker EXCEPT !.pc = step]
\* Mutant of WorkerDone: the mutex is not released.
WorkerStops == worker' = [Idle EXCEPT !.pc = "dead"]

\* The handler returns, and the next protocol is popped.
WorkerDone == worker' = [Idle EXCEPT !.pc = "lpop"]

\* A step of the worker that only reads.
WorkerReads ==
    UNCHANGED <<lists, cancels, queue, status, game, loop, hall, applied,
                withdrawn, marred, bounds>>

StartReading ==
    /\ WorkerAt("idle")
    /\ status # "none"
    /\ WorkerGoto("lpop")
    /\ WorkerReads

FirstStep(head) ==
    CASE head = "joinPartyRoom" -> "exit"
      [] head = "cancelJoinPartyRoom" -> "mine"
      [] head = "joinPartyRoomSuccess" -> "success"
      [] head = "PartyRoomLeaveSuccess" -> "leave"
      [] OTHER -> "close"

PopProtocol ==
    /\ WorkerAt("lpop")
    /\ IF queue = <<>>
         THEN worker' = Idle /\ UNCHANGED queue
         ELSE /\ worker' = [pc |-> FirstStep(Head(queue).head),
                            who |-> Head(queue).who, found |-> FALSE]
              /\ queue' = Tail(queue)
    /\ UNCHANGED <<lists, cancels, status, game, loop, hall, applied,
                   withdrawn, marred, bounds>>

\* onJoinPartyRoom
JoinExit ==
    /\ WorkerAt("exit")
    /\ IF worker.who[1] \in away THEN WorkerDone ELSE WorkerGoto("look")
    /\ WorkerReads

JoinLook ==
    /\ WorkerAt("look")
    /\ IF worker.who[1] \in Members(wait)
         THEN WorkerDone /\ withdrawn' = withdrawn \ Members(worker.who)
         ELSE WorkerGoto("push") /\ UNCHANGED withdrawn
    /\ UNCHANGED <<lists, cancels, queue, status, game, loop, hall, applied,
                   marred, bounds>>

JoinPush ==
    /\ WorkerAt("push")
    /\ PushWaiting(worker.who)
    /\ WorkerDone
    /\ UNCHANGED <<cancels, queue, status, game, loop, hall, bounds>>

\* onCancelJoinPartyRoom: EXISTS, GET, LRANGE, pipeline.
CancelMine ==
    /\ WorkerAt("mine")
    /\ IF worker.who[1] \in mark THEN WorkerGoto("get") ELSE WorkerDone
    /\ WorkerReads

CancelGet ==
    /\ WorkerAt("get")
    /\ WorkerGoto(IF worker.who[1] \in mark THEN "scan" ELSE "cancel")
    /\ WorkerReads

CancelScan ==
    /\ WorkerAt("scan")
    /\ worker' = [worker EXCEPT !.pc = "cancel",
                                !.found = worker.who[1] \in Members(wait)]
    /\ WorkerReads

\* Mutant of Cancelled: the account stays in the list.
CancelledNot == wait

Cancelled ==
    IF worker.found THEN Without(wait, Members(worker.who)) ELSE wait

CancelPipe ==
    /\ WorkerAt("cancel")
    /\ mark' = mark \ Members(worker.who)
    /\ wait' = Cancelled
    /\ applied' = applied \ Members(worker.who)
    /\ marred' = marred \cup RemoveCause(worker.who[1])
    /\ WorkerDone
    /\ UNCHANGED <<fin, seated, cancels, queue, status, game, loop, hall,
                   withdrawn, bounds>>

\* onJoinPartyRoomSuccess, without the statistics of the day.
JoinSuccess ==
    /\ WorkerAt("success")
    /\ seated' = seated \cup Members(worker.who)
    /\ fin' = fin \ Members(worker.who)
    /\ WorkerDone
    /\ UNCHANGED <<wait, mark, cancels, queue, status, game, loop, hall,
                   applied, withdrawn, marred, bounds>>

\* onPartyRoomLeaveSuccess; only the worker changes what it reads.
LeaveSuccess ==
    /\ WorkerAt("leave")
    /\ seated' = seated \ Members(worker.who)
    /\ WorkerDone
    /\ UNCHANGED <<wait, mark, fin, cancels, queue, status, game, loop, hall,
                   applied, withdrawn, marred, bounds>>

\* onPartyServiceClose
CloseQueue ==
    /\ WorkerAt("close")
    /\ queue' = <<>>
    /\ WorkerGoto("down")
    /\ UNCHANGED <<lists, cancels, status, game, loop, hall, applied,
                   withdrawn, marred, bounds>>

CloseStatus ==
    /\ WorkerAt("down")
    /\ status' = "none"
    /\ WorkerDone
    /\ UNCHANGED <<lists, cancels, queue, game, loop, hall, applied, withdrawn,
                   marred, bounds>>

Worker ==
    \/ StartReading \/ PopProtocol
    \/ JoinExit \/ JoinLook \/ JoinPush
    \/ CancelMine \/ CancelGet \/ CancelScan \/ CancelPipe
    \/ JoinSuccess \/ LeaveSuccess \/ CloseQueue \/ CloseStatus

----------------------------------------------------------------------------
(* The hall: /joinPartyRoom, /notJoinPartyRoom, /checkJoinPartyRoom, and   *)
(* the part of /joinRoom and /createRoom that takes a player off the list. *)

Ask(t, a, step) ==
    /\ hall[t].pc = "idle"
    /\ served < MaxOps
    /\ served' = served + 1
    /\ hall' = [hall EXCEPT ![t] = [Idle EXCEPT !.pc = step, !.who = <<a>>]]
    /\ UNCHANGED <<lists, cancels, queue, status, game, loop, worker, applied,
                   withdrawn, marred, faults>>

HallJoin(t, a) == Ask(t, a, "exit")
HallNotJoin(t, a) == Ask(t, a, "mine")
HallCheck(t, a) == Ask(t, a, "check")
HallEnterRoom(t, a) == Ask(t, a, "get")

HallGoto(t, step) == hall' = [hall EXCEPT ![t] = [@ EXCEPT !.pc = step]]
HallDone(t) == hall' = [hall EXCEPT ![t] = Idle]

\* A command that only reads: the request goes on, or ends.
HallReads(t, here, goes, next) ==
    /\ hall[t].pc = here
    /\ IF goes THEN HallGoto(t, next) ELSE HallDone(t)
    /\ UNCHANGED <<lists, cancels, queue, status, game, loop, worker, applied,
                   withdrawn, marred, bounds>>

HallExit(t) == HallReads(t, "exit", hall[t].who[1] \notin away, "look")
HallGet(t) == HallReads(t, "get", hall[t].who[1] \in mark, "scan")
HallScan(t) == HallReads(t, "scan", hall[t].who[1] \in Members(wait), "rem")

\* A player who waits already is told to have joined.
HallLook(t) ==
    /\ hall[t].pc = "look"
    /\ IF hall[t].who[1] \in Members(wait)
         THEN HallDone(t) /\ withdrawn' = withdrawn \ Members(hall[t].who)
         ELSE HallGoto(t, "push") /\ UNCHANGED withdrawn
    /\ UNCHANGED <<lists, cancels, queue, status, game, loop, worker, applied,
                   marred, bounds>>

HallPush(t) ==
    /\ hall[t].pc = "push"
    /\ PushWaiting(hall[t].who)
    /\ HallDone(t)
    /\ UNCHANGED <<cancels, queue, status, game, loop, worker, bounds>>

\* The player is told to have withdrawn, and stays where the player is.
HallIgnore(t) ==
    /\ withdrawn' = withdrawn \cup Members(hall[t].who)
    /\ marred' = marred \cup IgnoreCause(hall[t].who[1])
    /\ HallDone(t)

HallMine(t) ==
    /\ hall[t].pc = "mine"
    /\ IF hall[t].who[1] \in mark
         THEN HallGoto(t, "ask") /\ UNCHANGED <<withdrawn, marred>>
         ELSE HallIgnore(t)
    /\ UNCHANGED <<lists, cancels, queue, status, game, loop, worker, applied,
                   bounds>>

\* The account is put into a list of cancellations, which nobody reads.
HallCancel(t) ==
    /\ hall[t].pc = "ask"
    /\ cancels' = cancels \cup Members(hall[t].who)
    /\ HallIgnore(t)
    /\ UNCHANGED <<lists, queue, status, game, loop, worker, applied, bounds>>

\* /checkJoinPartyRoom asks for a room, for the list that the account is in, and
\* whether it is there; the answer is a room, or how many wait.
HallAway(t) ==
    HallReads(t, "check", TRUE,
              IF hall[t].who[1] \in away THEN "unfin" ELSE "wanted")

HallWanted(t) ==
    HallReads(t, "wanted", TRUE,
              IF hall[t].who[1] \in mark THEN "list" ELSE "matched")

HallListed(t) ==
    HallReads(t, "list", hall[t].who[1] \notin Members(wait), "matched")

\* Whoever is in no room and not in the list is told not to have applied: the
\* test for a match asks for an empty value, and the loop stores the number of
\* seats.
HallMatched(t) ==
    /\ hall[t].pc = "matched"
    /\ HallDone(t)
    /\ marred' = IF Waits(hall[t].who[1]) THEN marred \cup {"denied"}
                                           ELSE marred
    /\ UNCHANGED <<lists, cancels, queue, status, game, loop, worker, applied,
                   withdrawn, bounds>>

\* A player who is in a room is sent there, and the match forgotten.
HallUnfinish(t) ==
    /\ hall[t].pc = "unfin"
    /\ fin' = fin \ Members(hall[t].who)
    /\ HallDone(t)
    /\ UNCHANGED <<wait, mark, seated, cancels, queue, status, game, loop,
                   worker, applied, withdrawn, marred, bounds>>

\* LREM; the account's table stays.
HallRemove(t) ==
    /\ hall[t].pc = "rem"
    /\ wait' = Without(wait, Members(hall[t].who))
    /\ applied' = applied \ Members(hall[t].who)
    /\ marred' = marred \cup RemoveCause(hall[t].who[1])
    /\ HallDone(t)
    /\ UNCHANGED <<mark, fin, seated, cancels, queue, status, game, loop,
                   worker, withdrawn, bounds>>

HallStep(t) ==
    \/ HallExit(t) \/ HallLook(t) \/ HallPush(t) \/ HallMine(t)
    \/ HallCancel(t) \/ HallAway(t) \/ HallUnfinish(t) \/ HallWanted(t)
    \/ HallListed(t) \/ HallMatched(t)
    \/ HallGet(t) \/ HallScan(t) \/ HallRemove(t)

----------------------------------------------------------------------------
(* External: who sends protocols to the service, the game server, redis    *)

\* sendProtocol2OnePartyService: EXISTS and RPUSH; nothing if it is closed.
Send(head, who) ==
    /\ served < MaxOps
    /\ status # "none"
    /\ served' = served + 1
    /\ queue' = Append(queue, [head |-> head, who |-> who])
    /\ UNCHANGED <<lists, cancels, status, game, actors, applied, withdrawn,
                   marred, faults>>

\* The game server opens a room for the oldest match and says so.
OpenRoom ==
    /\ matches # <<>>
    /\ rooms' = Append(rooms, Head(matches))
    /\ away' = away \cup Members(Head(matches))
    /\ matches' = Tail(matches)
    /\ queue' = Append(queue, [head |-> "joinPartyRoomSuccess",
                               who |-> Head(matches)])
    /\ UNCHANGED <<lists, cancels, status, actors, applied, withdrawn, marred,
                   bounds>>

\* The game is over: its players have got what they applied for.
CloseRoom ==
    /\ rooms # <<>>
    /\ rooms' = Tail(rooms)
    /\ away' = away \ Members(Head(rooms))
    /\ queue' = Append(queue, [head |-> "PartyRoomLeaveSuccess",
                               who |-> Head(rooms)])
    /\ applied' = applied \ (Members(Head(rooms)) \ Members(wait))
    /\ UNCHANGED <<lists, cancels, status, matches, actors, withdrawn, marred,
                   bounds>>

Fault == faults < MaxFaults /\ faults' = faults + 1

\* The TTL ends while the loop is slow.
ExpireStatus ==
    /\ Fault
    /\ status = "ttl"
    /\ status' = "none"
    /\ UNCHANGED <<lists, cancels, queue, game, actors, applied, withdrawn,
                   marred, served>>

\* The service dies and is started again: both its actors start anew.
RestartService ==
    /\ Fault
    /\ loop' = Resting
    /\ worker' = Idle
    /\ marred' = marred \cup {"crash"}
    /\ UNCHANGED <<lists, cancels, queue, status, game, hall, applied,
                   withdrawn, served>>

\* Redis fails outside of the worker's try: its thread ends with the mutex
\* held, and the others wait for ever.
WorkerFails ==
    /\ Fault
    /\ worker.pc \in {"idle", "lpop"}
    /\ worker' = [Idle EXCEPT !.pc = "dead"]
    /\ marred' = marred \cup {"mutex"}
    /\ UNCHANGED <<lists, cancels, queue, status, game, loop, hall, applied,
                   withdrawn, served>>

Players ==
    \E a \in Accounts :
        \/ Send("joinPartyRoom", <<a>>)
        \/ Send("cancelJoinPartyRoom", <<a>>)
        \/ \E t \in Threads : HallJoin(t, a) \/ HallNotJoin(t, a)
                                \/ HallCheck(t, a) \/ HallEnterRoom(t, a)

Next ==
    \/ Players
    \/ Send("close", <<>>)
    \/ Loop \/ Worker
    \/ \E t \in Threads : HallStep(t)
    \/ OpenRoom \/ CloseRoom
    \/ ExpireStatus \/ RestartService \/ WorkerFails

Spec == Init /\ [][Next]_vars

----------------------------------------------------------------------------
(* Properties *)

\* The service knows nothing of a player who has applied and not withdrawn, and
\* tells the player so (onCheckJoinPartyRoom).
Forgotten(a) == a \in applied \ withdrawn /\ ~Answered(a) /\ ~InTransit(a)

\* Nobody is told not to have applied who has, as long as nobody withdraws
\* late, joins twice or again, and the service does not die: the last answer of
\* onCheckJoinPartyRoom is true for players who only join and wait.
WaitersNotForgotten ==
    \A a \in Accounts :
        Forgotten(a) =>
            marred \cap {"late", "twice", "again", "stale", "crash"} # {}

\* What the service and the hall lose a player by: two tables or more were
\* waiting when the loop read the list (it takes the same first players for
\* each of them); a player withdrew while being matched; an account was pushed
\* into the list twice, or again after it was matched, or between the reading
\* and the deletion of something of its own; the service died.
Losses == {"crowd", "late", "twice", "again", "stale", "crash"}

\* The service forgets nobody without such a cause: players who join while the
\* loop works, withdrawals that nobody heeds, the expiry and closing of the
\* service and a missing game server lose nobody.  And /checkJoinPartyRoom tells
\* nobody who waits not to have applied, unless the player joined while it was
\* asking.  It tells so every player who is matched and has no room yet, of whom
\* the service knows: nothing is promised of its answers to them.
ForgottenNeedsCause ==
    /\ \A a \in Accounts : Forgotten(a) => marred \cap Losses # {}
    /\ "denied" \in marred => marred \cap (Losses \cup {"asked"}) # {}

\* The seats of an account at the tables of a list.
SeatsOf(a, tables) ==
    {s \in (1..Len(tables)) \X (1..Seats) : tables[s[1]][s[2]] = a}

\* In how many seats of matches, sent or played, an account is.
Times(a) == Cardinality(SeatsOf(a, matches)) + Cardinality(SeatsOf(a, rooms))

\* Nobody sits at two tables, or twice at one, unless two tables were waiting
\* at once or the account had been pushed into the list while it was there or
\* matched: neither a crash nor a withdrawal seats anybody twice.
MatchedOnce ==
    \A a \in Accounts :
        Times(a) > 1 => marred \cap {"crowd", "twice", "again"} # {}

\* Nobody is sent to a game server who was taken off the list or whose game is
\* over, unless that came too late or met another join of the account, or the
\* account was matched twice to begin with; and nobody whom /notJoinPartyRoom
\* told to be out, unless the account was in the list or matched at the time:
\* the hall answers with success and takes nobody off.
MatchedHaveApplied ==
    \A m \in Members(matches) : \A a \in Members(m) :
        /\ a \notin applied =>
               marred \cap {"late", "stale", "crowd", "twice", "again"} # {}
        /\ a \in withdrawn => "unheeded" \in marred

----------------------------------------------------------------------------
(* Liveness.  The loop is a thread of its own that never ends; the worker's *)
(* threads poll the queue while the status exists, which the loop restores  *)
(* again and again.                                                         *)

LiveSpec == Spec /\ WF_vars(Loop) /\ SF_vars(Worker)

\* Players who are enough for a table do not wait for ever, whatever the hall
\* and the worker do to the list meanwhile and although the service may die.
TablesEmpty == (Len(wait) >= Seats) ~> (Len(wait) < Seats)

\* Account a is at the head of a table that waits.
AtTable(a) == Len(wait) >= Seats /\ a \in Members(SubSeq(wait, 1, Seats))

\* Account a waits, and the others are no longer enough.
Alone(a) == ~Matching /\ Len(wait) < Seats /\ a \in Members(wait)

\* Nor are they taken off the list and dropped: whoever waits at a full table is
\* marked as matched, unless others withdrew first, the account did, or one of
\* the causes has happened that lose a player.  (Without a game server the loop
\* marks the players as well, and drops their match.)
TablesMatched ==
    \A a \in Accounts :
        AtTable(a) ~> \/ a \in fin
                      \/ Alone(a)
                      \/ a \notin applied
                      \/ marred \cap Losses # {}

\* A full table is matched: TablesEmpty and TablesMatched.
TablesFill == TablesEmpty /\ TablesMatched

\* The queue of protocols is emptied again and again, although the status
\* expires and the service is closed by protocols that come with others, unless
\* redis failed a worker that held the mutex.
QueueIsRead == []<>(queue = <<>>) \/ <>("mutex" \in marred)
============================================================================
