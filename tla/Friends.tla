------------------------------ MODULE Friends ------------------------------
(***************************************************************************)
(* Friends and friend requests (fish/fish_friend.py): user:<uid>:friend:   *)
(* set, user:<uid>:friend:req:list and the hashes friend:invite:<id>.      *)
(* Every handler sends its redis commands one by one, and the threads of   *)
(* the server run handlers at the same time, so each command is a step.    *)
(***************************************************************************)
EXTENDS Naturals, Sequences, FiniteSets

CONSTANTS
    Users,     \* user ids
    Threads,   \* server threads
    Limit,     \* a set or list with more elements than this is full (30)
    MaxClock,  \* bound: the seconds that pass
    MaxOps     \* bound: requests served

ASSUME FriendsAssumption ==
    /\ IsFiniteSet(Users)
    /\ IsFiniteSet(Threads)
    /\ Limit \in Nat /\ MaxClock \in Nat /\ MaxOps \in Nat

VARIABLES
    friends,  \* user:<uid>:friend:set
    reqs,     \* user:<uid>:friend:req:list, the newest request first
    hashes,   \* the invite ids that have a hash
    pc,       \* the next command of each thread
    job,      \* the request each thread serves
    clock,    \* int(time.time())
    served,   \* bound: requests so far
    marred    \* history: pairs with a crash, or a deletion during an accept

data == <<friends, reqs, hashes>>
vars == <<friends, reqs, hashes, pc, job, clock, served, marred>>

\* An invite id is the sender's uid and the second of sending; it does not
\* name the receiver.
Ids == [from : Users, ts : 0..MaxClock]
Jobs == [me : Users, you : Users, id : Ids]
NoJob == [me |-> "nobody"]

InviteSteps == {"notYours", "notMine", "mineFull", "yoursFull", "asked",
                "room", "push", "hash"}
AcceptSteps == {"checkMine", "checkYours", "addMine", "addYours", "drop",
                "unlist"}
DeleteSteps == {"delYours", "delMine"}
RefuseSteps == {"refuse", "forget"}
Steps == {"idle"} \cup InviteSteps \cup AcceptSteps \cup DeleteSteps
                  \cup RefuseSteps

TypeOK ==
    /\ friends \in [Users -> SUBSET Users]
    /\ reqs \in [Users -> Seq(Ids)]
    /\ hashes \subseteq Ids
    /\ pc \in [Threads -> Steps]
    /\ job \in [Threads -> Jobs \cup {NoJob}]
    /\ \A t \in Threads : pc[t] # "idle" => job[t] \in Jobs
    /\ clock \in 0..MaxClock
    /\ served \in 0..MaxOps
    /\ marred \subseteq SUBSET Users

Init ==
    /\ friends = [u \in Users |-> {}]
    /\ reqs = [u \in Users |-> <<>>]
    /\ hashes = {}
    /\ pc = [t \in Threads |-> "idle"]
    /\ job = [t \in Threads |-> NoJob]
    /\ clock = 0
    /\ served = 0
    /\ marred = {}

Pair(t) == {job[t].me, job[t].you}

Tick ==
    /\ clock < MaxClock
    /\ clock' = clock + 1
    /\ UNCHANGED <<data, pc, job, served, marred>>

\* Whether a request of the other kind is under way for the same pair.
Overlaps(u, v, steps) == \E s \in Threads : pc[s] \in steps /\ Pair(s) = {u, v}

Begin(t, step, j, other) ==
    /\ pc[t] = "idle"
    /\ served < MaxOps
    /\ served' = served + 1
    /\ pc' = [pc EXCEPT ![t] = step]
    /\ job' = [job EXCEPT ![t] = j]
    /\ marred' = IF Overlaps(j.me, j.you, other)
                   THEN marred \cup {{j.me, j.you}} ELSE marred
    /\ UNCHANGED <<data, clock>>

Goto(t, step) == pc' = [pc EXCEPT ![t] = step] /\ UNCHANGED job

\* The request ends.
Leave(t) ==
    /\ pc' = [pc EXCEPT ![t] = "idle"]
    /\ job' = [job EXCEPT ![t] = NoJob]

\* A command that only reads: the request is refused or goes on.
Check(t, here, refused, next) ==
    /\ pc[t] = here
    /\ IF refused THEN Leave(t) ELSE Goto(t, next)
    /\ UNCHANGED <<data, clock, served, marred>>

\* Mutant of Full: the comparison is off by one.
FullLate(n) == n > Limit + 1

\* ... > 30, for friend sets and for the list of requests.
Full(n) == n > Limit

----------------------------------------------------------------------------
(* /friend/invite *)

Invite(t, u, v) ==
    /\ u # v
    /\ Begin(t, "notYours", [me |-> u, you |-> v,
                             id |-> [from |-> u, ts |-> clock]], {})

NotYours(t) ==
    Check(t, "notYours", job[t].me \in friends[job[t].you], "notMine")

NotMine(t) ==
    Check(t, "notMine", job[t].you \in friends[job[t].me], "mineFull")

MineFull(t) ==
    Check(t, "mineFull", Full(Cardinality(friends[job[t].me])), "yoursFull")

YoursFull(t) ==
    Check(t, "yoursFull", Full(Cardinality(friends[job[t].you])), "asked")

\* The sender has a request in the receiver's list.
AlreadyAsked(u, v) ==
    \E n \in 1..Len(reqs[v]) : reqs[v][n].from = u

\* The list is read, and the id made of the second that it is now.
Asked(t) ==
    /\ pc[t] = "asked"
    /\ IF AlreadyAsked(job[t].me, job[t].you)
         THEN Leave(t)
         ELSE /\ pc' = [pc EXCEPT ![t] = "room"]
              /\ job' = [job EXCEPT ![t].id = [from |-> job[t].me, ts |-> clock]]
    /\ UNCHANGED <<data, clock, served, marred>>

\* A full list is not shortened: "reids.rpop" raises and ends the request.
Room(t) == Check(t, "room", Full(Len(reqs[job[t].you])), "push")

Push(t) ==
    /\ pc[t] = "push"
    /\ reqs' = [reqs EXCEPT ![job[t].you] = <<job[t].id>> \o @]
    /\ Goto(t, "hash")
    /\ UNCHANGED <<friends, hashes, clock, served, marred>>

Hash(t) ==
    /\ pc[t] = "hash"
    /\ hashes' = hashes \cup {job[t].id}
    /\ Leave(t)
    /\ UNCHANGED <<friends, reqs, clock, served, marred>>

----------------------------------------------------------------------------
(* /friend/accept/invite.  The inviter and the id are two fields of the    *)
(* client's; the invitation is never looked up.  It may be gone by now, be *)
(* somebody else's or never have been sent, and the inviter may be oneself *)

Accept(t, u, v, id) ==
    Begin(t, "checkMine", [me |-> u, you |-> v, id |-> id], DeleteSteps)

CheckMine(t) ==
    Check(t, "checkMine", Full(Cardinality(friends[job[t].me])), "checkYours")

CheckYours(t) ==
    Check(t, "checkYours", Full(Cardinality(friends[job[t].you])), "addMine")

AddMine(t) ==
    /\ pc[t] = "addMine"
    /\ friends' = [friends EXCEPT ![job[t].me] = @ \cup {job[t].you}]
    /\ Goto(t, "addYours")
    /\ UNCHANGED <<reqs, hashes, clock, served, marred>>

\* Mutant of AddedTo: the second set is given the wrong member.
AddedToSelf(t) ==
    [friends EXCEPT ![job[t].you] = @ \cup {job[t].you}]

AddedTo(t) ==
    [friends EXCEPT ![job[t].you] = @ \cup {job[t].me}]

AddYours(t) ==
    /\ pc[t] = "addYours"
    /\ friends' = AddedTo(t)
    /\ Goto(t, "drop")
    /\ UNCHANGED <<reqs, hashes, clock, served, marred>>

Drop(t) ==
    /\ pc[t] = "drop"
    /\ hashes' = hashes \ {job[t].id}
    /\ Goto(t, "unlist")
    /\ UNCHANGED <<friends, reqs, clock, served, marred>>

\* LREM with count 0 removes every occurrence; the others keep their order.
\* Nth is the k-th smallest of a set of positions.
Nth(positions, k) ==
    CHOOSE n \in positions : Cardinality({m \in positions : m <= n}) = k

Without(s, id) ==
    LET kept == {n \in 1..Len(s) : s[n] # id}
    IN [k \in 1..Cardinality(kept) |-> s[Nth(kept, k)]]

Unlist(t) ==
    /\ pc[t] = "unlist"
    /\ reqs' = [reqs EXCEPT ![job[t].me] = Without(@, job[t].id)]
    /\ Leave(t)
    /\ UNCHANGED <<friends, hashes, clock, served, marred>>

----------------------------------------------------------------------------
(* /friend/refuse/invite and /friend/del *)

\* Whatever id the client sends.
Refuse(t, u, id) ==
    Begin(t, "refuse", [me |-> u, you |-> id.from, id |-> id], {})

RefuseUnlist(t) ==
    /\ pc[t] = "refuse"
    /\ reqs' = [reqs EXCEPT ![job[t].me] = Without(@, job[t].id)]
    /\ Goto(t, "forget")
    /\ UNCHANGED <<friends, hashes, clock, served, marred>>

Forget(t) ==
    /\ pc[t] = "forget"
    /\ hashes' = hashes \ {job[t].id}
    /\ Leave(t)
    /\ UNCHANGED <<friends, reqs, clock, served, marred>>

Delete(t, u, v) ==
    Begin(t, "delYours", [me |-> u, you |-> v,
                          id |-> [from |-> u, ts |-> clock]], AcceptSteps)

DelYours(t) ==
    /\ pc[t] = "delYours"
    /\ friends' = [friends EXCEPT ![job[t].you] = @ \ {job[t].me}]
    /\ Goto(t, "delMine")
    /\ UNCHANGED <<reqs, hashes, clock, served, marred>>

DelMine(t) ==
    /\ pc[t] = "delMine"
    /\ friends' = [friends EXCEPT ![job[t].me] = @ \ {job[t].you}]
    /\ Leave(t)
    /\ UNCHANGED <<reqs, hashes, clock, served, marred>>

\* The worker dies between two commands.
Crash(t) ==
    /\ pc[t] # "idle"
    /\ Leave(t)
    /\ marred' = marred \cup {Pair(t)}
    /\ UNCHANGED <<data, clock, served>>

----------------------------------------------------------------------------
InviteStep(t) ==
    \/ NotYours(t) \/ NotMine(t) \/ MineFull(t) \/ YoursFull(t) \/ Asked(t)
    \/ Room(t) \/ Push(t) \/ Hash(t)

AcceptStep(t) ==
    \/ CheckMine(t) \/ CheckYours(t) \/ AddMine(t) \/ AddYours(t)
    \/ Drop(t) \/ Unlist(t)

OtherStep(t) ==
    \/ RefuseUnlist(t) \/ Forget(t) \/ DelYours(t) \/ DelMine(t) \/ Crash(t)

Next ==
    \/ Tick
    \/ \E t \in Threads, u, v \in Users : Invite(t, u, v) \/ Delete(t, u, v)
    \/ \E t \in Threads, u, v \in Users, id \in Ids : Accept(t, u, v, id)
    \/ \E t \in Threads, u \in Users, id \in Ids : Refuse(t, u, id)
    \/ \E t \in Threads : InviteStep(t) \/ AcceptStep(t) \/ OtherStep(t)

Spec == Init /\ [][Next]_vars

(***************************************************************************)
(* Properties                                                              *)
(***************************************************************************)

\* The size of a friend set is read before the handler adds to it, so the
\* limit can be passed: by one, as the comparison is ">", and by one more for
\* every other thread that had read the size in time.
FriendsBounded ==
    \A u \in Users :
        Cardinality(friends[u]) <= Limit + Cardinality(Threads)

\* The same for the list of requests, from which /friend/invite never drops
\* the oldest when it is full.
RequestsBounded ==
    \A u \in Users : Len(reqs[u]) <= Limit + Cardinality(Threads)

\* Friendship is kept in two sets that are written by two commands.  It is
\* mutual whenever no request for the pair is under way, unless a worker died
\* or the friend was deleted while being accepted.
MutualUnlessMarred ==
    \A u, v \in Users :
        \/ {u, v} \in marred
        \/ \E t \in Threads : pc[t] # "idle" /\ Pair(t) = {u, v}
        \/ v \in friends[u] <=> u \in friends[v]
============================================================================
