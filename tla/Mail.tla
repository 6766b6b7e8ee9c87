-------------------------------- MODULE Mail --------------------------------
(***************************************************************************)
(* Letters between players (fish/fish_friend.py): the set                  *)
(* user:<uid>:player:mails names the letters a player has, the hash        *)
(* fish:mail:<eid> holds each of them.  Sending, claiming the attachment,  *)
(* deleting and the clean-up that /show/mails does after thirty days write *)
(* both, one command after the other.  Nothing in the repository writes    *)
(* letters of the system, so only letters of players are modelled.         *)
(***************************************************************************)
EXTENDS Integers, FiniteSets

CONSTANTS
    Users,      \* user ids
    Threads,    \* server threads
    Fee,        \* postage (1000)
    Keep,       \* the age up to which a letter is kept (30 days)
    Warheads,   \* the numbers of warheads that clients ask to attach
    StartCoin,  \* what each player owns at the beginning
    MaxClock,   \* bound: the time that passes
    MaxOps      \* bound: requests served

ASSUME MailAssumption ==
    /\ IsFiniteSet(Users) /\ IsFiniteSet(Threads) /\ Threads # {}
    /\ Fee \in Nat \ {0} /\ Keep \in Nat
    /\ Warheads \subseteq Int /\ StartCoin \in Nat
    /\ MaxClock \in Nat /\ MaxOps \in Nat

\* A letter is named by its sender and the second in which it was sent.
Eids == [from : Users, ts : 0..MaxClock]

VARIABLES
    coin,      \* users:<uid> coin
    warhead,   \* users:<uid> warhead
    box,       \* user:<uid>:player:mails
    whole,     \* the letters whose hash has its attachment
    stub,      \* the hashes that hold nothing but isRead
    attach,    \* the attachment of each letter
    pc,        \* the next command of each thread
    job,       \* the request it serves
    clock,     \* int(time.time())
    served,    \* bound: requests so far
    to,        \* history: whose box has listed a letter of this name
    sends,     \* history: how often a letter of this name was written
    claims,    \* history: how often its coins were credited
    cuts,      \* history: workers that died while they handled it
    stray      \* history: letters claimed or deleted by a player whose box
               \* had not listed them

hashes == <<whole, stub, attach>>
past == <<to, sends, claims, cuts, stray>>
vars == <<coin, warhead, box, whole, stub, attach, pc, job, clock, served,
          to, sends, claims, cuts, stray>>

Attachments == [coin : Int, war : Int]
Nothing == [coin |-> 0, war |-> 0]
Jobs == [me : Users, eid : Eids, att : Attachments]
NoJob == [me |-> "nobody"]
Steps == {"idle", "fee", "list", "write", "coin", "warhead", "unlist", "erase",
          "expire", "expired"}

TypeOK ==
    /\ coin \in [Users -> Int]
    /\ warhead \in [Users -> Int]
    /\ box \in [Users -> SUBSET Eids]
    /\ whole \subseteq Eids /\ stub \subseteq Eids
    /\ attach \in [Eids -> Attachments]
    /\ pc \in [Threads -> Steps]
    /\ job \in [Threads -> Jobs \cup {NoJob}]
    /\ \A t \in Threads : pc[t] # "idle" => job[t] \in Jobs
    /\ clock \in 0..MaxClock
    /\ served \in 0..MaxOps
    /\ to \in [Eids -> SUBSET Users]
    /\ sends \in [Eids -> Nat] /\ claims \in [Eids -> Nat]
    /\ cuts \in [Eids -> Nat]
    /\ stray \subseteq Eids

Init ==
    /\ coin = [u \in Users |-> StartCoin]
    /\ warhead = [u \in Users |-> 0]
    /\ box = [u \in Users |-> {}]
    /\ whole = {} /\ stub = {}
    /\ attach = [e \in Eids |-> Nothing]
    /\ pc = [t \in Threads |-> "idle"]
    /\ job = [t \in Threads |-> NoJob]
    /\ clock = 0
    /\ served = 0
    /\ to = [e \in Eids |-> {}]
    /\ sends = [e \in Eids |-> 0] /\ claims = [e \in Eids |-> 0]
    /\ cuts = [e \in Eids |-> 0]
    /\ stray = {}

Tick ==
    /\ clock < MaxClock
    /\ clock' = clock + 1
    /\ UNCHANGED <<coin, warhead, box, hashes, pc, job, served, past>>

Begin(t, step, j) ==
    /\ pc[t] = "idle"
    /\ served < MaxOps
    /\ served' = served + 1
    /\ pc' = [pc EXCEPT ![t] = step]
    /\ job' = [job EXCEPT ![t] = j]
    /\ UNCHANGED <<coin, warhead, box, hashes, clock>>

Goto(t, step) == pc' = [pc EXCEPT ![t] = step] /\ UNCHANGED job

Leave(t) ==
    /\ pc' = [pc EXCEPT ![t] = "idle"]
    /\ job' = [job EXCEPT ![t] = NoJob]

----------------------------------------------------------------------------
(* /send/mail *)

\* Mutant of PostageCovered: the balance is not compared.
PostageUnchecked(u) == TRUE

\* coin - 1000 < 0 is refused.
PostageCovered(u) == coin[u] - Fee >= 0

\* The coins the client asks to send are overwritten by the coins the sender
\* owns; the postage must be covered.  The count that decides whether the
\* receiver's box is full is taken of another key, which is always empty.
\* The number of warheads is the client's and compared with nothing: it may
\* be negative.
Send(t, u, v, w) ==
    /\ PostageCovered(u)
    /\ Begin(t, "fee", [me |-> v, eid |-> [from |-> u, ts |-> clock],
                        att |-> [coin |-> coin[u], war |-> w]])
    /\ UNCHANGED past

\* Only the postage is paid; attachments are not taken from the sender.  The
\* letter is named by the second in which HINCRBY has returned.
SendFee(t) ==
    /\ pc[t] = "fee"
    /\ coin' = [coin EXCEPT ![job[t].eid.from] = @ - Fee]
    /\ job' = [job EXCEPT ![t].eid.ts = clock]
    /\ pc' = [pc EXCEPT ![t] = "list"]
    /\ UNCHANGED <<warhead, box, hashes, clock, served, past>>

SendList(t) ==
    /\ pc[t] = "list"
    /\ box' = [box EXCEPT ![job[t].me] = @ \cup {job[t].eid}]
    /\ to' = [to EXCEPT ![job[t].eid] = @ \cup {job[t].me}]
    /\ Goto(t, "write")
    /\ UNCHANGED <<coin, warhead, hashes, clock, served, sends, claims, cuts,
                   stray>>

\* Mutant of Written: the hash is filled without the attachment.
WrittenEmpty(e) == whole

\* HMSET with all its fields.
Written(e) == whole \cup {e}

SendWrite(t) ==
    LET e == job[t].eid
    IN /\ pc[t] = "write"
       /\ whole' = Written(e)
       /\ stub' = stub \ {e}
       /\ attach' = [attach EXCEPT ![e] = job[t].att]
       /\ sends' = [sends EXCEPT ![e] = @ + 1]
       /\ Leave(t)
       /\ UNCHANGED <<coin, warhead, box, clock, served, to, claims, cuts, stray>>

----------------------------------------------------------------------------
(* /get/attach, /del/mail, /read/mail and the clean-up of /show/mails *)

\* HGET attach; a letter without it cannot be claimed.  Whose letter it is
\* is not asked: the eid is the client's.
GetAttach(t, u, e) ==
    /\ e \in whole
    /\ Begin(t, "coin", [me |-> u, eid |-> e, att |-> attach[e]])
    /\ UNCHANGED past

ClaimCoin(t) ==
    /\ pc[t] = "coin"
    /\ coin' = [coin EXCEPT ![job[t].me] = @ + job[t].att.coin]
    /\ claims' = [claims EXCEPT ![job[t].eid] = @ + 1]
    /\ Goto(t, IF job[t].att.war # 0 THEN "warhead" ELSE "unlist")
    /\ UNCHANGED <<warhead, box, hashes, clock, served, to, sends, cuts, stray>>

Credited(n, m) == n + m

ClaimWarhead(t) ==
    /\ pc[t] = "warhead"
    /\ warhead' = [warhead EXCEPT ![job[t].me] = Credited(@, job[t].att.war)]
    /\ Goto(t, "unlist")
    /\ UNCHANGED <<coin, box, hashes, clock, served, past>>

\* Anybody, and any eid: also one that is just being sent.
DelMail(t, u, e) ==
    /\ Begin(t, "unlist", [me |-> u, eid |-> e, att |-> Nothing])
    /\ UNCHANGED past

\* SREM: the letter leaves the box of the player who claims or deletes it ...
Unlist(t) ==
    /\ pc[t] = "unlist"
    /\ box' = [box EXCEPT ![job[t].me] = @ \ {job[t].eid}]
    /\ stray' = IF job[t].me \in to[job[t].eid]
                  THEN stray ELSE stray \cup {job[t].eid}
    /\ Goto(t, "erase")
    /\ UNCHANGED <<coin, warhead, hashes, clock, served, to, sends, claims, cuts>>

\* Mutant of Erased: the hash stays.
ErasedNot(e) == UNCHANGED hashes

\* redis.delete of the hash.
Erased(e) ==
    /\ whole' = whole \ {e}
    /\ stub' = stub \ {e}
    /\ attach' = [attach EXCEPT ![e] = Nothing]

\* ... and then its hash goes.
Erase(t) ==
    /\ pc[t] = "erase"
    /\ Erased(job[t].eid)
    /\ Leave(t)
    /\ UNCHANGED <<coin, warhead, box, clock, served, past>>

\* HSET isRead, whether or not there is such a letter.
ReadMail(e) ==
    /\ served < MaxOps
    /\ served' = served + 1
    /\ stub' = IF e \in whole THEN stub ELSE stub \cup {e}
    /\ UNCHANGED <<coin, warhead, box, whole, attach, pc, job, clock, past>>

\* A letter older than thirty days: here the hash goes first ...
ShowMails(t, u, e) ==
    /\ e \in box[u]
    /\ clock - e.ts > Keep
    /\ Begin(t, "expire", [me |-> u, eid |-> e, att |-> Nothing])
    /\ UNCHANGED past

ExpireHash(t) ==
    /\ pc[t] = "expire"
    /\ Erased(job[t].eid)
    /\ Goto(t, "expired")
    /\ UNCHANGED <<coin, warhead, box, clock, served, past>>

\* ... and then the name.
ExpireName(t) ==
    /\ pc[t] = "expired"
    /\ box' = [box EXCEPT ![job[t].me] = @ \ {job[t].eid}]
    /\ Leave(t)
    /\ UNCHANGED <<coin, warhead, hashes, clock, served, past>>

\* The worker dies between two commands.
Crash(t) ==
    /\ pc[t] # "idle"
    /\ cuts' = [cuts EXCEPT ![job[t].eid] = @ + 1]
    /\ Leave(t)
    /\ UNCHANGED <<coin, warhead, box, hashes, clock, served, to, sends, claims,
                   stray>>

----------------------------------------------------------------------------
Step(t) ==
    \/ SendFee(t) \/ SendList(t) \/ SendWrite(t) \/ ClaimCoin(t)
    \/ ClaimWarhead(t) \/ Unlist(t) \/ Erase(t) \/ ExpireHash(t)
    \/ ExpireName(t) \/ Crash(t)

Next ==
    \/ Tick
    \/ \E t \in Threads, u, v \in Users, w \in Warheads :
         Send(t, u, v, w)
    \/ \E t \in Threads, u \in Users, e \in Eids :
         GetAttach(t, u, e) \/ DelMail(t, u, e) \/ ShowMails(t, u, e)
    \/ \E e \in Eids : ReadMail(e)
    \/ \E t \in Threads : Step(t)

Spec == Init /\ [][Next]_vars

(***************************************************************************)
(* Properties                                                              *)
(***************************************************************************)

\* A letter is deleted after its attachment was credited, so that a second
\* request can claim it in between: at most one per thread for each time it
\* was written, and one more for each worker that died on the way.
ClaimsBounded ==
    \A e \in Eids : claims[e] <= Cardinality(Threads) * sends[e] + cuts[e]

\* /show/mails raises for a letter that is in the box and has no attachment.
\* Outside of requests there is none, unless two letters were given the same
\* name (one sender, one second), a worker died, or the letter was claimed or
\* deleted in the name of a player whose box had not listed it: /get/attach
\* and /del/mail do not ask whose letter it is, take the name out of the box
\* of the one who asks and delete the hash all the same.
ListedIsWhole ==
    \A u \in Users : \A e \in box[u] :
        \/ e \in whole
        \/ sends[e] > 1 \/ cuts[e] > 0 \/ e \in stray
        \/ \E t \in Threads : pc[t] # "idle" /\ job[t].eid = e

\* Postage is checked by one command and paid by a later one: a purse falls
\* below zero by one postage at most for each other thread.
PostageBounded ==
    \A u \in Users : coin[u] >= -Fee * (Cardinality(Threads) - 1)
=============================================================================
