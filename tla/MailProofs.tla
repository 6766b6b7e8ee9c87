----------------------------- MODULE MailProofs -----------------------------
(***************************************************************************)
(* Proofs for Mail, for every set of users and threads, every postage and  *)
(* every number of requests.                                               *)
(***************************************************************************)
EXTENDS Mail, FiniteSetTheorems, TLAPS

N == Cardinality(Threads)

\* The threads that handle letter e and are about to take a step of S.
At(e, S) == {t \in Threads : pc[t] \in S /\ job[t].eid = e}

\* A letter is erased for a player whose box has listed it, or it is stray;
\* boxes list what they were given, and no attachment takes coins away.
JobOK(t) ==
    /\ pc[t] # "idle" => job[t].att.coin >= 0
    /\ pc[t] \in {"erase", "expire", "expired"}
          => job[t].me \in to[job[t].eid] \/ job[t].eid \in stray

TInv ==
    /\ TypeOK
    /\ \A t \in Threads : JobOK(t)
    /\ \A u \in Users : \A e \in box[u] : u \in to[e]
    /\ \A e \in Eids : attach[e].coin >= 0

(* Postage: what was promised counts as paid.                              *)
Payers(u) == {t \in Threads : pc[t] = "fee" /\ job[t].eid.from = u}

Solvent(u) == coin[u] >= Fee * Cardinality(Payers(u)) - Fee * (N - 1)

PInv == \A u \in Users : Solvent(u)

(* Claims: a letter that is whole can still be claimed by the threads that *)
(* do not handle it.                                                       *)
Claimants(e) == At(e, {"coin"})
Active(e) == At(e, {"coin", "warhead", "unlist", "erase"})

Claims(e) ==
    /\ claims[e] + Cardinality(Claimants(e)) <= N * sends[e] + cuts[e]
    /\ e \in whole =>
         claims[e] + Cardinality(Claimants(e)) + N
            <= N * sends[e] + cuts[e] + Cardinality(Active(e))

CInv == \A e \in Eids : Claims(e)

(* Listed letters: a name that was given once, met no crash and was only   *)
(* claimed or deleted by a player whose box has listed it.                 *)
Writers(e) == At(e, {"write"})
Fine(e) ==
    /\ cuts[e] = 0 /\ e \notin stray
    /\ sends[e] + Cardinality(Writers(e)) <= 1

Listed(e) ==
    /\ sends[e] + Cardinality(Writers(e)) = 0 => to[e] = {}
    /\ \A u, v \in to[e] : u = v
    /\ \A t \in At(e, {"erase"}) : e \notin box[job[t].me]
    /\ \A u \in Users :
         e \in box[u] => \/ e \in whole
                         \/ Writers(e) # {}
                         \/ \E t \in At(e, {"expired"}) : job[t].me = u

LInv == \A e \in Eids : Fine(e) => Listed(e)

IInv == TInv /\ PInv /\ CInv /\ LInv

----------------------------------------------------------------------------
(* Counting threads *)

LEMMA NType == N \in Nat /\ N >= 1
<1>1. N \in Nat
  BY MailAssumption, FS_CardinalityType DEF N
<1>2. N # 0
  BY MailAssumption, FS_EmptySet DEF N
<1>. QED
  BY <1>1, <1>2

LEMMA SomeThreads ==
    ASSUME NEW S \in SUBSET Threads
    PROVE  /\ IsFiniteSet(S)
           /\ Cardinality(S) \in Nat
           /\ Cardinality(S) <= N
<1>1. IsFiniteSet(S) /\ Cardinality(S) <= N
  BY MailAssumption, FS_Subset DEF N
<1>2. Cardinality(S) \in Nat
  BY <1>1, FS_CardinalityType
<1>. QED
  BY <1>1, <1>2

\* What a step of one thread does to a count: A before it, B after it.
LEMMA StepCount ==
    ASSUME NEW A, NEW B, NEW t \in Threads,
           A \in SUBSET Threads, B \in SUBSET Threads,
           \A s \in Threads : s # t => (s \in A <=> s \in B)
    PROVE  /\ Cardinality(A) \in Nat /\ Cardinality(B) \in Nat
           /\ Cardinality(A) <= N /\ Cardinality(B) <= N
           /\ t \in A /\ t \notin B => Cardinality(B) = Cardinality(A) - 1
           /\ t \notin A /\ t \in B => Cardinality(B) = Cardinality(A) + 1
           /\ (t \in A <=> t \in B) => B = A
<1>1. /\ Cardinality(A) \in Nat /\ Cardinality(B) \in Nat
      /\ Cardinality(A) <= N /\ Cardinality(B) <= N
      /\ IsFiniteSet(A)
  BY SomeThreads
<1>2. (t \in A <=> t \in B) => B = A
  OBVIOUS
<1>3. t \in A /\ t \notin B => Cardinality(B) = Cardinality(A) - 1
  <2>1. t \in A /\ t \notin B => B = A \ {t}
    OBVIOUS
  <2>. QED
    BY <1>1, <2>1, FS_RemoveElement
<1>4. t \notin A /\ t \in B => Cardinality(B) = Cardinality(A) + 1
  <2>1. t \notin A /\ t \in B => B = A \cup {t}
    OBVIOUS
  <2>. QED
    BY <1>1, <2>1, FS_AddElement
<1>. QED
  BY <1>1, <1>2, <1>3, <1>4

\* A step of thread t leaves the other threads where they are.
Alone(t) ==
    \A s \in Threads : s # t => pc'[s] = pc[s] /\ job'[s] = job[s]

\* Those who handle letter e, before and after a step of thread t.
LEMMA AtStep ==
    ASSUME NEW t \in Threads, Alone(t), NEW e, NEW S
    PROVE  /\ Cardinality(At(e, S)) \in Nat /\ Cardinality(At(e, S)') \in Nat
           /\ Cardinality(At(e, S)) <= N /\ Cardinality(At(e, S)') <= N
           /\ t \in At(e, S) /\ t \notin At(e, S)' =>
                 Cardinality(At(e, S)') = Cardinality(At(e, S)) - 1
           /\ t \notin At(e, S) /\ t \in At(e, S)' =>
                 Cardinality(At(e, S)') = Cardinality(At(e, S)) + 1
           /\ (t \in At(e, S) <=> t \in At(e, S)') => At(e, S)' = At(e, S)
           /\ \A s \in Threads : s # t => (s \in At(e, S) <=> s \in At(e, S)')
<1>1. At(e, S) \in SUBSET Threads /\ At(e, S)' \in SUBSET Threads
  BY DEF At
<1>2. \A s \in Threads : s # t => (s \in At(e, S) <=> s \in At(e, S)')
  BY DEF At, Alone
<1>. QED
  BY <1>1, <1>2, StepCount

LEMMA PayersStep ==
    ASSUME NEW t \in Threads, Alone(t), NEW u
    PROVE  /\ Cardinality(Payers(u)) \in Nat /\ Cardinality(Payers(u)') \in Nat
           /\ Cardinality(Payers(u)') <= N
           /\ t \in Payers(u) /\ t \notin Payers(u)' =>
                 Cardinality(Payers(u)') = Cardinality(Payers(u)) - 1
           /\ (t \in Payers(u) <=> t \in Payers(u)') => Payers(u)' = Payers(u)
<1>1. Payers(u) \in SUBSET Threads /\ Payers(u)' \in SUBSET Threads
  BY DEF Payers
<1>2. \A s \in Threads : s # t => (s \in Payers(u) <=> s \in Payers(u)')
  BY DEF Payers, Alone
<1>. QED
  BY <1>1, <1>2, StepCount

----------------------------------------------------------------------------
(* Types *)

ThreadTypes ==
    /\ pc \in [Threads -> Steps]
    /\ job \in [Threads -> Jobs \cup {NoJob}]
    /\ \A t \in Threads : pc[t] # "idle" => job[t] \in Jobs

StoreTypes ==
    /\ coin \in [Users -> Int] /\ warhead \in [Users -> Int]
    /\ box \in [Users -> SUBSET Eids]
    /\ whole \subseteq Eids /\ stub \subseteq Eids
    /\ attach \in [Eids -> Attachments]
    /\ \A e \in Eids : attach[e].coin >= 0

PastTypes ==
    /\ clock \in 0..MaxClock /\ served \in 0..MaxOps
    /\ to \in [Eids -> SUBSET Users]
    /\ sends \in [Eids -> Nat] /\ claims \in [Eids -> Nat]
    /\ cuts \in [Eids -> Nat] /\ stray \subseteq Eids

JobsOK == \A t \in Threads : JobOK(t)
BoxOK == \A u \in Users : \A e \in box[u] : u \in to[e]

LEMMA TypeParts ==
    /\ TInv <=> ThreadTypes /\ StoreTypes /\ PastTypes /\ JobsOK /\ BoxOK
    /\ TInv' <=> ThreadTypes' /\ StoreTypes' /\ PastTypes' /\ JobsOK' /\ BoxOK'
  BY DEF TInv, TypeOK, ThreadTypes, StoreTypes, PastTypes, JobsOK, BoxOK

\* What a thread works on.
LEMMA JobParts ==
    ASSUME TInv, NEW t \in Threads, pc[t] # "idle"
    PROVE  /\ job[t] \in Jobs /\ job[t].me \in Users /\ job[t].eid \in Eids
           /\ job[t].eid.from \in Users /\ job[t].att \in Attachments
           /\ job[t].att.coin \in Nat /\ job[t].att.war \in Int
<1>1. job[t] \in Jobs /\ job[t].att.coin >= 0
  BY DEF TInv, TypeOK, JobOK
<1>. QED
  BY <1>1 DEF Jobs, Eids, Attachments

\* Where a thread goes.
Moves(t, p, j) == pc'[t] = p /\ job'[t] = j /\ Alone(t) /\ ThreadTypes'

LEMMA GotoMoves ==
    ASSUME TInv, NEW t \in Threads, pc[t] # "idle", NEW p \in Steps, Goto(t, p)
    PROVE  Moves(t, p, job[t])
<1>1. job[t] \in Jobs
  BY JobParts
<1>2. pc'[t] = p /\ job'[t] = job[t] /\ Alone(t)
  BY DEF Goto, Alone, TInv, TypeOK
<1>3. ThreadTypes'
  BY <1>1 DEF Goto, ThreadTypes, TInv, TypeOK
<1>. QED
  BY <1>2, <1>3 DEF Moves

LEMMA LeaveMoves ==
    ASSUME TInv, NEW t \in Threads, Leave(t)
    PROVE  Moves(t, "idle", NoJob)
<1>1. pc'[t] = "idle" /\ job'[t] = NoJob /\ Alone(t)
  BY DEF Leave, Alone, TInv, TypeOK
<1>2. ThreadTypes'
  BY DEF Leave, ThreadTypes, TInv, TypeOK, Steps
<1>. QED
  BY <1>1, <1>2 DEF Moves

LEMMA BeginMoves ==
    ASSUME TInv, NEW t \in Threads, NEW p \in Steps \ {"idle"}, NEW j \in Jobs,
           Begin(t, p, j)
    PROVE  /\ Moves(t, p, j) /\ pc[t] = "idle"
           /\ served' \in 0..MaxOps
           /\ UNCHANGED <<coin, warhead, box, hashes, clock>>
<1>1. pc'[t] = p /\ job'[t] = j /\ Alone(t)
  BY DEF Begin, Alone, TInv, TypeOK
<1>2. ThreadTypes'
  BY DEF Begin, ThreadTypes, TInv, TypeOK
<1>3. served' \in 0..MaxOps
  BY MailAssumption DEF Begin, TInv, TypeOK
<1>. QED
  BY <1>1, <1>2, <1>3 DEF Begin, Moves

LEMMA FeeMoves ==
    ASSUME TInv, NEW t \in Threads, SendFee(t)
    PROVE  /\ Moves(t, "list", job'[t])
           /\ job'[t].eid.from = job[t].eid.from
           /\ job'[t].att = job[t].att /\ job'[t].me = job[t].me
<1>1. pc[t] = "fee" /\ job[t] \in Jobs /\ clock \in 0..MaxClock
  BY JobParts DEF SendFee, TInv, TypeOK
<1>2. /\ job'[t].eid.from = job[t].eid.from /\ job'[t] \in Jobs
      /\ job'[t].att = job[t].att /\ job'[t].me = job[t].me
  BY <1>1 DEF SendFee, TInv, TypeOK, Jobs, Eids
<1>3. pc'[t] = "list" /\ Alone(t)
  BY DEF SendFee, Alone, TInv, TypeOK
<1>4. ThreadTypes'
  BY <1>1, <1>2 DEF SendFee, ThreadTypes, TInv, TypeOK, Steps
<1>. QED
  BY <1>2, <1>3, <1>4 DEF Moves

LEMMA InitType == Init => TInv
<1> SUFFICES ASSUME Init PROVE TInv
  OBVIOUS
<1>1. ThreadTypes /\ JobsOK
  BY DEF Init, ThreadTypes, JobsOK, JobOK, Steps
<1>2. StoreTypes /\ BoxOK
  BY MailAssumption DEF Init, StoreTypes, BoxOK, Attachments, Nothing
<1>3. PastTypes
  BY MailAssumption DEF Init, PastTypes
<1>. QED
  BY <1>1, <1>2, <1>3, TypeParts

\* Jobs stay in order if boxes have listed no less than before.
LEMMA JobsKept ==
    ASSUME TInv, NEW t \in Threads, Alone(t), JobOK(t)', stray \subseteq stray',
           \A e \in Eids : to[e] \subseteq to'[e]
    PROVE  JobsOK'
<1>1. ASSUME NEW s \in Threads, s # t PROVE JobOK(s)'
  <2>1. pc'[s] = pc[s] /\ job'[s] = job[s]
    BY <1>1 DEF Alone
  <2>2. pc[s] # "idle" => job[s].eid \in Eids
    BY JobParts
  <2>3. JobOK(s)
    BY DEF TInv
  <2>. QED
    BY <2>1, <2>2, <2>3 DEF JobOK
<1>. QED
  BY <1>1 DEF JobsOK

\* A request that begins.
Starts(t, p, j) ==
    /\ Moves(t, p, j) /\ pc[t] = "idle" /\ p # "idle" /\ j \in Jobs
    /\ UNCHANGED <<coin, warhead, box, hashes, clock, past>>
    /\ served' \in 0..MaxOps

LEMMA StartsType ==
    ASSUME TInv, NEW t \in Threads, NEW p, NEW j, Starts(t, p, j),
           j.att.coin >= 0,
           p \in {"fee", "coin", "unlist"} \/ j.me \in to[j.eid]
    PROVE  TInv'
<1>1. Alone(t) /\ ThreadTypes' /\ pc'[t] = p /\ job'[t] = j
  BY DEF Starts, Moves
<1>2. JobOK(t)'
  BY <1>1 DEF JobOK, Starts, past
<1>3. JobsOK'
  BY <1>1, <1>2, JobsKept DEF Starts, past
<1>4. StoreTypes' /\ BoxOK' /\ PastTypes'
  BY TypeParts DEF Starts, StoreTypes, PastTypes, BoxOK, past, hashes
<1>. QED
  BY <1>1, <1>3, <1>4, TypeParts

\* The requests and their first steps.
LEMMA SendStarts ==
    ASSUME TInv, NEW t \in Threads, NEW u \in Users, NEW v \in Users,
           NEW w \in Warheads, Send(t, u, v, w)
    PROVE  LET j == [me |-> v, eid |-> [from |-> u, ts |-> clock],
                     att |-> [coin |-> coin[u], war |-> w]]
           IN Starts(t, "fee", j) /\ j.att.coin >= 0 /\ coin[u] >= Fee
<1>. DEFINE j == [me |-> v, eid |-> [from |-> u, ts |-> clock],
                  att |-> [coin |-> coin[u], war |-> w]]
<1>1. coin[u] \in Int /\ w \in Int /\ clock \in 0..MaxClock /\ Fee \in Nat
  BY MailAssumption DEF TInv, TypeOK
<1>2. j \in Jobs
  BY <1>1 DEF Jobs, Eids, Attachments
<1>3. coin[u] >= Fee /\ j.att.coin >= 0
  BY <1>1 DEF Send, PostageCovered
<1>4. "fee" \in Steps \ {"idle"} /\ Begin(t, "fee", j) /\ UNCHANGED past
  BY DEF Send, Steps
<1>. HIDE DEF j
<1>5. Starts(t, "fee", j)
  BY <1>2, <1>4, BeginMoves DEF Starts
<1>. QED
  BY <1>3, <1>5 DEF j

LEMMA GetAttachStarts ==
    ASSUME TInv, NEW t \in Threads, NEW u \in Users, NEW e \in Eids,
           GetAttach(t, u, e)
    PROVE  \E j \in Jobs : /\ Starts(t, "coin", j) /\ j.att.coin >= 0
                           /\ j.eid = e /\ e \in whole
<1>. DEFINE j == [me |-> u, eid |-> e, att |-> attach[e]]
<1>1. attach[e] \in Attachments /\ attach[e].coin >= 0
  BY DEF TInv, TypeOK
<1>2. j \in Jobs
  BY <1>1 DEF Jobs
<1>3. /\ j.att.coin >= 0 /\ j.eid = e /\ e \in whole
      /\ "coin" \in Steps \ {"idle"} /\ Begin(t, "coin", j) /\ UNCHANGED past
  BY <1>1 DEF GetAttach, Steps
<1>. HIDE DEF j
<1>4. Starts(t, "coin", j)
  BY <1>2, <1>3, BeginMoves DEF Starts
<1>. QED
  BY <1>2, <1>3, <1>4

LEMMA DelMailStarts ==
    ASSUME TInv, NEW t \in Threads, NEW u \in Users, NEW e \in Eids,
           DelMail(t, u, e) \/ ShowMails(t, u, e)
    PROVE  \E j \in Jobs : /\ \/ Starts(t, "unlist", j)
                              \/ Starts(t, "expire", j) /\ j.me \in to[j.eid]
                           /\ j.att.coin >= 0 /\ j.eid = e
<1>. DEFINE j == [me |-> u, eid |-> e, att |-> Nothing]
<1>1. j \in Jobs
  BY DEF Jobs, Attachments, Nothing
<1>2. /\ j.att.coin >= 0 /\ j.eid = e
      /\ {"unlist", "expire"} \subseteq Steps \ {"idle"}
  BY DEF Steps, Nothing
<1>3. /\ UNCHANGED past
      /\ \/ Begin(t, "unlist", j)
         \/ Begin(t, "expire", j) /\ j.me \in to[j.eid]
  BY DEF DelMail, ShowMails, TInv
<1>. HIDE DEF j
<1>4. \/ Starts(t, "unlist", j)
      \/ Starts(t, "expire", j) /\ j.me \in to[j.eid]
  BY <1>1, <1>2, <1>3, BeginMoves DEF Starts
<1>. QED
  BY <1>1, <1>2, <1>4

\* Where the steps of a request lead.
LEMMA StepMoves ==
    ASSUME TInv, NEW t \in Threads
    PROVE  /\ SendFee(t) => pc[t] = "fee" /\ Moves(t, "list", job'[t])
           /\ SendList(t) => pc[t] = "list" /\ Moves(t, "write", job[t])
           /\ SendWrite(t) => pc[t] = "write" /\ Moves(t, "idle", NoJob)
           /\ ClaimCoin(t) => /\ pc[t] = "coin"
                              /\ \/ Moves(t, "warhead", job[t])
                                 \/ Moves(t, "unlist", job[t])
           /\ ClaimWarhead(t) => pc[t] = "warhead" /\ Moves(t, "unlist", job[t])
           /\ Unlist(t) => pc[t] = "unlist" /\ Moves(t, "erase", job[t])
           /\ Erase(t) => pc[t] = "erase" /\ Moves(t, "idle", NoJob)
           /\ ExpireHash(t) => pc[t] = "expire" /\ Moves(t, "expired", job[t])
           /\ ExpireName(t) => pc[t] = "expired" /\ Moves(t, "idle", NoJob)
           /\ Crash(t) => pc[t] # "idle" /\ Moves(t, "idle", NoJob)
<1>1. {"write", "warhead", "unlist", "erase", "expired"} \subseteq Steps
  BY DEF Steps
<1>2. SendFee(t) => pc[t] = "fee" /\ Moves(t, "list", job'[t])
  BY FeeMoves DEF SendFee
<1>3. /\ SendList(t) => pc[t] = "list" /\ Moves(t, "write", job[t])
      /\ SendWrite(t) => pc[t] = "write" /\ Moves(t, "idle", NoJob)
  BY <1>1, GotoMoves, LeaveMoves DEF SendList, SendWrite
<1>4. ClaimCoin(t) => /\ pc[t] = "coin"
                      /\ Moves(t, "warhead", job[t]) \/ Moves(t, "unlist", job[t])
  BY <1>1, GotoMoves DEF ClaimCoin
<1>5. /\ ClaimWarhead(t) => pc[t] = "warhead" /\ Moves(t, "unlist", job[t])
      /\ Unlist(t) => pc[t] = "unlist" /\ Moves(t, "erase", job[t])
      /\ Erase(t) => pc[t] = "erase" /\ Moves(t, "idle", NoJob)
  BY <1>1, GotoMoves, LeaveMoves DEF ClaimWarhead, Unlist, Erase
<1>6. /\ ExpireHash(t) => pc[t] = "expire" /\ Moves(t, "expired", job[t])
      /\ ExpireName(t) => pc[t] = "expired" /\ Moves(t, "idle", NoJob)
      /\ Crash(t) => pc[t] # "idle" /\ Moves(t, "idle", NoJob)
  BY <1>1, GotoMoves, LeaveMoves DEF ExpireHash, ExpireName, Crash
<1>. QED
  BY <1>2, <1>3, <1>4, <1>5, <1>6

\* A step leaves the jobs in order.
LEMMA StepJobs ==
    ASSUME TInv, NEW t \in Threads, Step(t)
    PROVE  /\ Alone(t) /\ ThreadTypes' /\ JobsOK' /\ pc[t] # "idle"
           /\ stray \subseteq stray'
           /\ \A e \in Eids : to[e] \subseteq to'[e]
<1>1. Alone(t) /\ ThreadTypes' /\ pc[t] # "idle"
  BY StepMoves DEF Step, Moves
<1>2. JobOK(t) /\ job[t].me \in Users /\ job[t].eid \in Eids
  BY <1>1, JobParts DEF TInv
<1>3. stray \subseteq stray' /\ \A e \in Eids : to[e] \subseteq to'[e]
  BY <1>2
  DEF Step, SendFee, SendList, SendWrite, ClaimCoin, ClaimWarhead, Unlist, Erase,
      ExpireHash, ExpireName, Crash, past, TInv, TypeOK
<1>4. JobOK(t)'
  <2>1. CASE SendFee(t)
    BY <1>2, <2>1, FeeMoves, StepMoves DEF JobOK, Moves
  <2>2. CASE SendList(t) \/ ClaimWarhead(t) \/ ExpireHash(t) \/ ClaimCoin(t)
    <3>1. /\ job'[t] = job[t] /\ pc'[t] # "idle"
          /\ pc[t] = "expire" \/ pc'[t] \in {"write", "warhead", "unlist"}
      BY <2>2, StepMoves DEF Moves
    <3>. QED
      BY <1>1, <1>2, <1>3, <3>1 DEF JobOK
  <2>4. CASE Unlist(t)
    <3>1. /\ job'[t] = job[t] /\ pc'[t] # "idle"
          /\ job[t].me \in to'[job[t].eid] \/ job[t].eid \in stray'
      BY <2>4, StepMoves DEF Moves, Unlist
    <3>. QED
      BY <1>1, <1>2, <3>1 DEF JobOK
  <2>3. CASE SendWrite(t) \/ Erase(t) \/ ExpireName(t) \/ Crash(t)
    BY <2>3, StepMoves DEF JobOK, Moves
  <2>. QED
    BY <2>1, <2>2, <2>3, <2>4 DEF Step
<1>. QED
  BY <1>1, <1>3, <1>4, JobsKept

LEMMA ErasedType ==
    ASSUME TInv, NEW e \in Eids, Erased(e)
    PROVE  /\ whole' \subseteq Eids /\ stub' \subseteq Eids
           /\ attach' \in [Eids -> Attachments]
           /\ \A f \in Eids : attach'[f].coin >= 0
<1>1. Nothing \in Attachments /\ Nothing.coin >= 0
  BY DEF Nothing, Attachments
<1>. QED
  BY <1>1 DEF Erased, TInv, TypeOK

LEMMA StepStore ==
    ASSUME TInv, NEW t \in Threads, Step(t)
    PROVE  StoreTypes' /\ PastTypes' /\ BoxOK'
<1>1. pc[t] # "idle"
  BY StepJobs
<1>2. /\ job[t] \in Jobs /\ job[t].me \in Users /\ job[t].eid \in Eids
      /\ job[t].eid.from \in Users /\ job[t].att \in Attachments
      /\ job[t].att.coin \in Nat /\ job[t].att.war \in Int /\ Fee \in Nat
  BY <1>1, JobParts, MailAssumption
<1>3. StoreTypes /\ PastTypes /\ BoxOK
  BY TypeParts
<1>. USE DEF StoreTypes, PastTypes, BoxOK, past, hashes
<1>4. CASE SendFee(t)
  BY <1>2, <1>3, <1>4 DEF SendFee
<1>5. CASE SendList(t)
  <2>1. StoreTypes' /\ PastTypes'
    BY <1>2, <1>3, <1>5 DEF SendList
  <2>2. BoxOK'
    BY <1>2, <1>3, <1>5 DEF SendList
  <2>. QED
    BY <2>1, <2>2
<1>6. CASE SendWrite(t)
  <2>1. StoreTypes'
    BY <1>2, <1>3, <1>6 DEF SendWrite, Written
  <2>2. PastTypes' /\ BoxOK'
    BY <1>2, <1>3, <1>6 DEF SendWrite
  <2>. QED
    BY <2>1, <2>2
<1>7. CASE ClaimCoin(t)
  BY <1>2, <1>3, <1>7 DEF ClaimCoin
<1>8. CASE ClaimWarhead(t)
  BY <1>2, <1>3, <1>8 DEF ClaimWarhead, Credited
<1>9. CASE Unlist(t) \/ ExpireName(t)
  BY <1>2, <1>3, <1>9 DEF Unlist, ExpireName
<1>10. CASE Erase(t) \/ ExpireHash(t)
  BY <1>2, <1>3, <1>10, ErasedType DEF Erase, ExpireHash
<1>11. CASE Crash(t)
  BY <1>2, <1>3, <1>11 DEF Crash
<1>. QED
  BY <1>4, <1>5, <1>6, <1>7, <1>8, <1>9, <1>10, <1>11 DEF Step

\* Everything that happens: time passes, a letter is read, a request begins,
\* a thread takes a step.
Asks(t) ==
    \E j \in Jobs :
        /\ j.att.coin >= 0
        /\ \/ Starts(t, "fee", j) /\ coin[j.eid.from] >= Fee
           \/ Starts(t, "coin", j) /\ j.eid \in whole
           \/ Starts(t, "unlist", j)
           \/ Starts(t, "expire", j) /\ j.me \in to[j.eid]

Rests == /\ UNCHANGED <<coin, warhead, box, whole, attach, pc, job, past>>
         /\ stub' \subseteq Eids /\ clock' \in 0..MaxClock /\ served' \in 0..MaxOps

LEMMA StepCases ==
    ASSUME TInv, [Next]_vars
    PROVE  Rests \/ \E t \in Threads : Asks(t) \/ Step(t)
<1>1. CASE UNCHANGED vars
  BY <1>1 DEF vars, Rests, past, TInv, TypeOK
<1>2. CASE Tick
  BY <1>2, MailAssumption DEF Tick, Rests, past, hashes, TInv, TypeOK
<1>3. ASSUME NEW e \in Eids, ReadMail(e) PROVE Rests
  BY <1>3, MailAssumption DEF ReadMail, Rests, past, TInv, TypeOK
<1>4. ASSUME NEW t \in Threads, NEW u \in Users, NEW v \in Users,
             NEW w \in Warheads, Send(t, u, v, w)
      PROVE  Asks(t)
  <2>. DEFINE j == [me |-> v, eid |-> [from |-> u, ts |-> clock],
                    att |-> [coin |-> coin[u], war |-> w]]
  <2>1. Starts(t, "fee", j) /\ j.att.coin >= 0 /\ coin[j.eid.from] >= Fee
    BY <1>4, SendStarts
  <2>2. j \in Jobs
    BY <2>1 DEF Starts
  <2>. HIDE DEF j
  <2>. QED
    BY <2>1, <2>2 DEF Asks
<1>5. ASSUME NEW t \in Threads, NEW u \in Users, NEW e \in Eids,
             GetAttach(t, u, e) \/ DelMail(t, u, e) \/ ShowMails(t, u, e)
      PROVE  Asks(t)
  BY <1>5, GetAttachStarts, DelMailStarts DEF Asks
<1>. QED
  BY <1>1, <1>2, <1>3, <1>4, <1>5 DEF Next

LEMMA NextType == TInv /\ [Next]_vars => TInv'
<1> SUFFICES ASSUME TInv, [Next]_vars PROVE TInv'
  OBVIOUS
<1>1. CASE Rests
  <2>1. ThreadTypes' /\ StoreTypes' /\ PastTypes' /\ BoxOK'
    BY <1>1, TypeParts DEF Rests, ThreadTypes, StoreTypes, PastTypes, BoxOK, past
  <2>2. JobsOK'
    BY <1>1, TypeParts DEF Rests, JobsOK, JobOK, past
  <2>. QED
    BY <2>1, <2>2, TypeParts
<1>2. ASSUME NEW t \in Threads, Asks(t) PROVE TInv'
  BY <1>2, StartsType DEF Asks
<1>3. ASSUME NEW t \in Threads, Step(t) PROVE TInv'
  BY <1>3, StepJobs, StepStore, TypeParts
<1>. QED
  BY <1>1, <1>2, <1>3, StepCases

\* Every reachable state of the letters is of its type, whatever number of
\* warheads clients attach.
THEOREM TypeCorrect == Spec => []TypeOK
<1>1. TInv => TypeOK
  BY DEF TInv
<1>. QED
  BY <1>1, InitType, NextType, PTL DEF Spec

----------------------------------------------------------------------------
(* Postage *)

LEMMA Products ==
    ASSUME NEW f \in Nat, NEW a \in Nat, NEW b \in Nat
    PROVE  /\ f * a \in Nat /\ f * (a - 1) = f * a - f
           /\ f * (a + 1) = f * a + f
           /\ a <= b => f * a <= f * b
<1>1. f * a \in Nat /\ f * (a - 1) = f * a - f /\ f * (a + 1) = f * a + f
  OBVIOUS
<1>2. a <= b => f * a <= f * b
  <2>1. SUFFICES ASSUME a <= b PROVE f * a <= f * b
    OBVIOUS
  <2>2. PICK c \in Nat : b = a + c
    <3>1. b - a \in Nat /\ b = a + (b - a)
      BY <2>1
    <3>. QED
      BY <3>1
  <2>3. f * b = f * a + f * c /\ f * c \in Nat /\ f * a \in Nat
    BY <2>2
  <2>. QED
    BY <2>3
<1>. QED
  BY <1>1, <1>2

\* A purse that is not charged stays solvent, one that is charged had a payer
\* less, and one that can pay may have a payer more.
LEMMA SolventStep ==
    ASSUME TInv, NEW t \in Threads, Alone(t), NEW u \in Users, Solvent(u),
           coin'[u] \in Int,
           \/ coin'[u] >= coin[u] /\ (t \in Payers(u)' => t \in Payers(u))
           \/ coin'[u] = coin[u] - Fee /\ t \in Payers(u) /\ t \notin Payers(u)'
           \/ coin'[u] = coin[u] /\ coin[u] >= Fee
    PROVE  Solvent(u)'
<1>. DEFINE a == Cardinality(Payers(u))
            b == Cardinality(Payers(u)')
<1>1. a \in Nat /\ b \in Nat /\ b <= N
      /\ (t \in Payers(u) /\ t \notin Payers(u)' => b = a - 1)
      /\ ((t \in Payers(u) <=> t \in Payers(u)') => b = a)
  BY PayersStep
<1>2. /\ coin[u] \in Int /\ Fee \in Nat /\ N \in Nat
      /\ coin[u] >= Fee * a - Fee * (N - 1)
  BY NType, MailAssumption DEF Solvent, TInv, TypeOK
<1>3. /\ Fee * a \in Nat /\ Fee * (a - 1) = Fee * a - Fee
      /\ Fee * (N - 1) = Fee * N - Fee /\ Fee * N \in Nat
      /\ Fee * b <= Fee * N /\ Fee * b \in Nat
  BY <1>1, <1>2, Products
<1>. HIDE DEF a, b
<1>4. CASE coin'[u] >= coin[u] /\ (t \in Payers(u)' => t \in Payers(u))
  <2>1. b = a \/ b = a - 1
    BY <1>1, <1>4
  <2>2. Fee * b <= Fee * a
    BY <1>2, <1>3, <2>1
  <2>3. coin'[u] >= Fee * b - Fee * (N - 1)
    BY <1>2, <1>3, <1>4, <2>2
  <2>. QED
    BY <2>3 DEF Solvent, b
<1>5. CASE coin'[u] = coin[u] - Fee /\ t \in Payers(u) /\ t \notin Payers(u)'
  <2>1. b = a - 1
    BY <1>1, <1>5
  <2>2. coin'[u] >= Fee * b - Fee * (N - 1)
    BY <1>2, <1>3, <1>5, <2>1
  <2>. QED
    BY <2>2 DEF Solvent, b
<1>6. CASE coin'[u] = coin[u] /\ coin[u] >= Fee
  <2>1. coin'[u] >= Fee * b - Fee * (N - 1)
    BY <1>2, <1>3, <1>6
  <2>. QED
    BY <2>1 DEF Solvent, b
<1>. QED
  BY <1>4, <1>5, <1>6

LEMMA PostageNext == TInv /\ TInv' /\ PInv /\ [Next]_vars => PInv'
<1> SUFFICES ASSUME TInv, TInv', PInv, [Next]_vars PROVE PInv'
  OBVIOUS
<1>1. CASE Rests
  <2>1. \A u \in Users : Payers(u)' = Payers(u)
    BY <1>1 DEF Payers, Rests
  <2>. QED
    BY <1>1, <2>1 DEF PInv, Solvent, Rests
<1>2. ASSUME NEW u \in Users
      PROVE  coin[u] \in Int /\ coin'[u] \in Int /\ Solvent(u)
  BY DEF TInv, TypeOK, PInv
<1>3. ASSUME NEW t \in Threads, Asks(t), NEW u \in Users PROVE Solvent(u)'
  <2>1. PICK j \in Jobs :
          \/ Starts(t, "fee", j) /\ coin[j.eid.from] >= Fee
          \/ Starts(t, "coin", j) \/ Starts(t, "unlist", j)
          \/ Starts(t, "expire", j)
    BY <1>3 DEF Asks
  <2>2. coin'[u] = coin[u] /\ Alone(t) /\ job'[t] = j
    BY <2>1 DEF Starts, Moves
  <2>3. t \in Payers(u)' => coin[u] >= Fee
    BY <2>1, <2>2 DEF Payers, Starts, Moves
  <2>. QED
    BY <1>2, <2>2, <2>3, SolventStep
<1>4. ASSUME NEW t \in Threads, Step(t), NEW u \in Users PROVE Solvent(u)'
  <2>1. Alone(t) /\ pc[t] # "idle"
    BY <1>4, StepJobs
  <2>2. /\ job[t].eid.from \in Users /\ job[t].me \in Users
        /\ job[t].att.coin \in Nat
    BY <2>1, JobParts
  <2>3. t \notin Payers(u)'
    BY <1>4, StepMoves DEF Step, Moves, Payers
  <2>4. CASE SendFee(t)
    <3>1. pc[t] = "fee"
      BY <2>4 DEF SendFee
    <3>2. CASE job[t].eid.from = u
      <4>1. t \in Payers(u)
        BY <3>1, <3>2 DEF Payers
      <4>2. coin'[u] = coin[u] - Fee
        BY <2>4, <3>2 DEF SendFee, TInv, TypeOK
      <4>. QED
        BY <1>2, <2>1, <2>3, <4>1, <4>2, SolventStep
    <3>3. CASE job[t].eid.from # u
      <4>1. coin'[u] = coin[u]
        BY <2>2, <2>4, <3>3 DEF SendFee, TInv, TypeOK
      <4>. QED
        BY <1>2, <2>1, <2>3, <4>1, SolventStep
    <3>. QED
      BY <3>2, <3>3
  <2>5. CASE ~SendFee(t)
    <3>1. coin'[u] >= coin[u]
      BY <1>2, <1>4, <2>2, <2>5
      DEF Step, SendList, SendWrite, ClaimCoin, ClaimWarhead, Unlist, Erase,
          ExpireHash, ExpireName, Crash, TInv, TypeOK
    <3>. QED
      BY <1>2, <2>1, <2>3, <3>1, SolventStep
  <2>. QED
    BY <2>4, <2>5
<1>. QED
  BY <1>1, <1>3, <1>4, StepCases DEF PInv

----------------------------------------------------------------------------
(* Claims *)

\* What a step does to the letter it is about.
Claimed(t, e) ==
    \/ \* The attachment is read.
       /\ e \in whole /\ e \in whole'
       /\ claims'[e] = claims[e] /\ sends'[e] = sends[e] /\ cuts'[e] = cuts[e]
       /\ t \notin Claimants(e) /\ t \in Claimants(e)'
       /\ t \notin Active(e) /\ t \in Active(e)'
    \/ \* It is to be deleted or its clean-up begins or ends.
       /\ e \in whole' => e \in whole
       /\ claims'[e] = claims[e] /\ sends'[e] = sends[e] /\ cuts'[e] = cuts[e]
       /\ t \notin Claimants(e) /\ t \notin Claimants(e)'
       /\ t \in Active(e) => t \in Active(e)'
    \/ \* Its coins are credited.
       /\ e \in whole' => e \in whole
       /\ claims'[e] = claims[e] + 1 /\ sends'[e] = sends[e]
       /\ cuts'[e] = cuts[e]
       /\ t \in Claimants(e) /\ t \notin Claimants(e)'
       /\ t \in Active(e) /\ t \in Active(e)'
    \/ \* It is erased.
       /\ e \notin whole'
       /\ claims'[e] = claims[e] /\ sends'[e] = sends[e] /\ cuts'[e] = cuts[e]
       /\ t \notin Claimants(e) /\ t \notin Claimants(e)'
    \/ \* The worker dies.
       /\ e \in whole' => e \in whole
       /\ claims'[e] = claims[e] /\ sends'[e] = sends[e]
       /\ cuts'[e] = cuts[e] + 1
       /\ t \notin Claimants(e)'
    \/ \* It is written.
       /\ claims'[e] = claims[e] /\ sends'[e] = sends[e] + 1
       /\ cuts'[e] = cuts[e]
       /\ t \notin Claimants(e) /\ t \notin Claimants(e)'

LEMMA ClaimsStep ==
    ASSUME TInv, NEW t \in Threads, Alone(t), NEW e \in Eids, Claims(e),
           Claimed(t, e)
    PROVE  Claims(e)'
<1>. DEFINE c == Cardinality(Claimants(e))
            d == Cardinality(Claimants(e)')
            a == Cardinality(Active(e))
            b == Cardinality(Active(e)')
            m == N * sends[e]
<1>1. /\ claims[e] \in Nat /\ sends[e] \in Nat /\ cuts[e] \in Nat /\ N \in Nat
      /\ m \in Nat /\ N * (sends[e] + 1) = m + N
  BY NType, Products DEF TInv, TypeOK
<1>2. /\ c \in Nat /\ d \in Nat
      /\ t \in Claimants(e) /\ t \notin Claimants(e)' => d = c - 1
      /\ t \notin Claimants(e) /\ t \in Claimants(e)' => d = c + 1
      /\ (t \in Claimants(e) <=> t \in Claimants(e)') => d = c
  BY AtStep DEF Claimants
<1>3. /\ a \in Nat /\ b \in Nat /\ a <= N /\ b <= N
      /\ t \in Active(e) /\ t \notin Active(e)' => b = a - 1
      /\ t \notin Active(e) /\ t \in Active(e)' => b = a + 1
      /\ (t \in Active(e) <=> t \in Active(e)') => b = a
  BY AtStep DEF Active
<1>4. /\ claims[e] + c <= m + cuts[e]
      /\ e \in whole => claims[e] + c + N <= m + cuts[e] + a
  BY DEF Claims
<1>5. SUFFICES /\ claims'[e] + d <= N * sends'[e] + cuts'[e]
               /\ e \in whole' =>
                     claims'[e] + d + N <= N * sends'[e] + cuts'[e] + b
  BY DEF Claims
<1>6. CASE /\ e \in whole /\ e \in whole'
           /\ claims'[e] = claims[e] /\ sends'[e] = sends[e] /\ cuts'[e] = cuts[e]
           /\ t \notin Claimants(e) /\ t \in Claimants(e)'
           /\ t \notin Active(e) /\ t \in Active(e)'
  <2>1. d = c + 1 /\ b = a + 1 /\ N * sends'[e] = m
    BY <1>2, <1>3, <1>6
  <2>. HIDE DEF a, b, c, d, m
  <2>. QED
    BY <1>1, <1>2, <1>3, <1>4, <1>6, <2>1
<1>7. CASE /\ e \in whole' => e \in whole
           /\ claims'[e] = claims[e] /\ sends'[e] = sends[e] /\ cuts'[e] = cuts[e]
           /\ t \notin Claimants(e) /\ t \notin Claimants(e)'
           /\ t \in Active(e) => t \in Active(e)'
  <2>1. d = c /\ b >= a /\ N * sends'[e] = m
    BY <1>2, <1>3, <1>7
  <2>. HIDE DEF a, b, c, d, m
  <2>. QED
    BY <1>1, <1>2, <1>3, <1>4, <1>7, <2>1
<1>8. CASE /\ e \in whole' => e \in whole
           /\ claims'[e] = claims[e] + 1 /\ sends'[e] = sends[e]
           /\ cuts'[e] = cuts[e]
           /\ t \in Claimants(e) /\ t \notin Claimants(e)'
           /\ t \in Active(e) /\ t \in Active(e)'
  <2>1. d = c - 1 /\ b = a /\ N * sends'[e] = m
    BY <1>2, <1>3, <1>8
  <2>. HIDE DEF a, b, c, d, m
  <2>. QED
    BY <1>1, <1>2, <1>3, <1>4, <1>8, <2>1
<1>9. CASE /\ e \notin whole'
           /\ claims'[e] = claims[e] /\ sends'[e] = sends[e] /\ cuts'[e] = cuts[e]
           /\ t \notin Claimants(e) /\ t \notin Claimants(e)'
  <2>1. d = c /\ N * sends'[e] = m
    BY <1>2, <1>9
  <2>. HIDE DEF a, b, c, d, m
  <2>. QED
    BY <1>1, <1>2, <1>4, <1>9, <2>1
<1>10. CASE /\ e \in whole' => e \in whole
            /\ claims'[e] = claims[e] /\ sends'[e] = sends[e]
            /\ cuts'[e] = cuts[e] + 1
            /\ t \notin Claimants(e)'
  <2>1. d <= c /\ b >= a - 1 /\ N * sends'[e] = m
    BY <1>2, <1>3, <1>10
  <2>. HIDE DEF a, b, c, d, m
  <2>. QED
    BY <1>1, <1>2, <1>3, <1>4, <1>10, <2>1
<1>11. CASE /\ claims'[e] = claims[e] /\ sends'[e] = sends[e] + 1
            /\ cuts'[e] = cuts[e]
            /\ t \notin Claimants(e) /\ t \notin Claimants(e)'
  <2>1. d = c /\ N * sends'[e] = m + N
    BY <1>1, <1>2, <1>11
  <2>. HIDE DEF a, b, c, d, m
  <2>. QED
    BY <1>1, <1>2, <1>3, <1>4, <1>11, <2>1
<1>. HIDE DEF a, b, c, d, m
<1>. QED
  BY <1>6, <1>7, <1>8, <1>9, <1>10, <1>11 DEF Claimed

LEMMA StepClaims ==
    ASSUME TInv, NEW t \in Threads, Step(t), NEW e \in Eids
    PROVE  Claimed(t, e)
<1>1. pc[t] # "idle" /\ job[t].eid \in Eids
  BY StepJobs, JobParts
<1>. USE DEF Claimants, Active, At
<1>2. CASE SendFee(t) \/ SendList(t) \/ ClaimWarhead(t) \/ Unlist(t) \/ ExpireName(t)
  <2>1. /\ whole' = whole /\ claims' = claims /\ sends' = sends /\ cuts' = cuts
    BY <1>2 DEF SendFee, SendList, ClaimWarhead, Unlist, ExpireName, past, hashes
  <2>2. t \notin Claimants(e) /\ t \notin Claimants(e)'
    BY <1>2, StepMoves DEF Moves
  <2>3. t \in Active(e) => t \in Active(e)'
    BY <1>2, StepMoves DEF Moves
  <2>. QED
    BY <2>1, <2>2, <2>3 DEF Claimed
<1>3. CASE Erase(t) \/ ExpireHash(t)
  <2>1. /\ whole' = whole \ {job[t].eid} /\ claims' = claims /\ sends' = sends
        /\ cuts' = cuts
    BY <1>3 DEF Erase, ExpireHash, Erased, past
  <2>2. t \notin Claimants(e) /\ t \notin Claimants(e)'
    BY <1>3, StepMoves DEF Moves
  <2>3. e # job[t].eid => t \notin Active(e)
    OBVIOUS
  <2>. QED
    BY <2>1, <2>2, <2>3 DEF Claimed
<1>4. CASE ClaimCoin(t)
  <2>1. whole' = whole /\ sends' = sends /\ cuts' = cuts /\ claims[e] \in Nat
    BY <1>4 DEF ClaimCoin, hashes, TInv, TypeOK
  <2>2. /\ e = job[t].eid => claims'[e] = claims[e] + 1
        /\ e # job[t].eid => claims'[e] = claims[e]
    BY <1>1, <1>4 DEF ClaimCoin, TInv, TypeOK
  <2>3. /\ t \notin Claimants(e)'
        /\ e = job[t].eid => t \in Claimants(e) /\ t \in Active(e) /\ t \in Active(e)'
        /\ e # job[t].eid => t \notin Claimants(e) /\ t \notin Active(e)
    BY <1>4, StepMoves DEF Moves
  <2>. QED
    BY <2>1, <2>2, <2>3 DEF Claimed
<1>5. CASE SendWrite(t)
  <2>1. whole' = whole \cup {job[t].eid} /\ claims' = claims /\ cuts' = cuts
    BY <1>5 DEF SendWrite, Written
  <2>2. /\ e = job[t].eid => sends'[e] = sends[e] + 1
        /\ e # job[t].eid => sends'[e] = sends[e]
    BY <1>1, <1>5 DEF SendWrite, TInv, TypeOK
  <2>3. t \notin Claimants(e) /\ t \notin Claimants(e)' /\ t \notin Active(e)
    BY <1>5, StepMoves DEF Moves
  <2>. QED
    BY <2>1, <2>2, <2>3 DEF Claimed
<1>6. CASE Crash(t)
  <2>1. whole' = whole /\ claims' = claims /\ sends' = sends
    BY <1>6 DEF Crash, hashes
  <2>2. /\ e = job[t].eid => cuts'[e] = cuts[e] + 1
        /\ e # job[t].eid => cuts'[e] = cuts[e]
    BY <1>1, <1>6 DEF Crash, TInv, TypeOK
  <2>3. t \notin Claimants(e)' /\ (e # job[t].eid => t \notin Claimants(e))
        /\ (e # job[t].eid => t \notin Active(e))
    BY <1>6, StepMoves DEF Moves
  <2>. QED
    BY <2>1, <2>2, <2>3 DEF Claimed
<1>. QED
  BY <1>2, <1>3, <1>4, <1>5, <1>6 DEF Step

LEMMA AsksClaims ==
    ASSUME TInv, NEW t \in Threads, Asks(t), NEW e \in Eids
    PROVE  Claimed(t, e)
<1>1. PICK j \in Jobs :
        \/ Starts(t, "fee", j)
        \/ Starts(t, "coin", j) /\ j.eid \in whole
        \/ Starts(t, "unlist", j) \/ Starts(t, "expire", j)
  BY DEF Asks
<1>2. /\ pc[t] = "idle" /\ job'[t] = j
      /\ whole' = whole /\ claims' = claims /\ sends' = sends /\ cuts' = cuts
  BY <1>1 DEF Starts, Moves, past, hashes
<1>3. t \notin Claimants(e) /\ t \notin Active(e)
  BY <1>2 DEF Claimants, Active, At
<1>4. t \in Claimants(e)' => e \in whole /\ t \in Active(e)'
  BY <1>1, <1>2 DEF Claimants, Active, At, Starts, Moves
<1>. QED
  BY <1>2, <1>3, <1>4 DEF Claimed

LEMMA ClaimsNext == TInv /\ CInv /\ [Next]_vars => CInv'
<1> SUFFICES ASSUME TInv, CInv, [Next]_vars, NEW e \in Eids PROVE Claims(e)'
  BY DEF CInv
<1>1. Claims(e)
  BY DEF CInv
<1>2. CASE Rests
  <2>1. Claimants(e)' = Claimants(e) /\ Active(e)' = Active(e)
    BY <1>2 DEF Rests, Claimants, Active, At
  <2>. QED
    BY <1>1, <1>2, <2>1 DEF Claims, Rests, past
<1>3. ASSUME NEW t \in Threads, Asks(t) \/ Step(t) PROVE Claims(e)'
  <2>1. Alone(t)
    BY <1>3, StepJobs DEF Asks, Starts, Moves
  <2>. QED
    BY <1>1, <1>3, <2>1, StepClaims, AsksClaims, ClaimsStep
<1>. QED
  BY <1>2, <1>3, StepCases

----------------------------------------------------------------------------
(* Listed letters *)

\* A name that no step gives again and that meets no crash.
LEMMA FineStep ==
    ASSUME TInv, TInv', NEW t \in Threads, Alone(t), NEW e \in Eids,
           stray \subseteq stray',
           \/ UNCHANGED <<sends, cuts>>
              /\ (t \in Writers(e) => t \in Writers(e)')
           \/ SendWrite(t) \/ Crash(t)
    PROVE  /\ Fine(e)' => Fine(e)
           /\ Fine(e)' /\ sends'[e] + Cardinality(Writers(e)') = 0
                 => sends[e] + Cardinality(Writers(e)) = 0
           /\ Fine(e)' /\ t \in Writers(e)' /\ t \notin Writers(e)
                 => sends[e] + Cardinality(Writers(e)) = 0
<1>1. /\ sends[e] \in Nat /\ cuts[e] \in Nat
      /\ sends'[e] \in Nat /\ cuts'[e] \in Nat
  BY DEF TInv, TypeOK
<1>2. /\ Cardinality(Writers(e)) \in Nat /\ Cardinality(Writers(e)') \in Nat
      /\ t \in Writers(e) /\ t \notin Writers(e)' =>
            Cardinality(Writers(e)') = Cardinality(Writers(e)) - 1
      /\ t \notin Writers(e) /\ t \in Writers(e)' =>
            Cardinality(Writers(e)') = Cardinality(Writers(e)) + 1
      /\ (t \in Writers(e) <=> t \in Writers(e)') =>
            Cardinality(Writers(e)') = Cardinality(Writers(e))
  BY AtStep DEF Writers
<1>3. CASE UNCHANGED <<sends, cuts>> /\ (t \in Writers(e) => t \in Writers(e)')
  BY <1>1, <1>2, <1>3 DEF Fine
<1>4. CASE SendWrite(t)
  <2>1. /\ pc[t] = "write" /\ pc'[t] = "idle" /\ job[t].eid \in Eids
        /\ cuts' = cuts
    BY <1>4, StepMoves, JobParts DEF SendWrite, Moves
  <2>2. t \notin Writers(e)' /\ (t \in Writers(e) <=> e = job[t].eid)
    BY <2>1 DEF Writers, At
  <2>3. /\ e = job[t].eid => sends'[e] = sends[e] + 1
        /\ e # job[t].eid => sends'[e] = sends[e]
    BY <1>4, <2>1 DEF SendWrite, TInv, TypeOK
  <2>4. sends'[e] + Cardinality(Writers(e)') = sends[e] + Cardinality(Writers(e))
    BY <1>1, <1>2, <2>2, <2>3
  <2>. QED
    BY <2>1, <2>2, <2>4 DEF Fine
<1>5. CASE Crash(t)
  <2>1. /\ pc[t] # "idle" /\ pc'[t] = "idle" /\ job[t].eid \in Eids
        /\ sends' = sends
    BY <1>5, StepMoves, JobParts DEF Crash, Moves
  <2>2. t \notin Writers(e)' /\ (t \in Writers(e) => e = job[t].eid)
    BY <2>1 DEF Writers, At
  <2>3. /\ e = job[t].eid => cuts'[e] = cuts[e] + 1
        /\ e # job[t].eid => cuts'[e] = cuts[e]
    BY <1>5, <2>1 DEF Crash, TInv, TypeOK
  <2>4. CASE e = job[t].eid
    BY <1>1, <2>2, <2>3, <2>4 DEF Fine
  <2>5. CASE e # job[t].eid
    BY <1>1, <1>2, <2>1, <2>2, <2>3, <2>5 DEF Fine
  <2>. QED
    BY <2>4, <2>5
<1>. QED
  BY <1>3, <1>4, <1>5

\* Steps that neither list nor erase the letter.
LEMMA ListedKept ==
    ASSUME TInv, NEW t \in Threads, Alone(t), NEW e \in Eids, Listed(e),
           to'[e] = to[e],
           sends'[e] + Cardinality(Writers(e)') = 0
              => sends[e] + Cardinality(Writers(e)) = 0,
           \A u \in Users : e \in box'[u] => e \in box[u],
           e \in whole => e \in whole',
           t \in At(e, {"erase"})' => e \notin box'[job'[t].me],
           t \in Writers(e) => t \in Writers(e)' \/ e \in whole',
           t \in At(e, {"expired"}) => e \notin box'[job[t].me]
    PROVE  Listed(e)'
<1>1. /\ sends'[e] + Cardinality(Writers(e)') = 0 => to'[e] = {}
      /\ \A u, v \in to'[e] : u = v
  BY DEF Listed
<1>2. ASSUME NEW s \in At(e, {"erase"})' PROVE e \notin box'[job'[s].me]
  <2>1. CASE s = t
    BY <1>2, <2>1
  <2>2. CASE s # t
    <3>1. s \in Threads
      BY DEF At
    <3>2. s \in At(e, {"erase"}) /\ job'[s] = job[s] /\ pc[s] # "idle"
      BY <2>2, <3>1 DEF At, Alone
    <3>3. job[s].me \in Users
      BY <3>1, <3>2, JobParts
    <3>. QED
      BY <3>2, <3>3 DEF Listed
  <2>. QED
    BY <2>1, <2>2
<1>3. ASSUME NEW u \in Users, e \in box'[u]
      PROVE  \/ e \in whole'
             \/ Writers(e)' # {}
             \/ \E s \in At(e, {"expired"})' : job'[s].me = u
  <2>1. \/ e \in whole
        \/ \E s \in Threads : s \in Writers(e)
        \/ \E s \in Threads : s \in At(e, {"expired"}) /\ job[s].me = u
    BY <1>3 DEF Listed, Writers, At
  <2>2. ASSUME NEW s \in Threads, s \in Writers(e)
        PROVE  e \in whole' \/ Writers(e)' # {}
    BY <2>2 DEF Writers, At, Alone
  <2>3. ASSUME NEW s \in Threads, s \in At(e, {"expired"}), job[s].me = u
        PROVE  s \in At(e, {"expired"})' /\ job'[s].me = u
    <3>1. s # t
      BY <1>3, <2>3
    <3>. QED
      BY <2>3, <3>1 DEF At, Alone
  <2>. QED
    BY <2>1, <2>2, <2>3
<1>. QED
  BY <1>1, <1>2, <1>3 DEF Listed

\* A name that is given for the first time.
LEMMA ListedFirst ==
    ASSUME TInv, TInv', NEW t \in Threads, SendList(t), NEW e \in Eids,
           e = job[t].eid, Listed(e), e \notin stray,
           sends[e] + Cardinality(Writers(e)) = 0
    PROVE  Listed(e)'
<1>1. /\ Alone(t) /\ pc[t] = "list" /\ pc'[t] = "write" /\ job'[t] = job[t]
      /\ job[t].me \in Users
  BY StepMoves, JobParts DEF Moves
<1>2. to[e] = {} /\ to'[e] = {job[t].me}
  BY <1>1 DEF Listed, SendList, TInv, TypeOK
<1>3. t \in Writers(e)' /\ t \notin Writers(e)
  BY <1>1 DEF Writers, At
<1>4. /\ Cardinality(Writers(e)') = Cardinality(Writers(e)) + 1
      /\ Cardinality(Writers(e)) \in Nat /\ sends'[e] = sends[e] /\ sends[e] \in Nat
  BY <1>1, <1>3, AtStep DEF Writers, SendList, TInv, TypeOK
<1>5. sends'[e] + Cardinality(Writers(e)') # 0
  BY <1>4
<1>6. ASSUME NEW s \in At(e, {"erase"})' PROVE FALSE
  <2>1. s \in Threads /\ pc'[s] = "erase" /\ job'[s].eid = e
    BY DEF At
  <2>2. s # t
    BY <1>1, <2>1
  <2>3. pc[s] = "erase" /\ job[s].eid = e
    BY <1>1, <2>1, <2>2 DEF Alone
  <2>4. job[s].me \in to[e]
    BY <2>1, <2>3 DEF TInv, JobOK
  <2>. QED
    BY <1>2, <2>4
<1>. QED
  BY <1>2, <1>3, <1>5, <1>6 DEF Listed

\* The letter is erased: it has left the only box that could list it, or is
\* about to.
LEMMA ListedErased ==
    ASSUME TInv, TInv', NEW t \in Threads, Erase(t) \/ ExpireHash(t),
           NEW e \in Eids, e = job[t].eid, Listed(e), e \notin stray,
           sends'[e] + Cardinality(Writers(e)') = 0
              => sends[e] + Cardinality(Writers(e)) = 0
    PROVE  Listed(e)'
<1>1. /\ Alone(t) /\ pc[t] \in {"erase", "expire"}
      /\ pc[t] = "expire" => pc'[t] = "expired" /\ job'[t] = job[t]
      /\ pc[t] = "erase" => pc'[t] = "idle"
  BY StepMoves DEF Moves
<1>2. box' = box /\ to' = to
  BY DEF Erase, ExpireHash, past
<1>3. job[t].me \in to[e] /\ \A u \in Users : e \in box[u] => u \in to[e]
  BY <1>1 DEF TInv, JobOK
<1>4. \A u \in Users : e \in box[u] => u = job[t].me
  BY <1>3 DEF Listed
<1>5. pc[t] = "erase" => e \notin box[job[t].me]
  BY DEF Listed, At
<1>6. pc[t] = "expire" => t \in At(e, {"expired"})'
  BY <1>1 DEF At
<1>7. \A u \in Users :
         e \in box'[u] => \E s \in At(e, {"expired"})' : job'[s].me = u
  BY <1>1, <1>2, <1>4, <1>5, <1>6
<1>8. ASSUME NEW s \in At(e, {"erase"})' PROVE e \notin box'[job'[s].me]
  <2>1. s \in Threads /\ pc'[s] = "erase" /\ job'[s].eid = e
    BY DEF At
  <2>2. s # t
    BY <1>1, <2>1
  <2>3. s \in At(e, {"erase"}) /\ job'[s] = job[s]
    BY <1>1, <2>1, <2>2 DEF Alone, At
  <2>. QED
    BY <1>2, <2>3 DEF Listed
<1>. QED
  BY <1>2, <1>7, <1>8 DEF Listed

LEMMA ListedStep ==
    ASSUME TInv, TInv', NEW t \in Threads, Step(t), NEW e \in Eids,
           Fine(e) => Listed(e), Fine(e)'
    PROVE  Listed(e)'
<1>1. /\ Alone(t) /\ pc[t] # "idle" /\ job[t].eid \in Eids /\ job[t].me \in Users
      /\ stray \subseteq stray'
  BY StepJobs, JobParts
<1>2. /\ \/ UNCHANGED <<sends, cuts>>
         \/ SendWrite(t) \/ Crash(t)
      /\ t \in Writers(e) /\ t \notin Writers(e)' => SendWrite(t) \/ Crash(t)
  <2>1. UNCHANGED <<sends, cuts>> \/ SendWrite(t) \/ Crash(t)
    BY DEF Step, SendFee, SendList, ClaimCoin, ClaimWarhead, Unlist, Erase,
           ExpireHash, ExpireName, past
  <2>2. pc[t] = "write" => SendWrite(t) \/ Crash(t)
    BY StepMoves DEF Step
  <2>. QED
    BY <2>1, <2>2 DEF Writers, At
<1>3. /\ Fine(e) /\ Listed(e) /\ e \notin stray
      /\ sends'[e] + Cardinality(Writers(e)') = 0
            => sends[e] + Cardinality(Writers(e)) = 0
      /\ t \in Writers(e)' /\ t \notin Writers(e)
            => sends[e] + Cardinality(Writers(e)) = 0
  BY <1>1, <1>2, FineStep DEF Fine
<1>4. CASE SendList(t) /\ e = job[t].eid
  <2>1. t \in Writers(e)' /\ t \notin Writers(e)
    BY <1>4, StepMoves DEF Moves, Writers, At
  <2>. QED
    BY <1>3, <1>4, <2>1, ListedFirst
<1>5. CASE (Erase(t) \/ ExpireHash(t)) /\ e = job[t].eid
  BY <1>3, <1>5, ListedErased
<1>6. CASE Crash(t) /\ e = job[t].eid
  <2>1. cuts'[e] = cuts[e] + 1 /\ cuts[e] \in Nat
    BY <1>6 DEF Crash, TInv, TypeOK
  <2>. QED
    BY <2>1 DEF Fine
<1>7. CASE SendWrite(t) \/ (Crash(t) /\ e # job[t].eid)
  <2>1. /\ to' = to /\ box' = box /\ whole \subseteq whole'
    BY <1>7 DEF SendWrite, Crash, Written, hashes
  <2>2. t \notin At(e, {"erase"})' /\ t \notin At(e, {"expired"})
    BY <1>7, StepMoves DEF Moves, At
  <2>3. t \in Writers(e) => e \in whole'
    BY <1>7 DEF Writers, At, SendWrite, Written
  <2>. QED
    BY <1>1, <1>3, <2>1, <2>2, <2>3, ListedKept
<1>8. CASE SendFee(t) \/ (SendList(t) /\ e # job[t].eid) \/ ClaimCoin(t)
           \/ ClaimWarhead(t)
  <2>1. /\ to'[e] = to[e] /\ whole' = whole
        /\ \A u \in Users : e \in box'[u] => e \in box[u]
    BY <1>1, <1>8
    DEF SendFee, SendList, ClaimCoin, ClaimWarhead, hashes, past, TInv, TypeOK
  <2>2. /\ t \notin At(e, {"erase"})' /\ t \notin At(e, {"expired"})
        /\ t \notin Writers(e)
    BY <1>8, StepMoves DEF Moves, At, Writers
  <2>. QED
    BY <1>1, <1>3, <2>1, <2>2, ListedKept
<1>9. CASE Unlist(t) \/ ExpireName(t)
  <2>1. /\ to' = to /\ whole' = whole
        /\ \A u \in Users : e \in box'[u] => e \in box[u]
        /\ e = job[t].eid => e \notin box'[job[t].me]
    BY <1>1, <1>9 DEF Unlist, ExpireName, hashes, past, TInv, TypeOK
  <2>2. /\ t \in At(e, {"erase"})' => e \notin box'[job'[t].me]
        /\ t \notin Writers(e)
    BY <1>9, <2>1, StepMoves DEF Moves, At, Writers
  <2>3. t \in At(e, {"expired"}) => e \notin box'[job[t].me]
    BY <2>1 DEF At
  <2>. QED
    BY <1>1, <1>3, <2>1, <2>2, <2>3, ListedKept
<1>10. CASE (Erase(t) \/ ExpireHash(t)) /\ e # job[t].eid
  <2>1. to' = to /\ box' = box /\ (e \in whole => e \in whole')
    BY <1>10 DEF Erase, ExpireHash, Erased, past
  <2>2. /\ t \notin At(e, {"erase"})' /\ t \notin At(e, {"expired"})
        /\ t \notin Writers(e)
    BY <1>10, StepMoves DEF Moves, At, Writers
  <2>. QED
    BY <1>1, <1>3, <2>1, <2>2, ListedKept
<1>. QED
  BY <1>4, <1>5, <1>6, <1>7, <1>8, <1>9, <1>10 DEF Step

LEMMA ListedNext == TInv /\ TInv' /\ LInv /\ [Next]_vars => LInv'
<1> SUFFICES ASSUME TInv, TInv', LInv, [Next]_vars, NEW e \in Eids, Fine(e)'
             PROVE  Listed(e)'
  BY DEF LInv
<1>1. Fine(e) => Listed(e)
  BY DEF LInv
<1>2. CASE Rests
  <2>1. \A S : At(e, S)' = At(e, S)
    BY <1>2 DEF Rests, At
  <2>2. Writers(e)' = Writers(e)
    BY <2>1 DEF Writers
  <2>3. UNCHANGED <<box, whole, job, to, sends, cuts, stray>>
    BY <1>2 DEF Rests, past
  <2>4. Fine(e)
    BY <2>2, <2>3 DEF Fine
  <2>. QED
    BY <1>1, <2>1, <2>2, <2>3, <2>4 DEF Listed
<1>3. ASSUME NEW t \in Threads, Asks(t) PROVE Listed(e)'
  <2>1. PICK j \in Jobs : \/ Starts(t, "fee", j) \/ Starts(t, "coin", j)
                          \/ Starts(t, "unlist", j) \/ Starts(t, "expire", j)
    BY <1>3 DEF Asks
  <2>2. /\ Alone(t) /\ UNCHANGED <<box, whole, to, sends, cuts, stray>>
        /\ pc[t] = "idle" /\ pc'[t] \in {"fee", "coin", "unlist", "expire"}
    BY <2>1 DEF Starts, Moves, past, hashes
  <2>3. /\ t \notin At(e, {"erase"})' /\ t \notin At(e, {"expired"})
        /\ t \notin Writers(e)
    BY <2>2 DEF At, Writers
  <2>4. Fine(e) /\ Listed(e) /\ (sends'[e] + Cardinality(Writers(e)') = 0
                                   => sends[e] + Cardinality(Writers(e)) = 0)
    BY <1>1, <2>2, <2>3, FineStep
  <2>. QED
    BY <2>2, <2>3, <2>4, ListedKept
<1>. QED
  BY <1>1, <1>2, <1>3, ListedStep, StepCases

----------------------------------------------------------------------------
(* The invariant and what follows from it *)

LEMMA InitAll == Init => IInv
<1> SUFFICES ASSUME Init PROVE IInv
  OBVIOUS
<1>1. TInv
  BY InitType
<1>2. Cardinality({}) = 0
  BY FS_EmptySet
<1>3. \A e, S : "idle" \notin S => At(e, S) = {}
  BY DEF Init, At
<1>4. PInv
  <2>1. \A u \in Users : Payers(u) = {}
    BY DEF Init, Payers
  <2>2. N - 1 \in Nat /\ Fee \in Nat /\ StartCoin \in Nat
    BY NType, MailAssumption
  <2>3. Fee * (N - 1) \in Nat /\ Fee * 0 = 0
    BY <2>2, Products
  <2>4. \A u \in Users : Cardinality(Payers(u)) = 0 /\ coin[u] = StartCoin
    BY <1>2, <2>1 DEF Init
  <2>5. StartCoin >= Fee * 0 - Fee * (N - 1)
    BY <2>2, <2>3
  <2>. QED
    BY <2>4, <2>5 DEF PInv, Solvent
<1>5. CInv
  <2>1. \A e \in Eids : Claimants(e) = {}
    BY <1>3 DEF Claimants
  <2>2. N * 0 = 0
    BY NType
  <2>3. \A e \in Eids : Cardinality(Claimants(e)) = 0
    BY <1>2, <2>1
  <2>4. /\ \A e \in Eids : claims[e] = 0 /\ sends[e] = 0 /\ cuts[e] = 0
        /\ whole = {}
    BY DEF Init
  <2>. QED
    BY <2>2, <2>3, <2>4 DEF CInv, Claims
<1>6. LInv
  <2>1. \A e \in Eids : At(e, {"erase"}) = {}
    BY <1>3
  <2>. QED
    BY <2>1 DEF Init, LInv, Listed
<1>. QED
  BY <1>1, <1>4, <1>5, <1>6 DEF IInv

LEMMA NextAll == IInv /\ [Next]_vars => IInv'
<1> SUFFICES ASSUME IInv, [Next]_vars PROVE IInv'
  OBVIOUS
<1>1. TInv'
  BY NextType DEF IInv
<1>. QED
  BY <1>1, PostageNext, ClaimsNext, ListedNext DEF IInv

LEMMA AlwaysIInv == Spec => []IInv
  BY InitAll, NextAll, PTL DEF Spec

\* The postage is compared by one command and paid by a later one: no purse
\* falls below zero by more than one postage for each other thread.
THEOREM PostageTheorem == Spec => []PostageBounded
<1>1. ASSUME IInv PROVE PostageBounded
  <2>1. ASSUME NEW u \in Users PROVE coin[u] >= -Fee * (N - 1)
    <3>1. Payers(u) \in SUBSET Threads
      BY DEF Payers
    <3>2. Cardinality(Payers(u)) \in Nat
      BY <3>1, SomeThreads
    <3>3. /\ Fee \in Nat /\ N \in Nat /\ coin[u] \in Int
          /\ coin[u] >= Fee * Cardinality(Payers(u)) - Fee * (N - 1)
      BY <1>1, NType, MailAssumption DEF IInv, TInv, TypeOK, PInv, Solvent
    <3>4. /\ Fee * Cardinality(Payers(u)) \in Nat
          /\ -Fee * (N - 1) = -(Fee * (N - 1)) /\ Fee * (N - 1) \in Int
      BY <3>2, <3>3, Products
    <3>. QED
      BY <3>3, <3>4
  <2>. QED
    BY <2>1 DEF PostageBounded, N
<1>. QED
  BY <1>1, AlwaysIInv, PTL

\* The attachment of a letter is credited at most once by each thread for each
\* time it was written, and once more for each worker that died on the way,
\* although it is credited before the letter is deleted.
THEOREM ClaimsTheorem == Spec => []ClaimsBounded
<1>1. ASSUME IInv PROVE ClaimsBounded
  <2>1. ASSUME NEW e \in Eids PROVE claims[e] <= N * sends[e] + cuts[e]
    <3>1. Claimants(e) \in SUBSET Threads
      BY DEF Claimants, At
    <3>2. Cardinality(Claimants(e)) \in Nat
      BY <3>1, SomeThreads
    <3>3. claims[e] \in Nat /\ sends[e] \in Nat /\ cuts[e] \in Nat /\ N \in Nat
      BY <1>1, NType DEF IInv, TInv, TypeOK
    <3>4. N * sends[e] \in Nat
      BY <3>3, Products
    <3>5. claims[e] + Cardinality(Claimants(e)) <= N * sends[e] + cuts[e]
      BY <1>1 DEF IInv, CInv, Claims
    <3>. QED
      BY <3>2, <3>3, <3>4, <3>5
  <2>. QED
    BY <2>1 DEF ClaimsBounded, N
<1>. QED
  BY <1>1, AlwaysIInv, PTL

\* A letter in a box has its attachment whenever nobody handles it, unless two
\* letters were given the same name, a worker died, or the letter was claimed
\* or deleted by a player whose box had not listed it: sending, claiming,
\* deleting and the clean-up may overlap in any order.
THEOREM ListedTheorem == Spec => []ListedIsWhole
<1>1. ASSUME IInv PROVE ListedIsWhole
  <2>1. ASSUME NEW u \in Users, NEW e \in box[u], e \notin whole,
               ~(sends[e] > 1), ~(cuts[e] > 0), e \notin stray,
               ~ \E t \in Threads : pc[t] # "idle" /\ job[t].eid = e
        PROVE  FALSE
    <3>1. e \in Eids
      BY <1>1 DEF IInv, TInv, TypeOK
    <3>2. sends[e] \in Nat /\ cuts[e] \in Nat
      BY <1>1, <3>1 DEF IInv, TInv, TypeOK
    <3>3. Writers(e) = {} /\ At(e, {"expired"}) = {}
      BY <2>1 DEF Writers, At
    <3>4. Cardinality(Writers(e)) = 0
      BY <3>3, FS_EmptySet
    <3>5. Fine(e)
      BY <2>1, <3>2, <3>4 DEF Fine
    <3>6. Listed(e)
      BY <1>1, <3>1, <3>5 DEF IInv, LInv
    <3>. QED
      BY <2>1, <3>3, <3>6 DEF Listed
  <2>. QED
    BY <2>1 DEF ListedIsWhole
<1>. QED
  BY <1>1, AlwaysIInv, PTL
============================================================================
