---------------------------- MODULE PartyProofs ----------------------------
(***************************************************************************)
(* Proofs for Party: for every number of players, of seats and of hall     *)
(* threads, who is seated, who is sent to a game server and who is told    *)
(* not to have applied.                                                    *)
(***************************************************************************)
EXTENDS Party, FiniteSetTheorems, SequenceTheorems, TLAPS

\* The players of a table that the loop has taken off the list so far.
Gone == IF loop.pc = "pop" THEN loop.i - 1 ELSE loop.i

\* The tables in the order of their matches: first the rooms, then what the game
\* server has not read.
Tables == rooms \o matches

Distinct(s) == \A i, j \in 1..Len(s) : s[i] = s[j] => i = j

Single == {"exit", "look", "push", "mine", "get", "scan", "cancel"}

\* What a request is about: one account, except for the protocols of the game
\* server and for the closing of the service.
Ones ==
    /\ worker.pc \in Single => \E a \in Accounts : worker.who = <<a>>
    /\ \A t \in Threads : hall[t].pc # "idle" =>
                              \E a \in Accounts : hall[t].who = <<a>>
    /\ \A n \in 1..Len(queue) :
           queue[n].head \in {"joinPartyRoom", "cancelJoinPartyRoom"} =>
               \E a \in Accounts : queue[n].who = <<a>>

\* A match is a full table.
Full ==
    /\ Matching => /\ Len(loop.players) = Seats
                   /\ loop.i \in 1..Seats
                   /\ loop.pc = "send" => loop.i = Seats
    /\ \A n \in 1..Len(matches) : Len(matches[n]) = Seats
    /\ \A n \in 1..Len(rooms) : Len(rooms[n]) = Seats

TInv == TypeOK /\ Ones /\ Full

\* Nobody has two seats, and nobody who waits has one.
TablesApart ==
    \A m, n \in 1..Len(Tables) : \A i, j \in 1..Seats :
        Tables[m][i] = Tables[n][j] => m = n /\ i = j

WaitApart ==
    \A p \in 1..Len(wait) : \A n \in 1..Len(Tables) : \A i \in 1..Seats :
        wait[p] # Tables[n][i]

\* The match in the making: its players have no other seat, and those who still
\* wait come so early in the list that the loop will pop them.
MatchSound ==
    Matching =>
        /\ loop.len < Seats
        /\ Distinct(loop.players)
        /\ \A k \in 1..Seats : \A n \in 1..Len(Tables) : \A i \in 1..Seats :
               loop.players[k] # Tables[n][i]
        /\ \A k \in 1..Seats : \A p \in 1..Len(wait) :
               wait[p] = loop.players[k] => p <= k - Gone

Tidy == marred \cap {"crowd", "twice", "again"} = {}

SeatInv == Tidy => Distinct(wait) /\ TablesApart /\ WaitApart /\ MatchSound

\* Whoever waits, is being matched or has been sent to the game server has
\* applied.
Calm == Tidy /\ marred \cap {"late", "stale"} = {}

Wanted ==
    /\ Members(wait) \subseteq applied
    /\ Members(wait) \subseteq mark
    /\ \A n \in 1..Len(matches) : Members(matches[n]) \subseteq applied
    /\ Matching => Members(loop.players) \subseteq applied
    /\ worker.pc = "cancel" /\ ~worker.found =>
           worker.who[1] \notin Members(wait)

WantInv == Calm => Wanted

\* The list begins with the players whom the loop has still to pop.
Prefix ==
    Matching =>
        /\ Len(wait) >= Seats - Gone
        /\ \A k \in 1..(Seats - Gone) : wait[k] = loop.players[Gone + k]

\* The queue holds a protocol of the game server for account a.
Queued(head, a) ==
    \E n \in 1..Len(queue) :
        queue[n].head = head /\ a \in Members(queue[n].who)

Handles(step, a) == worker.pc = step /\ a \in Members(worker.who)

\* Account a is not forgotten by what is still to come of a table that is over:
\* the worker will not unseat a, nor seat a before it does, and whoever found a
\* in a room and deletes that a was matched is right.
Left(a) ==
    /\ Handles("leave", a) => a \notin seated
    /\ Queued("PartyRoomLeaveSuccess", a) =>
          a \notin seated /\ ~Handles("success", a)
    /\ \A m, n \in 1..Len(queue) :
          ~(/\ m < n
            /\ queue[m].head = "joinPartyRoomSuccess"
            /\ a \in Members(queue[m].who)
            /\ queue[n].head = "PartyRoomLeaveSuccess"
            /\ a \in Members(queue[n].who))
    /\ \A t \in Threads :
          hall[t].pc = "unfin" /\ hall[t].who = <<a>> => a \in away

LeftInv == \A a \in applied : Left(a)

\* A player who has applied is answered so, is being matched or is in a room.
Popping(a) == loop.pc \in {"unmark", "finish"} /\ loop.players[loop.i] = a

Known == \A a \in applied : Answered(a) \/ Popping(a) \/ a \in away

Smooth == Calm /\ "crash" \notin marred

KnownInv == Smooth => Prefix /\ LeftInv /\ Known

\* Account a waits, is being matched or has been sent to a game server.
Coming(a) ==
    \/ a \in Members(wait)
    \/ Matching /\ a \in Members(loop.players)
    \/ \E n \in 1..Len(matches) : a \in Members(matches[n])

\* Whom the hall has told to be out of it is.
HeededInv == "unheeded" \notin marred => \A a \in withdrawn : ~Coming(a)

\* The hall is about to say that the player has not applied, and the player is not
\* in the list now.
Missing(t) == hall[t].who[1] \notin mark \/ hall[t].who[1] \notin Members(wait)

AskedInv ==
    "asked" \notin marred =>
        \A t \in Threads : hall[t].pc = "matched" => Missing(t)

DeniedInv == Smooth /\ "asked" \notin marred => "denied" \notin marred

IInv ==
    /\ TInv /\ SeatInv /\ WantInv /\ KnownInv
    /\ HeededInv /\ AskedInv /\ DeniedInv

----------------------------------------------------------------------------
(* What LREM leaves of a list *)

\* Every number up to that of the positions is the rank of exactly one position.
LEMMA RankIsBijective ==
    ASSUME NEW N \in Nat, NEW kept \in SUBSET (1..N)
    PROVE  /\ Cardinality(kept) \in Nat /\ Cardinality(kept) <= N
           /\ \A n \in kept :
                 LET r == Cardinality({m \in kept : m <= n})
                 IN r \in 1..Cardinality(kept) /\ r <= n /\ Nth(kept, r) = n
           /\ \A k \in 1..Cardinality(kept) :
                 /\ Nth(kept, k) \in kept
                 /\ Cardinality({m \in kept : m <= Nth(kept, k)}) = k
<1>. DEFINE c == Cardinality(kept)
            below(n) == {m \in kept : m <= n}
            rank == [n \in kept |-> Cardinality(below(n))]
<1>0. \A n \in kept : n \in 1..N /\ n \in Nat
  OBVIOUS
<1>1. IsFiniteSet(1..N) /\ Cardinality(1..N) = N
  BY FS_Interval
<1>2. IsFiniteSet(kept) /\ c <= N
  BY <1>1, FS_Subset
<1>3. c \in Nat
  BY <1>2, FS_CardinalityType
<1>4. ASSUME NEW n \in kept
      PROVE  /\ IsFiniteSet(below(n))
             /\ rank[n] \in 1..c /\ rank[n] <= n
  <2>1. IsFiniteSet(below(n)) /\ Cardinality(below(n)) <= c
    <3>1. below(n) \subseteq kept
      OBVIOUS
    <3>. QED
      BY <1>2, <3>1, FS_Subset
  <2>2. Cardinality(below(n)) \in Nat
    BY <2>1, FS_CardinalityType
  <2>3. n \in Nat /\ below(n) \subseteq 1..n /\ n \in below(n)
    <3>1. n \in Nat /\ n <= n
      BY <1>0
    <3>2. \A m \in kept : m <= n => m \in 1..n
      BY <1>0, <3>1
    <3>. QED
      BY <3>1, <3>2
  <2>4. IsFiniteSet(1..n) /\ Cardinality(1..n) = n
    BY <2>3, FS_Interval
  <2>5. Cardinality(below(n)) <= n
    BY <2>3, <2>4, FS_Subset
  <2>6. Cardinality(below(n)) # 0
    <3>. HIDE DEF below
    <3>. QED
      BY <2>1, <2>3, FS_EmptySet
  <2>. QED
    BY <1>3, <2>1, <2>2, <2>5, <2>6
<1>5. ASSUME NEW n \in kept, NEW m \in kept, n < m
      PROVE  rank[n] < rank[m]
  <2>1. below(n) \subseteq below(m) /\ m \in below(m) /\ m \notin below(n)
    <3>1. m <= m /\ ~(m <= n)
      BY <1>0, <1>5
    <3>2. \A k \in kept : k <= n => k <= m
      BY <1>0, <1>5
    <3>. QED
      BY <3>1, <3>2
  <2>2. below(n) # below(m)
    BY <2>1
  <2>3. IsFiniteSet(below(n)) /\ IsFiniteSet(below(m))
    BY <1>4
  <2>4. Cardinality(below(n)) < Cardinality(below(m))
    <3>. HIDE DEF below
    <3>1. below(n) \subseteq below(m) \ {m}
      BY <2>1
    <3>2. IsFiniteSet(below(m) \ {m})
          /\ Cardinality(below(m) \ {m}) = Cardinality(below(m)) - 1
      BY <2>1, <2>3, FS_RemoveElement
    <3>3. Cardinality(below(n)) <= Cardinality(below(m) \ {m})
      BY <3>1, <3>2, FS_Subset
    <3>4. Cardinality(below(n)) \in Nat /\ Cardinality(below(m)) \in Nat
      BY <2>3, FS_CardinalityType
    <3>. QED
      BY <3>2, <3>3, <3>4
  <2>. QED
    BY <2>4
<1>6. rank \in [kept -> 1..c]
  BY <1>4
<1>7. ASSUME NEW n \in kept, NEW m \in kept, rank[n] = rank[m]
      PROVE  n = m
  <2>1. n \in Nat /\ m \in Nat
    OBVIOUS
  <2>2. rank[n] \in Nat /\ rank[m] \in Nat
    BY <1>4
  <2>. HIDE DEF rank
  <2>. QED
    BY <1>5, <1>7, <2>1, <2>2
<1>8. rank \in Injection(kept, 1..c)
  <2>. HIDE DEF rank
  <2>. QED
    BY <1>6, <1>7 DEF Injection, IsInjective
<1>9. rank \in Surjection(kept, 1..c)
  <2>1. IsFiniteSet(1..c) /\ Cardinality(1..c) = c
    BY <1>3, FS_Interval
  <2>. HIDE DEF rank
  <2>. QED
    BY <1>8, <2>1, FS_Injection
<1>10. \A k \in 1..c : \E n \in kept : rank[n] = k
  BY <1>9 DEF Surjection
<1>11. \A k : Nth(kept, k) = CHOOSE n \in kept : rank[n] = k
  BY DEF Nth
<1>12. ASSUME NEW k \in 1..c
       PROVE  Nth(kept, k) \in kept /\ rank[Nth(kept, k)] = k
  <2>. HIDE DEF rank
  <2>1. \E n \in kept : rank[n] = k
    BY <1>10
  <2>. QED
    BY <1>11, <2>1
<1>13. ASSUME NEW n \in kept PROVE Nth(kept, rank[n]) = n
  <2>. HIDE DEF rank
  <2>. QED
    BY <1>4, <1>7, <1>12
<1>. QED
  BY <1>2, <1>3, <1>4, <1>12, <1>13

\* Every entry that is left comes from a position not before its own, and every
\* entry that is not removed is left, at a position not after its own.  As long
\* as nothing is removed the positions are the same.
Sieved(s, v, who) ==
    /\ Len(v) \in Nat /\ Len(v) <= Len(s)
    /\ \A k \in 1..Len(v) :
          \E n \in 1..Len(s) : k <= n /\ s[n] \notin who /\ v[k] = s[n]
    /\ \A n \in 1..Len(s) :
          s[n] \notin who => \E k \in 1..Len(v) : k <= n /\ v[k] = s[n]
    /\ Distinct(s) => Distinct(v)
    /\ \A N \in 0..Len(s) : (\A n \in 1..N : s[n] \notin who) =>
          N <= Len(v) /\ \A n \in 1..N : v[n] = s[n]

LEMMA WithoutList ==
    ASSUME NEW S, NEW s \in Seq(S), NEW who
    PROVE  Without(s, who) \in Seq(S) /\ Sieved(s, Without(s, who), who)
<1>. DEFINE kept == {n \in 1..Len(s) : s[n] \notin who}
            c == Cardinality(kept)
            f == Without(s, who)
            rank(n) == Cardinality({m \in kept : m <= n})
<1>1. Len(s) \in Nat /\ \A n \in 1..Len(s) : s[n] \in S
  BY LenProperties, ElementOfSeq
<1>2. kept \in SUBSET (1..Len(s))
  OBVIOUS
<1>3. /\ c \in Nat /\ c <= Len(s)
      /\ \A n \in kept : rank(n) \in 1..c /\ rank(n) <= n /\ Nth(kept, rank(n)) = n
      /\ \A k \in 1..c : Nth(kept, k) \in kept /\ rank(Nth(kept, k)) = k
  <2>. HIDE DEF kept
  <2>. QED
    BY <1>1, <1>2, RankIsBijective
<1>4. f = [k \in 1..c |-> s[Nth(kept, k)]]
  BY DEF Without
<1>5. \A n \in kept : n \in 1..Len(s) /\ s[n] \notin who
  OBVIOUS
<1>6. \A n \in 1..Len(s) : s[n] \notin who => n \in kept
  OBVIOUS
<1>. HIDE DEF kept, c, f, rank
<1>7. f \in [1..c -> S]
  BY <1>1, <1>3, <1>4, <1>5
<1>8. f \in Seq(S)
  BY <1>3, <1>7, SeqDef
<1>9. Len(f) = c
  <2>1. Len(f) \in Nat /\ DOMAIN f = 1..Len(f)
    BY <1>8, LenProperties
  <2>2. 1..Len(f) = 1..c
    BY <1>7, <2>1
  <2>3. \A n \in Nat : Cardinality(1..n) = n
    <3>. TAKE n \in Nat
    <3>. QED
      BY FS_Interval
  <2>. QED
    BY <1>3, <2>1, <2>2, <2>3
<1>10. \A k \in 1..c : /\ Nth(kept, k) \in 1..Len(s) /\ k <= Nth(kept, k)
                       /\ s[Nth(kept, k)] \notin who /\ f[k] = s[Nth(kept, k)]
  BY <1>3, <1>4, <1>5
<1>11. \A n \in kept : rank(n) \in 1..c /\ rank(n) <= n /\ f[rank(n)] = s[n]
  BY <1>3, <1>4
<1>12. ASSUME Distinct(s) PROVE Distinct(f)
  <2>1. ASSUME NEW k \in 1..c, NEW l \in 1..c, f[k] = f[l] PROVE k = l
    <3>1. Nth(kept, k) = Nth(kept, l)
      BY <1>10, <1>12, <2>1 DEF Distinct
    <3>. QED
      BY <1>3, <3>1
  <2>. QED
    BY <1>9, <2>1 DEF Distinct
<1>13. ASSUME NEW N \in 0..Len(s), \A n \in 1..N : s[n] \notin who
       PROVE  N <= c /\ \A n \in 1..N : f[n] = s[n]
  <2>1. ASSUME NEW n \in 1..N PROVE rank(n) = n /\ n \in kept
    <3>1. n \in 1..Len(s) /\ \A m \in 1..n : m \in kept
      BY <1>1, <1>6, <1>13
    <3>2. n \in Nat /\ \A m \in kept : m \in Nat /\ m >= 1
      BY <1>1, <1>5, <3>1
    <3>3. \A m \in kept : m <= n => m \in 1..n
      BY <3>2
    <3>4. \A m \in 1..n : m <= n
      BY <3>2
    <3>5. {m \in kept : m <= n} = 1..n
      BY <3>1, <3>3, <3>4, Zenon
    <3>6. Cardinality(1..n) = n
      BY <3>2, FS_Interval
    <3>7. n \in kept
      BY <3>1, <3>2
    <3>. QED
      BY <3>5, <3>6, <3>7 DEF rank
  <2>2. \A n \in 1..N : n <= c /\ f[n] = s[n]
    BY <1>11, <2>1
  <2>. QED
    BY <1>1, <1>3, <2>2
<1>. QED
  <2>1. Sieved(s, f, who)
    BY <1>3, <1>6, <1>9, <1>10, <1>11, <1>12, <1>13 DEF Sieved
  <2>. QED
    BY <1>8, <2>1 DEF f

----------------------------------------------------------------------------
(* Types *)

Protocols == [head : Heads, who : Seq(Accounts)]
Loops == [pc : LoopSteps, players : Seq(Accounts), len : Nat, i : Nat]
Workers == [pc : WorkerSteps, who : Seq(Accounts), found : BOOLEAN]
Halls == [pc : HallSteps, who : Seq(Accounts), found : BOOLEAN]

LEMMA SeatsType == Seats \in Nat /\ Seats >= 1
  BY PartyAssumption

\* The lists and their entries.
LEMMA ListTypes ==
    ASSUME TypeOK
    PROVE  /\ Len(wait) \in Nat
           /\ \A p \in 1..Len(wait) : wait[p] \in Accounts
           /\ Len(queue) \in Nat
           /\ \A n \in 1..Len(queue) : /\ queue[n] \in Protocols
                                       /\ queue[n].head \in Heads
                                       /\ queue[n].who \in Seq(Accounts)
           /\ Len(matches) \in Nat
           /\ \A n \in 1..Len(matches) : matches[n] \in Seq(Accounts)
           /\ Len(rooms) \in Nat
           /\ \A n \in 1..Len(rooms) : rooms[n] \in Seq(Accounts)
           /\ Tables \in Seq(Seq(Accounts))
           /\ Len(Tables) = Len(rooms) + Len(matches)
           /\ \A n \in 1..Len(Tables) :
                 /\ Tables[n] \in Seq(Accounts)
                 /\ Tables[n] = IF n <= Len(rooms) THEN rooms[n]
                                ELSE matches[n - Len(rooms)]
           /\ loop.players \in Seq(Accounts) /\ Len(loop.players) \in Nat
           /\ \A k \in 1..Len(loop.players) : loop.players[k] \in Accounts
           /\ worker.who \in Seq(Accounts)
<1>1. Len(wait) \in Nat /\ \A p \in 1..Len(wait) : wait[p] \in Accounts
  <2>1. wait \in Seq(Accounts)
    BY DEF TypeOK
  <2>. QED
    BY <2>1, LenProperties, ElementOfSeq
<1>2. /\ Len(queue) \in Nat
      /\ \A n \in 1..Len(queue) : /\ queue[n] \in Protocols
                                  /\ queue[n].head \in Heads
                                  /\ queue[n].who \in Seq(Accounts)
  <2>1. queue \in Seq(Protocols)
    BY DEF TypeOK, Protocols
  <2>2. Len(queue) \in Nat /\ \A n \in 1..Len(queue) : queue[n] \in Protocols
    BY <2>1, LenProperties, ElementOfSeq
  <2>. QED
    BY <2>2 DEF Protocols
<1>3. /\ Len(matches) \in Nat
      /\ \A n \in 1..Len(matches) : matches[n] \in Seq(Accounts)
  <2>1. matches \in Seq(Seq(Accounts))
    BY DEF TypeOK
  <2>. QED
    BY <2>1, LenProperties, ElementOfSeq
<1>4. /\ Len(rooms) \in Nat
      /\ \A n \in 1..Len(rooms) : rooms[n] \in Seq(Accounts)
  <2>1. rooms \in Seq(Seq(Accounts))
    BY DEF TypeOK
  <2>. QED
    BY <2>1, LenProperties, ElementOfSeq
<1>5. /\ Tables \in Seq(Seq(Accounts))
      /\ Len(Tables) = Len(rooms) + Len(matches)
      /\ \A n \in 1..Len(Tables) :
            Tables[n] = IF n <= Len(rooms) THEN rooms[n]
                        ELSE matches[n - Len(rooms)]
  <2>1. rooms \in Seq(Seq(Accounts)) /\ matches \in Seq(Seq(Accounts))
    BY DEF TypeOK
  <2>. QED
    BY <2>1, ConcatProperties DEF Tables
<1>6. \A n \in 1..Len(Tables) : Tables[n] \in Seq(Accounts)
  BY <1>5, ElementOfSeq
<1>7. loop.players \in Seq(Accounts) /\ worker.who \in Seq(Accounts)
  BY DEF TypeOK
<1>8. /\ Len(loop.players) \in Nat
      /\ \A k \in 1..Len(loop.players) : loop.players[k] \in Accounts
  BY <1>7, LenProperties, ElementOfSeq
<1>. QED
  BY <1>1, <1>2, <1>3, <1>4, <1>5, <1>6, <1>7, <1>8

\* The next round takes the first players of a list that is long enough.
LEMMA Round ==
    ASSUME NEW s \in Seq(Accounts), NEW n \in Nat, n >= Seats => Len(s) >= Seats
    PROVE  /\ NextRound(s, n) \in Loops
           /\ n < Seats => NextRound(s, n) = Resting
           /\ n >= Seats => /\ NextRound(s, n).pc = "pop"
                            /\ NextRound(s, n).i = 1
                            /\ NextRound(s, n).len = n - Seats
                            /\ Len(NextRound(s, n).players) = Seats
                            /\ \A k \in 1..Seats :
                                  NextRound(s, n).players[k] = s[k]
<1>1. Len(s) \in Nat /\ \A k \in 1..Len(s) : s[k] \in Accounts
  BY LenProperties, ElementOfSeq
<1>2. CASE n < Seats
  <2>1. NextRound(s, n) = Resting
    BY <1>2, SeatsType DEF NextRound
  <2>2. Resting \in Loops
    <3>1. <<>> \in Seq(Accounts)
      BY EmptySeq
    <3>. QED
      BY <3>1 DEF Resting, Loops, LoopSteps
  <2>. QED
    BY <1>2, <2>1, <2>2, SeatsType
<1>3. CASE n >= Seats
  <2>. DEFINE q == SubSeq(s, 1, Seats)
  <2>1. \A k \in 1..Seats : s[k] \in Accounts
    BY <1>1, <1>3, SeatsType
  <2>2. /\ q \in Seq(Accounts) /\ Len(q) = Seats
        /\ \A k \in 1..Seats : q[k] = s[k]
    <3>1. Len(q) = (IF 1 <= Seats THEN Seats - 1 + 1 ELSE 0)
          /\ q \in Seq(Accounts)
          /\ \A k \in 1..(Seats - 1 + 1) : q[k] = s[1 + k - 1]
      BY <2>1, SeatsType, SubSeqProperties
    <3>2. \A k \in 1..Seats : 1 + k - 1 = k
      BY SeatsType
    <3>. QED
      BY <3>1, <3>2, SeatsType
  <2>. HIDE DEF q
  <2>3. NextRound(s, n) = [pc |-> "pop", players |-> q, len |-> n - Seats, i |-> 1]
    BY <1>3 DEF NextRound, q
  <2>. QED
    BY <1>3, <2>2, <2>3, SeatsType DEF Loops, LoopSteps
<1>. QED
  BY <1>2, <1>3, SeatsType

LEMMA IdleType == Idle \in Workers /\ Idle \in Halls /\ Resting \in Loops
<1>1. <<>> \in Seq(Accounts)
  BY EmptySeq
<1>. QED
  BY <1>1 DEF Idle, Resting, Workers, Halls, Loops, WorkerSteps, HallSteps, LoopSteps

LEMMA InitTInv == Init => TInv
<1>. SUFFICES ASSUME Init PROVE TInv
  OBVIOUS
<1>1. /\ \A S : <<>> \in Seq(S)
      /\ Len(<<>>) = 0
  BY EmptySeq
<1>2. TypeOK
  BY <1>1, IdleType, PartyAssumption
  DEF Init, TypeOK, Protocols, Workers, Halls, Loops
<1>3. Ones /\ Full
  BY <1>1, SeatsType DEF Init, Ones, Full, Idle, Resting, Single, Matching
<1>. QED
  BY <1>2, <1>3 DEF TInv

\* What the queue is after a protocol was sent.
LEMMA QueueAppend ==
    ASSUME TInv, NEW h \in Heads, NEW w \in Seq(Accounts),
           queue' = Append(queue, [head |-> h, who |-> w]),
           h \in {"joinPartyRoom", "cancelJoinPartyRoom"} =>
               \E a \in Accounts : w = <<a>>
    PROVE  /\ queue' \in Seq(Protocols)
           /\ Len(queue') = Len(queue) + 1
           /\ \A n \in 1..Len(queue) : queue'[n] = queue[n]
           /\ queue'[Len(queue')] = [head |-> h, who |-> w]
           /\ \A n \in 1..Len(queue') :
                 queue'[n].head \in {"joinPartyRoom", "cancelJoinPartyRoom"} =>
                     \E a \in Accounts : queue'[n].who = <<a>>
<1>. DEFINE p == [head |-> h, who |-> w]
<1>1. p \in Protocols /\ p.head = h /\ p.who = w
  BY DEF Protocols
<1>2. queue \in Seq(Protocols) /\ Len(queue) \in Nat
  BY ListTypes DEF TInv, TypeOK, Protocols
<1>3. queue' = Append(queue, p)
  OBVIOUS
<1>. HIDE DEF p
<1>4. /\ queue' \in Seq(Protocols)
      /\ Len(queue') = Len(queue) + 1
      /\ \A n \in 1..Len(queue) : queue'[n] = queue[n]
      /\ queue'[Len(queue) + 1] = p
  BY <1>1, <1>2, <1>3, AppendProperties
<1>5. ASSUME NEW n \in 1..Len(queue'),
             queue'[n].head \in {"joinPartyRoom", "cancelJoinPartyRoom"}
      PROVE  \E a \in Accounts : queue'[n].who = <<a>>
  <2>1. CASE n \in 1..Len(queue)
    BY <1>4, <1>5, <2>1 DEF TInv, Ones
  <2>2. CASE n = Len(queue) + 1
    BY <1>1, <1>4, <1>5, <2>2
  <2>. QED
    BY <1>2, <1>4, <2>1, <2>2
<1>. QED
  BY <1>4, <1>5 DEF p

\* A request in the hall is about one account.
LEMMA HallWho ==
    ASSUME TInv, NEW t \in Threads, hall[t].pc # "idle"
    PROVE  \E a \in Accounts :
               /\ hall[t].who = <<a>> /\ hall[t].who[1] = a
               /\ Members(hall[t].who) = {a}
<1>1. PICK a \in Accounts : hall[t].who = <<a>>
  BY DEF TInv, Ones
<1>2. Len(<<a>>) = 1 /\ <<a>>[1] = a
  OBVIOUS
<1>. QED
  BY <1>1, <1>2 DEF Members

LEMMA WorkerWho ==
    ASSUME TInv, worker.pc \in Single
    PROVE  \E a \in Accounts :
               /\ worker.who = <<a>> /\ worker.who[1] = a
               /\ Members(worker.who) = {a}
<1>1. PICK a \in Accounts : worker.who = <<a>>
  BY DEF TInv, Ones
<1>2. Len(<<a>>) = 1 /\ <<a>>[1] = a
  OBVIOUS
<1>. QED
  BY <1>1, <1>2 DEF Members

LEMMA MembersType ==
    ASSUME NEW s \in Seq(Accounts)
    PROVE  Members(s) \subseteq Accounts
  BY ElementOfSeq DEF Members

\* The list after one account was pushed.
LEMMA PushList ==
    ASSUME TInv, NEW a \in Accounts, NEW w, w = <<a>>
    PROVE  /\ wait \o w \in Seq(Accounts)
           /\ Len(wait \o w) = Len(wait) + 1
           /\ \A p \in 1..Len(wait) : (wait \o w)[p] = wait[p]
           /\ (wait \o w)[Len(wait) + 1] = a
           /\ Members(wait \o w) = Members(wait) \cup {a}
<1>1. wait \in Seq(Accounts) /\ <<a>> \in Seq(Accounts) /\ Len(wait) \in Nat
  BY ListTypes DEF TInv, TypeOK
<1>2. Len(<<a>>) = 1 /\ <<a>>[1] = a
  OBVIOUS
<1>3. /\ wait \o w \in Seq(Accounts)
      /\ Len(wait \o w) = Len(wait) + Len(<<a>>)
      /\ \A p \in 1..(Len(wait) + Len(<<a>>)) :
            (wait \o w)[p] = IF p <= Len(wait) THEN wait[p]
                             ELSE <<a>>[p - Len(wait)]
  BY <1>1, ConcatProperties
<1>4. /\ Len(wait \o w) = Len(wait) + 1
      /\ \A p \in 1..Len(wait) : (wait \o w)[p] = wait[p]
      /\ (wait \o w)[Len(wait) + 1] = a
  BY <1>1, <1>2, <1>3
<1>5. Members(wait \o w) = Members(wait) \cup {a}
  <2>. DEFINE v == wait \o w
  <2>1. \A p \in 1..Len(v) : p \in 1..Len(wait) \/ p = Len(wait) + 1
    BY <1>1, <1>4
  <2>2. Len(wait) + 1 \in 1..Len(v) /\ \A p \in 1..Len(wait) : p \in 1..Len(v)
    BY <1>1, <1>4
  <2>3. /\ \A p \in 1..Len(wait) : v[p] = wait[p]
        /\ v[Len(wait) + 1] = a
    BY <1>4
  <2>. HIDE DEF v
  <2>4. Members(v) = Members(wait) \cup {a}
    BY <2>1, <2>2, <2>3 DEF Members
  <2>. QED
    BY <2>4 DEF v
<1>. QED
  BY <1>3, <1>4, <1>5

\* The list after everything of one account was removed.
LEMMA RemoveList ==
    ASSUME TInv, NEW a \in Accounts
    PROVE  /\ Without(wait, {a}) \in Seq(Accounts)
           /\ Sieved(wait, Without(wait, {a}), {a})
           /\ Members(Without(wait, {a})) = Members(wait) \ {a}
<1>. DEFINE v == Without(wait, {a})
<1>1. wait \in Seq(Accounts)
  BY DEF TInv, TypeOK
<1>2. v \in Seq(Accounts) /\ Sieved(wait, v, {a})
  BY <1>1, WithoutList
<1>. HIDE DEF v
<1>3. ASSUME NEW x \in Members(v) PROVE x \in Members(wait) \ {a}
  <2>1. PICK k \in 1..Len(v) : x = v[k]
    BY DEF Members
  <2>2. PICK n \in 1..Len(wait) : wait[n] \notin {a} /\ v[k] = wait[n]
    BY <1>2 DEF Sieved
  <2>. QED
    BY <2>1, <2>2 DEF Members
<1>4. ASSUME NEW x \in Members(wait) \ {a} PROVE x \in Members(v)
  <2>1. PICK n \in 1..Len(wait) : x = wait[n]
    BY DEF Members
  <2>2. PICK k \in 1..Len(v) : v[k] = wait[n]
    BY <1>2, <2>1 DEF Sieved
  <2>. QED
    BY <2>1, <2>2 DEF Members
<1>. QED
  BY <1>2, <1>3, <1>4 DEF v

\* The list after its first entry was popped.
LEMMA PopList ==
    ASSUME TInv
    PROVE  /\ Popped \in Seq(Accounts)
           /\ wait = <<>> => Len(wait) = 0 /\ Popped = wait
           /\ wait # <<>> =>
                 /\ Len(wait) >= 1 /\ Len(Popped) = Len(wait) - 1
                 /\ \A p \in 1..Len(Popped) : Popped[p] = wait[p + 1]
           /\ Members(Popped) \subseteq Members(wait)
<1>1. wait \in Seq(Accounts) /\ Len(wait) \in Nat
  BY ListTypes DEF TInv, TypeOK
<1>2. CASE wait = <<>>
  BY <1>1, <1>2, EmptySeq DEF Popped
<1>3. CASE wait # <<>>
  <2>1. Popped = Tail(wait) /\ Len(wait) \in Nat \ {0}
    BY <1>1, <1>3, EmptySeq DEF Popped
  <2>2. /\ Popped \in Seq(Accounts) /\ Len(Popped) = Len(wait) - 1
        /\ \A p \in 1..Len(Popped) : Popped[p] = wait[p + 1]
    BY <1>1, <1>3, <2>1, HeadTailProperties
  <2>3. \A p \in 1..Len(Popped) : p + 1 \in 1..Len(wait)
    BY <1>1, <2>2
  <2>4. ASSUME NEW x \in Members(Popped) PROVE x \in Members(wait)
    <3>1. PICK p \in 1..Len(Popped) : x = Popped[p]
      BY DEF Members
    <3>2. x = wait[p + 1] /\ p + 1 \in 1..Len(wait)
      BY <2>2, <2>3, <3>1
    <3>. QED
      BY <3>2 DEF Members
  <2>5. Len(wait) >= 1
    BY <2>1
  <2>. QED
    BY <1>3, <2>2, <2>4, <2>5, Zenon
<1>. QED
  BY <1>2, <1>3

\* The types, and the part of the invariant that says what requests are about.
LEMMA TypeUse ==
    ASSUME TInv
    PROVE  /\ wait \in Seq(Accounts) /\ queue \in Seq(Protocols)
           /\ matches \in Seq(Seq(Accounts)) /\ rooms \in Seq(Seq(Accounts))
           /\ loop \in Loops /\ worker \in Workers
           /\ hall \in [Threads -> Halls]
  BY DEF TInv, TypeOK, Protocols, Loops, Workers, Halls

LEMMA TLoop ==
    ASSUME TInv, Loop
    PROVE  TInv'
<1>. USE DEF lists, game, bounds
<1>1. loop \in Loops /\ Seats \in Nat /\ Seats >= 1 /\ wait \in Seq(Accounts)
  BY TypeUse, SeatsType
<1>2. ASSUME loop' \in Loops, ~Matching', status' \in {"none", "forever", "ttl"},
             marred' \subseteq Causes,
             UNCHANGED <<lists, cancels, queue, game, worker, hall, applied, withdrawn,
                         bounds>>
      PROVE  TInv'
  BY <1>2 DEF TInv, TypeOK, Ones, Full, Loops
<1>3. CASE FeedStatus
  <2>1. loop' \in Loops /\ loop'.pc = "expire"
    BY <1>1, <1>3 DEF FeedStatus, Loops, LoopSteps
  <2>. QED
    BY <1>2, <1>3, <2>1 DEF FeedStatus, Matching, TInv, TypeOK
<1>4. CASE FeedExpire
  <2>1. loop' \in Loops /\ loop'.pc = "range"
    BY <1>1, <1>4 DEF FeedExpire, Loops, LoopSteps
  <2>. QED
    BY <1>2, <1>4, <2>1 DEF FeedExpire, Matching, TInv, TypeOK
<1>5. CASE ReadWaiting
  <2>1. Len(wait) \in Nat
    BY ListTypes DEF TInv
  <2>2. /\ loop' \in Loops
        /\ Len(wait) < Seats => loop' = Resting
        /\ Len(wait) >= Seats => /\ loop'.pc = "pop" /\ loop'.i = 1
                                 /\ Len(loop'.players) = Seats
    BY <1>1, <1>5, <2>1, Round DEF ReadWaiting
  <2>3. marred' \subseteq Causes
    BY <1>5 DEF ReadWaiting, TInv, TypeOK, Causes
  <2>4. /\ Matching' => /\ Len(loop'.players) = Seats
                        /\ loop'.i \in 1..Seats
                        /\ loop'.pc = "send" => loop'.i = Seats
    BY <1>1, <2>1, <2>2 DEF Matching, Resting
  <2>. QED
    BY <1>5, <2>2, <2>3, <2>4 DEF ReadWaiting, TInv, TypeOK, Ones, Full, Loops
<1>6. CASE PopWaiting
  <2>1. loop' \in Loops /\ loop'.pc = "unmark" /\ loop'.i = loop.i
        /\ loop'.players = loop.players
    BY <1>1, <1>6 DEF PopWaiting, Loops, LoopSteps
  <2>2. wait' \in Seq(Accounts)
    BY <1>6, PopList DEF PopWaiting
  <2>3. Matching
    BY <1>6 DEF PopWaiting, Matching
  <2>. QED
    BY <1>6, <2>1, <2>2, <2>3 DEF PopWaiting, TInv, TypeOK, Ones, Full, Loops
<1>7. CASE DeleteMark
  <2>1. loop' \in Loops /\ loop'.pc = "finish" /\ loop'.i = loop.i
        /\ loop'.players = loop.players
    BY <1>1, <1>7 DEF DeleteMark, Loops, LoopSteps
  <2>2. mark' \subseteq Accounts
    BY <1>7 DEF DeleteMark, TInv, TypeOK
  <2>3. Matching
    BY <1>7 DEF DeleteMark, Matching
  <2>. QED
    BY <1>7, <2>1, <2>2, <2>3 DEF DeleteMark, TInv, TypeOK, Ones, Full, Loops
<1>8. CASE SetFinished
  <2>1. Matching
    BY <1>8 DEF SetFinished, Matching
  <2>2. loop.i \in 1..Seats /\ Len(loop.players) = Seats
    BY <2>1 DEF TInv, Full
  <2>3. loop.players[loop.i] \in Accounts
    BY <2>2, ListTypes DEF TInv
  <2>4. /\ loop' \in Loops /\ loop'.players = loop.players /\ loop'.i \in 1..Seats
        /\ loop'.pc = "send" => loop'.i = Seats
    <3>1. CASE loop.i < Seats
      <4>1. loop' = [loop EXCEPT !.pc = "pop", !.i = loop.i + 1]
        BY <1>8, <3>1 DEF SetFinished
      <4>2. loop.i + 1 \in 1..Seats /\ loop.i + 1 \in Nat
        BY <1>1, <2>2, <3>1
      <4>. QED
        BY <1>1, <4>1, <4>2 DEF Loops, LoopSteps
    <3>2. CASE ~(loop.i < Seats)
      <4>1. loop' = [loop EXCEPT !.pc = "send"]
        BY <1>8, <3>2 DEF SetFinished
      <4>2. loop.i = Seats
        BY <1>1, <2>2, <3>2
      <4>. QED
        BY <1>1, <2>2, <4>1, <4>2 DEF Loops, LoopSteps
    <3>. QED
      BY <3>1, <3>2
  <2>5. fin' \subseteq Accounts
    BY <1>8, <2>3 DEF SetFinished, TInv, TypeOK
  <2>. QED
    BY <1>8, <2>2, <2>4, <2>5 DEF SetFinished, TInv, TypeOK, Ones, Full, Loops
<1>9. CASE SendMatch
  <2>1. Matching
    BY <1>9 DEF SendMatch, Matching
  <2>2. loop.players \in Seq(Accounts) /\ Len(loop.players) = Seats /\ loop.len \in Nat
    BY <1>1, <2>1 DEF TInv, Full, Loops
  <2>3. /\ loop' \in Loops
        /\ loop.len < Seats => loop' = Resting
        /\ loop.len >= Seats => /\ loop'.pc = "pop" /\ loop'.i = 1
                                /\ Len(loop'.players) = Seats
    BY <1>1, <1>9, <2>2, Round DEF SendMatch
  <2>4. Matching' => /\ Len(loop'.players) = Seats
                     /\ loop'.i \in 1..Seats
                     /\ loop'.pc = "send" => loop'.i = Seats
    BY <1>1, <2>2, <2>3 DEF Matching, Resting
  <2>5. matches \in Seq(Seq(Accounts)) /\ Len(matches) \in Nat
    BY TypeUse, ListTypes DEF TInv
  <2>6. /\ matches' \in Seq(Seq(Accounts))
        /\ \A n \in 1..Len(matches') : Len(matches'[n]) = Seats
    <3>1. CASE matches' = Append(matches, loop.players)
      <4>1. /\ matches' \in Seq(Seq(Accounts))
            /\ Len(matches') = Len(matches) + 1
            /\ \A n \in 1..Len(matches) : matches'[n] = matches[n]
            /\ matches'[Len(matches) + 1] = loop.players
        BY <2>2, <2>5, <3>1, AppendProperties
      <4>2. \A n \in 1..Len(matches') : n \in 1..Len(matches) \/ n = Len(matches) + 1
        BY <2>5, <4>1
      <4>. QED
        BY <2>2, <4>1, <4>2 DEF TInv, Full
    <3>2. CASE matches' = matches
      BY <2>5, <3>2 DEF TInv, Full
    <3>. QED
      BY <1>9, <3>1, <3>2 DEF SendMatch
  <2>. QED
    BY <1>9, <2>3, <2>4, <2>6 DEF SendMatch, TInv, TypeOK, Ones, Full, Loops
<1>. QED
  BY <1>3, <1>4, <1>5, <1>6, <1>7, <1>8, <1>9 DEF Loop

LEMMA TWorker ==
    ASSUME TInv, Worker
    PROVE  TInv'
<1>. USE DEF lists, game, bounds
<1>1. worker \in Workers /\ Idle \in Workers
  BY TypeUse, IdleType
<1>2. ASSUME NEW step \in WorkerSteps, WorkerGoto(step)
      PROVE  /\ worker' \in Workers /\ worker'.who = worker.who
             /\ worker'.pc = step /\ worker'.found = worker.found
  BY <1>1, <1>2 DEF WorkerGoto, Workers
<1>3. ASSUME WorkerDone PROVE worker' \in Workers /\ worker'.pc = "lpop"
  BY <1>1, <1>3 DEF WorkerDone, Workers, WorkerSteps, Idle
<1>4. ASSUME worker' \in Workers, WorkerReads,
             worker'.pc \in Single => worker.pc \in Single /\ worker'.who = worker.who
      PROVE  TInv'
  BY <1>4 DEF WorkerReads, TInv, TypeOK, Ones, Full, Workers, Matching
<1>5. ASSUME worker' \in Workers, worker'.pc \notin Single,
             wait' \in Seq(Accounts), mark' \subseteq Accounts,
             fin' \subseteq Accounts, seated' \subseteq Accounts,
             applied' \subseteq Accounts, withdrawn' \subseteq Accounts,
             marred' \subseteq Causes,
             UNCHANGED <<cancels, queue, status, game, loop, hall, bounds>>
      PROVE  TInv'
  BY <1>5 DEF TInv, TypeOK, Ones, Full, Workers, Matching
<1>6. "lpop" \notin Single /\ "success" \notin Single /\ "leave" \notin Single
      /\ "close" \notin Single /\ "down" \notin Single /\ "idle" \notin Single
  BY DEF Single
<1>7. CASE StartReading
  BY <1>2, <1>4, <1>6, <1>7 DEF StartReading, WorkerSteps
<1>8. CASE PopProtocol
  <2>0. queue \in Seq(Protocols) /\ Len(queue) \in Nat
    BY TypeUse, ListTypes DEF TInv
  <2>1. CASE queue = <<>>
    <3>0. worker' = Idle /\ queue' = queue
      BY <1>8, <2>1, Zenon DEF PopProtocol
    <3>1. worker' \in Workers /\ worker'.pc = "idle" /\ queue' = queue
      BY <1>1, <3>0 DEF Idle
    <3>. QED
      BY <1>6, <1>8, <3>1
      DEF PopProtocol, TInv, TypeOK, Ones, Full, Workers, Matching
  <2>2. CASE queue # <<>>
    <3>. DEFINE p == queue[1]
    <3>1. Len(queue) \in Nat \ {0} /\ Head(queue) = p
      BY <2>0, <2>2, EmptySeq
    <3>2. 1 \in 1..Len(queue)
      BY <3>1
    <3>3. p \in Protocols /\ p.head \in Heads /\ p.who \in Seq(Accounts)
      BY <3>2, ListTypes DEF TInv
    <3>4. p.head \in {"joinPartyRoom", "cancelJoinPartyRoom"} =>
              \E a \in Accounts : p.who = <<a>>
      BY <3>2 DEF TInv, Ones
    <3>. HIDE DEF p
    <3>5. worker' = [pc |-> FirstStep(p.head), who |-> p.who, found |-> FALSE]
      BY <1>8, <2>2, <3>1 DEF PopProtocol
    <3>6. /\ FirstStep(p.head) \in WorkerSteps
          /\ FirstStep(p.head) \in Single =>
                p.head \in {"joinPartyRoom", "cancelJoinPartyRoom"}
      BY <3>3 DEF FirstStep, WorkerSteps, Single, Heads
    <3>7. worker' \in Workers /\ worker'.pc = FirstStep(p.head) /\ worker'.who = p.who
      BY <3>3, <3>5, <3>6 DEF Workers
    <3>8. /\ queue' \in Seq(Protocols) /\ Len(queue') = Len(queue) - 1
          /\ \A n \in 1..Len(queue') : queue'[n] = queue[n + 1]
      BY <1>8, <2>0, <2>2, HeadTailProperties DEF PopProtocol
    <3>9. \A n \in 1..Len(queue') : n + 1 \in 1..Len(queue)
      BY <2>0, <3>8
    <3>10. Ones'
      BY <1>8, <3>4, <3>6, <3>7, <3>8, <3>9 DEF PopProtocol, TInv, Ones
    <3>11. TypeOK' /\ Full'
      BY <1>8, <3>7, <3>8
      DEF PopProtocol, TInv, TypeOK, Full, Workers, Matching, Protocols
    <3>. QED
      BY <3>10, <3>11 DEF TInv
  <2>. QED
    BY <2>1, <2>2
<1>9. CASE JoinExit
  BY <1>2, <1>3, <1>4, <1>6, <1>9 DEF JoinExit, WorkerSteps, WorkerAt, Single
<1>10. CASE JoinLook
  <2>1. /\ worker' \in Workers
        /\ worker'.pc \in Single => worker'.who = worker.who
    BY <1>2, <1>3, <1>6, <1>10 DEF JoinLook, WorkerSteps
  <2>2. withdrawn' \subseteq Accounts
    BY <1>10 DEF JoinLook, TInv, TypeOK
  <2>3. worker.pc \in Single
    BY <1>10 DEF JoinLook, WorkerAt, Single
  <2>. QED
    BY <1>10, <2>1, <2>2, <2>3
    DEF JoinLook, TInv, TypeOK, Ones, Full, Workers, Matching
<1>11. CASE JoinPush
  <2>1. PICK a \in Accounts : /\ worker.who = <<a>> /\ worker.who[1] = a
                              /\ Members(worker.who) = {a}
    BY <1>11, WorkerWho DEF JoinPush, WorkerAt, Single
  <2>2. wait' \in Seq(Accounts)
    BY <1>11, <2>1, PushList DEF JoinPush, PushWaiting
  <2>3. /\ mark' = mark \cup {a} /\ applied' = applied \cup {a}
        /\ marred' = marred \cup PushCause(a)
        /\ withdrawn' = withdrawn \ {a}
    BY <1>11, <2>1 DEF JoinPush, PushWaiting
  <2>4. /\ mark' \subseteq Accounts /\ applied' \subseteq Accounts
        /\ marred' \subseteq Causes /\ withdrawn' \subseteq Accounts
    BY <2>3 DEF TInv, TypeOK, PushCause
  <2>5. fin' \subseteq Accounts /\ seated' \subseteq Accounts
    BY <1>11 DEF JoinPush, PushWaiting, TInv, TypeOK
  <2>. QED
    BY <1>3, <1>5, <1>6, <1>11, <2>2, <2>4, <2>5 DEF JoinPush
<1>12. CASE CancelMine
  BY <1>2, <1>3, <1>4, <1>6, <1>12 DEF CancelMine, WorkerSteps, WorkerAt, Single
<1>13. CASE CancelGet
  BY <1>2, <1>3, <1>4, <1>6, <1>13 DEF CancelGet, WorkerSteps, WorkerAt, Single
<1>14. CASE CancelScan
  <2>1. worker' \in Workers /\ worker'.who = worker.who
    <3>1. (worker.who[1] \in Members(wait)) \in BOOLEAN
      OBVIOUS
    <3>2. PICK b \in BOOLEAN :
              worker' = [worker EXCEPT !.pc = "cancel", !.found = b]
      BY <1>14, <3>1 DEF CancelScan
    <3>. QED
      BY <1>1, <3>2 DEF Workers, WorkerSteps
  <2>2. worker.pc \in Single
    BY <1>14 DEF CancelScan, WorkerAt, Single
  <2>. QED
    BY <1>4, <1>14, <2>1, <2>2 DEF CancelScan
<1>15. CASE CancelPipe
  <2>1. PICK a \in Accounts : /\ worker.who = <<a>> /\ worker.who[1] = a
                              /\ Members(worker.who) = {a}
    BY <1>15, WorkerWho DEF CancelPipe, WorkerAt, Single
  <2>2. wait' \in Seq(Accounts)
    <3>1. wait \in Seq(Accounts) /\ Without(wait, {a}) \in Seq(Accounts)
      BY TypeUse, RemoveList
    <3>. QED
      BY <1>15, <2>1, <3>1 DEF CancelPipe, Cancelled
  <2>3. /\ mark' \subseteq Accounts /\ applied' \subseteq Accounts
        /\ marred' \subseteq Causes /\ withdrawn' \subseteq Accounts
    BY <1>15 DEF CancelPipe, TInv, TypeOK, RemoveCause, Causes
  <2>4. fin' \subseteq Accounts /\ seated' \subseteq Accounts
    BY <1>15 DEF CancelPipe, TInv, TypeOK
  <2>. QED
    BY <1>3, <1>5, <1>6, <1>15, <2>2, <2>3, <2>4 DEF CancelPipe
<1>16. CASE JoinSuccess
  <2>1. Members(worker.who) \subseteq Accounts
    BY <1>1, MembersType DEF Workers
  <2>2. seated' \subseteq Accounts /\ fin' \subseteq Accounts
    BY <1>16, <2>1 DEF JoinSuccess, TInv, TypeOK
  <2>3. /\ wait' \in Seq(Accounts) /\ mark' \subseteq Accounts
        /\ applied' \subseteq Accounts /\ marred' \subseteq Causes
        /\ withdrawn' \subseteq Accounts
    BY <1>16 DEF JoinSuccess, TInv, TypeOK
  <2>. QED
    BY <1>3, <1>5, <1>6, <1>16, <2>2, <2>3 DEF JoinSuccess
<1>17. CASE LeaveSuccess
  <2>1. seated' \subseteq Accounts /\ fin' \subseteq Accounts
    BY <1>17 DEF LeaveSuccess, TInv, TypeOK
  <2>2. /\ wait' \in Seq(Accounts) /\ mark' \subseteq Accounts
        /\ applied' \subseteq Accounts /\ marred' \subseteq Causes
        /\ withdrawn' \subseteq Accounts
    BY <1>17 DEF LeaveSuccess, TInv, TypeOK
  <2>. QED
    BY <1>3, <1>5, <1>6, <1>17, <2>1, <2>2 DEF LeaveSuccess
<1>18. CASE CloseQueue
  <2>1. worker' \in Workers /\ worker'.pc = "down"
    BY <1>2, <1>18 DEF CloseQueue, WorkerSteps
  <2>2. queue' = <<>> /\ queue' \in Seq(Protocols) /\ Len(queue') = 0
    BY <1>18, EmptySeq DEF CloseQueue
  <2>3. TypeOK'
    BY <1>18, <2>1, <2>2 DEF CloseQueue, TInv, TypeOK, Workers, Protocols
  <2>4. Ones' /\ Full'
    BY <1>18, <1>6, <2>1, <2>2 DEF CloseQueue, TInv, Ones, Full, Matching
  <2>. QED
    BY <2>3, <2>4 DEF TInv
<1>19. CASE CloseStatus
  <2>1. worker' \in Workers /\ worker'.pc = "lpop"
    BY <1>3, <1>19 DEF CloseStatus
  <2>. QED
    BY <1>6, <1>19, <2>1, SMTT(60)
    DEF CloseStatus, TInv, TypeOK, Ones, Full, Workers, Matching
<1>. QED
  BY <1>7, <1>8, <1>9, <1>10, <1>11, <1>12, <1>13, <1>14, <1>15, <1>16, <1>17,
     <1>18, <1>19 DEF Worker

LEMMA THall ==
    ASSUME TInv, NEW t \in Threads, HallStep(t)
    PROVE  TInv'
<1>. USE DEF lists, game, bounds
<1>1. hall \in [Threads -> Halls] /\ Idle \in Halls /\ Idle.pc = "idle"
  BY TypeUse, IdleType DEF Idle
<1>2. ASSUME NEW x \in Halls, hall' = [hall EXCEPT ![t] = x],
             x.pc # "idle" => hall[t].pc # "idle" /\ x.who = hall[t].who
      PROVE  /\ hall' \in [Threads -> Halls]
             /\ \A s \in Threads : hall'[s].pc # "idle" =>
                    \E a \in Accounts : hall'[s].who = <<a>>
  <2>1. hall' \in [Threads -> Halls]
        /\ \A s \in Threads : hall'[s] = IF s = t THEN x ELSE hall[s]
    BY <1>1, <1>2
  <2>. QED
    BY <1>2, <2>1 DEF TInv, Ones
<1>3. ASSUME NEW next \in HallSteps, hall[t].pc # "idle",
             HallGoto(t, next) \/ HallDone(t),
             withdrawn' \subseteq Accounts, marred' \subseteq Causes,
             UNCHANGED <<lists, cancels, queue, status, game, loop, worker, applied,
                         bounds>>
      PROVE  TInv'
  <2>. DEFINE x == IF HallDone(t) THEN Idle ELSE [hall[t] EXCEPT !.pc = next]
  <2>1. hall' = [hall EXCEPT ![t] = x]
    BY <1>3 DEF HallGoto, HallDone
  <2>2. x \in Halls
    BY <1>1, <1>3 DEF Halls
  <2>3. x.pc # "idle" => hall[t].pc # "idle" /\ x.who = hall[t].who
    BY <1>1, <1>3 DEF Halls
  <2>. HIDE DEF x
  <2>4. /\ hall' \in [Threads -> Halls]
        /\ \A s \in Threads : hall'[s].pc # "idle" =>
               \E a \in Accounts : hall'[s].who = <<a>>
    BY <1>2, <2>1, <2>2, <2>3
  <2>. QED
    BY <1>3, <2>4, SMTT(60) DEF TInv, TypeOK, Ones, Full, Halls, Matching
<1>4. ASSUME hall[t].pc # "idle", HallDone(t),
             wait' \in Seq(Accounts), mark' \subseteq Accounts,
             fin' \subseteq Accounts, cancels' \subseteq Accounts,
             applied' \subseteq Accounts, withdrawn' \subseteq Accounts,
             marred' \subseteq Causes,
             UNCHANGED <<seated, queue, status, game, loop, worker, bounds>>
      PROVE  TInv'
  <2>1. /\ hall' \in [Threads -> Halls]
        /\ \A s \in Threads : hall'[s].pc # "idle" =>
               \E a \in Accounts : hall'[s].who = <<a>>
    BY <1>1, <1>2, <1>4 DEF HallDone
  <2>. QED
    BY <1>4, <2>1, SMTT(60) DEF TInv, TypeOK, Ones, Full, Halls, Matching
<1>5. CASE \/ HallExit(t) \/ HallAway(t) \/ HallWanted(t) \/ HallListed(t)
           \/ HallGet(t) \/ HallScan(t)
  <2>1. ASSUME NEW here, NEW goes, NEW next \in HallSteps, here # "idle",
               HallReads(t, here, goes, next)
        PROVE  TInv'
    <3>1. withdrawn' \subseteq Accounts /\ marred' \subseteq Causes
      BY <2>1 DEF HallReads, TInv, TypeOK
    <3>. QED
      BY <1>3, <2>1, <3>1 DEF HallReads
  <2>. USE DEF HallSteps
  <2>2. CASE HallExit(t)
    BY <2>1, <2>2 DEF HallExit
  <2>3. CASE HallAway(t)
    BY <2>1, <2>3 DEF HallAway
  <2>4. CASE HallWanted(t)
    BY <2>1, <2>4 DEF HallWanted
  <2>5. CASE HallListed(t)
    BY <2>1, <2>5 DEF HallListed
  <2>6. CASE HallGet(t)
    BY <2>1, <2>6 DEF HallGet
  <2>7. CASE HallScan(t)
    BY <2>1, <2>7 DEF HallScan
  <2>. QED
    BY <1>5, <2>2, <2>3, <2>4, <2>5, <2>6, <2>7
<1>6. ASSUME hall[t].pc # "idle"
      PROVE  \E a \in Accounts : /\ hall[t].who = <<a>> /\ hall[t].who[1] = a
                                 /\ Members(hall[t].who) = {a}
  BY <1>6, HallWho
<1>7. CASE HallPush(t)
  <2>1. PICK a \in Accounts : /\ hall[t].who = <<a>> /\ hall[t].who[1] = a
                              /\ Members(hall[t].who) = {a}
    BY <1>6, <1>7 DEF HallPush
  <2>2. wait' \in Seq(Accounts)
    BY <1>7, <2>1, PushList DEF HallPush, PushWaiting
  <2>3. /\ mark' = mark \cup {a} /\ applied' = applied \cup {a}
        /\ marred' = marred \cup PushCause(a)
        /\ withdrawn' = withdrawn \ {a}
    BY <1>7, <2>1 DEF HallPush, PushWaiting
  <2>4. /\ mark' \subseteq Accounts /\ applied' \subseteq Accounts
        /\ marred' \subseteq Causes /\ withdrawn' \subseteq Accounts
    BY <2>3 DEF TInv, TypeOK, PushCause
  <2>5. fin' \subseteq Accounts /\ cancels' \subseteq Accounts
    BY <1>7 DEF HallPush, PushWaiting, TInv, TypeOK
  <2>. QED
    BY <1>4, <1>7, <2>2, <2>4, <2>5 DEF HallPush, PushWaiting
<1>8. CASE HallCancel(t)
  <2>1. PICK a \in Accounts : Members(hall[t].who) = {a}
    BY <1>6, <1>8 DEF HallCancel
  <2>2. cancels' \subseteq Accounts /\ fin' \subseteq Accounts
        /\ mark' \subseteq Accounts /\ wait' \in Seq(Accounts)
        /\ applied' \subseteq Accounts /\ marred' \subseteq Causes
        /\ withdrawn' \subseteq Accounts
    BY <1>8, <2>1 DEF HallCancel, HallIgnore, IgnoreCause, TInv, TypeOK, Causes
  <2>. QED
    BY <1>4, <1>8, <2>2 DEF HallCancel, HallIgnore
<1>9. CASE HallUnfinish(t)
  <2>1. cancels' \subseteq Accounts /\ fin' \subseteq Accounts
        /\ mark' \subseteq Accounts /\ wait' \in Seq(Accounts)
        /\ applied' \subseteq Accounts /\ marred' \subseteq Causes
        /\ withdrawn' \subseteq Accounts
    BY <1>9 DEF HallUnfinish, TInv, TypeOK
  <2>. QED
    BY <1>4, <1>9, <2>1 DEF HallUnfinish
<1>10. CASE HallRemove(t)
  <2>1. PICK a \in Accounts : Members(hall[t].who) = {a}
    BY <1>6, <1>10 DEF HallRemove
  <2>2. wait' \in Seq(Accounts)
    BY <1>10, <2>1, RemoveList DEF HallRemove
  <2>3. cancels' \subseteq Accounts /\ fin' \subseteq Accounts
        /\ mark' \subseteq Accounts
        /\ applied' \subseteq Accounts /\ marred' \subseteq Causes
        /\ withdrawn' \subseteq Accounts
    BY <1>10 DEF HallRemove, TInv, TypeOK, RemoveCause, Causes
  <2>. QED
    BY <1>4, <1>10, <2>2, <2>3 DEF HallRemove
<1>11. CASE HallLook(t)
  <2>1. withdrawn' \subseteq Accounts /\ marred' \subseteq Causes
    BY <1>11 DEF HallLook, TInv, TypeOK
  <2>2. "push" \in HallSteps
    BY DEF HallSteps
  <2>. QED
    BY <1>3, <1>11, <2>1, <2>2 DEF HallLook
<1>12. CASE HallMine(t)
  <2>1. PICK a \in Accounts : Members(hall[t].who) = {a}
    BY <1>6, <1>12 DEF HallMine
  <2>2. withdrawn' \subseteq Accounts /\ marred' \subseteq Causes
    BY <1>12, <2>1 DEF HallMine, HallIgnore, IgnoreCause, TInv, TypeOK, Causes
  <2>3. "ask" \in HallSteps
    BY DEF HallSteps
  <2>. QED
    BY <1>3, <1>12, <2>2, <2>3 DEF HallMine, HallIgnore
<1>13. CASE HallMatched(t)
  <2>1. withdrawn' \subseteq Accounts /\ marred' \subseteq Causes
    BY <1>13 DEF HallMatched, TInv, TypeOK, Causes
  <2>2. "idle" \in HallSteps
    BY DEF HallSteps
  <2>. QED
    BY <1>3, <1>13, <2>1, <2>2 DEF HallMatched
<1>. QED
  BY <1>5, <1>7, <1>8, <1>9, <1>10, <1>11, <1>12, <1>13 DEF HallStep

\* What the game server's list of matches and of rooms, and the protocols, are
\* when a room is opened or closed.
LEMMA TRoom ==
    ASSUME TInv, OpenRoom \/ CloseRoom
    PROVE  TInv'
<1>. USE DEF lists, game, bounds, actors
<1>1. /\ matches \in Seq(Seq(Accounts)) /\ Len(matches) \in Nat
      /\ rooms \in Seq(Seq(Accounts)) /\ Len(rooms) \in Nat
  BY TypeUse, ListTypes DEF TInv
<1>2. ASSUME NEW s \in Seq(Seq(Accounts)), s # <<>>,
             \A n \in 1..Len(s) : Len(s[n]) = Seats
      PROVE  /\ Head(s) \in Seq(Accounts) /\ Len(Head(s)) = Seats
             /\ Tail(s) \in Seq(Seq(Accounts))
             /\ \A n \in 1..Len(Tail(s)) : Len(Tail(s)[n]) = Seats
  <2>1. /\ Head(s) \in Seq(Accounts) /\ Tail(s) \in Seq(Seq(Accounts))
        /\ Len(Tail(s)) = Len(s) - 1
        /\ \A n \in 1..Len(Tail(s)) : Tail(s)[n] = s[n + 1]
    BY <1>2, HeadTailProperties
  <2>2. Len(s) \in Nat \ {0} /\ Head(s) = s[1]
    BY <1>2, EmptySeq
  <2>3. 1 \in 1..Len(s) /\ \A n \in 1..Len(Tail(s)) : n + 1 \in 1..Len(s)
    BY <2>1, <2>2
  <2>. QED
    BY <1>2, <2>1, <2>2, <2>3
<1>3. CASE OpenRoom
  <2>. DEFINE m == Head(matches)
  <2>1. /\ m \in Seq(Accounts) /\ Len(m) = Seats
        /\ matches' \in Seq(Seq(Accounts))
        /\ \A n \in 1..Len(matches') : Len(matches'[n]) = Seats
    BY <1>1, <1>2, <1>3 DEF OpenRoom, TInv, Full
  <2>2. /\ rooms' = Append(rooms, m) /\ away' = away \cup Members(m)
        /\ queue' = Append(queue, [head |-> "joinPartyRoomSuccess", who |-> m])
    BY <1>3 DEF OpenRoom
  <2>. HIDE DEF m
  <2>3. /\ rooms' \in Seq(Seq(Accounts)) /\ Len(rooms') = Len(rooms) + 1
        /\ \A n \in 1..Len(rooms) : rooms'[n] = rooms[n]
        /\ rooms'[Len(rooms) + 1] = m
    BY <1>1, <2>1, <2>2, AppendProperties
  <2>4. \A n \in 1..Len(rooms') : n \in 1..Len(rooms) \/ n = Len(rooms) + 1
    BY <1>1, <2>3
  <2>5. \A n \in 1..Len(rooms') : Len(rooms'[n]) = Seats
    BY <2>1, <2>3, <2>4 DEF TInv, Full
  <2>6. away' \subseteq Accounts
    BY <2>1, <2>2, MembersType DEF TInv, TypeOK
  <2>7. /\ queue' \in Seq(Protocols)
        /\ \A n \in 1..Len(queue') :
              queue'[n].head \in {"joinPartyRoom", "cancelJoinPartyRoom"} =>
                  \E a \in Accounts : queue'[n].who = <<a>>
    <3>1. "joinPartyRoomSuccess" \in Heads
          /\ "joinPartyRoomSuccess" \notin {"joinPartyRoom", "cancelJoinPartyRoom"}
      BY DEF Heads
    <3>. QED
      BY <2>1, <2>2, <3>1, QueueAppend
  <2>8. TypeOK'
    BY <1>3, <2>1, <2>3, <2>6, <2>7 DEF OpenRoom, TInv, TypeOK, Protocols
  <2>9. Ones' /\ Full'
    BY <1>3, <2>1, <2>5, <2>7 DEF OpenRoom, TInv, Ones, Full, Matching
  <2>. QED
    BY <2>8, <2>9 DEF TInv
<1>4. CASE CloseRoom
  <2>. DEFINE m == Head(rooms)
  <2>1. /\ m \in Seq(Accounts)
        /\ rooms' \in Seq(Seq(Accounts))
        /\ \A n \in 1..Len(rooms') : Len(rooms'[n]) = Seats
    BY <1>1, <1>2, <1>4 DEF CloseRoom, TInv, Full
  <2>2. /\ queue' = Append(queue, [head |-> "PartyRoomLeaveSuccess", who |-> m])
        /\ away' \subseteq away /\ applied' \subseteq applied
    BY <1>4 DEF CloseRoom
  <2>. HIDE DEF m
  <2>3. /\ queue' \in Seq(Protocols)
        /\ \A n \in 1..Len(queue') :
              queue'[n].head \in {"joinPartyRoom", "cancelJoinPartyRoom"} =>
                  \E a \in Accounts : queue'[n].who = <<a>>
    <3>1. "PartyRoomLeaveSuccess" \in Heads
          /\ "PartyRoomLeaveSuccess" \notin {"joinPartyRoom", "cancelJoinPartyRoom"}
      BY DEF Heads
    <3>. QED
      BY <2>1, <2>2, <3>1, QueueAppend
  <2>4. away' \subseteq Accounts /\ applied' \subseteq Accounts
    BY <2>2 DEF TInv, TypeOK
  <2>5. TypeOK'
    BY <1>4, <2>1, <2>3, <2>4 DEF CloseRoom, TInv, TypeOK, Protocols
  <2>6. Ones' /\ Full'
    BY <1>4, <2>1, <2>3 DEF CloseRoom, TInv, Ones, Full, Matching
  <2>. QED
    BY <2>5, <2>6 DEF TInv
<1>. QED
  BY <1>3, <1>4

\* The other steps: requests that begin, protocols that are sent, faults.
LEMMA TRest ==
    ASSUME TInv,
           \/ Players \/ Send("close", <<>>)
           \/ ExpireStatus \/ RestartService \/ WorkerFails
    PROVE  TInv'
<1>. USE DEF lists, game, bounds, actors
<1>1. served \in 0..MaxOps /\ faults \in 0..MaxFaults /\ MaxOps \in Nat
      /\ MaxFaults \in Nat
  BY PartyAssumption DEF TInv, TypeOK
<1>2. ASSUME NEW h \in Heads, NEW w \in Seq(Accounts), Send(h, w),
             h \in {"joinPartyRoom", "cancelJoinPartyRoom"} =>
                 \E a \in Accounts : w = <<a>>
      PROVE  TInv'
  <2>1. /\ queue' \in Seq(Protocols)
        /\ \A n \in 1..Len(queue') :
              queue'[n].head \in {"joinPartyRoom", "cancelJoinPartyRoom"} =>
                  \E a \in Accounts : queue'[n].who = <<a>>
    BY <1>2, QueueAppend DEF Send
  <2>2. served' \in 0..MaxOps
    BY <1>1, <1>2 DEF Send
  <2>3. TypeOK'
    BY <1>2, <2>1, <2>2 DEF Send, TInv, TypeOK, Protocols
  <2>4. Ones' /\ Full'
    BY <1>2, <2>1 DEF Send, TInv, Ones, Full, Matching
  <2>. QED
    BY <2>3, <2>4 DEF TInv
<1>3. ASSUME NEW t \in Threads, NEW a \in Accounts, NEW step \in HallSteps,
             Ask(t, a, step)
      PROVE  TInv'
  <2>. DEFINE x == [Idle EXCEPT !.pc = step, !.who = <<a>>]
  <2>1. <<a>> \in Seq(Accounts)
    OBVIOUS
  <2>2. x \in Halls /\ x.who = <<a>>
    BY <2>1, IdleType DEF Halls, Idle
  <2>3. hall' = [hall EXCEPT ![t] = x]
    BY <1>3 DEF Ask
  <2>. HIDE DEF x
  <2>4. hall \in [Threads -> Halls]
    BY TypeUse
  <2>5. /\ hall' \in [Threads -> Halls]
        /\ \A s \in Threads : hall'[s] = IF s = t THEN x ELSE hall[s]
    BY <2>2, <2>3, <2>4
  <2>6. served' \in 0..MaxOps
    BY <1>1, <1>3 DEF Ask
  <2>7. TypeOK' /\ Full'
    BY <1>3, <2>5, <2>6 DEF Ask, TInv, TypeOK, Full, Halls, Matching
  <2>8. Ones'
    BY <1>3, <2>2, <2>5 DEF Ask, TInv, Ones
  <2>. QED
    BY <2>7, <2>8 DEF TInv
<1>4. CASE Players
  <2>1. PICK a \in Accounts :
           \/ Send("joinPartyRoom", <<a>>)
           \/ Send("cancelJoinPartyRoom", <<a>>)
           \/ \E t \in Threads : HallJoin(t, a) \/ HallNotJoin(t, a)
                                   \/ HallCheck(t, a) \/ HallEnterRoom(t, a)
    BY <1>4 DEF Players
  <2>2. <<a>> \in Seq(Accounts)
    OBVIOUS
  <2>3. "joinPartyRoom" \in Heads /\ "cancelJoinPartyRoom" \in Heads
    BY DEF Heads
  <2>4. {"exit", "mine", "check", "get"} \subseteq HallSteps
    BY DEF HallSteps
  <2>. QED
    BY <1>2, <1>3, <2>1, <2>2, <2>3, <2>4
    DEF HallJoin, HallNotJoin, HallCheck, HallEnterRoom
<1>5. CASE Send("close", <<>>)
  <2>1. <<>> \in Seq(Accounts)
    BY EmptySeq
  <2>2. "close" \in Heads /\ "close" \notin {"joinPartyRoom", "cancelJoinPartyRoom"}
    BY DEF Heads
  <2>. QED
    BY <1>2, <1>5, <2>1, <2>2
<1>6. ASSUME Fault PROVE faults' \in 0..MaxFaults
  BY <1>1, <1>6 DEF Fault
<1>7. CASE ExpireStatus
  BY <1>6, <1>7 DEF ExpireStatus, TInv, TypeOK, Ones, Full, Matching
<1>8. CASE RestartService
  <2>1. loop' \in Loops /\ loop'.pc = "feed" /\ worker' \in Workers
        /\ worker'.pc = "idle"
    BY <1>8, IdleType DEF RestartService, Idle, Resting
  <2>2. marred' \subseteq Causes /\ faults' \in 0..MaxFaults
    BY <1>6, <1>8 DEF RestartService, TInv, TypeOK, Causes
  <2>3. TypeOK'
    BY <1>8, <2>1, <2>2 DEF RestartService, TInv, TypeOK, Workers, Loops
  <2>4. Ones' /\ Full'
    BY <1>8, <2>1 DEF RestartService, TInv, Ones, Full, Matching, Single
  <2>. QED
    BY <2>3, <2>4 DEF TInv
<1>9. CASE WorkerFails
  <2>1. worker' \in Workers /\ worker'.pc = "dead"
    BY <1>9, IdleType DEF WorkerFails, Idle, Workers, WorkerSteps
  <2>2. marred' \subseteq Causes /\ faults' \in 0..MaxFaults
    BY <1>6, <1>9 DEF WorkerFails, TInv, TypeOK, Causes
  <2>3. TypeOK'
    BY <1>9, <2>1, <2>2 DEF WorkerFails, TInv, TypeOK, Workers
  <2>4. Ones' /\ Full'
    BY <1>9, <2>1 DEF WorkerFails, TInv, Ones, Full, Matching, Single
  <2>. QED
    BY <2>3, <2>4 DEF TInv
<1>. QED
  BY <1>4, <1>5, <1>7, <1>8, <1>9

LEMMA TStep ==
    ASSUME TInv, [Next]_vars
    PROVE  TInv'
<1>1. CASE UNCHANGED vars
  BY <1>1 DEF vars, lists, game, actors, bounds, TInv, TypeOK, Ones, Full, Matching
<1>2. CASE Next
  <2>1. ASSUME NEW t \in Threads, HallStep(t) PROVE TInv'
    BY <2>1, THall
  <2>. QED
    BY <1>2, <2>1, TLoop, TWorker, TRoom, TRest DEF Next
<1>. QED
  BY <1>1, <1>2

(***************************************************************************)
(* Every list, table and request of the matchmaking keeps its type, and    *)
(* requests and faults their bounds.                                       *)
(***************************************************************************)
THEOREM TypeCorrect == Spec => []TypeOK
<1>1. TInv /\ [Next]_vars => TInv'
  BY TStep
<1>2. TInv => TypeOK
  BY DEF TInv
<1>. QED
  BY InitTInv, <1>1, <1>2, PTL DEF Spec

\* A step of the hall that neither pushes nor removes anything: what it leaves
\* alone, and where it goes.
LEMMA HallQuiet ==
    ASSUME TInv, NEW t \in Threads, HallStep(t), ~HallPush(t), ~HallRemove(t)
    PROVE  /\ UNCHANGED <<wait, mark, seated, queue, status, matches, rooms, away,
                         loop, worker, applied, bounds>>
           /\ marred \subseteq marred'
           /\ HallUnfinish(t) \/ fin' = fin
           /\ \A s \in Threads : s # t => hall'[s] = hall[s]
           /\ hall'[t].pc # "idle" => hall'[t].who = hall[t].who
           /\ hall'[t].pc = "unfin" => HallAway(t) /\ hall[t].who[1] \in away
           /\ hall'[t].pc = "matched" =>
                  hall[t].who[1] \notin mark \/ hall[t].who[1] \notin Members(wait)
<1>. USE DEF lists, game
<1>0. hall \in [Threads -> Halls]
  BY TypeUse
<1>1. ASSUME NEW next, HallGoto(t, next)
      PROVE  /\ \A s \in Threads : s # t => hall'[s] = hall[s]
             /\ hall'[t].who = hall[t].who /\ hall'[t].pc = next
  BY <1>0, <1>1 DEF HallGoto, Halls
<1>2. ASSUME HallDone(t)
      PROVE  /\ \A s \in Threads : s # t => hall'[s] = hall[s]
             /\ hall'[t].pc = "idle"
  BY <1>0, <1>2 DEF HallDone, Idle
<1>3. ASSUME NEW here, NEW goes, NEW next, HallReads(t, here, goes, next)
      PROVE  /\ UNCHANGED <<wait, mark, seated, queue, status, matches, rooms, away,
                           loop, worker, applied, bounds, marred, fin>>
             /\ IF goes THEN HallGoto(t, next) ELSE HallDone(t)
  BY <1>3 DEF HallReads
<1>4. CASE HallExit(t)
  BY <1>1, <1>2, <1>3, <1>4 DEF HallExit
<1>5. CASE HallAway(t)
  <2>1. /\ UNCHANGED <<wait, mark, seated, queue, status, matches, rooms, away,
                      loop, worker, applied, bounds, marred, fin>>
        /\ HallGoto(t, IF hall[t].who[1] \in away THEN "unfin" ELSE "wanted")
    BY <1>5 DEF HallAway, HallReads
  <2>2. hall[t].who[1] \in away \/ HallGoto(t, "wanted")
    BY <2>1
  <2>. QED
    BY <1>1, <1>5, <2>1, <2>2
<1>6. CASE HallWanted(t)
  <2>1. /\ UNCHANGED <<wait, mark, seated, queue, status, matches, rooms, away,
                      loop, worker, applied, bounds, marred, fin>>
        /\ HallGoto(t, IF hall[t].who[1] \in mark THEN "list" ELSE "matched")
    BY <1>6 DEF HallWanted, HallReads
  <2>2. hall[t].who[1] \notin mark \/ HallGoto(t, "list")
    BY <2>1
  <2>3. hall'[t].pc \in {"list", "matched"}
    BY <1>1, <2>1
  <2>. QED
    BY <1>1, <2>1, <2>2, <2>3
<1>7. CASE HallListed(t)
  <2>1. /\ UNCHANGED <<wait, mark, seated, queue, status, matches, rooms, away,
                      loop, worker, applied, bounds, marred, fin>>
        /\ \/ hall[t].who[1] \notin Members(wait) /\ HallGoto(t, "matched")
           \/ HallDone(t)
    BY <1>7 DEF HallListed, HallReads
  <2>. QED
    BY <1>1, <1>2, <2>1
<1>8. CASE HallGet(t)
  BY <1>1, <1>2, <1>3, <1>8 DEF HallGet
<1>9. CASE HallScan(t)
  BY <1>1, <1>2, <1>3, <1>9 DEF HallScan
<1>10. CASE HallLook(t)
  BY <1>1, <1>2, <1>10 DEF HallLook
<1>11. CASE HallMine(t)
  BY <1>1, <1>2, <1>11 DEF HallMine, HallIgnore
<1>12. CASE HallCancel(t)
  BY <1>2, <1>12 DEF HallCancel, HallIgnore
<1>13. CASE HallUnfinish(t)
  BY <1>2, <1>13 DEF HallUnfinish
<1>14. CASE HallMatched(t)
  BY <1>2, <1>14 DEF HallMatched
<1>. QED
  BY <1>4, <1>5, <1>6, <1>7, <1>8, <1>9, <1>10, <1>11, <1>12, <1>13, <1>14
  DEF HallStep

----------------------------------------------------------------------------
(* Seats *)

\* What a push or a removal leaves unsaid is a fault of its own.
LEMMA PushFree ==
    ASSUME NEW a, marred' = marred \cup PushCause(a), Tidy'
    PROVE  Tidy /\ a \notin Members(wait) /\ ~Engaged(a)
<1>1. "twice" \in Causes /\ "again" \in Causes
  BY DEF Causes
<1>2. "twice" \notin PushCause(a) /\ "again" \notin PushCause(a)
  BY DEF Tidy
<1>. QED
  BY <1>1, <1>2 DEF Tidy, PushCause

LEMMA NotEngaged ==
    ASSUME TInv, NEW a, ~Engaged(a)
    PROVE  /\ \A n \in 1..Len(Tables) : \A i \in 1..Seats : Tables[n][i] # a
           /\ Matching => \A k \in 1..Seats : loop.players[k] # a
           /\ Matching => a \notin Members(loop.players)
           /\ \A n \in 1..Len(matches) : a \notin Members(matches[n])
<1>1. \A n \in 1..Len(matches) : matches[n] \in Members(matches)
  BY DEF Members
<1>2. \A n \in 1..Len(rooms) : rooms[n] \in Members(rooms)
  BY DEF Members
<1>3. \A n \in 1..Len(matches) : a \notin Members(matches[n])
  BY <1>1 DEF Engaged
<1>4. \A n \in 1..Len(rooms) : a \notin Members(rooms[n])
  BY <1>2 DEF Engaged
<1>5. \A n \in 1..Len(matches) : \A i \in 1..Seats : matches[n][i] # a
  BY <1>3 DEF Members, TInv, Full
<1>6. \A n \in 1..Len(rooms) : \A i \in 1..Seats : rooms[n][i] # a
  BY <1>4 DEF Members, TInv, Full
<1>7. ASSUME NEW n \in 1..Len(Tables), NEW i \in 1..Seats
      PROVE  Tables[n][i] # a
  <2>1. /\ Len(rooms) \in Nat /\ Len(matches) \in Nat
        /\ Len(Tables) = Len(rooms) + Len(matches)
        /\ Tables[n] = IF n <= Len(rooms) THEN rooms[n]
                       ELSE matches[n - Len(rooms)]
    BY ListTypes DEF TInv
  <2>2. CASE n <= Len(rooms)
    BY <1>6, <2>1, <2>2
  <2>3. CASE ~(n <= Len(rooms))
    <3>1. n - Len(rooms) \in 1..Len(matches)
      BY <2>1, <2>3
    <3>. QED
      BY <1>5, <2>1, <2>3, <3>1
  <2>. QED
    BY <2>2, <2>3
<1>8. Matching => a \notin Members(loop.players)
  BY DEF Engaged
<1>9. Matching => \A k \in 1..Seats : loop.players[k] # a
  BY <1>8 DEF Members, TInv, Full
<1>. QED
  BY <1>3, <1>7, <1>8, <1>9

\* What is there at first, and what no step on the lists disturbs.
LEMMA SeatFrame ==
    ASSUME SeatInv, UNCHANGED <<wait, matches, rooms, loop>>, marred \subseteq marred'
    PROVE  SeatInv'
<1>1. Tidy' => Tidy
  BY DEF Tidy
<1>2. Tables' = Tables /\ Gone' = Gone /\ (Matching' <=> Matching)
  BY DEF Tables, Gone, Matching
<1>. QED
  BY <1>1, <1>2 DEF SeatInv, TablesApart, WaitApart, MatchSound, Distinct

LEMMA SeatPush ==
    ASSUME TInv, SeatInv, NEW a \in Accounts, NEW w, w = <<a>>,
           wait' = wait \o w, marred' = marred \cup PushCause(a),
           UNCHANGED <<matches, rooms, loop>>
    PROVE  SeatInv'
<1>. SUFFICES ASSUME Tidy' PROVE Distinct(wait)' /\ TablesApart' /\ WaitApart'
                                 /\ MatchSound'
  BY DEF SeatInv
<1>1. Tidy /\ a \notin Members(wait) /\ ~Engaged(a)
  BY PushFree
<1>2. /\ \A n \in 1..Len(Tables) : \A i \in 1..Seats : Tables[n][i] # a
      /\ Matching => \A k \in 1..Seats : loop.players[k] # a
  BY <1>1, NotEngaged
<1>3. /\ Len(wait) \in Nat
      /\ Len(wait') = Len(wait) + 1
      /\ \A p \in 1..Len(wait) : wait'[p] = wait[p]
      /\ wait'[Len(wait) + 1] = a
  BY PushList, ListTypes DEF TInv
<1>4. \A p \in 1..Len(wait') : p \in 1..Len(wait) \/ p = Len(wait) + 1
  BY <1>3
<1>5. \A p \in 1..Len(wait) : wait[p] # a
  BY <1>1 DEF Members
<1>6. Tables' = Tables /\ Gone' = Gone /\ (Matching' <=> Matching) /\ loop' = loop
  BY DEF Tables, Gone, Matching
<1>7. Distinct(wait) /\ TablesApart /\ WaitApart /\ MatchSound
  BY <1>1 DEF SeatInv
<1>8. Distinct(wait)'
  <2>1. Distinct(wait')
    BY <1>3, <1>4, <1>5, <1>7 DEF Distinct
  <2>. QED
    BY <2>1 DEF Distinct
<1>9. TablesApart' /\ WaitApart'
  <2>1. TablesApart'
    BY <1>6, <1>7 DEF TablesApart
  <2>2. ASSUME NEW p \in 1..Len(wait'), NEW n \in 1..Len(Tables), NEW i \in 1..Seats
        PROVE  wait'[p] # Tables[n][i]
    <3>1. CASE p \in 1..Len(wait)
      BY <1>3, <1>7, <3>1 DEF WaitApart
    <3>2. CASE p = Len(wait) + 1
      BY <1>2, <1>3, <3>2
    <3>. QED
      BY <1>4, <3>1, <3>2
  <2>. QED
    BY <1>6, <2>1, <2>2 DEF WaitApart
<1>10. MatchSound'
  <2>1. SUFFICES ASSUME Matching PROVE
            \A k \in 1..Seats : \A p \in 1..Len(wait') :
                wait'[p] = loop.players[k] => p <= k - Gone
    BY <1>6, <1>7 DEF MatchSound, Distinct
  <2>. QED
    BY <1>2, <1>3, <1>4, <1>7, <2>1 DEF MatchSound
<1>. QED
  BY <1>8, <1>9, <1>10

LEMMA SeatRemove ==
    ASSUME TInv, SeatInv, NEW a \in Accounts, wait' = Without(wait, {a}),
           UNCHANGED <<matches, rooms, loop>>, marred \subseteq marred'
    PROVE  SeatInv'
<1>. SUFFICES ASSUME Tidy' PROVE Distinct(wait)' /\ TablesApart' /\ WaitApart'
                                 /\ MatchSound'
  BY DEF SeatInv
<1>1. Distinct(wait) /\ TablesApart /\ WaitApart /\ MatchSound
  BY DEF SeatInv, Tidy
<1>2. Sieved(wait, wait', {a})
  BY RemoveList
<1>3. Tables' = Tables /\ Gone' = Gone /\ (Matching' <=> Matching) /\ loop' = loop
  BY DEF Tables, Gone, Matching
<1>4. Len(wait) \in Nat /\ Len(wait') \in Nat
  BY <1>2, ListTypes DEF TInv, Sieved
<1>5. \A k \in 1..Len(wait') : \E n \in 1..Len(wait) : k <= n /\ wait'[k] = wait[n]
  BY <1>2 DEF Sieved
<1>6. Distinct(wait)'
  <2>1. Distinct(wait')
    BY <1>1, <1>2 DEF Sieved
  <2>. QED
    BY <2>1 DEF Distinct
<1>7. TablesApart' /\ WaitApart'
  <2>1. TablesApart'
    BY <1>1, <1>3 DEF TablesApart
  <2>2. ASSUME NEW p \in 1..Len(wait'), NEW n \in 1..Len(Tables), NEW i \in 1..Seats
        PROVE  wait'[p] # Tables[n][i]
    <3>1. PICK q \in 1..Len(wait) : wait'[p] = wait[q]
      BY <1>5
    <3>. QED
      BY <1>1, <3>1 DEF WaitApart
  <2>. QED
    BY <1>3, <2>1, <2>2 DEF WaitApart
<1>8. MatchSound'
  <2>1. ASSUME Matching, NEW k \in 1..Seats, NEW p \in 1..Len(wait'),
               wait'[p] = loop.players[k]
        PROVE  p <= k - Gone
    <3>1. PICK n \in 1..Len(wait) : p <= n /\ wait'[p] = wait[n]
      BY <1>5
    <3>2. n <= k - Gone
      BY <1>1, <2>1, <3>1 DEF MatchSound
    <3>3. Gone \in Int /\ k \in Int
      BY <2>1, SeatsType DEF TInv, Full, Gone
    <3>. QED
      BY <1>4, <3>1, <3>2, <3>3
  <2>2. Matching => \A k \in 1..Seats : \A p \in 1..Len(wait') :
                        wait'[p] = loop.players[k] => p <= k - Gone
    BY <2>1
  <2>3. Matching' =>
          /\ loop'.len < Seats
          /\ Distinct(loop'.players)
          /\ \A k \in 1..Seats : \A n \in 1..Len(Tables') : \A i \in 1..Seats :
                loop'.players[k] # Tables'[n][i]
    BY <1>1, <1>3 DEF MatchSound
  <2>4. Matching' => \A k \in 1..Seats : \A p \in 1..Len(wait') :
                         wait'[p] = loop'.players[k] => p <= k - Gone'
    BY <1>3, <2>2
  <2>. QED
    BY <2>3, <2>4 DEF MatchSound, Distinct
<1>. QED
  BY <1>6, <1>7, <1>8

\* The tables after a match was sent, a room opened or closed.
LEMMA TablesSent ==
    ASSUME TInv, matches' = Append(matches, loop.players), UNCHANGED rooms
    PROVE  /\ Len(Tables') = Len(Tables) + 1
           /\ \A n \in 1..Len(Tables) : Tables'[n] = Tables[n]
           /\ Tables'[Len(Tables) + 1] = loop.players
<1>1. /\ matches \in Seq(Seq(Accounts)) /\ rooms \in Seq(Seq(Accounts))
      /\ loop.players \in Seq(Accounts)
      /\ Len(matches) \in Nat /\ Len(rooms) \in Nat
      /\ Len(Tables) = Len(rooms) + Len(matches)
      /\ \A n \in 1..Len(Tables) : Tables[n] = IF n <= Len(rooms) THEN rooms[n]
                                               ELSE matches[n - Len(rooms)]
  BY TypeUse, ListTypes DEF TInv
<1>2. /\ matches' \in Seq(Seq(Accounts)) /\ Len(matches') = Len(matches) + 1
      /\ \A n \in 1..Len(matches) : matches'[n] = matches[n]
      /\ matches'[Len(matches) + 1] = loop.players
  BY <1>1, AppendProperties
<1>3. /\ Len(Tables') = Len(rooms) + Len(matches')
      /\ \A n \in 1..(Len(rooms) + Len(matches')) :
            Tables'[n] = IF n <= Len(rooms) THEN rooms[n]
                         ELSE matches'[n - Len(rooms)]
  BY <1>1, <1>2, ConcatProperties, SMTT(60) DEF Tables
<1>4. ASSUME NEW n \in 1..Len(Tables) PROVE Tables'[n] = Tables[n]
  <2>1. n \in 1..(Len(rooms) + Len(matches'))
    BY <1>1, <1>2
  <2>2. CASE n <= Len(rooms)
    BY <1>1, <1>3, <2>1, <2>2
  <2>3. CASE ~(n <= Len(rooms))
    <3>1. n - Len(rooms) \in 1..Len(matches)
      BY <1>1, <2>3
    <3>. QED
      BY <1>1, <1>2, <1>3, <2>1, <2>3, <3>1
  <2>. QED
    BY <2>2, <2>3
<1>5. Tables'[Len(Tables) + 1] = loop.players
  <2>1. /\ Len(Tables) + 1 \in 1..(Len(rooms) + Len(matches'))
        /\ ~(Len(Tables) + 1 <= Len(rooms))
        /\ Len(Tables) + 1 - Len(rooms) = Len(matches) + 1
    BY <1>1, <1>2
  <2>. QED
    BY <1>2, <1>3, <2>1
<1>. QED
  BY <1>1, <1>2, <1>3, <1>4, <1>5

LEMMA TablesOpened ==
    ASSUME TInv, OpenRoom
    PROVE  Tables' = Tables
<1>1. /\ matches \in Seq(Seq(Accounts)) /\ rooms \in Seq(Seq(Accounts))
      /\ Len(matches) \in Nat /\ Len(rooms) \in Nat
      /\ Tables \in Seq(Seq(Accounts))
      /\ Len(Tables) = Len(rooms) + Len(matches)
      /\ \A n \in 1..Len(Tables) : Tables[n] = IF n <= Len(rooms) THEN rooms[n]
                                               ELSE matches[n - Len(rooms)]
  BY TypeUse, ListTypes DEF TInv
<1>. DEFINE m == Head(matches)
<1>2. /\ m \in Seq(Accounts)
      /\ Tail(matches) \in Seq(Seq(Accounts))
      /\ Len(Tail(matches)) = Len(matches) - 1
      /\ \A n \in 1..Len(Tail(matches)) : Tail(matches)[n] = matches[n + 1]
  BY <1>1, HeadTailProperties DEF OpenRoom
<1>3. m = matches[1] /\ Len(matches) \in Nat \ {0}
  BY <1>1, EmptySeq DEF OpenRoom
<1>4. matches' = Tail(matches) /\ rooms' = Append(rooms, m)
  BY DEF OpenRoom
<1>. HIDE DEF m
<1>5. /\ rooms' \in Seq(Seq(Accounts)) /\ Len(rooms') = Len(rooms) + 1
      /\ \A n \in 1..Len(rooms) : rooms'[n] = rooms[n]
      /\ rooms'[Len(rooms) + 1] = m
  BY <1>1, <1>2, <1>4, AppendProperties
<1>6. /\ matches' \in Seq(Seq(Accounts)) /\ Len(matches') = Len(matches) - 1
      /\ \A n \in 1..Len(matches') : matches'[n] = matches[n + 1]
  BY <1>2, <1>4
<1>7. /\ Tables' \in Seq(Seq(Accounts))
      /\ Len(Tables') = Len(rooms') + Len(matches')
      /\ \A n \in 1..(Len(rooms') + Len(matches')) :
            Tables'[n] = IF n <= Len(rooms') THEN rooms'[n]
                         ELSE matches'[n - Len(rooms')]
  BY <1>5, <1>6, ConcatProperties DEF Tables
<1>8. Len(Tables') = Len(Tables)
  BY <1>1, <1>3, <1>5, <1>6, <1>7
<1>9. ASSUME NEW n \in 1..Len(Tables) PROVE Tables'[n] = Tables[n]
  <2>1. n \in 1..(Len(rooms') + Len(matches'))
    BY <1>7, <1>8
  <2>2. CASE n \in 1..Len(rooms)
    <3>1. n <= Len(rooms) /\ n <= Len(rooms')
      BY <1>1, <1>5, <2>2
    <3>. QED
      BY <1>1, <1>5, <1>7, <2>1, <2>2, <3>1
  <2>3. CASE n = Len(rooms) + 1
    <3>1. ~(n <= Len(rooms)) /\ n <= Len(rooms') /\ n - Len(rooms) = 1
      BY <1>1, <1>5, <2>3
    <3>. QED
      BY <1>1, <1>3, <1>5, <1>7, <2>1, <2>3, <3>1
  <2>4. CASE n > Len(rooms) + 1
    <3>1. /\ ~(n <= Len(rooms)) /\ ~(n <= Len(rooms'))
          /\ n - Len(rooms') \in 1..Len(matches')
          /\ n - Len(rooms') + 1 = n - Len(rooms)
      <4>1. /\ n \in Nat /\ Len(rooms) \in Nat /\ Len(matches) \in Nat
            /\ n <= Len(rooms) + Len(matches) /\ n > Len(rooms) + 1
            /\ Len(rooms') = Len(rooms) + 1 /\ Len(matches') = Len(matches) - 1
        BY <1>1, <1>5, <1>6, <2>4
      <4>. QED
        BY <4>1
    <3>2. Tables'[n] = matches'[n - Len(rooms')]
      <4>1. Tables'[n] = IF n <= Len(rooms') THEN rooms'[n]
                         ELSE matches'[n - Len(rooms')]
        BY <1>7, <2>1
      <4>. QED
        BY <3>1, <4>1
    <3>3. matches'[n - Len(rooms')] = matches[n - Len(rooms') + 1]
      BY <1>6, <3>1
    <3>4. Tables[n] = matches[n - Len(rooms)]
      BY <1>1, <3>1
    <3>. QED
      BY <3>1, <3>2, <3>3, <3>4
  <2>. QED
    BY <1>1, <2>2, <2>3, <2>4
<1>. QED
  BY <1>1, <1>7, <1>8, <1>9, SeqEqual

LEMMA TablesClosed ==
    ASSUME TInv, CloseRoom
    PROVE  /\ Len(Tables) \in Nat \ {0}
           /\ Head(rooms) = Tables[1]
           /\ Len(Tables') = Len(Tables) - 1
           /\ \A n \in 1..Len(Tables') : Tables'[n] = Tables[n + 1]
<1>1. /\ matches \in Seq(Seq(Accounts)) /\ rooms \in Seq(Seq(Accounts))
      /\ Len(matches) \in Nat /\ Len(rooms) \in Nat
      /\ Len(Tables) = Len(rooms) + Len(matches)
      /\ \A n \in 1..Len(Tables) : Tables[n] = IF n <= Len(rooms) THEN rooms[n]
                                               ELSE matches[n - Len(rooms)]
  BY TypeUse, ListTypes DEF TInv
<1>2. /\ rooms' \in Seq(Seq(Accounts)) /\ Len(rooms') = Len(rooms) - 1
      /\ \A n \in 1..Len(rooms') : rooms'[n] = rooms[n + 1]
  BY <1>1, HeadTailProperties DEF CloseRoom
<1>3. Head(rooms) = rooms[1] /\ Len(rooms) \in Nat \ {0}
  BY <1>1, EmptySeq DEF CloseRoom
<1>4. matches' = matches
  BY DEF CloseRoom
<1>5. /\ Len(Tables') = Len(rooms') + Len(matches)
      /\ \A n \in 1..(Len(rooms') + Len(matches)) :
            Tables'[n] = IF n <= Len(rooms') THEN rooms'[n]
                         ELSE matches[n - Len(rooms')]
  BY <1>1, <1>2, <1>4, ConcatProperties, SMTT(60) DEF Tables
<1>6. Len(Tables) \in Nat \ {0} /\ Len(Tables') = Len(Tables) - 1
  BY <1>1, <1>2, <1>3, <1>5
<1>7. Tables[1] = rooms[1]
  <2>1. 1 \in 1..Len(Tables) /\ 1 <= Len(rooms)
    BY <1>1, <1>3
  <2>. QED
    BY <1>1, <2>1
<1>8. ASSUME NEW n \in 1..Len(Tables') PROVE Tables'[n] = Tables[n + 1]
  <2>1. n \in 1..(Len(rooms') + Len(matches)) /\ n + 1 \in 1..Len(Tables)
    BY <1>5, <1>6
  <2>2. CASE n <= Len(rooms')
    <3>1. n \in 1..Len(rooms') /\ n + 1 <= Len(rooms)
      BY <1>1, <1>2, <2>2
    <3>. QED
      BY <1>1, <1>2, <1>5, <2>1, <2>2, <3>1
  <2>3. CASE ~(n <= Len(rooms'))
    <3>1. ~(n + 1 <= Len(rooms)) /\ n - Len(rooms') = (n + 1) - Len(rooms)
      BY <1>1, <1>2, <2>1, <2>3
    <3>. QED
      BY <1>1, <1>5, <2>1, <2>3, <3>1
  <2>. QED
    BY <2>2, <2>3
<1>. QED
  BY <1>3, <1>6, <1>7, <1>8

\* Between two pops the loop has popped the same players.
LEMMA GoneSame ==
    ASSUME TInv, DeleteMark \/ SetFinished
    PROVE  Gone' = Gone
<1>1. loop \in Loops /\ Seats \in Nat
  BY TypeUse, SeatsType
<1>2. Matching
  BY DEF DeleteMark, SetFinished, Matching
<1>3. CASE DeleteMark
  BY <1>1, <1>3 DEF DeleteMark, Gone, Loops
<1>4. CASE SetFinished
  <2>1. loop.i \in 1..Seats /\ loop.pc = "finish"
    BY <1>2, <1>4 DEF TInv, Full, SetFinished
  <2>2. CASE loop.i < Seats
    <3>1. loop' = [loop EXCEPT !.pc = "pop", !.i = loop.i + 1]
      BY <1>4, <2>2 DEF SetFinished
    <3>2. loop'.pc = "pop" /\ loop'.i = loop.i + 1
      BY <1>1, <3>1 DEF Loops
    <3>. QED
      BY <1>1, <2>1, <3>2 DEF Gone
  <2>3. CASE ~(loop.i < Seats)
    <3>1. loop' = [loop EXCEPT !.pc = "send"]
      BY <1>4, <2>3 DEF SetFinished
    <3>2. loop'.pc = "send" /\ loop'.i = loop.i
      BY <1>1, <3>1 DEF Loops
    <3>. QED
      BY <2>1, <3>2 DEF Gone
  <2>. QED
    BY <2>2, <2>3
<1>. QED
  BY <1>3, <1>4

LEMMA SeatLoop ==
    ASSUME TInv, SeatInv, Loop
    PROVE  SeatInv'
<1>. USE DEF lists, game
<1>1. loop \in Loops /\ Seats \in Nat /\ Seats >= 1 /\ wait \in Seq(Accounts)
      /\ Len(wait) \in Nat /\ Len(Tables) \in Nat
  BY TypeUse, SeatsType, ListTypes DEF TInv
<1>2. CASE FeedStatus \/ FeedExpire
  <2>1. Tables' = Tables /\ ~Matching' /\ wait' = wait /\ (Tidy' <=> Tidy)
    <3>1. loop'.pc \in {"expire", "range"}
      BY <1>1, <1>2 DEF FeedStatus, FeedExpire, Loops
    <3>. QED
      BY <1>2, <3>1 DEF FeedStatus, FeedExpire, Tables, Matching, Tidy
  <2>. QED
    BY <2>1 DEF SeatInv, Distinct, TablesApart, WaitApart, MatchSound
<1>3. CASE ReadWaiting
  <2>. SUFFICES ASSUME Tidy' PROVE Distinct(wait)' /\ TablesApart' /\ WaitApart'
                                   /\ MatchSound'
    BY DEF SeatInv
  <2>1. Tables' = Tables /\ wait' = wait
    BY <1>3 DEF ReadWaiting, Tables
  <2>2. Tidy /\ Len(wait) < 2 * Seats
    <3>1. marred' = IF Len(wait) >= 2 * Seats THEN marred \cup {"crowd"} ELSE marred
      BY <1>3 DEF ReadWaiting
    <3>2. "crowd" \notin marred' /\ marred' \cap {"crowd", "twice", "again"} = {}
      BY DEF Tidy
    <3>3. ~(Len(wait) >= 2 * Seats)
      BY <3>1, <3>2
    <3>4. Tidy
      BY <3>1, <3>2, <3>3 DEF Tidy
    <3>5. Len(wait) < 2 * Seats
      BY <1>1, <3>3
    <3>. QED
      BY <3>4, <3>5
  <2>3. Distinct(wait) /\ TablesApart /\ WaitApart
    BY <2>2 DEF SeatInv
  <2>4. Distinct(wait)' /\ TablesApart' /\ WaitApart'
    BY <2>1, <2>3 DEF Distinct, TablesApart, WaitApart
  <2>5. /\ Len(wait) < Seats => loop' = Resting
        /\ Len(wait) >= Seats =>
              /\ loop'.pc = "pop" /\ loop'.i = 1 /\ loop'.len = Len(wait) - Seats
              /\ Len(loop'.players) = Seats
              /\ \A k \in 1..Seats : loop'.players[k] = wait[k]
    BY <1>1, <1>3, Round DEF ReadWaiting
  <2>6. CASE Len(wait) < Seats
    BY <2>4, <2>5, <2>6 DEF MatchSound, Matching, Resting
  <2>7. CASE Len(wait) >= Seats
    <3>1. loop'.len < Seats /\ \A k \in 1..Seats : k \in 1..Len(wait)
      BY <1>1, <2>2, <2>5, <2>7
    <3>2. Distinct(loop'.players)
      BY <2>3, <2>5, <2>7, <3>1 DEF Distinct
    <3>3. \A k \in 1..Seats : \A n \in 1..Len(Tables') : \A i \in 1..Seats :
              loop'.players[k] # Tables'[n][i]
      BY <2>1, <2>3, <2>5, <2>7, <3>1 DEF WaitApart
    <3>4. Gone' = 0
      BY <2>5, <2>7 DEF Gone
    <3>5. ASSUME NEW k \in 1..Seats, NEW p \in 1..Len(wait'),
                 wait'[p] = loop'.players[k]
          PROVE  p <= k - Gone'
      <4>1. wait[p] = wait[k] /\ p \in 1..Len(wait) /\ k \in 1..Len(wait)
        BY <2>1, <2>5, <2>7, <3>1, <3>5
      <4>2. p = k
        BY <2>3, <4>1 DEF Distinct
      <4>. QED
        BY <1>1, <3>4, <4>2
    <3>6. MatchSound'
      BY <3>1, <3>2, <3>3, <3>5 DEF MatchSound, Distinct
    <3>. QED
      BY <2>4, <3>6
  <2>. QED
    BY <1>1, <2>6, <2>7
<1>4. CASE PopWaiting
  <2>. SUFFICES ASSUME Tidy' PROVE Distinct(wait)' /\ TablesApart' /\ WaitApart'
                                   /\ MatchSound'
    BY DEF SeatInv
  <2>1. /\ Tables' = Tables /\ Tidy /\ Matching /\ loop'.pc = "unmark"
        /\ loop'.players = loop.players /\ loop'.len = loop.len /\ loop'.i = loop.i
        /\ loop.pc = "pop" /\ wait' = Popped
    BY <1>1, <1>4 DEF PopWaiting, Tables, Tidy, Matching, Loops
  <2>2. Distinct(wait) /\ TablesApart /\ WaitApart /\ MatchSound
    BY <2>1 DEF SeatInv
  <2>3. loop.i \in 1..Seats /\ Gone = loop.i - 1 /\ Gone' = loop.i
    BY <2>1 DEF TInv, Full, Gone
  <2>4. \/ wait' = wait /\ Len(wait) = 0
        \/ /\ Len(wait) >= 1 /\ Len(wait') = Len(wait) - 1
           /\ \A p \in 1..Len(wait') : wait'[p] = wait[p + 1]
    BY <2>1, PopList
  <2>5. CASE wait' = wait /\ Len(wait) = 0
    <3>1. Distinct(wait)' /\ TablesApart' /\ WaitApart'
      BY <2>1, <2>2, <2>5 DEF Distinct, TablesApart, WaitApart
    <3>2. MatchSound'
      BY <2>1, <2>2, <2>5 DEF MatchSound, Distinct
    <3>. QED
      BY <3>1, <3>2
  <2>6. CASE /\ Len(wait) >= 1 /\ Len(wait') = Len(wait) - 1
             /\ \A p \in 1..Len(wait') : wait'[p] = wait[p + 1]
    <3>1. \A p \in 1..Len(wait') : p + 1 \in 1..Len(wait) /\ wait'[p] = wait[p + 1]
      BY <1>1, <2>6
    <3>2. ASSUME NEW p \in 1..Len(wait'), NEW q \in 1..Len(wait'), wait'[p] = wait'[q]
          PROVE  p = q
      <4>1. p + 1 = q + 1
        BY <2>2, <3>1, <3>2 DEF Distinct
      <4>2. Len(wait') \in Nat
        BY <1>1, <2>6
      <4>. QED
        BY <4>1, <4>2
    <3>3. TablesApart'
      BY <2>1, <2>2 DEF TablesApart
    <3>4. WaitApart'
      <4>1. ASSUME NEW p \in 1..Len(wait'), NEW n \in 1..Len(Tables),
                   NEW i \in 1..Seats
            PROVE  wait'[p] # Tables[n][i]
        BY <2>2, <3>1 DEF WaitApart
      <4>. QED
        BY <2>1, <4>1 DEF WaitApart
    <3>5. ASSUME NEW k \in 1..Seats, NEW p \in 1..Len(wait'),
                 wait'[p] = loop.players[k]
          PROVE  p <= k - Gone'
      <4>1. p + 1 <= k - Gone
        BY <2>1, <2>2, <3>1, <3>5 DEF MatchSound
      <4>2. Len(wait') \in Nat
        BY <1>1, <2>6
      <4>. QED
        BY <1>1, <2>3, <4>1, <4>2, SMTT(60)
    <3>6. /\ loop'.len < Seats /\ Distinct(loop'.players)
          /\ \A k \in 1..Seats : \A n \in 1..Len(Tables') : \A i \in 1..Seats :
                loop'.players[k] # Tables'[n][i]
      BY <2>1, <2>2 DEF MatchSound
    <3>7. MatchSound'
      BY <2>1, <3>5, <3>6 DEF MatchSound, Distinct
    <3>. QED
      BY <3>2, <3>3, <3>4, <3>7 DEF Distinct
  <2>. QED
    BY <2>4, <2>5, <2>6
<1>5. CASE DeleteMark \/ SetFinished
  <2>1. /\ Tables' = Tables /\ (Tidy' <=> Tidy) /\ wait' = wait /\ Matching
        /\ loop'.players = loop.players /\ loop'.len = loop.len
    BY <1>1, <1>5 DEF DeleteMark, SetFinished, Tables, Tidy, Matching, Loops
  <2>2. Gone' = Gone
    BY <1>5, GoneSame
  <2>3. Distinct(wait)' /\ TablesApart' /\ WaitApart' /\ MatchSound'
        <=> Distinct(wait) /\ TablesApart /\ WaitApart /\ (Matching' => MatchSound)
    BY <2>1, <2>2 DEF Distinct, TablesApart, WaitApart, MatchSound
  <2>. QED
    BY <2>1, <2>3 DEF SeatInv
<1>6. CASE SendMatch
  <2>. SUFFICES ASSUME Tidy' PROVE Distinct(wait)' /\ TablesApart' /\ WaitApart'
                                   /\ MatchSound'
    BY DEF SeatInv
  <2>1. wait' = wait /\ Tidy /\ Matching /\ loop.pc = "send" /\ rooms' = rooms
    BY <1>6 DEF SendMatch, Tidy, Matching
  <2>2. Distinct(wait) /\ TablesApart /\ WaitApart /\ MatchSound
    BY <2>1 DEF SeatInv
  <2>3. /\ loop.i = Seats /\ Len(loop.players) = Seats /\ Gone = Seats
        /\ loop.len < Seats /\ loop.len \in Nat /\ loop.players \in Seq(Accounts)
    BY <1>1, <2>1, <2>2 DEF TInv, Full, Gone, MatchSound, Loops
  <2>4. loop' = Resting
    BY <1>1, <1>6, <2>3, Round DEF SendMatch
  <2>5. MatchSound'
    BY <2>4 DEF MatchSound, Matching, Resting
  <2>6. Distinct(wait)'
    BY <2>1, <2>2 DEF Distinct
  <2>7. CASE matches' = matches
    <3>1. Tables' = Tables
      BY <2>1, <2>7 DEF Tables
    <3>. QED
      BY <2>1, <2>2, <2>5, <2>6, <3>1, SMTT(60) DEF TablesApart, WaitApart
  <2>8. CASE matches' = Append(matches, loop.players)
    <3>1. /\ Len(Tables') = Len(Tables) + 1
          /\ \A n \in 1..Len(Tables) : Tables'[n] = Tables[n]
          /\ Tables'[Len(Tables) + 1] = loop.players
      BY <2>1, <2>8, TablesSent
    <3>2. \A n \in 1..Len(Tables') : n \in 1..Len(Tables) \/ n = Len(Tables) + 1
      BY <1>1, <3>1
    <3>3. \A k \in 1..Seats : \A n \in 1..Len(Tables) : \A i \in 1..Seats :
              loop.players[k] # Tables[n][i]
      BY <2>1, <2>2 DEF MatchSound
    <3>4. \A i, j \in 1..Seats : loop.players[i] = loop.players[j] => i = j
      BY <2>1, <2>2, <2>3 DEF MatchSound, Distinct
    <3>5. ASSUME NEW m \in 1..Len(Tables'), NEW n \in 1..Len(Tables'),
                 NEW i \in 1..Seats, NEW j \in 1..Seats,
                 Tables'[m][i] = Tables'[n][j]
          PROVE  m = n /\ i = j
      <4>1. CASE m \in 1..Len(Tables) /\ n \in 1..Len(Tables)
        BY <2>2, <3>1, <3>5, <4>1 DEF TablesApart
      <4>2. CASE m = Len(Tables) + 1 /\ n \in 1..Len(Tables)
        BY <3>1, <3>3, <3>5, <4>2
      <4>3. CASE m \in 1..Len(Tables) /\ n = Len(Tables) + 1
        BY <3>1, <3>3, <3>5, <4>3
      <4>4. CASE m = Len(Tables) + 1 /\ n = Len(Tables) + 1
        BY <3>1, <3>4, <3>5, <4>4
      <4>. QED
        BY <3>2, <4>1, <4>2, <4>3, <4>4
    <3>6. TablesApart'
      BY <3>5 DEF TablesApart
    <3>7. ASSUME NEW p \in 1..Len(wait), NEW k \in 1..Seats
          PROVE  wait[p] # loop.players[k]
      <4>1. wait[p] = loop.players[k] => p <= k - Seats
        BY <2>1, <2>2, <2>3 DEF MatchSound
      <4>2. ~(p <= k - Seats)
        BY <1>1
      <4>. QED
        BY <4>1, <4>2
    <3>8. ASSUME NEW p \in 1..Len(wait'), NEW n \in 1..Len(Tables'), NEW i \in 1..Seats
          PROVE  wait'[p] # Tables'[n][i]
      <4>1. CASE n \in 1..Len(Tables)
        BY <2>1, <2>2, <3>1, <4>1 DEF WaitApart
      <4>2. CASE n = Len(Tables) + 1
        BY <2>1, <3>1, <3>7, <4>2
      <4>. QED
        BY <3>2, <4>1, <4>2
    <3>9. WaitApart'
      BY <3>8 DEF WaitApart
    <3>. QED
      BY <2>5, <2>6, <3>6, <3>9
  <2>. QED
    BY <1>6, <2>7, <2>8 DEF SendMatch
<1>. QED
  BY <1>2, <1>3, <1>4, <1>5, <1>6 DEF Loop

LEMMA SeatRoom ==
    ASSUME TInv, SeatInv, OpenRoom \/ CloseRoom
    PROVE  SeatInv'
<1>. USE DEF lists, game, actors
<1>1. wait' = wait /\ loop' = loop /\ (Tidy' <=> Tidy) /\ Gone' = Gone
      /\ (Matching' <=> Matching)
  BY DEF OpenRoom, CloseRoom, Tidy, Gone, Matching
<1>2. CASE OpenRoom
  <2>1. Tables' = Tables
    BY <1>2, TablesOpened
  <2>. QED
    BY <1>1, <2>1 DEF SeatInv, Distinct, TablesApart, WaitApart, MatchSound
<1>3. CASE CloseRoom
  <2>. SUFFICES ASSUME Tidy' PROVE Distinct(wait)' /\ TablesApart' /\ WaitApart'
                                   /\ MatchSound'
    BY DEF SeatInv
  <2>1. Distinct(wait) /\ TablesApart /\ WaitApart /\ MatchSound
    BY <1>1 DEF SeatInv
  <2>2. /\ Len(Tables) \in Nat \ {0}
        /\ Len(Tables') = Len(Tables) - 1
        /\ \A n \in 1..Len(Tables') : Tables'[n] = Tables[n + 1]
    BY <1>3, TablesClosed
  <2>3. \A n \in 1..Len(Tables') : n + 1 \in 1..Len(Tables) /\ Tables'[n] = Tables[n + 1]
    BY <2>2
  <2>4. Distinct(wait)'
    BY <1>1, <2>1 DEF Distinct
  <2>5. ASSUME NEW m \in 1..Len(Tables'), NEW n \in 1..Len(Tables'),
               NEW i \in 1..Seats, NEW j \in 1..Seats,
               Tables'[m][i] = Tables'[n][j]
        PROVE  m = n /\ i = j
    <3>1. m + 1 = n + 1 /\ i = j
      <4>1. /\ m + 1 \in 1..Len(Tables) /\ n + 1 \in 1..Len(Tables)
            /\ Tables[m + 1][i] = Tables[n + 1][j]
        BY <2>3, <2>5
      <4>. QED
        BY <2>1, <4>1 DEF TablesApart
    <3>2. Len(Tables') \in Nat
      BY <2>2
    <3>. QED
      BY <3>1, <3>2
  <2>6. ASSUME NEW p \in 1..Len(wait), NEW n \in 1..Len(Tables'), NEW i \in 1..Seats
        PROVE  wait[p] # Tables'[n][i]
    BY <2>1, <2>3 DEF WaitApart
  <2>7. Matching =>
          \A k \in 1..Seats : \A n \in 1..Len(Tables') : \A i \in 1..Seats :
              loop.players[k] # Tables'[n][i]
    BY <2>1, <2>3 DEF MatchSound
  <2>8. MatchSound'
    BY <1>1, <2>1, <2>7 DEF MatchSound, Distinct
  <2>. QED
    BY <1>1, <2>4, <2>5, <2>6, <2>8, SMTT(60) DEF TablesApart, WaitApart
<1>. QED
  BY <1>2, <1>3

LEMMA SeatStep ==
    ASSUME TInv, SeatInv, [Next]_vars
    PROVE  SeatInv'
<1>. USE DEF lists, game, actors, bounds
<1>1. CASE UNCHANGED vars
  <2>1. UNCHANGED <<wait, matches, rooms, loop>> /\ marred \subseteq marred'
    BY <1>1 DEF vars
  <2>. QED
    BY <2>1, SeatFrame
<1>2. CASE Loop
  BY <1>2, SeatLoop
<1>3. CASE OpenRoom \/ CloseRoom
  BY <1>3, SeatRoom
<1>4. CASE JoinPush
  <2>1. PICK a \in Accounts : worker.who = <<a>> /\ worker.who[1] = a
    BY <1>4, WorkerWho DEF JoinPush, WorkerAt, Single
  <2>2. /\ wait' = wait \o worker.who /\ marred' = marred \cup PushCause(a)
        /\ UNCHANGED <<matches, rooms, loop>>
    BY <1>4, <2>1 DEF JoinPush, PushWaiting
  <2>. QED
    BY <2>1, <2>2, SeatPush
<1>5. CASE CancelPipe
  <2>1. PICK a \in Accounts : Members(worker.who) = {a}
    BY <1>5, WorkerWho DEF CancelPipe, WorkerAt, Single
  <2>2. UNCHANGED <<matches, rooms, loop>> /\ marred \subseteq marred'
    BY <1>5 DEF CancelPipe
  <2>3. wait' = Without(wait, {a}) \/ wait' = wait
    BY <1>5, <2>1 DEF CancelPipe, Cancelled
  <2>. QED
    BY <2>2, <2>3, SeatRemove, SeatFrame
<1>6. CASE Worker /\ ~JoinPush /\ ~CancelPipe
  <2>1. UNCHANGED <<wait, matches, rooms, loop>> /\ marred \subseteq marred'
    BY <1>6 DEF Worker, WorkerReads, StartReading, PopProtocol, JoinExit, JoinLook,
                CancelMine, CancelGet, CancelScan, JoinSuccess, LeaveSuccess,
                CloseQueue, CloseStatus
  <2>. QED
    BY <2>1, SeatFrame
<1>7. ASSUME NEW t \in Threads, HallStep(t) PROVE SeatInv'
  <2>1. CASE HallPush(t)
    <3>1. PICK a \in Accounts : hall[t].who = <<a>> /\ hall[t].who[1] = a
      BY <2>1, HallWho DEF HallPush
    <3>2. /\ wait' = wait \o hall[t].who /\ marred' = marred \cup PushCause(a)
          /\ UNCHANGED <<matches, rooms, loop>>
      BY <2>1, <3>1 DEF HallPush, PushWaiting
    <3>. QED
      BY <3>1, <3>2, SeatPush
  <2>2. CASE HallRemove(t)
    <3>1. PICK a \in Accounts : Members(hall[t].who) = {a}
      BY <2>2, HallWho DEF HallRemove
    <3>2. /\ wait' = Without(wait, {a}) /\ marred \subseteq marred'
          /\ UNCHANGED <<matches, rooms, loop>>
      BY <2>2, <3>1 DEF HallRemove
    <3>. QED
      BY <3>2, SeatRemove
  <2>3. CASE ~HallPush(t) /\ ~HallRemove(t)
    <3>1. UNCHANGED <<wait, matches, rooms, loop>> /\ marred \subseteq marred'
      BY <1>7, <2>3, HallQuiet
    <3>. QED
      BY <3>1, SeatFrame
  <2>. QED
    BY <2>1, <2>2, <2>3
<1>8. CASE RestartService
  <2>1. /\ Tables' = Tables /\ wait' = wait /\ ~Matching' /\ (Tidy' => Tidy)
    BY <1>8 DEF RestartService, Tables, Matching, Resting, Tidy
  <2>. QED
    BY <2>1 DEF SeatInv, Distinct, TablesApart, WaitApart, MatchSound
<1>9. CASE Players \/ Send("close", <<>>) \/ ExpireStatus \/ WorkerFails
  <2>1. UNCHANGED <<wait, matches, rooms, loop>> /\ marred \subseteq marred'
    BY <1>9 DEF Players, Send, HallJoin, HallNotJoin, HallCheck, HallEnterRoom, Ask,
                ExpireStatus, WorkerFails
  <2>. QED
    BY <2>1, SeatFrame
<1>. QED
  BY <1>1, <1>2, <1>3, <1>4, <1>5, <1>6, <1>7, <1>8, <1>9 DEF Next

LEMMA InitSeat == ASSUME Init PROVE SeatInv
<1>1. Len(wait) = 0 /\ Len(Tables) = 0 /\ ~Matching
  <2>1. wait = <<>> /\ rooms = <<>> /\ matches = <<>> /\ loop = Resting
    BY DEF Init
  <2>2. <<>> \in Seq(Seq(Accounts)) /\ Len(<<>>) = 0
    BY EmptySeq
  <2>3. Tables = <<>>
    BY <2>1, <2>2, ConcatEmptySeq DEF Tables
  <2>. QED
    BY <2>1, <2>2, <2>3 DEF Matching, Resting
<1>. QED
  BY <1>1 DEF SeatInv, Distinct, TablesApart, WaitApart, MatchSound

\* Two seats of one account at the tables of the rooms and matches are one seat.
LEMMA OneSeat ==
    ASSUME TInv, SeatInv, Tidy, NEW a
    PROVE  Times(a) \in {0, 1}
<1>. DEFINE A == SeatsOf(a, matches)
            B == SeatsOf(a, rooms)
<1>1. /\ Len(rooms) \in Nat /\ Len(matches) \in Nat
      /\ Len(Tables) = Len(rooms) + Len(matches)
      /\ \A n \in 1..Len(Tables) : Tables[n] = IF n <= Len(rooms) THEN rooms[n]
                                               ELSE matches[n - Len(rooms)]
  BY ListTypes DEF TInv
<1>2. ASSUME NEW x \in A
      PROVE  /\ x[1] \in 1..Len(matches) /\ x[2] \in 1..Seats /\ x = <<x[1], x[2]>>
             /\ x[1] + Len(rooms) \in 1..Len(Tables)
             /\ Tables[x[1] + Len(rooms)][x[2]] = a
  <2>1. /\ x[1] \in 1..Len(matches) /\ x[2] \in 1..Seats /\ x = <<x[1], x[2]>>
        /\ matches[x[1]][x[2]] = a
    BY DEF SeatsOf
  <2>. DEFINE n == x[1] + Len(rooms)
  <2>2. n \in 1..Len(Tables) /\ ~(n <= Len(rooms)) /\ n - Len(rooms) = x[1]
    BY <1>1, <2>1
  <2>. HIDE DEF n
  <2>3. Tables[n] = matches[x[1]]
    BY <1>1, <2>2
  <2>. QED
    BY <2>1, <2>2, <2>3 DEF n
<1>3. ASSUME NEW x \in B
      PROVE  /\ x[1] \in 1..Len(rooms) /\ x[2] \in 1..Seats /\ x = <<x[1], x[2]>>
             /\ x[1] \in 1..Len(Tables)
             /\ Tables[x[1]][x[2]] = a
  <2>1. /\ x[1] \in 1..Len(rooms) /\ x[2] \in 1..Seats /\ x = <<x[1], x[2]>>
        /\ rooms[x[1]][x[2]] = a
    BY DEF SeatsOf
  <2>2. x[1] \in 1..Len(Tables) /\ x[1] <= Len(rooms)
    BY <1>1, <2>1
  <2>. QED
    BY <1>1, <2>1, <2>2
<1>4. TablesApart
  BY DEF SeatInv
<1>. HIDE DEF A, B
<1>5. ASSUME NEW x \in A, NEW y \in A PROVE x = y
  <2>1. x[1] + Len(rooms) = y[1] + Len(rooms) /\ x[2] = y[2]
    BY <1>2, <1>4, SMTT(60) DEF TablesApart
  <2>2. x[1] = y[1]
    BY <1>1, <1>2, <2>1
  <2>. QED
    BY <1>2, <2>1, <2>2
<1>6. ASSUME NEW x \in B, NEW y \in B PROVE x = y
  <2>1. x[1] = y[1] /\ x[2] = y[2]
    BY <1>3, <1>4 DEF TablesApart
  <2>. QED
    BY <1>3, <2>1
<1>7. ASSUME NEW x \in A, NEW y \in B PROVE FALSE
  <2>1. x[1] + Len(rooms) = y[1]
    BY <1>2, <1>3, <1>4, SMTT(60) DEF TablesApart
  <2>. QED
    BY <1>1, <1>2, <1>3, <2>1
<1>8. ASSUME NEW S, \A x, y \in S : x = y
      PROVE  Cardinality(S) \in {0, 1} /\ (S = {} => Cardinality(S) = 0)
  <2>1. CASE S = {}
    BY <2>1, FS_EmptySet
  <2>2. CASE S # {}
    <3>1. PICK x \in S : TRUE
      BY <2>2
    <3>2. S = {x}
      BY <1>8, <3>1
    <3>3. Cardinality({x}) = 1
      BY FS_Singleton
    <3>. QED
      BY <2>2, <3>2, <3>3
  <2>. QED
    BY <2>1, <2>2
<1>9. /\ Cardinality(A) \in {0, 1} /\ (A = {} => Cardinality(A) = 0)
      /\ Cardinality(B) \in {0, 1} /\ (B = {} => Cardinality(B) = 0)
  BY <1>5, <1>6, <1>8
<1>10. A = {} \/ B = {}
  BY <1>7
<1>11. Times(a) = Cardinality(A) + Cardinality(B)
  BY DEF Times, A, B
<1>. QED
  BY <1>9, <1>10, <1>11

(***************************************************************************)
(* The loop matches the players it has read and pops whoever comes first   *)
(* by then: nobody gets two seats by it unless two tables were waiting,    *)
(* or an account was pushed that was there or matched.                     *)
(***************************************************************************)
THEOREM MatchedOnceTheorem == Spec => []MatchedOnce
<1>1. Init => TInv /\ SeatInv
  BY InitTInv, InitSeat
<1>2. TInv /\ SeatInv /\ [Next]_vars => TInv' /\ SeatInv'
  BY TStep, SeatStep
<1>3. TInv /\ SeatInv => MatchedOnce
  <2>. SUFFICES ASSUME TInv, SeatInv, NEW a \in Accounts, Times(a) > 1, Tidy
                PROVE  FALSE
    BY DEF MatchedOnce, Tidy
  <2>1. Times(a) \in {0, 1}
    BY OneSeat
  <2>. QED
    BY <2>1
<1>. QED
  BY <1>1, <1>2, <1>3, PTL DEF Spec

----------------------------------------------------------------------------
(* Those who are matched have applied *)

\* A withdrawal of somebody who is matched or being matched is late.
LEMMA RemoveFree ==
    ASSUME NEW a, marred' = marred \cup RemoveCause(a), Calm'
    PROVE  Calm /\ ~Engaged(a)
  BY DEF Calm, Tidy, RemoveCause

\* A push between the reading and the deletion of something of the account's
\* is stale.
LEMMA PushCalm ==
    ASSUME NEW a, marred' = marred \cup PushCause(a), Calm'
    PROVE  /\ Calm
           /\ worker.pc = "cancel" => worker.who # <<a>>
           /\ \A t \in Threads : hall[t].pc = "unfin" => hall[t].who # <<a>>
<1>1. "stale" \in Causes
  BY DEF Causes
<1>2. "stale" \notin PushCause(a)
  BY DEF Calm
<1>3. Calm
  BY DEF Calm, Tidy
<1>. QED
  BY <1>1, <1>2, <1>3 DEF PushCause

\* A step that leaves the list and the tables alone.
LEMMA WantFrame ==
    ASSUME WantInv, UNCHANGED <<wait, mark, matches, applied, loop>>,
           marred \subseteq marred',
           Calm /\ worker'.pc = "cancel" /\ ~worker'.found =>
               worker'.who[1] \notin Members(wait)
    PROVE  WantInv'
<1>. SUFFICES ASSUME Calm' PROVE Wanted'
  BY DEF WantInv
<1>1. Calm
  BY DEF Calm, Tidy
<1>2. Wanted
  BY <1>1 DEF WantInv
<1>3. Members(wait)' = Members(wait) /\ Members(loop.players)' = Members(loop.players)
      /\ (Matching' <=> Matching)
      /\ \A n : Members(matches[n])' = Members(matches[n])
  BY DEF Members, Matching
<1>. QED
  BY <1>1, <1>2, <1>3 DEF Wanted

LEMMA WantPush ==
    ASSUME TInv, WantInv, NEW a \in Accounts, NEW w, w = <<a>>,
           wait' = wait \o w, mark' = mark \cup {a}, applied' = applied \cup {a},
           marred' = marred \cup PushCause(a),
           UNCHANGED <<matches, loop>>,
           worker'.pc = "cancel" => worker' = worker
    PROVE  WantInv'
<1>. SUFFICES ASSUME Calm' PROVE Wanted'
  BY DEF WantInv
<1>1. Calm /\ (worker.pc = "cancel" => worker.who # <<a>>)
  BY PushCalm
<1>2. Wanted
  BY <1>1 DEF WantInv
<1>3. Members(wait') = Members(wait) \cup {a}
  BY PushList
<1>4. Members(wait)' = Members(wait')
  BY DEF Members
<1>5. Members(loop.players)' = Members(loop.players)
      /\ (Matching' <=> Matching)
      /\ \A n : Members(matches[n])' = Members(matches[n])
  BY DEF Members, Matching
<1>6. worker'.pc = "cancel" /\ ~worker'.found =>
          worker'.who[1] \notin Members(wait')
  <2>. SUFFICES ASSUME worker'.pc = "cancel", ~worker'.found
                PROVE  worker'.who[1] \notin Members(wait')
    OBVIOUS
  <2>1. worker' = worker /\ worker.pc \in Single
    BY DEF Single
  <2>2. PICK b \in Accounts : worker.who = <<b>> /\ worker.who[1] = b
    BY <2>1, WorkerWho
  <2>3. b # a
    BY <1>1, <2>1, <2>2
  <2>4. b \notin Members(wait)
    BY <1>2, <2>1, <2>2 DEF Wanted
  <2>. QED
    BY <1>3, <2>1, <2>2, <2>3, <2>4
<1>. QED
  BY <1>2, <1>3, <1>4, <1>5, <1>6 DEF Wanted

LEMMA WantRemove ==
    ASSUME TInv, WantInv, NEW a \in Accounts,
           Calm => Members(wait)' = Members(wait) \ {a},
           mark \ {a} \subseteq mark', applied' = applied \ {a},
           marred' = marred \cup RemoveCause(a),
           UNCHANGED <<matches, loop>>,
           worker'.pc = "cancel" => worker' = worker
    PROVE  WantInv'
<1>. SUFFICES ASSUME Calm' PROVE Wanted'
  BY DEF WantInv
<1>1. Calm /\ ~Engaged(a)
  BY RemoveFree
<1>2. Wanted
  BY <1>1 DEF WantInv
<1>3. Members(wait)' = Members(wait) \ {a}
  BY <1>1
<1>4. Members(loop.players)' = Members(loop.players)
      /\ (Matching' <=> Matching)
      /\ \A n : Members(matches[n])' = Members(matches[n])
  BY DEF Members, Matching
<1>5. /\ Matching => a \notin Members(loop.players)
      /\ \A n \in 1..Len(matches) : a \notin Members(matches[n])
  BY <1>1, NotEngaged
<1>. QED
  BY <1>2, <1>3, <1>4, <1>5 DEF Wanted

LEMMA WantLoop ==
    ASSUME TInv, SeatInv, WantInv, Loop
    PROVE  WantInv'
<1>. USE DEF lists, game
<1>1. loop \in Loops /\ Seats \in Nat /\ Seats >= 1 /\ wait \in Seq(Accounts)
      /\ Len(wait) \in Nat /\ Len(matches) \in Nat
  BY TypeUse, SeatsType, ListTypes DEF TInv
<1>. SUFFICES ASSUME Calm' PROVE Wanted'
  BY DEF WantInv
<1>2. Calm /\ worker' = worker /\ applied' = applied
  BY DEF Loop, FeedStatus, FeedExpire, ReadWaiting, PopWaiting, DeleteMark,
         SetFinished, SendMatch, Calm, Tidy
<1>3. Wanted
  BY <1>2 DEF WantInv
<1>4. CASE FeedStatus \/ FeedExpire
  <2>1. loop'.pc \in {"expire", "range"}
    BY <1>1, <1>4 DEF FeedStatus, FeedExpire, Loops
  <2>2. wait' = wait /\ mark' = mark /\ matches' = matches /\ ~Matching'
    BY <1>4, <2>1 DEF FeedStatus, FeedExpire, Matching
  <2>. QED
    BY <1>2, <1>3, <2>2 DEF Wanted, Members
<1>5. CASE ReadWaiting
  <2>1. /\ Len(wait) < Seats => loop' = Resting
        /\ Len(wait) >= Seats =>
              /\ Len(loop'.players) = Seats
              /\ \A k \in 1..Seats : loop'.players[k] = wait[k]
    BY <1>1, <1>5, Round DEF ReadWaiting
  <2>2. wait' = wait /\ mark' = mark /\ matches' = matches
    BY <1>5 DEF ReadWaiting
  <2>3. Matching' => Members(loop'.players) \subseteq applied'
    <3>1. CASE Len(wait) < Seats
      BY <2>1, <3>1 DEF Matching, Resting
    <3>2. CASE Len(wait) >= Seats
      <4>1. \A k \in 1..Seats : k \in 1..Len(wait)
        BY <1>1, <3>2
      <4>2. Members(loop'.players) \subseteq Members(wait)
        BY <2>1, <3>2, <4>1 DEF Members
      <4>. QED
        BY <1>2, <1>3, <4>2 DEF Wanted
    <3>. QED
      BY <1>1, <3>1, <3>2
  <2>. QED
    BY <1>2, <1>3, <2>2, <2>3 DEF Wanted, Members
<1>6. CASE PopWaiting
  <2>1. Members(wait') \subseteq Members(wait)
    BY <1>6, PopList DEF PopWaiting
  <2>2. Members(wait)' = Members(wait')
    BY DEF Members
  <2>3. Matching /\ loop'.players = loop.players /\ mark' = mark /\ matches' = matches
    BY <1>1, <1>6 DEF PopWaiting, Matching, Loops
  <2>4. /\ Members(loop.players)' = Members(loop.players)
        /\ \A n : Members(matches[n])' = Members(matches[n])
    BY <2>3 DEF Members
  <2>. QED
    BY <1>2, <1>3, <2>1, <2>2, <2>3, <2>4 DEF Wanted
<1>7. CASE DeleteMark
  <2>. DEFINE b == loop.players[loop.i]
  <2>1. /\ Matching /\ loop.pc = "unmark" /\ loop'.players = loop.players
        /\ wait' = wait /\ matches' = matches /\ mark' = mark \ {b}
    BY <1>1, <1>7 DEF DeleteMark, Matching, Loops
  <2>2. loop.i \in 1..Seats /\ Gone = loop.i
    BY <2>1 DEF TInv, Full, Gone
  <2>3. MatchSound
    BY <1>2 DEF SeatInv, Calm
  <2>4. b \notin Members(wait)
    <3>1. ASSUME NEW p \in 1..Len(wait), wait[p] = b PROVE FALSE
      <4>1. p <= loop.i - loop.i
        BY <2>1, <2>2, <2>3, <3>1 DEF MatchSound
      <4>. QED
        BY <1>1, <2>2, <4>1
    <3>. QED
      BY <3>1 DEF Members
  <2>. HIDE DEF b
  <2>5. /\ Members(wait)' = Members(wait)
        /\ Members(loop.players)' = Members(loop.players)
        /\ \A n : Members(matches[n])' = Members(matches[n])
    BY <2>1 DEF Members
  <2>. QED
    BY <1>2, <1>3, <2>1, <2>4, <2>5 DEF Wanted
<1>8. CASE SetFinished
  <2>1. /\ Matching /\ loop'.players = loop.players
        /\ wait' = wait /\ matches' = matches /\ mark' = mark
    BY <1>1, <1>8 DEF SetFinished, Matching, Loops
  <2>2. /\ Members(wait)' = Members(wait)
        /\ Members(loop.players)' = Members(loop.players)
        /\ \A n : Members(matches[n])' = Members(matches[n])
    BY <2>1 DEF Members
  <2>. QED
    BY <1>2, <1>3, <2>1, <2>2 DEF Wanted
<1>9. CASE SendMatch
  <2>1. Matching /\ wait' = wait /\ mark' = mark
    BY <1>9 DEF SendMatch, Matching
  <2>2. loop.len < Seats /\ loop.len \in Nat /\ loop.players \in Seq(Accounts)
    BY <1>1, <1>2, <2>1 DEF SeatInv, Calm, MatchSound, Loops
  <2>3. loop' = Resting
    BY <1>1, <1>9, <2>2, Round DEF SendMatch
  <2>4. Members(wait)' = Members(wait) /\ ~Matching'
    BY <2>1, <2>3 DEF Members, Matching, Resting
  <2>5. \A n \in 1..Len(matches') : Members(matches'[n]) \subseteq applied
    <3>1. CASE matches' = matches
      BY <1>3, <3>1 DEF Wanted
    <3>2. CASE matches' = Append(matches, loop.players)
      <4>1. /\ Len(matches') = Len(matches) + 1
            /\ \A n \in 1..Len(matches) : matches'[n] = matches[n]
            /\ matches'[Len(matches) + 1] = loop.players
        BY <2>2, <3>2, TypeUse, AppendProperties
      <4>2. \A n \in 1..Len(matches') : n \in 1..Len(matches) \/ n = Len(matches) + 1
        BY <1>1, <4>1
      <4>3. /\ Members(loop.players) \subseteq applied
            /\ \A n \in 1..Len(matches) : Members(matches[n]) \subseteq applied
        BY <1>3, <2>1 DEF Wanted
      <4>. QED
        BY <4>1, <4>2, <4>3
    <3>. QED
      BY <1>9, <3>1, <3>2 DEF SendMatch
  <2>6. \A n \in 1..Len(matches') : Members(matches[n])' \subseteq applied'
    BY <1>2, <2>5 DEF Members
  <2>. QED
    BY <1>2, <1>3, <2>1, <2>4, <2>6 DEF Wanted
<1>. QED
  BY <1>4, <1>5, <1>6, <1>7, <1>8, <1>9 DEF Loop

LEMMA WantRoom ==
    ASSUME TInv, SeatInv, WantInv, OpenRoom \/ CloseRoom
    PROVE  WantInv'
<1>. USE DEF lists, game, actors
<1>. SUFFICES ASSUME Calm' PROVE Wanted'
  BY DEF WantInv
<1>1. /\ Calm /\ worker' = worker /\ loop' = loop /\ wait' = wait /\ mark' = mark
      /\ (Matching' <=> Matching)
  BY DEF OpenRoom, CloseRoom, Calm, Tidy, Matching
<1>2. Wanted /\ WaitApart /\ TablesApart /\ MatchSound
  BY <1>1 DEF WantInv, SeatInv, Calm
<1>3. Members(wait)' = Members(wait) /\ Members(loop.players)' = Members(loop.players)
  BY <1>1 DEF Members
<1>4. CASE OpenRoom
  <2>1. /\ Len(matches') = Len(matches) - 1 /\ Len(matches) \in Nat \ {0}
        /\ \A n \in 1..Len(matches') : matches'[n] = matches[n + 1]
    <3>1. matches \in Seq(Seq(Accounts)) /\ matches # <<>>
      BY <1>4, TypeUse DEF OpenRoom
    <3>2. matches' = Tail(matches)
      BY <1>4 DEF OpenRoom
    <3>. QED
      BY <3>1, <3>2, HeadTailProperties, EmptySeq
  <2>2. \A n \in 1..Len(matches') : n + 1 \in 1..Len(matches)
    BY <2>1
  <2>3. \A n \in 1..Len(matches') : Members(matches'[n]) \subseteq applied
    BY <1>2, <2>1, <2>2 DEF Wanted
  <2>4. applied' = applied
    BY <1>4 DEF OpenRoom
  <2>5. \A n \in 1..Len(matches') : Members(matches[n])' \subseteq applied'
    BY <2>3, <2>4 DEF Members
  <2>. QED
    BY <1>1, <1>2, <1>3, <2>4, <2>5 DEF Wanted
<1>5. CASE CloseRoom
  <2>. DEFINE m == Head(rooms)
  <2>1. /\ applied' = applied \ (Members(m) \ Members(wait)) /\ matches' = matches
    BY <1>5 DEF CloseRoom
  <2>2. /\ Len(Tables) \in Nat \ {0} /\ m = Tables[1] /\ Len(m) = Seats
    <3>1. Len(Tables) \in Nat \ {0} /\ m = Tables[1]
      BY <1>5, TablesClosed
    <3>2. m = rooms[1] /\ 1 \in 1..Len(rooms)
      <4>1. rooms \in Seq(Seq(Accounts)) /\ rooms # <<>>
        BY <1>5, TypeUse DEF CloseRoom
      <4>2. Len(rooms) \in Nat \ {0}
        BY <4>1, EmptySeq
      <4>. QED
        BY <4>1, <4>2
    <3>. QED
      BY <3>1, <3>2 DEF TInv, Full
  <2>. HIDE DEF m
  <2>3. \A x \in Members(m) : \E i \in 1..Seats : x = Tables[1][i]
    BY <2>2 DEF Members
  <2>4. 1 \in 1..Len(Tables) /\ Seats \in Nat /\ Len(rooms) \in Nat
        /\ Len(matches) \in Nat /\ Len(rooms) >= 1
    <3>1. rooms \in Seq(Seq(Accounts)) /\ rooms # <<>>
      BY <1>5, TypeUse DEF CloseRoom
    <3>2. Len(rooms) \in Nat \ {0}
      BY <3>1, EmptySeq
    <3>. QED
      BY <2>2, <3>2, SeatsType, ListTypes DEF TInv
  <2>5. ASSUME NEW n \in 1..Len(matches), NEW x \in Members(matches[n])
        PROVE  x \in applied'
    <3>1. PICK i \in 1..Seats : x = matches[n][i]
      BY DEF Members, TInv, Full
    <3>2. /\ n + Len(rooms) \in 1..Len(Tables)
          /\ Tables[n + Len(rooms)] = matches[n]
      <4>1. /\ Len(Tables) = Len(rooms) + Len(matches)
            /\ \A k \in 1..Len(Tables) :
                  Tables[k] = IF k <= Len(rooms) THEN rooms[k]
                              ELSE matches[k - Len(rooms)]
        BY ListTypes DEF TInv
      <4>2. /\ n + Len(rooms) \in 1..Len(Tables) /\ ~(n + Len(rooms) <= Len(rooms))
            /\ n + Len(rooms) - Len(rooms) = n
        BY <2>4, <4>1
      <4>. QED
        BY <4>1, <4>2
    <3>3. x \notin Members(m)
      <4>1. SUFFICES ASSUME x \in Members(m) PROVE FALSE
        OBVIOUS
      <4>2. PICK j \in 1..Seats : x = Tables[1][j]
        BY <2>3, <4>1
      <4>3. n + Len(rooms) = 1
        <5>1. PICK q \in 1..Len(Tables) : q = n + Len(rooms) /\ Tables[q] = matches[n]
          BY <3>2
        <5>2. Tables[q][i] = Tables[1][j]
          BY <3>1, <4>2, <5>1
        <5>3. q = 1
          BY <1>2, <2>4, <5>2 DEF TablesApart
        <5>. QED
          BY <5>1, <5>3
      <4>. QED
        BY <2>4, <4>3
    <3>4. x \in applied
      BY <1>2 DEF Wanted
    <3>. QED
      BY <2>1, <3>3, <3>4
  <2>6. Matching => Members(loop.players) \subseteq applied'
    <3>. SUFFICES ASSUME Matching, NEW x \in Members(loop.players)
                  PROVE  x \in applied'
      OBVIOUS
    <3>1. PICK k \in 1..Seats : x = loop.players[k]
      BY DEF Members, TInv, Full
    <3>2. x \notin Members(m)
      BY <1>2, <2>3, <2>4, <3>1 DEF MatchSound
    <3>3. x \in applied
      BY <1>2 DEF Wanted
    <3>. QED
      BY <2>1, <3>2, <3>3
  <2>7. Members(wait) \subseteq applied'
    BY <1>2, <2>1 DEF Wanted
  <2>8. \A n \in 1..Len(matches') : Members(matches[n])' \subseteq applied'
    BY <2>1, <2>5 DEF Members
  <2>. QED
    BY <1>1, <1>2, <1>3, <2>6, <2>7, <2>8 DEF Wanted
<1>. QED
  BY <1>4, <1>5

LEMMA WantWorker ==
    ASSUME TInv, SeatInv, WantInv, Worker
    PROVE  WantInv'
<1>. USE DEF lists, game, actors, bounds
<1>1. worker \in Workers
  BY TypeUse
<1>2. ASSUME WorkerDone PROVE worker'.pc = "lpop"
  BY <1>2 DEF WorkerDone, Idle
<1>3. CASE JoinPush
  <2>1. PICK a \in Accounts : /\ worker.who = <<a>> /\ worker.who[1] = a
                              /\ Members(worker.who) = {a}
    BY <1>3, WorkerWho DEF JoinPush, WorkerAt, Single
  <2>2. /\ wait' = wait \o worker.who /\ marred' = marred \cup PushCause(a)
        /\ mark' = mark \cup {a} /\ applied' = applied \cup {a}
        /\ UNCHANGED <<matches, loop>>
    BY <1>3, <2>1 DEF JoinPush, PushWaiting
  <2>3. worker'.pc # "cancel"
    BY <1>2, <1>3 DEF JoinPush
  <2>. QED
    BY <2>1, <2>2, <2>3, WantPush
<1>4. CASE CancelPipe
  <2>1. PICK a \in Accounts : /\ worker.who = <<a>> /\ worker.who[1] = a
                              /\ Members(worker.who) = {a}
    BY <1>4, WorkerWho DEF CancelPipe, WorkerAt, Single
  <2>2. /\ mark' = mark \ {a} /\ applied' = applied \ {a}
        /\ marred' = marred \cup RemoveCause(a) /\ UNCHANGED <<matches, loop>>
        /\ wait' = IF worker.found THEN Without(wait, {a}) ELSE wait
    BY <1>4, <2>1 DEF CancelPipe, Cancelled
  <2>3. Calm => Members(wait)' = Members(wait) \ {a}
    <3>. SUFFICES ASSUME Calm PROVE Members(wait)' = Members(wait) \ {a}
      OBVIOUS
    <3>1. Members(wait)' = Members(wait')
      BY DEF Members
    <3>2. CASE worker.found
      BY <2>2, <3>1, <3>2, RemoveList
    <3>3. CASE ~worker.found
      <4>1. a \notin Members(wait)
        BY <1>4, <2>1, <3>3 DEF WantInv, Wanted, CancelPipe, WorkerAt
      <4>. QED
        BY <2>2, <3>1, <3>3, <4>1
    <3>. QED
      BY <3>2, <3>3
  <2>4. worker'.pc # "cancel"
    BY <1>2, <1>4 DEF CancelPipe
  <2>. QED
    BY <2>2, <2>3, <2>4, WantRemove
<1>5. CASE CancelGet
  <2>1. /\ worker'.who = worker.who
        /\ worker'.pc = IF worker.who[1] \in mark THEN "scan" ELSE "cancel"
    BY <1>1, <1>5 DEF CancelGet, WorkerGoto, Workers
  <2>2. Calm => Members(wait) \subseteq mark
    BY DEF WantInv, Wanted
  <2>3. Calm /\ worker'.pc = "cancel" /\ ~worker'.found =>
            worker'.who[1] \notin Members(wait)
    BY <2>1, <2>2
  <2>. QED
    BY <1>5, <2>3, WantFrame DEF CancelGet, WorkerReads
<1>6. CASE CancelScan
  <2>1. /\ worker'.who = worker.who
        /\ worker'.found = (worker.who[1] \in Members(wait))
    BY <1>1, <1>6 DEF CancelScan, Workers
  <2>. QED
    BY <1>6, <2>1, WantFrame DEF CancelScan, WorkerReads
<1>7. CASE PopProtocol
  <2>1. worker'.pc # "cancel"
    <3>1. worker' = Idle \/ worker'.pc = FirstStep(Head(queue).head)
      BY <1>7 DEF PopProtocol
    <3>. QED
      BY <3>1 DEF Idle, FirstStep
  <2>. QED
    BY <1>7, <2>1, WantFrame DEF PopProtocol
<1>8. CASE \/ StartReading \/ JoinExit \/ JoinLook \/ CancelMine \/ JoinSuccess
           \/ LeaveSuccess \/ CloseQueue \/ CloseStatus
  <2>1. worker'.pc # "cancel"
    BY <1>1, <1>2, <1>8
    DEF StartReading, JoinExit, JoinLook, CancelMine, JoinSuccess, LeaveSuccess,
        CloseQueue, CloseStatus, WorkerGoto, Workers
  <2>2. UNCHANGED <<wait, mark, matches, applied, loop>> /\ marred \subseteq marred'
    BY <1>8
    DEF StartReading, JoinExit, JoinLook, CancelMine, JoinSuccess, LeaveSuccess,
        CloseQueue, CloseStatus, WorkerReads
  <2>. QED
    BY <2>1, <2>2, WantFrame
<1>. QED
  BY <1>3, <1>4, <1>5, <1>6, <1>7, <1>8 DEF Worker

LEMMA WantStep ==
    ASSUME TInv, SeatInv, WantInv, [Next]_vars
    PROVE  WantInv'
<1>. USE DEF lists, game, actors, bounds
<1>1. ASSUME UNCHANGED <<wait, mark, matches, applied, loop>>, marred \subseteq marred',
             worker'.pc = "cancel" => worker' = worker
      PROVE  WantInv'
  <2>1. Calm /\ worker'.pc = "cancel" /\ ~worker'.found =>
            worker'.who[1] \notin Members(wait)
    BY <1>1 DEF WantInv, Wanted
  <2>. QED
    BY <1>1, <2>1, WantFrame
<1>2. CASE UNCHANGED vars
  BY <1>1, <1>2 DEF vars
<1>3. CASE Loop
  BY <1>3, WantLoop
<1>4. CASE OpenRoom \/ CloseRoom
  BY <1>4, WantRoom
<1>5. CASE Worker
  BY <1>5, WantWorker
<1>6. ASSUME NEW t \in Threads, HallStep(t) PROVE WantInv'
  <2>1. CASE HallPush(t)
    <3>1. PICK a \in Accounts : /\ hall[t].who = <<a>> /\ hall[t].who[1] = a
                                /\ Members(hall[t].who) = {a}
      BY <2>1, HallWho DEF HallPush
    <3>2. /\ wait' = wait \o hall[t].who /\ marred' = marred \cup PushCause(a)
          /\ mark' = mark \cup {a} /\ applied' = applied \cup {a}
          /\ UNCHANGED <<matches, loop>> /\ worker' = worker
      BY <2>1, <3>1 DEF HallPush, PushWaiting
    <3>. QED
      BY <3>1, <3>2, WantPush
  <2>2. CASE HallRemove(t)
    <3>1. PICK a \in Accounts : hall[t].who[1] = a /\ Members(hall[t].who) = {a}
      BY <2>2, HallWho DEF HallRemove
    <3>2. /\ wait' = Without(wait, {a}) /\ applied' = applied \ {a} /\ mark' = mark
          /\ marred' = marred \cup RemoveCause(a)
          /\ UNCHANGED <<matches, loop>> /\ worker' = worker
      BY <2>2, <3>1 DEF HallRemove
    <3>3. Members(wait)' = Members(wait) \ {a}
      <4>1. Members(wait)' = Members(wait')
        BY DEF Members
      <4>. QED
        BY <3>2, <4>1, RemoveList
    <3>. QED
      BY <3>2, <3>3, WantRemove
  <2>3. CASE ~HallPush(t) /\ ~HallRemove(t)
    <3>1. /\ UNCHANGED <<wait, mark, matches, applied, loop>> /\ marred \subseteq marred'
          /\ worker' = worker
      BY <1>6, <2>3, HallQuiet
    <3>. QED
      BY <1>1, <3>1
  <2>. QED
    BY <2>1, <2>2, <2>3
<1>7. CASE RestartService
  <2>. SUFFICES ASSUME Calm' PROVE Wanted'
    BY DEF WantInv
  <2>1. /\ Calm /\ wait' = wait /\ mark' = mark /\ matches' = matches
        /\ applied' = applied /\ ~Matching' /\ worker'.pc # "cancel"
    BY <1>7 DEF RestartService, Calm, Tidy, Matching, Resting, Idle
  <2>2. Wanted
    BY <2>1 DEF WantInv
  <2>3. /\ Members(wait)' = Members(wait)
        /\ \A n : Members(matches[n])' = Members(matches[n])
    BY <2>1 DEF Members
  <2>. QED
    BY <2>1, <2>2, <2>3 DEF Wanted
<1>8. CASE Players \/ Send("close", <<>>) \/ ExpireStatus \/ WorkerFails
  <2>1. /\ UNCHANGED <<wait, mark, matches, applied, loop>> /\ marred \subseteq marred'
        /\ worker'.pc = "cancel" => worker' = worker
    BY <1>8 DEF Players, Send, HallJoin, HallNotJoin, HallCheck, HallEnterRoom, Ask,
                ExpireStatus, WorkerFails, Idle
  <2>. QED
    BY <1>1, <2>1
<1>. QED
  BY <1>2, <1>3, <1>4, <1>5, <1>6, <1>7, <1>8 DEF Next

LEMMA InitWant == ASSUME Init PROVE WantInv
<1>1. /\ wait = <<>> /\ matches = <<>> /\ ~Matching /\ worker.pc = "idle"
  BY DEF Init, Matching, Resting, Idle
<1>2. Len(wait) = 0 /\ Len(matches) = 0
  BY <1>1, EmptySeq
<1>. QED
  BY <1>1, <1>2 DEF WantInv, Wanted, Members

----------------------------------------------------------------------------
(* Those who have applied are not forgotten *)

\* What went wrong is not forgotten.
LEMMA MarredGrows ==
    ASSUME TInv, [Next]_vars
    PROVE  marred \subseteq marred'
<1>. USE DEF lists, game, actors, bounds
<1>1. CASE UNCHANGED vars
  BY <1>1 DEF vars
<1>2. CASE Loop
  BY <1>2 DEF Loop, FeedStatus, FeedExpire, ReadWaiting, PopWaiting, DeleteMark,
              SetFinished, SendMatch
<1>3. CASE Worker
  BY <1>3 DEF Worker, WorkerReads, StartReading, PopProtocol, JoinExit, JoinLook,
              JoinPush, PushWaiting, CancelMine, CancelGet, CancelScan, CancelPipe,
              JoinSuccess, LeaveSuccess, CloseQueue, CloseStatus
<1>4. ASSUME NEW t \in Threads, HallStep(t) PROVE marred \subseteq marred'
  BY <1>4, HallQuiet DEF HallPush, PushWaiting, HallRemove
<1>5. CASE \/ Players \/ Send("close", <<>>) \/ OpenRoom \/ CloseRoom
           \/ ExpireStatus \/ RestartService \/ WorkerFails
  BY <1>5 DEF Players, Send, HallJoin, HallNotJoin, HallCheck, HallEnterRoom, Ask,
              OpenRoom, CloseRoom, ExpireStatus, RestartService, WorkerFails
<1>. QED
  BY <1>1, <1>2, <1>3, <1>4, <1>5 DEF Next

\* A step that pushes an account, of the worker or of the hall.
Push == JoinPush \/ \E t \in Threads : HallPush(t)

LEMMA PushIs ==
    ASSUME TInv, Push
    PROVE  \E a \in Accounts :
             /\ wait' = wait \o <<a>>
             /\ mark' = mark \cup {a} /\ applied' = applied \cup {a}
             /\ withdrawn' = withdrawn \ {a}
             /\ marred' = marred \cup PushCause(a)
             /\ UNCHANGED <<fin, seated, queue, game, loop>>
             /\ worker' = worker \/ worker'.pc = "lpop"
             /\ \A s \in Threads : hall'[s] = hall[s] \/ hall'[s].pc = "idle"
<1>1. CASE JoinPush
  <2>1. PICK a \in Accounts : /\ worker.who = <<a>> /\ worker.who[1] = a
                              /\ Members(worker.who) = {a}
    BY <1>1, WorkerWho DEF JoinPush, WorkerAt, Single
  <2>2. worker'.pc = "lpop" /\ hall' = hall
    BY <1>1 DEF JoinPush, WorkerDone, Idle
  <2>. QED
    BY <1>1, <2>1, <2>2 DEF JoinPush, PushWaiting
<1>2. ASSUME NEW t \in Threads, HallPush(t)
      PROVE  \E a \in Accounts :
             /\ wait' = wait \o <<a>>
             /\ mark' = mark \cup {a} /\ applied' = applied \cup {a}
             /\ withdrawn' = withdrawn \ {a}
             /\ marred' = marred \cup PushCause(a)
             /\ UNCHANGED <<fin, seated, queue, game, loop>>
             /\ worker' = worker \/ worker'.pc = "lpop"
             /\ \A s \in Threads : hall'[s] = hall[s] \/ hall'[s].pc = "idle"
  <2>1. PICK a \in Accounts : /\ hall[t].who = <<a>> /\ hall[t].who[1] = a
                              /\ Members(hall[t].who) = {a}
    BY <1>2, HallWho DEF HallPush
  <2>2. hall' = [hall EXCEPT ![t] = Idle] /\ hall \in [Threads -> Halls]
    BY <1>2, TypeUse DEF HallPush, HallDone
  <2>3. \A s \in Threads : hall'[s] = hall[s] \/ hall'[s].pc = "idle"
    BY <2>2 DEF Idle
  <2>. QED
    BY <1>2, <2>1, <2>3 DEF HallPush, PushWaiting
<1>. QED
  BY <1>1, <1>2 DEF Push

\* A step that withdraws an account, of the worker or of the hall.
Withdraw == CancelPipe \/ \E t \in Threads : HallRemove(t)

LEMMA WithdrawIs ==
    ASSUME TInv, Withdraw
    PROVE  \E a \in Accounts :
             /\ wait' = Without(wait, {a}) \/ wait' = wait
             /\ mark \ {a} \subseteq mark' /\ mark' \subseteq mark
             /\ applied' = applied \ {a} /\ withdrawn' = withdrawn
             /\ marred' = marred \cup RemoveCause(a)
             /\ UNCHANGED <<fin, seated, queue, game, loop>>
             /\ worker' = worker \/ worker'.pc = "lpop"
             /\ \A s \in Threads : hall'[s] = hall[s] \/ hall'[s].pc = "idle"
<1>1. CASE CancelPipe
  <2>1. PICK a \in Accounts : /\ worker.who = <<a>> /\ worker.who[1] = a
                              /\ Members(worker.who) = {a}
    BY <1>1, WorkerWho DEF CancelPipe, WorkerAt, Single
  <2>2. worker'.pc = "lpop" /\ hall' = hall
    BY <1>1 DEF CancelPipe, WorkerDone, Idle
  <2>. QED
    BY <1>1, <2>1, <2>2 DEF CancelPipe, Cancelled
<1>2. ASSUME NEW t \in Threads, HallRemove(t)
      PROVE  \E a \in Accounts :
             /\ wait' = Without(wait, {a}) \/ wait' = wait
             /\ mark \ {a} \subseteq mark' /\ mark' \subseteq mark
             /\ applied' = applied \ {a} /\ withdrawn' = withdrawn
             /\ marred' = marred \cup RemoveCause(a)
             /\ UNCHANGED <<fin, seated, queue, game, loop>>
             /\ worker' = worker \/ worker'.pc = "lpop"
             /\ \A s \in Threads : hall'[s] = hall[s] \/ hall'[s].pc = "idle"
  <2>1. PICK a \in Accounts : hall[t].who[1] = a /\ Members(hall[t].who) = {a}
    BY <1>2, HallWho DEF HallRemove
  <2>2. hall' = [hall EXCEPT ![t] = Idle] /\ hall \in [Threads -> Halls]
    BY <1>2, TypeUse DEF HallRemove, HallDone
  <2>3. \A s \in Threads : hall'[s] = hall[s] \/ hall'[s].pc = "idle"
    BY <2>2 DEF Idle
  <2>. QED
    BY <1>2, <2>1, <2>3 DEF HallRemove
<1>. QED
  BY <1>1, <1>2 DEF Withdraw

\* The steps of worker and hall that neither push nor withdraw.
Mild ==
    \/ Worker /\ ~JoinPush /\ ~CancelPipe
    \/ \E t \in Threads : HallStep(t) /\ ~HallPush(t) /\ ~HallRemove(t)
    \/ Players \/ Send("close", <<>>) \/ ExpireStatus \/ WorkerFails
    \/ UNCHANGED vars

LEMMA Cases ==
    ASSUME [Next]_vars
    PROVE  \/ Loop \/ Push \/ Withdraw \/ Mild \/ OpenRoom \/ CloseRoom
           \/ RestartService
<1>1. ASSUME NEW t \in Threads, HallStep(t) PROVE Push \/ Withdraw \/ Mild
  BY <1>1 DEF Push, Withdraw, Mild
<1>2. CASE Worker
  BY <1>2 DEF Push, Withdraw, Mild
<1>. QED
  BY <1>1, <1>2 DEF Next, Mild

LEMMA MildIs ==
    ASSUME TInv, Mild
    PROVE  UNCHANGED <<wait, mark, matches, rooms, away, applied, loop>>
<1>. USE DEF lists, game, actors, bounds
<1>1. CASE Worker /\ ~JoinPush /\ ~CancelPipe
  BY <1>1 DEF Worker, WorkerReads, StartReading, PopProtocol, JoinExit, JoinLook,
              CancelMine, CancelGet, CancelScan, JoinSuccess, LeaveSuccess,
              CloseQueue, CloseStatus
<1>2. ASSUME NEW t \in Threads, HallStep(t), ~HallPush(t), ~HallRemove(t)
      PROVE  UNCHANGED <<wait, mark, matches, rooms, away, applied, loop>>
  BY <1>2, HallQuiet
<1>3. CASE Players \/ Send("close", <<>>) \/ ExpireStatus \/ WorkerFails
           \/ UNCHANGED vars
  BY <1>3 DEF Players, Send, HallJoin, HallNotJoin, HallCheck, HallEnterRoom, Ask,
              ExpireStatus, WorkerFails, vars
<1>. QED
  BY <1>1, <1>2, <1>3 DEF Mild

LEMMA PrefixStep ==
    ASSUME TInv, SeatInv, Smooth', Prefix, [Next]_vars
    PROVE  Prefix'
<1>. USE DEF lists, game, actors, bounds
<1>1. /\ loop \in Loops /\ Seats \in Nat /\ Seats >= 1 /\ wait \in Seq(Accounts)
      /\ Len(wait) \in Nat
  BY TypeUse, SeatsType, ListTypes DEF TInv
<1>2. Matching => Gone \in 0..Seats
  BY <1>1 DEF TInv, Full, Gone
<1>3. ASSUME wait' = wait, loop' = loop PROVE Prefix'
  BY <1>3 DEF Prefix, Matching, Gone
<1>4. ASSUME Len(wait') \in Nat, loop' = loop,
             Matching =>
                 /\ Seats - Gone <= Len(wait')
                 /\ \A k \in 1..(Seats - Gone) : wait'[k] = wait[k]
      PROVE  Prefix'
  <2>1. Gone' = Gone /\ (Matching' <=> Matching)
    BY <1>4 DEF Gone, Matching
  <2>2. Matching => Seats - Gone \in Int
    BY <1>1, <1>2
  <2>3. Matching => /\ Len(wait') >= Seats - Gone
                    /\ \A k \in 1..(Seats - Gone) : wait'[k] = loop.players[Gone + k]
    BY <1>4, <2>2 DEF Prefix
  <2>. QED
    BY <1>4, <2>1, <2>3 DEF Prefix
<1>5. CASE Push
  <2>1. PICK a \in Accounts : wait' = wait \o <<a>> /\ loop' = loop
    BY <1>5, PushIs
  <2>2. /\ Len(wait') = Len(wait) + 1
        /\ \A p \in 1..Len(wait) : wait'[p] = wait[p]
    BY <2>1, PushList
  <2>3. Matching => /\ Seats - Gone <= Len(wait')
                    /\ \A k \in 1..(Seats - Gone) : wait'[k] = wait[k]
    <3>. SUFFICES ASSUME Matching
                  PROVE  /\ Seats - Gone <= Len(wait')
                         /\ \A k \in 1..(Seats - Gone) : wait'[k] = wait[k]
      OBVIOUS
    <3>1. Len(wait) >= Seats - Gone /\ Gone \in 0..Seats
      BY <1>2 DEF Prefix
    <3>2. \A k \in 1..(Seats - Gone) : k \in 1..Len(wait)
      BY <1>1, <3>1
    <3>. QED
      BY <1>1, <2>2, <3>1, <3>2
  <2>4. Len(wait') \in Nat
    BY <1>1, <2>2
  <2>. QED
    BY <1>4, <2>1, <2>3, <2>4
<1>6. CASE Withdraw
  <2>1. PICK a \in Accounts : /\ wait' = Without(wait, {a}) \/ wait' = wait
                              /\ marred' = marred \cup RemoveCause(a)
                              /\ loop' = loop
    BY <1>6, WithdrawIs
  <2>2. CASE wait' = wait
    BY <1>3, <2>1, <2>2
  <2>3. CASE wait' = Without(wait, {a})
    <3>1. ~Engaged(a)
      BY <2>1, RemoveFree DEF Smooth
    <3>2. Matching => \A k \in 1..Seats : loop.players[k] # a
      BY <3>1, NotEngaged
    <3>3. Sieved(wait, wait', {a})
      BY <2>3, RemoveList
    <3>4. Len(wait') \in Nat
      BY <3>3 DEF Sieved
    <3>5. Matching => /\ Seats - Gone <= Len(wait')
                      /\ \A k \in 1..(Seats - Gone) : wait'[k] = wait[k]
      <4>. SUFFICES ASSUME Matching
                    PROVE  /\ Seats - Gone <= Len(wait')
                           /\ \A k \in 1..(Seats - Gone) : wait'[k] = wait[k]
        OBVIOUS
      <4>1. /\ Len(wait) >= Seats - Gone /\ Gone \in 0..Seats
            /\ \A k \in 1..(Seats - Gone) : wait[k] = loop.players[Gone + k]
        BY <1>2 DEF Prefix
      <4>. DEFINE N == Seats - Gone
      <4>2. N \in 0..Len(wait) /\ \A k \in 1..N : Gone + k \in 1..Seats
        BY <1>1, <4>1
      <4>3. \A k \in 1..N : wait[k] \notin {a}
        BY <3>2, <4>1, <4>2
      <4>. HIDE DEF N
      <4>4. N <= Len(wait') /\ \A k \in 1..N : wait'[k] = wait[k]
        BY <3>3, <4>2, <4>3 DEF Sieved
      <4>. QED
        BY <4>4 DEF N
    <3>. QED
      BY <1>4, <2>1, <3>4, <3>5
  <2>. QED
    BY <2>1, <2>2, <2>3
<1>7. CASE Mild \/ OpenRoom \/ CloseRoom
  BY <1>3, <1>7, MildIs DEF OpenRoom, CloseRoom
<1>8. CASE RestartService
  BY <1>8 DEF RestartService, Smooth
<1>9. CASE FeedStatus \/ FeedExpire
  <2>1. loop'.pc \in {"expire", "range"}
    BY <1>1, <1>9 DEF FeedStatus, FeedExpire, Loops
  <2>. QED
    BY <2>1 DEF Prefix, Matching
<1>10. CASE ReadWaiting
  <2>1. /\ Len(wait) < Seats => loop' = Resting
        /\ Len(wait) >= Seats =>
              /\ loop'.pc = "pop" /\ loop'.i = 1
              /\ \A k \in 1..Seats : loop'.players[k] = wait[k]
    BY <1>1, <1>10, Round DEF ReadWaiting
  <2>2. wait' = wait
    BY <1>10 DEF ReadWaiting
  <2>3. CASE Len(wait) < Seats
    BY <2>1, <2>3 DEF Prefix, Matching, Resting
  <2>4. CASE Len(wait) >= Seats
    <3>1. Gone' = 0 /\ Seats - 0 = Seats /\ \A k \in 1..Seats : 0 + k = k
      BY <1>1, <2>1, <2>4 DEF Gone
    <3>. QED
      BY <2>1, <2>2, <2>4, <3>1 DEF Prefix
  <2>. QED
    BY <1>1, <2>3, <2>4
<1>11. CASE PopWaiting
  <2>1. /\ Matching /\ loop.pc = "pop" /\ loop'.pc = "unmark" /\ loop'.i = loop.i
        /\ loop'.players = loop.players /\ wait' = Popped
    BY <1>1, <1>11 DEF PopWaiting, Matching, Loops
  <2>2. loop.i \in 1..Seats /\ Gone = loop.i - 1 /\ Gone' = loop.i
    BY <2>1 DEF TInv, Full, Gone
  <2>3. /\ Len(wait) >= Seats - Gone
        /\ \A k \in 1..(Seats - Gone) : wait[k] = loop.players[Gone + k]
    BY <2>1 DEF Prefix
  <2>4. wait # <<>>
    <3>1. Len(wait) # 0
      BY <1>1, <2>2, <2>3
    <3>. QED
      BY <3>1, PopList
  <2>5. /\ Len(wait') = Len(wait) - 1
        /\ \A p \in 1..Len(wait') : wait'[p] = wait[p + 1]
    BY <2>1, <2>4, PopList
  <2>6. Len(wait') >= Seats - Gone'
    BY <1>1, <2>2, <2>3, <2>5
  <2>7. ASSUME NEW k \in 1..(Seats - Gone')
        PROVE  wait'[k] = loop'.players[Gone' + k]
    <3>1. /\ k \in 1..Len(wait') /\ k + 1 \in 1..(Seats - Gone)
          /\ Gone + (k + 1) = Gone' + k
      BY <1>1, <2>2, <2>3, <2>5
    <3>. QED
      BY <2>1, <2>3, <2>5, <3>1
  <2>. QED
    BY <2>6, <2>7 DEF Prefix
<1>12. CASE DeleteMark \/ SetFinished
  <2>1. wait' = wait /\ Matching /\ loop'.players = loop.players
    BY <1>1, <1>12 DEF DeleteMark, SetFinished, Matching, Loops
  <2>2. Gone' = Gone
    BY <1>12, GoneSame
  <2>. QED
    BY <2>1, <2>2 DEF Prefix
<1>13. CASE SendMatch
  <2>1. Matching /\ wait' = wait
    BY <1>13 DEF SendMatch, Matching
  <2>2. MatchSound
    <3>1. marred \subseteq marred'
      BY MarredGrows
    <3>. QED
      BY <3>1 DEF SeatInv, Smooth, Calm, Tidy
  <2>3. loop.len < Seats /\ loop.len \in Nat /\ loop.players \in Seq(Accounts)
    BY <1>1, <2>1, <2>2 DEF MatchSound, Loops
  <2>4. loop' = Resting
    BY <1>1, <1>13, <2>3, Round DEF SendMatch
  <2>. QED
    BY <2>4 DEF Prefix, Matching, Resting
<1>. QED
  BY <1>5, <1>6, <1>7, <1>8, <1>9, <1>10, <1>11, <1>12, <1>13, Cases DEF Loop

\* A step that leaves the queue alone.
LEMMA LeftFrame ==
    ASSUME NEW a, Left(a), queue' = queue,
           a \in seated' => a \in seated,
           worker' = worker \/ worker'.pc \notin {"leave", "success"},
           a \in away => a \in away',
           \A s \in Threads : hall'[s].pc = "unfin" /\ hall'[s].who = <<a>> =>
               hall'[s] = hall[s] \/ a \in away'
    PROVE  Left(a)'
<1>1. /\ Handles("leave", a)' => Handles("leave", a)
      /\ Handles("success", a)' => Handles("success", a)
  BY DEF Handles, Members
<1>2. \A h : Queued(h, a)' <=> Queued(h, a)
  BY DEF Queued, Members
<1>3. /\ Handles("leave", a)' => a \notin seated'
      /\ Queued("PartyRoomLeaveSuccess", a)' =>
            a \notin seated' /\ ~Handles("success", a)'
  BY <1>1, <1>2 DEF Left
<1>4. \A m, n \in 1..Len(queue') :
          ~(/\ m < n
            /\ queue'[m].head = "joinPartyRoomSuccess"
            /\ a \in Members(queue'[m].who)
            /\ queue'[n].head = "PartyRoomLeaveSuccess"
            /\ a \in Members(queue'[n].who))
  BY DEF Left
<1>5. \A t \in Threads :
          hall'[t].pc = "unfin" /\ hall'[t].who = <<a>> => a \in away'
  BY DEF Left
<1>. QED
  BY <1>3, <1>4, <1>5 DEF Left, Members

\* A protocol that is sent, unless it is the end of a room of a's.
LEMMA LeftAppend ==
    ASSUME TInv, NEW a, Left(a), NEW h \in Heads, NEW w \in Seq(Accounts),
           queue' = Append(queue, [head |-> h, who |-> w]),
           h \in {"joinPartyRoom", "cancelJoinPartyRoom"} =>
               \E b \in Accounts : w = <<b>>,
           ~(h = "PartyRoomLeaveSuccess" /\ a \in Members(w)),
           UNCHANGED <<seated, worker, hall>>,
           a \in away => a \in away'
    PROVE  Left(a)'
<1>1. /\ Len(queue') = Len(queue) + 1 /\ Len(queue) \in Nat
      /\ \A n \in 1..Len(queue) : queue'[n] = queue[n]
      /\ queue'[Len(queue')] = [head |-> h, who |-> w]
  BY QueueAppend, ListTypes DEF TInv
<1>2. \A n \in 1..Len(queue') : n \in 1..Len(queue) \/ n = Len(queue')
  BY <1>1
<1>3. ~(/\ queue'[Len(queue')].head = "PartyRoomLeaveSuccess"
        /\ a \in Members(queue'[Len(queue')].who))
  BY <1>1
<1>4. \A n \in 1..Len(queue') :
          queue'[n].head = "PartyRoomLeaveSuccess" /\ a \in Members(queue'[n].who) =>
              n \in 1..Len(queue) /\ queue'[n] = queue[n]
  BY <1>1, <1>2, <1>3
<1>5. Queued("PartyRoomLeaveSuccess", a)' => Queued("PartyRoomLeaveSuccess", a)
  <2>. SUFFICES ASSUME Queued("PartyRoomLeaveSuccess", a)'
                PROVE  Queued("PartyRoomLeaveSuccess", a)
    OBVIOUS
  <2>1. PICK n \in 1..Len(queue') :
            queue'[n].head = "PartyRoomLeaveSuccess" /\ a \in Members(queue'[n].who)
    BY DEF Queued, Members
  <2>. QED
    BY <1>4, <2>1 DEF Queued
<1>6. \A step : Handles(step, a)' <=> Handles(step, a)
  BY DEF Handles, Members
<1>7. /\ Handles("leave", a)' => a \notin seated'
      /\ Queued("PartyRoomLeaveSuccess", a)' =>
            a \notin seated' /\ ~Handles("success", a)'
  BY <1>5, <1>6 DEF Left
<1>8. ASSUME NEW m \in 1..Len(queue'), NEW n \in 1..Len(queue'), m < n,
             queue'[m].head = "joinPartyRoomSuccess", a \in Members(queue'[m].who),
             queue'[n].head = "PartyRoomLeaveSuccess", a \in Members(queue'[n].who)
      PROVE  FALSE
  <2>1. n \in 1..Len(queue) /\ queue'[n] = queue[n]
    BY <1>4, <1>8
  <2>2. m \in 1..Len(queue) /\ queue'[m] = queue[m]
    BY <1>1, <1>8, <2>1
  <2>. QED
    BY <1>8, <2>1, <2>2 DEF Left
<1>9. \A t \in Threads :
          hall'[t].pc = "unfin" /\ hall'[t].who = <<a>> => a \in away'
  BY DEF Left
<1>. QED
  BY <1>7, <1>8, <1>9 DEF Left, Members

\* The worker takes the next protocol.
LEMMA LeftPop ==
    ASSUME TInv, NEW a, Left(a), PopProtocol
    PROVE  Left(a)'
<1>. USE DEF lists, game, bounds
<1>1. UNCHANGED <<seated, hall, away>>
  BY DEF PopProtocol
<1>2. CASE queue = <<>>
  <2>1. worker' = Idle /\ queue' = queue
    BY <1>2, Zenon DEF PopProtocol
  <2>2. worker'.pc \notin {"leave", "success"}
    BY <2>1 DEF Idle
  <2>. QED
    BY <1>1, <2>1, <2>2, LeftFrame
<1>3. CASE queue # <<>>
  <2>0. queue \in Seq(Protocols)
    BY TypeUse
  <2>1. Len(queue) \in Nat \ {0} /\ Head(queue) = queue[1]
    BY <1>3, <2>0, EmptySeq
  <2>. DEFINE p == queue[1]
  <2>2. 1 \in 1..Len(queue) /\ p.head \in Heads
    BY <2>1, ListTypes DEF TInv
  <2>3. worker' = [pc |-> FirstStep(p.head), who |-> p.who, found |-> FALSE]
    BY <1>3, <2>1 DEF PopProtocol
  <2>4. /\ Len(queue') = Len(queue) - 1
        /\ \A n \in 1..Len(queue') : queue'[n] = queue[n + 1]
    BY <1>3, <2>0, HeadTailProperties DEF PopProtocol
  <2>5. \A n \in 1..Len(queue') : n + 1 \in 1..Len(queue) /\ queue'[n] = queue[n + 1]
    BY <2>1, <2>4
  <2>6. /\ FirstStep(p.head) = "leave" => p.head = "PartyRoomLeaveSuccess"
        /\ FirstStep(p.head) = "success" => p.head = "joinPartyRoomSuccess"
    BY <2>2 DEF FirstStep, Heads
  <2>7. Handles("leave", a)' => a \notin seated'
    <3>. SUFFICES ASSUME Handles("leave", a)' PROVE a \notin seated'
      OBVIOUS
    <3>1. p.head = "PartyRoomLeaveSuccess" /\ a \in Members(p.who)
      BY <2>3, <2>6 DEF Handles, Members
    <3>2. Queued("PartyRoomLeaveSuccess", a)
      BY <2>2, <3>1 DEF Queued
    <3>. QED
      BY <1>1, <3>2 DEF Left
  <2>8. Queued("PartyRoomLeaveSuccess", a)' =>
            a \notin seated' /\ ~Handles("success", a)'
    <3>. SUFFICES ASSUME Queued("PartyRoomLeaveSuccess", a)'
                  PROVE  a \notin seated' /\ ~Handles("success", a)'
      OBVIOUS
    <3>1. PICK n \in 1..Len(queue') :
              queue'[n].head = "PartyRoomLeaveSuccess" /\ a \in Members(queue'[n].who)
      BY DEF Queued, Members
    <3>2. PICK k \in 1..Len(queue) : k = n + 1 /\ queue'[n] = queue[k]
      BY <2>5
    <3>3. a \notin seated'
      BY <1>1, <3>1, <3>2 DEF Left, Queued
    <3>4. ASSUME Handles("success", a)' PROVE FALSE
      <4>1. p.head = "joinPartyRoomSuccess" /\ a \in Members(p.who)
        BY <2>3, <2>6, <3>4 DEF Handles, Members
      <4>2. 1 < k
        BY <2>1, <2>4, <3>2
      <4>. QED
        BY <2>2, <3>1, <3>2, <4>1, <4>2 DEF Left
    <3>. QED
      BY <3>3, <3>4
  <2>9. ASSUME NEW m \in 1..Len(queue'), NEW n \in 1..Len(queue'), m < n,
               queue'[m].head = "joinPartyRoomSuccess", a \in Members(queue'[m].who),
               queue'[n].head = "PartyRoomLeaveSuccess", a \in Members(queue'[n].who)
        PROVE  FALSE
    <3>1. PICK k \in 1..Len(queue) : k = m + 1 /\ queue'[m] = queue[k]
      BY <2>5
    <3>2. PICK l \in 1..Len(queue) : l = n + 1 /\ queue'[n] = queue[l]
      BY <2>5
    <3>3. k < l
      BY <2>1, <2>4, <2>9, <3>1, <3>2
    <3>. QED
      BY <2>9, <3>1, <3>2, <3>3 DEF Left
  <2>10. \A t \in Threads :
            hall'[t].pc = "unfin" /\ hall'[t].who = <<a>> => a \in away'
    BY <1>1 DEF Left
  <2>. QED
    BY <2>7, <2>8, <2>9, <2>10 DEF Left, Members
<1>. QED
  BY <1>2, <1>3

\* The players of a room that closes do not wait.
LEMMA CloseFree ==
    ASSUME TInv, SeatInv, Tidy, CloseRoom, NEW a \in applied'
    PROVE  a \in applied /\ a \notin Members(Head(rooms))
<1>1. Head(rooms) = Tables[1] /\ 1 \in 1..Len(Tables)
  BY TablesClosed
<1>2. Len(Head(rooms)) = Seats
  <2>1. rooms \in Seq(Seq(Accounts)) /\ rooms # <<>>
    BY TypeUse DEF CloseRoom
  <2>2. Len(rooms) \in Nat \ {0} /\ Head(rooms) = rooms[1]
    BY <2>1, EmptySeq
  <2>. QED
    BY <2>2 DEF TInv, Full
<1>3. a \in applied /\ (a \in Members(Head(rooms)) => a \in Members(wait))
  BY DEF CloseRoom
<1>4. SUFFICES ASSUME a \in Members(Head(rooms)) PROVE FALSE
  BY <1>3
<1>5. PICK i \in 1..Seats : a = Tables[1][i]
  BY <1>1, <1>2, <1>4 DEF Members
<1>6. PICK p \in 1..Len(wait) : a = wait[p]
  BY <1>3, <1>4 DEF Members
<1>. QED
  BY <1>1, <1>5, <1>6 DEF SeatInv, WaitApart

\* What the mild steps do to the rest.
LEMMA LeftMild ==
    ASSUME TInv, NEW a, Left(a), Mild
    PROVE  Left(a)'
<1>. USE DEF lists, game, actors, bounds
<1>1. UNCHANGED <<applied, away>>
  BY MildIs
<1>2. hall \in [Threads -> Halls] /\ worker \in Workers
  BY TypeUse
<1>3. ASSUME queue' = queue, hall' = hall, a \in seated' => a \in seated,
             worker' = worker \/ worker'.pc \notin {"leave", "success"}
      PROVE  Left(a)'
  BY <1>1, <1>3, LeftFrame
<1>4. ASSUME WorkerDone PROVE worker'.pc = "lpop"
  BY <1>4 DEF WorkerDone, Idle
<1>5. CASE Worker /\ ~JoinPush /\ ~CancelPipe
  <2>1. CASE PopProtocol
    BY <2>1, LeftPop
  <2>2. CASE JoinSuccess
    <3>1. /\ seated' = seated \cup Members(worker.who) /\ worker'.pc = "lpop"
          /\ worker.pc = "success" /\ queue' = queue /\ hall' = hall
      BY <1>4, <2>2 DEF JoinSuccess, WorkerAt
    <3>2. /\ ~Handles("leave", a)' /\ ~Handles("success", a)'
          /\ \A h : Queued(h, a)' <=> Queued(h, a)
      BY <3>1 DEF Handles, Queued, Members
    <3>3. Queued("PartyRoomLeaveSuccess", a) => a \notin seated'
      BY <3>1 DEF Left, Handles
    <3>4. \A m, n \in 1..Len(queue') :
              ~(/\ m < n
                /\ queue'[m].head = "joinPartyRoomSuccess"
                /\ a \in Members(queue'[m].who)
                /\ queue'[n].head = "PartyRoomLeaveSuccess"
                /\ a \in Members(queue'[n].who))
      BY <3>1 DEF Left
    <3>5. \A t \in Threads :
              hall'[t].pc = "unfin" /\ hall'[t].who = <<a>> => a \in away'
      BY <1>1, <3>1 DEF Left
    <3>. QED
      BY <3>2, <3>3, <3>4, <3>5 DEF Left, Members
  <2>3. CASE LeaveSuccess
    BY <1>3, <1>4, <2>3 DEF LeaveSuccess
  <2>4. CASE CloseQueue
    <3>1. queue' = <<>> /\ worker'.pc = "down" /\ hall' = hall
      BY <1>2, <2>4 DEF CloseQueue, WorkerGoto, Workers
    <3>2. Len(queue') = 0
      BY <3>1, EmptySeq
    <3>3. \A t \in Threads :
              hall'[t].pc = "unfin" /\ hall'[t].who = <<a>> => a \in away'
      BY <1>1, <3>1 DEF Left
    <3>. QED
      BY <3>1, <3>2, <3>3 DEF Left, Handles, Queued
  <2>5. CASE \/ StartReading \/ JoinExit \/ JoinLook \/ CancelMine \/ CancelGet
             \/ CancelScan \/ CloseStatus
    <3>1. worker'.pc \notin {"leave", "success"}
      BY <1>2, <1>4, <2>5
      DEF StartReading, JoinExit, JoinLook, CancelMine, CancelGet, CancelScan,
          CloseStatus, WorkerGoto, Workers
    <3>2. queue' = queue /\ hall' = hall /\ seated' = seated
      BY <2>5 DEF StartReading, JoinExit, JoinLook, CancelMine, CancelGet, CancelScan,
                  CloseStatus, WorkerReads
    <3>. QED
      BY <1>3, <3>1, <3>2
  <2>. QED
    BY <1>5, <2>1, <2>2, <2>3, <2>4, <2>5 DEF Worker
<1>6. ASSUME NEW t \in Threads, HallStep(t), ~HallPush(t), ~HallRemove(t)
      PROVE  Left(a)'
  <2>1. queue' = queue /\ seated' = seated /\ worker' = worker
    BY <1>6, HallQuiet
  <2>2. ASSUME NEW s \in Threads, hall'[s].pc = "unfin", hall'[s].who = <<a>>
        PROVE  hall'[s] = hall[s] \/ a \in away'
    <3>1. CASE s # t
      BY <1>6, <3>1, HallQuiet
    <3>2. CASE s = t
      <4>1. HallAway(t) /\ hall[t].who[1] \in away /\ hall'[t].who = hall[t].who
        BY <1>6, <2>2, <3>2, HallQuiet
      <4>2. hall[t].pc = "check"
        BY <4>1 DEF HallAway, HallReads
      <4>3. PICK b \in Accounts : hall[t].who = <<b>> /\ hall[t].who[1] = b
        BY <4>2, HallWho
      <4>4. <<b>>[1] = b /\ <<a>>[1] = a
        OBVIOUS
      <4>5. b = a
        BY <2>2, <3>2, <4>1, <4>3, <4>4
      <4>. QED
        BY <1>1, <4>1, <4>3, <4>5
    <3>. QED
      BY <3>1, <3>2
  <2>. QED
    BY <1>1, <2>1, <2>2, LeftFrame
<1>7. ASSUME NEW h \in Heads, NEW w \in Seq(Accounts), Send(h, w),
             h # "PartyRoomLeaveSuccess",
             h \in {"joinPartyRoom", "cancelJoinPartyRoom"} =>
                 \E b \in Accounts : w = <<b>>
      PROVE  Left(a)'
  BY <1>1, <1>7, LeftAppend DEF Send
<1>8. ASSUME NEW t \in Threads, NEW b, NEW step, step # "unfin", Ask(t, b, step)
      PROVE  Left(a)'
  <2>1. queue' = queue /\ seated' = seated /\ worker' = worker
    BY <1>8 DEF Ask
  <2>2. \A s \in Threads : hall'[s].pc = "unfin" => hall'[s] = hall[s]
    BY <1>2, <1>8 DEF Ask, Idle
  <2>. QED
    BY <1>1, <2>1, <2>2, LeftFrame
<1>9. CASE Players
  <2>1. PICK b \in Accounts :
           \/ Send("joinPartyRoom", <<b>>)
           \/ Send("cancelJoinPartyRoom", <<b>>)
           \/ \E t \in Threads : HallJoin(t, b) \/ HallNotJoin(t, b)
                                   \/ HallCheck(t, b) \/ HallEnterRoom(t, b)
    BY <1>9 DEF Players
  <2>2. <<b>> \in Seq(Accounts)
    OBVIOUS
  <2>3. "joinPartyRoom" \in Heads /\ "cancelJoinPartyRoom" \in Heads
    BY DEF Heads
  <2>. QED
    BY <1>7, <1>8, <2>1, <2>2, <2>3
    DEF HallJoin, HallNotJoin, HallCheck, HallEnterRoom
<1>10. CASE Send("close", <<>>)
  <2>1. <<>> \in Seq(Accounts)
    BY EmptySeq
  <2>2. "close" \in Heads /\ "close" \notin {"joinPartyRoom", "cancelJoinPartyRoom"}
    BY DEF Heads
  <2>. QED
    BY <1>7, <1>10, <2>1, <2>2
<1>11. CASE ExpireStatus \/ WorkerFails \/ UNCHANGED vars
  <2>1. worker' = worker \/ worker'.pc \notin {"leave", "success"}
    BY <1>11 DEF ExpireStatus, WorkerFails, Idle, vars
  <2>2. queue' = queue /\ hall' = hall /\ seated' = seated
    BY <1>11 DEF ExpireStatus, WorkerFails, vars
  <2>. QED
    BY <1>3, <2>1, <2>2
<1>. QED
  BY <1>5, <1>6, <1>9, <1>10, <1>11 DEF Mild

LEMMA LeftStep ==
    ASSUME TInv, SeatInv, Smooth, Smooth', LeftInv, [Next]_vars
    PROVE  LeftInv'
<1>. USE DEF lists, game, actors, bounds
<1>. SUFFICES ASSUME NEW a \in applied' PROVE Left(a)'
  BY DEF LeftInv
<1>1. CASE Loop
  <2>1. UNCHANGED <<applied, queue, seated, worker, hall, away>>
    BY <1>1 DEF Loop, FeedStatus, FeedExpire, ReadWaiting, PopWaiting, DeleteMark,
                SetFinished, SendMatch
  <2>2. Left(a)
    BY <2>1 DEF LeftInv
  <2>. QED
    BY <2>1, <2>2, LeftFrame
<1>2. CASE Push
  <2>1. PICK b \in Accounts :
          /\ applied' = applied \cup {b} /\ marred' = marred \cup PushCause(b)
          /\ UNCHANGED <<seated, queue, away>>
          /\ worker' = worker \/ worker'.pc = "lpop"
          /\ \A s \in Threads : hall'[s] = hall[s] \/ hall'[s].pc = "idle"
    BY <1>2, PushIs
  <2>2. CASE a \in applied
    <3>1. Left(a)
      BY <2>2 DEF LeftInv
    <3>. QED
      BY <2>1, <3>1, LeftFrame
  <2>3. CASE a = b
    <3>1. ~Engaged(a)
      BY <2>1, <2>3, PushFree DEF Smooth, Calm
    <3>2. \A t \in Threads : hall[t].pc = "unfin" => hall[t].who # <<a>>
      BY <2>1, <2>3, PushCalm DEF Smooth
    <3>3. a \notin seated /\ ~SuccessPending(a)
      BY <3>1 DEF Engaged
    <3>4. /\ ~Handles("success", a)
          /\ \A n \in 1..Len(queue) :
                ~(queue[n].head = "joinPartyRoomSuccess" /\ a \in Members(queue[n].who))
      <4>1. \A n \in 1..Len(queue) : queue[n] \in Members(queue)
        BY DEF Members
      <4>. QED
        BY <3>3, <4>1 DEF SuccessPending, Handles
    <3>5. Left(a)
      BY <3>2, <3>3, <3>4 DEF Left
    <3>. QED
      BY <2>1, <3>5, LeftFrame
  <2>. QED
    BY <2>1, <2>2, <2>3
<1>3. CASE Withdraw
  <2>1. PICK b \in Accounts :
          /\ applied' = applied \ {b}
          /\ UNCHANGED <<seated, queue, away>>
          /\ worker' = worker \/ worker'.pc = "lpop"
          /\ \A s \in Threads : hall'[s] = hall[s] \/ hall'[s].pc = "idle"
    BY <1>3, WithdrawIs
  <2>2. Left(a)
    BY <2>1 DEF LeftInv
  <2>. QED
    BY <2>1, <2>2, LeftFrame
<1>4. CASE Mild
  <2>1. Left(a)
    BY <1>4, MildIs DEF LeftInv
  <2>. QED
    BY <1>4, <2>1, LeftMild
<1>5. CASE OpenRoom
  <2>. DEFINE m == Head(matches)
  <2>1. /\ queue' = Append(queue, [head |-> "joinPartyRoomSuccess", who |-> m])
        /\ UNCHANGED <<seated, worker, hall, applied>> /\ away \subseteq away'
    BY <1>5 DEF OpenRoom
  <2>2. m \in Seq(Accounts)
    <3>1. matches \in Seq(Seq(Accounts)) /\ matches # <<>>
      BY <1>5, TypeUse DEF OpenRoom
    <3>. QED
      BY <3>1, HeadTailProperties
  <2>3. Left(a)
    BY <2>1 DEF LeftInv
  <2>4. "joinPartyRoomSuccess" \in Heads
        /\ "joinPartyRoomSuccess" \notin {"joinPartyRoom", "cancelJoinPartyRoom"}
        /\ "joinPartyRoomSuccess" # "PartyRoomLeaveSuccess"
    BY DEF Heads
  <2>. HIDE DEF m
  <2>. QED
    BY <2>1, <2>2, <2>3, <2>4, LeftAppend
<1>6. CASE CloseRoom
  <2>. DEFINE m == Head(rooms)
  <2>1. /\ queue' = Append(queue, [head |-> "PartyRoomLeaveSuccess", who |-> m])
        /\ UNCHANGED <<seated, worker, hall>> /\ away' = away \ Members(m)
    BY <1>6 DEF CloseRoom
  <2>2. m \in Seq(Accounts)
    <3>1. rooms \in Seq(Seq(Accounts)) /\ rooms # <<>>
      BY <1>6, TypeUse DEF CloseRoom
    <3>. QED
      BY <3>1, HeadTailProperties
  <2>3. a \in applied /\ a \notin Members(m)
    BY <1>6, CloseFree DEF Smooth, Calm
  <2>4. Left(a)
    BY <2>3 DEF LeftInv
  <2>5. "PartyRoomLeaveSuccess" \in Heads
        /\ "PartyRoomLeaveSuccess" \notin {"joinPartyRoom", "cancelJoinPartyRoom"}
    BY DEF Heads
  <2>. HIDE DEF m
  <2>. QED
    BY <2>1, <2>2, <2>3, <2>4, <2>5, LeftAppend
<1>7. CASE RestartService
  BY <1>7 DEF RestartService, Smooth
<1>. QED
  BY <1>1, <1>2, <1>3, <1>4, <1>5, <1>6, <1>7, Cases

\* A player who has applied stays known if nothing of the player's is deleted.
LEMMA KnownFrame ==
    ASSUME NEW a, Answered(a) \/ Popping(a) \/ a \in away,
           a \in seated => a \in seated' \cup fin',
           a \in fin => a \in seated' \cup fin',
           a \in mark => a \in mark',
           a \in Members(wait) => a \in Members(wait'),
           loop' = loop,
           a \in away => a \in away'
    PROVE  Answered(a)' \/ Popping(a)' \/ a \in away'
<1>1. CASE Answered(a)
  <2>1. a \in seated' \cup fin' \/ a \in mark' \cap Members(wait')
    BY <1>1 DEF Answered
  <2>. QED
    BY <2>1 DEF Answered, Members
<1>2. CASE Popping(a)
  BY <1>2 DEF Popping
<1>. QED
  BY <1>1, <1>2

\* The loop pops the player whose tables it changes next.
LEMMA KnownPop ==
    ASSUME TInv, Prefix, PopWaiting,
           NEW a, Answered(a) \/ Popping(a) \/ a \in away
    PROVE  Answered(a)' \/ Popping(a)' \/ a \in away'
<1>. USE DEF lists, game, actors, bounds
<1>1. /\ loop \in Loops /\ Seats \in Nat /\ Seats >= 1 /\ wait \in Seq(Accounts)
      /\ Len(wait) \in Nat
  BY TypeUse, SeatsType, ListTypes DEF TInv
<1>2. /\ Matching /\ loop.pc = "pop" /\ loop'.pc = "unmark" /\ loop'.i = loop.i
      /\ loop'.players = loop.players /\ wait' = Popped
      /\ UNCHANGED <<mark, fin, seated, away>>
  BY <1>1 DEF PopWaiting, Matching, Loops
<1>3. loop.i \in 1..Seats /\ Gone = loop.i - 1
  BY <1>2 DEF TInv, Full, Gone
<1>4. /\ Len(wait) >= Seats - Gone
      /\ \A k \in 1..(Seats - Gone) : wait[k] = loop.players[Gone + k]
  BY <1>2 DEF Prefix
<1>5. Len(wait) # 0 /\ 1 \in 1..(Seats - Gone) /\ Gone + 1 = loop.i
  BY <1>1, <1>3, <1>4
<1>6. wait[1] = loop.players[loop.i] /\ wait # <<>>
  BY <1>4, <1>5, PopList
<1>7. /\ Len(wait') = Len(wait) - 1
      /\ \A p \in 1..Len(wait') : wait'[p] = wait[p + 1]
  BY <1>2, <1>6, PopList
<1>8. CASE a \in mark /\ a \in Members(wait)
  <2>1. PICK p \in 1..Len(wait) : a = wait[p]
    BY <1>8 DEF Members
  <2>2. CASE p = 1
    BY <1>2, <1>6, <2>1, <2>2 DEF Popping
  <2>3. CASE p # 1
    <3>1. PICK q \in 1..Len(wait') : q + 1 = p
      BY <1>1, <1>7, <2>3
    <3>2. a = wait'[q] /\ a \in mark'
      BY <1>2, <1>7, <1>8, <2>1, <3>1
    <3>3. a \in mark' \cap Members(wait')
      BY <3>2 DEF Members
    <3>. QED
      BY <3>3 DEF Answered, Members
  <2>. QED
    BY <2>2, <2>3
<1>9. CASE a \in seated \cup fin
  BY <1>2, <1>9 DEF Answered
<1>10. CASE a \in away
  BY <1>2, <1>10
<1>11. ~Popping(a)
  BY <1>2 DEF Popping
<1>. QED
  BY <1>8, <1>9, <1>10, <1>11 DEF Answered

LEMMA KnownLoop ==
    ASSUME TInv, Prefix, Loop, NEW a, Answered(a) \/ Popping(a) \/ a \in away
    PROVE  Answered(a)' \/ Popping(a)' \/ a \in away'
<1>. USE DEF lists, game, actors, bounds
<1>1. loop \in Loops
  BY TypeUse
<1>2. CASE FeedStatus \/ FeedExpire \/ ReadWaiting \/ SendMatch
  <2>1. UNCHANGED <<wait, mark, fin, seated, away>> /\ ~Popping(a)
    BY <1>2 DEF FeedStatus, FeedExpire, ReadWaiting, SendMatch, Popping
  <2>. QED
    BY <2>1 DEF Answered, Members
<1>3. CASE PopWaiting
  BY <1>3, KnownPop
<1>4. CASE DeleteMark
  <2>1. /\ UNCHANGED <<wait, fin, seated, away>> /\ loop'.pc = "finish"
        /\ loop'.i = loop.i /\ loop'.players = loop.players
        /\ mark' = mark \ {loop.players[loop.i]}
    BY <1>1, <1>4 DEF DeleteMark, Loops
  <2>2. CASE a = loop.players[loop.i]
    BY <2>1, <2>2 DEF Popping
  <2>3. CASE a # loop.players[loop.i]
    <3>1. ~Popping(a)
      BY <2>3 DEF Popping
    <3>2. a \in mark => a \in mark'
      BY <2>1, <2>3
    <3>. QED
      BY <2>1, <3>1, <3>2 DEF Answered, Members
  <2>. QED
    BY <2>2, <2>3
<1>5. CASE SetFinished
  <2>1. /\ UNCHANGED <<wait, mark, seated, away>>
        /\ fin' = fin \cup {loop.players[loop.i]}
    BY <1>5 DEF SetFinished
  <2>2. CASE Popping(a)
    <3>1. a \in fin'
      BY <2>1, <2>2 DEF Popping
    <3>. QED
      BY <3>1 DEF Answered
  <2>3. CASE Answered(a) \/ a \in away
    BY <2>1, <2>3 DEF Answered, Members
  <2>. QED
    BY <2>2, <2>3
<1>. QED
  BY <1>2, <1>3, <1>4, <1>5 DEF Loop

LEMMA KnownMild ==
    ASSUME TInv, Mild, NEW a, Left(a), Answered(a) \/ Popping(a) \/ a \in away
    PROVE  Answered(a)' \/ Popping(a)' \/ a \in away'
<1>. USE DEF lists, game, actors, bounds
<1>1. UNCHANGED <<wait, mark, away, loop>>
  BY MildIs
<1>2. ASSUME a \in seated => a \in seated' \cup fin', a \in fin => a \in seated' \cup fin'
      PROVE  Answered(a)' \/ Popping(a)' \/ a \in away'
  BY <1>1, <1>2, KnownFrame
<1>3. CASE JoinSuccess
  BY <1>2, <1>3 DEF JoinSuccess
<1>4. CASE LeaveSuccess
  <2>1. /\ seated' = seated \ Members(worker.who) /\ fin' = fin
        /\ worker.pc = "leave"
    BY <1>4 DEF LeaveSuccess, WorkerAt
  <2>2. a \in Members(worker.who) => a \notin seated
    BY <2>1 DEF Left, Handles
  <2>. QED
    BY <1>2, <2>1, <2>2
<1>5. ASSUME NEW t \in Threads, HallUnfinish(t)
      PROVE  Answered(a)' \/ Popping(a)' \/ a \in away'
  <2>1. /\ hall[t].pc = "unfin" /\ seated' = seated
        /\ fin' = fin \ Members(hall[t].who)
    BY <1>5 DEF HallUnfinish
  <2>2. PICK b \in Accounts : hall[t].who = <<b>> /\ Members(hall[t].who) = {b}
    BY <2>1, HallWho
  <2>3. CASE a = b
    <3>1. a \in away
      BY <2>1, <2>2, <2>3 DEF Left
    <3>. QED
      BY <1>1, <3>1
  <2>4. CASE a # b
    BY <1>2, <2>1, <2>2, <2>4
  <2>. QED
    BY <2>3, <2>4
<1>6. CASE Worker /\ ~JoinPush /\ ~CancelPipe /\ ~JoinSuccess /\ ~LeaveSuccess
  <2>1. UNCHANGED <<seated, fin>>
    BY <1>6 DEF Worker, WorkerReads, StartReading, PopProtocol, JoinExit, JoinLook,
                CancelMine, CancelGet, CancelScan, CloseQueue, CloseStatus
  <2>. QED
    BY <1>2, <2>1
<1>7. ASSUME NEW t \in Threads, HallStep(t), ~HallPush(t), ~HallRemove(t),
             ~HallUnfinish(t)
      PROVE  Answered(a)' \/ Popping(a)' \/ a \in away'
  <2>1. UNCHANGED <<seated, fin>>
    BY <1>7, HallQuiet
  <2>. QED
    BY <1>2, <2>1
<1>8. CASE Players \/ Send("close", <<>>) \/ ExpireStatus \/ WorkerFails
           \/ UNCHANGED vars
  <2>1. UNCHANGED <<seated, fin>>
    BY <1>8 DEF Players, Send, HallJoin, HallNotJoin, HallCheck, HallEnterRoom, Ask,
                ExpireStatus, WorkerFails, vars
  <2>. QED
    BY <1>2, <2>1
<1>. QED
  BY <1>3, <1>4, <1>5, <1>6, <1>7, <1>8 DEF Mild

LEMMA KnownStep ==
    ASSUME TInv, SeatInv, Smooth, Smooth', Prefix, LeftInv, Known, [Next]_vars
    PROVE  Known'
<1>. USE DEF lists, game, actors, bounds
<1>. SUFFICES ASSUME NEW a \in applied'
              PROVE  Answered(a)' \/ Popping(a)' \/ a \in away'
  BY DEF Known
<1>1. ASSUME a \in applied PROVE Left(a) /\ (Answered(a) \/ Popping(a) \/ a \in away)
  BY <1>1 DEF LeftInv, Known
<1>2. CASE Loop
  <2>1. applied' = applied
    BY <1>2 DEF Loop, FeedStatus, FeedExpire, ReadWaiting, PopWaiting, DeleteMark,
                SetFinished, SendMatch
  <2>. QED
    BY <1>1, <1>2, <2>1, KnownLoop
<1>3. CASE Push
  <2>1. PICK b \in Accounts :
          /\ wait' = wait \o <<b>> /\ mark' = mark \cup {b}
          /\ applied' = applied \cup {b} /\ UNCHANGED <<fin, seated, away, loop>>
    BY <1>3, PushIs
  <2>2. Members(wait') = Members(wait) \cup {b}
    BY <2>1, PushList
  <2>3. CASE a = b
    <3>1. a \in mark' \cap Members(wait')
      BY <2>1, <2>2, <2>3
    <3>. QED
      BY <3>1 DEF Answered, Members
  <2>4. CASE a \in applied
    BY <1>1, <2>1, <2>2, <2>4, KnownFrame
  <2>. QED
    BY <2>1, <2>3, <2>4
<1>4. CASE Withdraw
  <2>1. PICK b \in Accounts :
          /\ wait' = Without(wait, {b}) \/ wait' = wait
          /\ mark \ {b} \subseteq mark' /\ applied' = applied \ {b}
          /\ UNCHANGED <<fin, seated, away, loop>>
    BY <1>4, WithdrawIs
  <2>2. Members(wait) \ {b} \subseteq Members(wait')
    BY <2>1, RemoveList
  <2>3. a \in applied /\ a # b
    BY <2>1
  <2>. QED
    BY <1>1, <2>1, <2>2, <2>3, KnownFrame
<1>5. CASE Mild
  BY <1>1, <1>5, MildIs, KnownMild
<1>6. CASE OpenRoom
  <2>1. UNCHANGED <<wait, mark, fin, seated, loop, applied>> /\ away \subseteq away'
    BY <1>6 DEF OpenRoom
  <2>. QED
    BY <1>1, <2>1, KnownFrame
<1>7. CASE CloseRoom
  <2>1. /\ UNCHANGED <<wait, mark, fin, seated, loop>>
        /\ away' = away \ Members(Head(rooms))
    BY <1>7 DEF CloseRoom
  <2>2. a \in applied /\ a \notin Members(Head(rooms))
    BY <1>7, CloseFree DEF Smooth, Calm
  <2>. QED
    BY <1>1, <2>1, <2>2, KnownFrame
<1>8. CASE RestartService
  BY <1>8 DEF RestartService, Smooth
<1>. QED
  BY <1>2, <1>3, <1>4, <1>5, <1>6, <1>7, <1>8, Cases

LEMMA KnownInvStep ==
    ASSUME TInv, SeatInv, KnownInv, [Next]_vars
    PROVE  KnownInv'
<1>. SUFFICES ASSUME Smooth' PROVE Prefix' /\ LeftInv' /\ Known'
  BY DEF KnownInv
<1>1. Smooth
  BY MarredGrows DEF Smooth, Calm, Tidy
<1>2. Prefix /\ LeftInv /\ Known
  BY <1>1 DEF KnownInv
<1>. QED
  BY <1>1, <1>2, PrefixStep, LeftStep, KnownStep

----------------------------------------------------------------------------
(* What the hall answers *)

\* Only a push adds to the list and to the marks.
LEMMA Shrinks ==
    ASSUME TInv, [Next]_vars, ~Push
    PROVE  mark' \subseteq mark /\ Members(wait') \subseteq Members(wait)
<1>. USE DEF lists, game, actors, bounds
<1>1. CASE Loop
  <2>1. Members(Popped) \subseteq Members(wait)
    BY PopList
  <2>. QED
    BY <1>1, <2>1 DEF Loop, FeedStatus, FeedExpire, ReadWaiting, PopWaiting,
                      DeleteMark, SetFinished, SendMatch
<1>2. CASE Withdraw
  <2>1. PICK a \in Accounts : /\ wait' = Without(wait, {a}) \/ wait' = wait
                              /\ mark' \subseteq mark
    BY <1>2, WithdrawIs
  <2>2. Members(Without(wait, {a})) = Members(wait) \ {a}
    BY RemoveList
  <2>. QED
    BY <2>1, <2>2
<1>3. CASE Mild
  BY <1>3, MildIs
<1>4. CASE OpenRoom \/ CloseRoom \/ RestartService
  BY <1>4 DEF OpenRoom, CloseRoom, RestartService
<1>. QED
  BY <1>1, <1>2, <1>3, <1>4, Cases

\* The loop sends those only who were in the list.
LEMMA ComingLoop ==
    ASSUME TInv, Loop, NEW a, Coming(a)'
    PROVE  Coming(a)
<1>. USE DEF lists, game
<1>1. loop \in Loops /\ Seats \in Nat /\ Seats >= 1 /\ wait \in Seq(Accounts)
      /\ Len(wait) \in Nat /\ Len(matches) \in Nat
  BY TypeUse, SeatsType, ListTypes DEF TInv
<1>2. \/ a \in Members(wait')
      \/ Matching' /\ a \in Members(loop'.players)
      \/ \E n \in 1..Len(matches') : a \in Members(matches'[n])
  BY DEF Coming, Members
<1>. HIDE DEF Members
<1>3. CASE FeedStatus \/ FeedExpire
  <2>1. loop'.pc \in {"expire", "range"}
    BY <1>1, <1>3 DEF FeedStatus, FeedExpire, Loops
  <2>2. wait' = wait /\ matches' = matches /\ ~Matching'
    BY <1>3, <2>1 DEF FeedStatus, FeedExpire, Matching
  <2>. QED
    BY <1>2, <2>2 DEF Coming
<1>4. CASE ReadWaiting
  <2>1. /\ Len(wait) < Seats => loop' = Resting
        /\ Len(wait) >= Seats =>
              /\ Len(loop'.players) = Seats
              /\ \A k \in 1..Seats : loop'.players[k] = wait[k]
    BY <1>1, <1>4, Round DEF ReadWaiting
  <2>2. wait' = wait /\ matches' = matches
    BY <1>4 DEF ReadWaiting
  <2>3. Matching' => Members(loop'.players) \subseteq Members(wait)
    <3>1. CASE Len(wait) < Seats
      BY <2>1, <3>1 DEF Matching, Resting
    <3>2. CASE Len(wait) >= Seats
      <4>1. \A k \in 1..Seats : k \in 1..Len(wait)
        BY <1>1, <3>2
      <4>. QED
        BY <2>1, <3>2, <4>1 DEF Members
    <3>. QED
      BY <1>1, <3>1, <3>2
  <2>. QED
    BY <1>2, <2>2, <2>3 DEF Coming
<1>5. CASE PopWaiting
  <2>1. Members(wait') \subseteq Members(wait)
    BY <1>5, PopList DEF PopWaiting
  <2>2. Matching /\ loop'.players = loop.players /\ matches' = matches
    BY <1>1, <1>5 DEF PopWaiting, Matching, Loops
  <2>. QED
    BY <1>2, <2>1, <2>2 DEF Coming
<1>6. CASE DeleteMark \/ SetFinished
  <2>1. /\ Matching /\ loop'.players = loop.players
        /\ wait' = wait /\ matches' = matches
    BY <1>1, <1>6 DEF DeleteMark, SetFinished, Matching, Loops
  <2>. QED
    BY <1>2, <2>1 DEF Coming
<1>7. CASE SendMatch
  <2>1. Matching /\ wait' = wait /\ Len(loop.players) = Seats
    BY <1>7 DEF SendMatch, Matching, TInv, Full
  <2>2. loop.len \in Nat /\ loop.players \in Seq(Accounts)
    BY <1>1 DEF Loops
  <2>3. Matching' => Members(loop'.players) \subseteq Members(loop.players)
    <3>1. loop' = NextRound(loop.players, loop.len)
      BY <1>7 DEF SendMatch
    <3>2. CASE loop.len < Seats
      <4>1. loop' = Resting
        BY <1>1, <2>1, <2>2, <3>1, <3>2, Round
      <4>. QED
        BY <4>1 DEF Matching, Resting
    <3>3. CASE loop.len >= Seats
      <4>1. /\ Len(loop'.players) = Seats
            /\ \A k \in 1..Seats : loop'.players[k] = loop.players[k]
        BY <1>1, <2>1, <2>2, <3>1, <3>3, Round
      <4>. QED
        BY <2>1, <4>1 DEF Members
    <3>. QED
      BY <1>1, <2>2, <3>2, <3>3
  <2>4. \A n \in 1..Len(matches') :
            \/ matches'[n] = loop.players
            \/ n \in 1..Len(matches) /\ matches'[n] = matches[n]
    <3>1. CASE matches' = matches
      BY <3>1
    <3>2. CASE matches' = Append(matches, loop.players)
      <4>1. /\ Len(matches') = Len(matches) + 1
            /\ \A n \in 1..Len(matches) : matches'[n] = matches[n]
            /\ matches'[Len(matches) + 1] = loop.players
        BY <2>2, <3>2, TypeUse, AppendProperties
      <4>2. ASSUME NEW n \in 1..Len(matches')
            PROVE  n \in 1..Len(matches) \/ n = Len(matches) + 1
        BY <1>1, <4>1
      <4>3. ASSUME NEW n \in 1..Len(matches')
            PROVE  \/ matches'[n] = loop.players
                   \/ n \in 1..Len(matches) /\ matches'[n] = matches[n]
        <5>1. CASE n \in 1..Len(matches)
          BY <4>1, <5>1
        <5>2. CASE n = Len(matches) + 1
          BY <4>1, <5>2
        <5>. QED
          BY <4>2, <5>1, <5>2
      <4>. QED
        BY <4>3
    <3>. QED
      BY <1>7, <3>1, <3>2 DEF SendMatch
  <2>. QED
    BY <1>2, <2>1, <2>3, <2>4 DEF Coming
<1>. QED
  BY <1>3, <1>4, <1>5, <1>6, <1>7 DEF Loop

\* Who was not on the way to a table is so only after a push of one's own.
LEMMA ComingBefore ==
    ASSUME TInv, [Next]_vars, ~Push, NEW a, Coming(a)'
    PROVE  Coming(a)
<1>. USE DEF lists, game, actors, bounds
<1>1. ASSUME Members(wait') \subseteq Members(wait), matches' = matches, loop' = loop
      PROVE  Coming(a)
  BY <1>1 DEF Coming, Matching, Members
<1>2. CASE Loop
  BY <1>2, ComingLoop
<1>3. CASE Withdraw
  <2>1. matches' = matches /\ loop' = loop
    BY <1>3, WithdrawIs
  <2>. QED
    BY <1>1, <2>1, Shrinks
<1>4. CASE Mild
  BY <1>1, <1>4, MildIs
<1>5. CASE OpenRoom
  <2>1. /\ Len(matches') = Len(matches) - 1 /\ Len(matches) \in Nat \ {0}
        /\ \A n \in 1..Len(matches') : matches'[n] = matches[n + 1]
    <3>1. matches \in Seq(Seq(Accounts)) /\ matches # <<>> /\ matches' = Tail(matches)
      BY <1>5, TypeUse DEF OpenRoom
    <3>. QED
      BY <3>1, HeadTailProperties, EmptySeq
  <2>2. \A n \in 1..Len(matches') :
            n + 1 \in 1..Len(matches) /\ matches'[n] = matches[n + 1]
    BY <2>1
  <2>3. wait' = wait /\ loop' = loop
    BY <1>5 DEF OpenRoom
  <2>. QED
    BY <2>2, <2>3 DEF Coming, Matching, Members
<1>6. CASE CloseRoom
  BY <1>1, <1>6 DEF CloseRoom
<1>7. CASE RestartService
  BY <1>7 DEF RestartService, Coming, Matching, Resting, Members
<1>. QED
  BY <1>2, <1>3, <1>4, <1>5, <1>6, <1>7, Cases

\* Who is told to be out of it and is not, makes a fault of it.
LEMMA Ignored ==
    ASSUME TInv, NEW t \in Threads, HallStep(t), HallIgnore(t),
           hall[t].pc # "idle", "unheeded" \notin marred'
    PROVE  \E a \in Accounts : withdrawn' = withdrawn \cup {a} /\ ~Coming(a)
<1>1. PICK a \in Accounts : /\ hall[t].who = <<a>> /\ hall[t].who[1] = a
                            /\ Members(hall[t].who) = {a}
  BY HallWho
<1>2. withdrawn' = withdrawn \cup {a} /\ marred' = marred \cup IgnoreCause(a)
  BY <1>1 DEF HallIgnore
<1>3. ~Engaged(a) /\ a \notin Members(wait)
  BY <1>2 DEF IgnoreCause
<1>4. \A n \in 1..Len(matches) : a \notin Members(matches[n])
  BY <1>3, NotEngaged
<1>5. ~Coming(a)
  BY <1>3, <1>4, NotEngaged DEF Coming
<1>. QED
  BY <1>2, <1>5

\* Nobody else is told so.
LEMMA WithdrawnStep ==
    ASSUME TInv, [Next]_vars
    PROVE  \/ withdrawn' \subseteq withdrawn
           \/ \E t \in Threads : /\ HallStep(t) /\ HallIgnore(t)
                                 /\ hall[t].pc # "idle" /\ ~Push
<1>. USE DEF lists, game, actors, bounds
<1>1. CASE Loop
  BY <1>1 DEF Loop, FeedStatus, FeedExpire, ReadWaiting, PopWaiting, DeleteMark,
              SetFinished, SendMatch
<1>2. CASE Worker
  BY <1>2 DEF Worker, WorkerReads, StartReading, PopProtocol, JoinExit, JoinLook,
              JoinPush, PushWaiting, CancelMine, CancelGet, CancelScan, CancelPipe,
              JoinSuccess, LeaveSuccess, CloseQueue, CloseStatus
<1>3. ASSUME NEW t \in Threads, HallStep(t)
      PROVE  \/ withdrawn' \subseteq withdrawn
             \/ HallIgnore(t) /\ hall[t].pc \in {"mine", "ask"}
  BY <1>3 DEF HallStep, HallReads, HallExit, HallLook, HallPush, PushWaiting, HallMine,
              HallCancel, HallAway, HallUnfinish, HallWanted, HallListed,
              HallMatched, HallGet, HallScan, HallRemove
<1>4. ASSUME NEW t \in Threads, HallStep(t), HallIgnore(t),
             hall[t].pc \in {"mine", "ask"}, Push
      PROVE  withdrawn' \subseteq withdrawn
  BY <1>4, PushIs
<1>5. CASE \/ Players \/ Send("close", <<>>) \/ OpenRoom \/ CloseRoom
           \/ ExpireStatus \/ RestartService \/ WorkerFails
  BY <1>5 DEF Players, Send, HallJoin, HallNotJoin, HallCheck, HallEnterRoom, Ask,
              OpenRoom, CloseRoom, ExpireStatus, RestartService, WorkerFails
<1>6. CASE UNCHANGED vars
  BY <1>6 DEF vars
<1>7. ASSUME NEW t \in Threads, HallStep(t)
      PROVE  \/ withdrawn' \subseteq withdrawn
             \/ HallIgnore(t) /\ hall[t].pc # "idle" /\ ~Push
  BY <1>3, <1>4, <1>7
<1>. QED
  BY <1>1, <1>2, <1>5, <1>6, <1>7 DEF Next

LEMMA HeededStep ==
    ASSUME TInv, HeededInv, [Next]_vars
    PROVE  HeededInv'
<1>. SUFFICES ASSUME "unheeded" \notin marred', NEW a \in withdrawn', Coming(a)'
              PROVE  FALSE
  BY DEF HeededInv
<1>1. "unheeded" \notin marred
  BY MarredGrows
<1>2. CASE Push
  <2>1. PICK b \in Accounts : /\ wait' = wait \o <<b>> /\ withdrawn' = withdrawn \ {b}
                              /\ UNCHANGED <<matches, loop>>
    BY <1>2, PushIs DEF game
  <2>2. Members(wait') = Members(wait) \cup {b}
    BY <2>1, PushList
  <2>3. a # b /\ a \in withdrawn
    BY <2>1
  <2>4. Coming(a)
    BY <2>1, <2>2, <2>3 DEF Coming, Matching, Members
  <2>. QED
    BY <1>1, <2>3, <2>4 DEF HeededInv
<1>3. CASE ~Push
  <2>1. Coming(a)
    BY <1>3, ComingBefore
  <2>2. a \notin withdrawn
    BY <1>1, <2>1 DEF HeededInv
  <2>3. PICK t \in Threads : HallStep(t) /\ HallIgnore(t) /\ hall[t].pc # "idle"
    BY <2>2, WithdrawnStep
  <2>4. PICK b \in Accounts : withdrawn' = withdrawn \cup {b} /\ ~Coming(b)
    BY <2>3, Ignored
  <2>. QED
    BY <2>1, <2>2, <2>4
<1>. QED
  BY <1>2, <1>3

\* How a request comes to the point of saying that the player has not applied.
LEMMA Asks ==
    ASSUME TInv, [Next]_vars, NEW t \in Threads, hall'[t].pc = "matched"
    PROVE  \/ hall'[t] = hall[t]
           \/ HallStep(t) /\ ~HallPush(t) /\ ~HallRemove(t)
<1>. USE DEF lists, game, actors, bounds
<1>0. hall \in [Threads -> Halls]
  BY TypeUse
<1>1. CASE Loop
  BY <1>1 DEF Loop, FeedStatus, FeedExpire, ReadWaiting, PopWaiting, DeleteMark,
              SetFinished, SendMatch
<1>2. CASE Worker
  BY <1>2 DEF Worker, WorkerReads, StartReading, PopProtocol, JoinExit, JoinLook,
              JoinPush, CancelMine, CancelGet, CancelScan, CancelPipe,
              JoinSuccess, LeaveSuccess, CloseQueue, CloseStatus
<1>3. ASSUME NEW s \in Threads, HallStep(s)
      PROVE  \/ hall'[t] = hall[t]
             \/ HallStep(t) /\ ~HallPush(t) /\ ~HallRemove(t)
  <2>1. CASE HallPush(s) \/ HallRemove(s)
    <3>1. hall' = [hall EXCEPT ![s] = Idle]
      BY <2>1 DEF HallPush, HallRemove, HallDone
    <3>. QED
      BY <1>0, <3>1 DEF Idle
  <2>2. CASE ~HallPush(s) /\ ~HallRemove(s)
    BY <1>3, <2>2, HallQuiet
  <2>. QED
    BY <2>1, <2>2
<1>4. ASSUME NEW s \in Threads, NEW a, NEW step, step # "matched", Ask(s, a, step)
      PROVE  hall'[t] = hall[t]
  BY <1>0, <1>4 DEF Ask, Idle
<1>5. CASE Players
  <2>1. \/ hall' = hall
        \/ \E a \in Accounts : \E s \in Threads :
               HallJoin(s, a) \/ HallNotJoin(s, a) \/ HallCheck(s, a)
                 \/ HallEnterRoom(s, a)
    BY <1>5 DEF Players, Send
  <2>. QED
    BY <1>4, <2>1 DEF HallJoin, HallNotJoin, HallCheck, HallEnterRoom
<1>6. CASE \/ Send("close", <<>>) \/ OpenRoom \/ CloseRoom
           \/ ExpireStatus \/ RestartService \/ WorkerFails
  BY <1>6 DEF Send, OpenRoom, CloseRoom, ExpireStatus, RestartService, WorkerFails
<1>7. CASE UNCHANGED vars
  BY <1>7 DEF vars
<1>. QED
  BY <1>1, <1>2, <1>3, <1>5, <1>6, <1>7 DEF Next

LEMMA AskedStep ==
    ASSUME TInv, AskedInv, [Next]_vars
    PROVE  AskedInv'
<1>. SUFFICES ASSUME "asked" \notin marred', NEW t \in Threads,
                     hall'[t].pc = "matched"
              PROVE  Missing(t)'
  BY DEF AskedInv
<1>1. "asked" \notin marred
  BY MarredGrows
<1>2. hall[t].pc = "matched" => Missing(t)
  BY <1>1 DEF AskedInv
<1>3. CASE Push
  <2>1. PICK b \in Accounts :
            /\ wait' = wait \o <<b>> /\ mark' = mark \cup {b}
            /\ marred' = marred \cup PushCause(b)
            /\ hall'[t] = hall[t] \/ hall'[t].pc = "idle"
    BY <1>3, PushIs
  <2>2. hall'[t] = hall[t]
    BY <2>1
  <2>3. PICK a \in Accounts : hall[t].who = <<a>> /\ hall[t].who[1] = a
    BY <2>2, HallWho
  <2>4. "asked" \in Causes
    BY DEF Causes
  <2>5. "asked" \notin PushCause(b)
    BY <2>1
  <2>6. hall[t].who # <<b>>
    BY <2>2, <2>4, <2>5 DEF PushCause
  <2>7. a # b
    BY <2>3, <2>6
  <2>8. Members(wait') = Members(wait) \cup {b}
    BY <2>1, PushList
  <2>9. a \notin mark \/ a \notin Members(wait)
    BY <1>2, <2>2, <2>3 DEF Missing
  <2>10. a \notin mark' \/ a \notin Members(wait')
    BY <2>1, <2>7, <2>8, <2>9
  <2>. QED
    BY <2>2, <2>3, <2>10 DEF Missing, Members
<1>4. CASE ~Push
  <2>1. mark' \subseteq mark /\ Members(wait') \subseteq Members(wait)
    BY <1>4, Shrinks
  <2>2. CASE hall'[t] = hall[t]
    BY <1>2, <2>1, <2>2 DEF Missing, Members
  <2>3. CASE HallStep(t) /\ ~HallPush(t) /\ ~HallRemove(t)
    <3>1. /\ hall[t].who[1] \notin mark \/ hall[t].who[1] \notin Members(wait)
          /\ hall'[t].who = hall[t].who
      BY <2>3, HallQuiet
    <3>. QED
      BY <2>1, <3>1 DEF Missing, Members
  <2>. QED
    BY <2>2, <2>3, Asks
<1>. QED
  BY <1>3, <1>4

\* Only the last step of /checkJoinPartyRoom denies anything.
LEMMA Denies ==
    ASSUME TInv, [Next]_vars, "denied" \notin marred, "denied" \in marred'
    PROVE  \E t \in Threads : hall[t].pc = "matched" /\ Waits(hall[t].who[1])
<1>. USE DEF lists, game, actors, bounds
<1>1. ~Loop
  BY DEF Loop, FeedStatus, FeedExpire, ReadWaiting, PopWaiting, DeleteMark,
         SetFinished, SendMatch
<1>2. ~Push
  <2>1. \A a : "denied" \notin PushCause(a)
    BY DEF PushCause
  <2>. QED
    BY <2>1, PushIs
<1>3. ~Withdraw
  <2>1. \A a : "denied" \notin RemoveCause(a)
    BY DEF RemoveCause
  <2>. QED
    BY <2>1, WithdrawIs
<1>4. ~OpenRoom /\ ~CloseRoom /\ ~RestartService
  BY DEF OpenRoom, CloseRoom, RestartService
<1>5. ~(Worker /\ ~JoinPush /\ ~CancelPipe)
  BY DEF Worker, WorkerReads, StartReading, PopProtocol, JoinExit, JoinLook,
         CancelMine, CancelGet, CancelScan, JoinSuccess, LeaveSuccess,
         CloseQueue, CloseStatus
<1>6. ~(Players \/ Send("close", <<>>) \/ ExpireStatus \/ WorkerFails
        \/ UNCHANGED vars)
  <2>1. ASSUME Players PROVE marred' = marred
    BY <2>1 DEF Players, Send, HallJoin, HallNotJoin, HallCheck, HallEnterRoom, Ask
  <2>2. ASSUME WorkerFails PROVE "denied" \notin marred'
    BY <2>2 DEF WorkerFails
  <2>3. ASSUME Send("close", <<>>) \/ ExpireStatus \/ UNCHANGED vars
        PROVE  marred' = marred
    BY <2>3 DEF Send, ExpireStatus, vars
  <2>. QED
    BY <2>1, <2>2, <2>3
<1>7. PICK t \in Threads : HallStep(t) /\ ~HallPush(t) /\ ~HallRemove(t)
  BY <1>1, <1>2, <1>3, <1>4, <1>5, <1>6, Cases DEF Mild
<1>8. \A a : "denied" \notin IgnoreCause(a)
  BY DEF IgnoreCause
<1>9. HallMatched(t)
  BY <1>7, <1>8 DEF HallStep, HallReads, HallExit, HallLook, HallMine, HallCancel,
                    HallIgnore, HallAway, HallUnfinish, HallWanted, HallListed,
                    HallGet, HallScan
<1>. QED
  BY <1>9 DEF HallMatched

LEMMA DeniedStep ==
    ASSUME TInv, KnownInv, AskedInv, DeniedInv, [Next]_vars
    PROVE  DeniedInv'
<1>. SUFFICES ASSUME Smooth', "asked" \notin marred', "denied" \in marred'
              PROVE  FALSE
  BY DEF DeniedInv
<1>1. Smooth /\ "asked" \notin marred
  BY MarredGrows DEF Smooth, Calm, Tidy
<1>2. "denied" \notin marred
  BY <1>1 DEF DeniedInv
<1>3. PICK t \in Threads : hall[t].pc = "matched" /\ Waits(hall[t].who[1])
  BY <1>2, Denies
<1>. DEFINE a == hall[t].who[1]
<1>4. a \notin mark \/ a \notin Members(wait)
  BY <1>1, <1>3 DEF AskedInv, Missing
<1>5. a \in applied /\ a \notin seated /\ a \notin fin /\ ~Popping(a) /\ a \notin away
  BY <1>3 DEF Waits, InTransit, Popping
<1>6. Answered(a) \/ Popping(a) \/ a \in away
  BY <1>1, <1>5 DEF KnownInv, Known
<1>. QED
  BY <1>4, <1>5, <1>6 DEF Answered

----------------------------------------------------------------------------
(* The theorems *)

LEMMA Invariant == Spec => []IInv
<1>1. Init => IInv
  <2>. SUFFICES ASSUME Init PROVE IInv
    OBVIOUS
  <2>1. /\ ~Matching /\ applied = {} /\ withdrawn = {} /\ marred = {}
        /\ \A t \in Threads : hall[t].pc = "idle"
    BY DEF Init, Matching, Resting, Idle
  <2>2. KnownInv /\ HeededInv /\ AskedInv /\ DeniedInv
    BY <2>1 DEF KnownInv, Prefix, LeftInv, Known, HeededInv, AskedInv, DeniedInv
  <2>. QED
    BY <2>2, InitTInv, InitSeat, InitWant DEF IInv
<1>2. IInv /\ [Next]_vars => IInv'
  BY TStep, SeatStep, WantStep, KnownInvStep, HeededStep, AskedStep, DeniedStep
  DEF IInv
<1>. QED
  BY <1>1, <1>2, PTL DEF Spec

(***************************************************************************)
(* Nobody is sent to a game server who was taken off the list or whose     *)
(* game is over, although the mark, the list and the application are read  *)
(* and deleted by separate commands of the hall, the worker and the loop,  *)
(* unless that came too late or met another join; and nobody whom          *)
(* /notJoinPartyRoom told to be out, unless it was in the list or matched  *)
(* then: a withdrawal from the list by that request never holds.           *)
(***************************************************************************)
THEOREM MatchedHaveAppliedTheorem == Spec => []MatchedHaveApplied
<1>1. IInv => MatchedHaveApplied
  <2>. SUFFICES ASSUME IInv, NEW m \in Members(matches), NEW a \in Members(m)
                PROVE  /\ a \notin applied => ~Calm
                       /\ a \in withdrawn => "unheeded" \in marred
    BY DEF MatchedHaveApplied, Calm, Tidy
  <2>1. PICK n \in 1..Len(matches) : m = matches[n]
    BY DEF Members
  <2>2. a \notin applied => ~Calm
    BY <2>1 DEF IInv, WantInv, Wanted
  <2>3. a \in withdrawn => "unheeded" \in marred
    BY <2>1 DEF IInv, HeededInv, Coming
  <2>. QED
    BY <2>2, <2>3
<1>. QED
  BY <1>1, Invariant, PTL

(***************************************************************************)
(* The service forgets no player who has applied and not withdrawn, and    *)
(* whose game is not over, and /checkJoinPartyRoom tells no player who     *)
(* waits not to have applied, unless something went wrong that the         *)
(* property names: in particular the expiry of the service's status, its   *)
(* closing, a worker that dies with the mutex and a missing game server    *)
(* lose nobody.  Players who are matched and not in a room yet are none of *)
(* those who wait: /checkJoinPartyRoom tells all of them so.               *)
(***************************************************************************)
THEOREM ForgottenTheorem == Spec => []ForgottenNeedsCause
<1>1. IInv => ForgottenNeedsCause
  <2>1. ASSUME IInv, NEW a \in Accounts, Forgotten(a), Smooth
        PROVE  FALSE
    BY <2>1 DEF IInv, KnownInv, Known, Forgotten, InTransit, Popping
  <2>2. ASSUME IInv, "denied" \in marred, "asked" \notin marred, Smooth
        PROVE  FALSE
    BY <2>2 DEF IInv, DeniedInv
  <2>. QED
    BY <2>1, <2>2 DEF ForgottenNeedsCause, Losses, Smooth, Calm, Tidy
<1>. QED
  BY <1>1, Invariant, PTL
============================================================================
