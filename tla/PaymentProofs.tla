--------------------------- MODULE PaymentProofs ---------------------------
(***************************************************************************)
(* Proofs for Payment, for every set of orders, receipts and threads and   *)
(* every number of faults.                                                 *)
(***************************************************************************)
EXTENDS Payment, FiniteSetTheorems, TLAPS

N == Cardinality(Threads)

\* What a handler of each kind still has to do.
FishRest ==
    {<<"exists", "update", "load", "stat", "credit", "answer">>,
     <<"update", "load", "stat", "credit", "answer">>,
     <<"load", "stat", "credit", "answer">>, <<"stat", "credit", "answer">>,
     <<"credit", "answer">>, <<"answer">>}
HallRest ==
    {<<"credit", "log", "sum", "answer">>, <<"log", "sum", "answer">>,
     <<"sum", "answer">>, <<"answer">>}
CardRest ==
    HallRest \cup
    {<<"exists", "update", "load", "stat", "share", "credit", "log", "sum",
       "answer">>,
     <<"update", "load", "stat", "share", "credit", "log", "sum", "answer">>,
     <<"load", "stat", "share", "credit", "log", "sum", "answer">>,
     <<"stat", "share", "credit", "log", "sum", "answer">>,
     <<"share", "credit", "log", "sum", "answer">>}
GoldRest ==
    HallRest \cup
    {<<"exists", "update", "load", "credit", "log", "sum", "answer">>,
     <<"update", "load", "credit", "log", "sum", "answer">>,
     <<"load", "credit", "log", "sum", "answer">>}
FishReceiptRest == {<<"credit", "mark">>, <<"mark">>}
CardReceiptRest ==
    {<<"credit", "mark", "log", "share">>, <<"mark", "log", "share">>,
     <<"log", "share">>, <<"share">>}

\* One step and the one after it; "end" when the request is over.
HallOrder == {<<"credit", "log">>, <<"log", "sum">>, <<"sum", "answer">>,
              <<"answer", "end">>}
FishFollow ==
    {<<"exists", "update">>, <<"update", "load">>, <<"load", "stat">>,
     <<"stat", "credit">>, <<"credit", "answer">>, <<"answer", "end">>}
CardFollow ==
    HallOrder \cup {<<"exists", "update">>, <<"update", "load">>,
                    <<"load", "stat">>, <<"stat", "share">>,
                    <<"share", "credit">>}
GoldFollow ==
    HallOrder \cup {<<"exists", "update">>, <<"update", "load">>,
                    <<"load", "credit">>}
FishReceiptFollow == {<<"credit", "mark">>, <<"mark", "end">>}
CardReceiptFollow == {<<"credit", "mark">>, <<"mark", "log">>,
                      <<"log", "share">>, <<"share", "end">>}

\* A handler goes through its steps in their order.
Walks(x, Rest, Follow) ==
    /\ x # <<>> /\ x \in Seq(Steps)
    /\ Tail(x) = <<>> => <<Head(x), "end">> \in Follow
    /\ Tail(x) # <<>> => /\ Tail(x) \in Rest
                         /\ <<Head(x), Head(Tail(x))>> \in Follow

\* The steps of a request for key k.
RestOf(k) ==
    IF k \in FishOrders THEN FishRest
    ELSE IF k \in CardOrders THEN CardRest
    ELSE IF k \in GoldOrders THEN GoldRest
    ELSE IF k \in FishReceipts THEN FishReceiptRest ELSE CardReceiptRest
FollowOf(k) ==
    IF k \in FishOrders THEN FishFollow
    ELSE IF k \in CardOrders THEN CardFollow
    ELSE IF k \in GoldOrders THEN GoldFollow
    ELSE IF k \in FishReceipts THEN FishReceiptFollow ELSE CardReceiptFollow

\* The next step of a thread.
Where(t) == IF todo[t] = <<>> THEN "idle" ELSE Head(todo[t])

\* What a thread does belongs to its order or receipt; an order that is being
\* handled, or has been marked, was paid and is in PENDING_ORDER.
TInv ==
    /\ TypeOK
    /\ \A t \in Threads :
          /\ at[t] = NoKey => todo[t] = <<>>
          /\ at[t] # NoKey => todo[t] \in RestOf(at[t])
          /\ at[t] \in Orders => at[t] \in paid
    /\ paid \subseteq pending
    /\ succeeded \subseteq paid

----------------------------------------------------------------------------
(* The books: what a handler has passed is written.                        *)
Booked(t) ==
    at[t] \in Orders =>
        /\ Where(t) \in {"log", "sum", "answer"}
              => credited[at[t]] >= 1 \/ at[t] \in FishOrders \cap swallowed
        /\ at[t] \notin FishOrders /\ Where(t) \in {"sum", "answer"}
              => logged[at[t]] >= 1 \/ at[t] \in GoldOrders \cap swallowed
        /\ at[t] \notin FishOrders /\ Where(t) = "answer" => rmb[at[t]] >= 1
        /\ at[t] \in CardOrders /\ Where(t) \in {"credit", "log", "sum", "answer"}
              => shared[at[t]] >= 1

BInv == SettledIsBooked /\ \A t \in Threads : Booked(t)

(* Credits: those made and those to come are covered by faults, but for    *)
(* the one of an order or receipt that is closed or being handled.         *)
BeforeCredit == {"exists", "update", "load", "stat", "credit"}
Creditors(k) ==
    {t \in Threads : /\ at[t] = k
                     /\ \/ Where(t) \in BeforeCredit
                        \/ Where(t) = "share" /\ k \in CardOrders}

Closed(k) == k \in settled \cup mark

Credits(k) ==
    /\ credited[k] + Cardinality(Creditors(k)) <= hit[k] + 1
    /\ ~Closed(k) /\ ~Handled(k) => credited[k] <= hit[k]

\* A receipt is marked before its record and its share are written.
Marked(t) ==
    at[t] \in CardReceipts /\ Where(t) \in {"log", "share"} => at[t] \in mark

CInv ==
    /\ \A k \in Keys : Credits(k)
    /\ \A t \in Threads : Marked(t)

(* Shares: those without a credit belong to a thread on its way to it.     *)
Sharers(o) == {t \in Threads : at[t] = o /\ Where(t) = "credit"}

Shares(o) == shared[o] <= credited[o] + hit[o] + Cardinality(Sharers(o))

HInv == \A o \in CardOrders : Shares(o)

(* The day's users: once the player is counted, nobody begins to count him *)
Counters == {t \in Threads : /\ at[t] \in FishOrders /\ first[t]
                             /\ Where(t) = "credit"}

NInv ==
    /\ counted \in BOOLEAN
    /\ ~counted => users = 0
    /\ users + Cardinality(Counters) <= N

(* The recharge total against the credits, one by one.                     *)
Units == UNION {{o} \X (1..credited[o]) : o \in CardOrders}

RInv == IsFiniteSet(Units) /\ RechargeNeverAhead

IInv == TInv /\ SucceededStays /\ BInv /\ CInv /\ HInv /\ NInv /\ RInv

----------------------------------------------------------------------------
(* Counting threads *)

LEMMA NType == N \in Nat
  BY PaymentAssumption, FS_CardinalityType DEF N

LEMMA SomeThreads ==
    ASSUME NEW S \in SUBSET Threads
    PROVE  /\ IsFiniteSet(S)
           /\ Cardinality(S) \in Nat
           /\ Cardinality(S) <= N
           /\ \A t \in S : Cardinality(S) >= 1
<1>1. IsFiniteSet(S) /\ Cardinality(S) <= N
  BY PaymentAssumption, FS_Subset DEF N
<1>2. Cardinality(S) \in Nat
  BY <1>1, FS_CardinalityType
<1>3. S # {} => Cardinality(S) # 0
  BY <1>1, FS_EmptySet
<1>. QED
  BY <1>1, <1>2, <1>3

\* One thread more, one thread less.
LEMMA OneThread ==
    ASSUME NEW S \in SUBSET Threads, NEW t \in Threads
    PROVE  /\ t \notin S => Cardinality(S \cup {t}) = Cardinality(S) + 1
           /\ t \in S => Cardinality(S \ {t}) = Cardinality(S) - 1
           /\ Cardinality(S \ {t}) <= Cardinality(S)
<1>1. IsFiniteSet(S) /\ Cardinality(S) \in Nat
  BY SomeThreads
<1>2. t \notin S => Cardinality(S \cup {t}) = Cardinality(S) + 1
  BY <1>1, FS_AddElement
<1>3. Cardinality(S \ {t}) = IF t \in S THEN Cardinality(S) - 1 ELSE Cardinality(S)
  BY <1>1, FS_RemoveElement
<1>. QED
  BY <1>1, <1>2, <1>3

\* What a step of one thread does to a count: A before it, B after it.
LEMMA StepCount ==
    ASSUME NEW A, NEW B, NEW t \in Threads,
           A \in SUBSET Threads, B \in SUBSET Threads,
           \A s \in Threads : s # t => (s \in A <=> s \in B)
    PROVE  /\ Cardinality(A) \in Nat /\ Cardinality(B) \in Nat
           /\ Cardinality(A) <= N /\ Cardinality(B) <= N
           /\ Cardinality(B) <= Cardinality(A) + 1
           /\ t \notin B => Cardinality(B) <= Cardinality(A)
           /\ t \in A => Cardinality(B) <= Cardinality(A)
           /\ t \in A /\ t \notin B => Cardinality(B) = Cardinality(A) - 1
           /\ t \notin A /\ t \in B => Cardinality(B) = Cardinality(A) + 1
           /\ (t \in A <=> t \in B) => B = A
<1>1. /\ Cardinality(A) \in Nat /\ Cardinality(B) \in Nat
      /\ Cardinality(A) <= N /\ Cardinality(B) <= N
  BY SomeThreads
<1>2. CASE t \in A <=> t \in B
  <2>1. A = B
    BY <1>2
  <2>. QED
    BY <1>1, <1>2, <2>1
<1>3. CASE t \in A /\ t \notin B
  <2>1. B = A \ {t}
    BY <1>3
  <2>2. Cardinality(B) = Cardinality(A) - 1
    BY <1>3, <2>1, OneThread
  <2>. QED
    BY <1>1, <1>3, <2>2
<1>4. CASE t \notin A /\ t \in B
  <2>1. B = A \cup {t}
    BY <1>4
  <2>2. Cardinality(B) = Cardinality(A) + 1
    BY <1>4, <2>1, OneThread
  <2>. QED
    BY <1>1, <1>4, <2>2
<1>. QED
  BY <1>2, <1>3, <1>4

----------------------------------------------------------------------------
(* The steps of each kind of request *)

LEMMA FishWalks == \A x \in FishRest : Walks(x, FishRest, FishFollow)
<1>. USE DEF FishRest, FishFollow, Steps, Walks
<1>1. Walks(<<"exists", "update", "load", "stat", "credit", "answer">>,
           FishRest, FishFollow)
  OBVIOUS
<1>2. Walks(<<"update", "load", "stat", "credit", "answer">>,
           FishRest, FishFollow)
  OBVIOUS
<1>3. Walks(<<"load", "stat", "credit", "answer">>, FishRest, FishFollow)
  OBVIOUS
<1>4. Walks(<<"stat", "credit", "answer">>, FishRest, FishFollow)
  OBVIOUS
<1>5. Walks(<<"credit", "answer">>, FishRest, FishFollow)
  OBVIOUS
<1>6. Walks(<<"answer">>, FishRest, FishFollow)
  OBVIOUS
<1>. QED
  BY <1>1, <1>2, <1>3, <1>4, <1>5, <1>6

LEMMA CardWalks == \A x \in CardRest : Walks(x, CardRest, CardFollow)
<1>. USE DEF CardRest, CardFollow, HallRest, HallOrder, Steps, Walks
<1>1. Walks(<<"exists", "update", "load", "stat",
             "share", "credit", "log", "sum", "answer">>,
           CardRest, CardFollow)
  OBVIOUS
<1>2. Walks(<<"update", "load", "stat", "share",
             "credit", "log", "sum", "answer">>,
           CardRest, CardFollow)
  OBVIOUS
<1>3. Walks(<<"load", "stat", "share", "credit", "log", "sum", "answer">>,
           CardRest, CardFollow)
  OBVIOUS
<1>4. Walks(<<"stat", "share", "credit", "log", "sum", "answer">>,
           CardRest, CardFollow)
  OBVIOUS
<1>5. Walks(<<"share", "credit", "log", "sum", "answer">>,
           CardRest, CardFollow)
  OBVIOUS
<1>6. Walks(<<"credit", "log", "sum", "answer">>, CardRest, CardFollow)
  OBVIOUS
<1>7. Walks(<<"log", "sum", "answer">>, CardRest, CardFollow)
  OBVIOUS
<1>8. Walks(<<"sum", "answer">>, CardRest, CardFollow)
  OBVIOUS
<1>9. Walks(<<"answer">>, CardRest, CardFollow)
  OBVIOUS
<1>. HIDE DEF Walks, Steps, CardFollow, HallOrder
<1>. QED
  BY <1>1, <1>2, <1>3, <1>4, <1>5, <1>6, <1>7, <1>8, <1>9

LEMMA GoldWalks == \A x \in GoldRest : Walks(x, GoldRest, GoldFollow)
<1>. USE DEF GoldRest, GoldFollow, HallRest, HallOrder, Steps, Walks
<1>1. Walks(<<"exists", "update", "load", "credit", "log", "sum", "answer">>,
           GoldRest, GoldFollow)
  OBVIOUS
<1>2. Walks(<<"update", "load", "credit", "log", "sum", "answer">>,
           GoldRest, GoldFollow)
  OBVIOUS
<1>3. Walks(<<"load", "credit", "log", "sum", "answer">>, GoldRest, GoldFollow)
  OBVIOUS
<1>4. Walks(<<"credit", "log", "sum", "answer">>, GoldRest, GoldFollow)
  OBVIOUS
<1>5. Walks(<<"log", "sum", "answer">>, GoldRest, GoldFollow)
  OBVIOUS
<1>6. Walks(<<"sum", "answer">>, GoldRest, GoldFollow)
  OBVIOUS
<1>7. Walks(<<"answer">>, GoldRest, GoldFollow)
  OBVIOUS
<1>. HIDE DEF Walks, Steps, GoldFollow, HallOrder
<1>. QED
  BY <1>1, <1>2, <1>3, <1>4, <1>5, <1>6, <1>7

LEMMA FishReceiptWalks == \A x \in FishReceiptRest : Walks(x, FishReceiptRest, FishReceiptFollow)
<1>. USE DEF FishReceiptRest, FishReceiptFollow, Steps, Walks
<1>1. Walks(<<"credit", "mark">>, FishReceiptRest, FishReceiptFollow)
  OBVIOUS
<1>2. Walks(<<"mark">>, FishReceiptRest, FishReceiptFollow)
  OBVIOUS
<1>. QED
  BY <1>1, <1>2

LEMMA CardReceiptWalks == \A x \in CardReceiptRest : Walks(x, CardReceiptRest, CardReceiptFollow)
<1>. USE DEF CardReceiptRest, CardReceiptFollow, Steps, Walks
<1>1. Walks(<<"credit", "mark", "log", "share">>,
           CardReceiptRest, CardReceiptFollow)
  OBVIOUS
<1>2. Walks(<<"mark", "log", "share">>, CardReceiptRest, CardReceiptFollow)
  OBVIOUS
<1>3. Walks(<<"log", "share">>, CardReceiptRest, CardReceiptFollow)
  OBVIOUS
<1>4. Walks(<<"share">>, CardReceiptRest, CardReceiptFollow)
  OBVIOUS
<1>. QED
  BY <1>1, <1>2, <1>3, <1>4

----------------------------------------------------------------------------
(* Threads *)

LEMMA KeyWalks ==
    ASSUME NEW k, NEW x \in RestOf(k)
    PROVE  Walks(x, RestOf(k), FollowOf(k))
  BY FishWalks, CardWalks, GoldWalks, FishReceiptWalks, CardReceiptWalks
  DEF RestOf, FollowOf

\* Where a thread stands and what comes next.
LEMMA Stands ==
    ASSUME TInv, NEW t \in Threads, NEW p, Does(t, p)
    PROVE  /\ at[t] \in Keys /\ at[t] # NoKey /\ Where(t) = p
           /\ Walks(todo[t], RestOf(at[t]), FollowOf(at[t]))
           /\ \E q : <<p, q>> \in FollowOf(at[t])
<1>1. at[t] \in Keys /\ at[t] # NoKey /\ todo[t] \in RestOf(at[t])
  BY DEF TInv, TypeOK, Does
<1>2. Where(t) = p /\ Head(todo[t]) = p
  BY DEF Does, Where
<1>3. Walks(todo[t], RestOf(at[t]), FollowOf(at[t]))
  BY <1>1, KeyWalks
<1>4. \E q : <<p, q>> \in FollowOf(at[t])
  BY <1>2, <1>3 DEF Walks
<1>. QED
  BY <1>1, <1>2, <1>3, <1>4

\* The other threads are left alone.
Alone(t) ==
    \A s \in Threads : s # t => /\ todo'[s] = todo[s] /\ at'[s] = at[s]
                                /\ first'[s] = first[s]

Over(t) == at'[t] = NoKey /\ todo'[t] = <<>> /\ first'[t] = FALSE

Continues(t, p) ==
    /\ at[t] \in Keys /\ at'[t] = at[t] /\ todo'[t] \in RestOf(at[t])
    /\ <<p, Head(todo'[t])>> \in FollowOf(at[t])

ThreadTypes ==
    /\ todo \in [Threads -> Seq(Steps)] /\ at \in [Threads -> Keys \cup {NoKey}]
    /\ first \in [Threads -> BOOLEAN]

LEMMA Leaves ==
    ASSUME TInv, NEW t \in Threads, Leave(t)
    PROVE  Alone(t) /\ Over(t) /\ ThreadTypes'
<1>1. <<>> \in Seq(Steps)
  OBVIOUS
<1>2. Alone(t) /\ at'[t] = NoKey /\ todo'[t] = <<>>
  BY DEF Leave, TInv, TypeOK, Alone
<1>3. first'[t] = FALSE
  BY Zenon DEF Leave, TInv, TypeOK
<1>4. todo' \in [Threads -> Seq(Steps)] /\ at' \in [Threads -> Keys \cup {NoKey}]
  BY <1>1 DEF Leave, TInv, TypeOK
<1>5. first' \in [Threads -> BOOLEAN]
  BY DEF Leave, TInv, TypeOK
<1>. QED
  BY <1>2, <1>3, <1>4, <1>5 DEF Over, ThreadTypes

LEMMA DoneMoves ==
    ASSUME TInv, NEW t \in Threads, NEW p, Does(t, p), Done(t)
    PROVE  /\ Alone(t) /\ ThreadTypes'
           /\ \/ Over(t) /\ <<p, "end">> \in FollowOf(at[t])
              \/ Continues(t, p) /\ first' = first
<1>1. /\ Walks(todo[t], RestOf(at[t]), FollowOf(at[t])) /\ Head(todo[t]) = p
      /\ at[t] \in Keys
  BY Stands DEF Does
<1>2. CASE Tail(todo[t]) = <<>>
  <2>1. Leave(t)
    BY <1>2 DEF Done
  <2>. QED
    BY <1>1, <1>2, <2>1, Leaves DEF Walks
<1>3. CASE Tail(todo[t]) # <<>>
  <2>1. /\ todo' = [todo EXCEPT ![t] = Tail(todo[t])] /\ at' = at /\ first' = first
    BY <1>3 DEF Done
  <2>2. /\ Tail(todo[t]) \in RestOf(at[t])
        /\ <<p, Head(Tail(todo[t]))>> \in FollowOf(at[t])
    BY <1>1, <1>3 DEF Walks
  <2>3. Tail(todo[t]) \in Seq(Steps)
    BY <1>1 DEF Walks
  <2>. QED
    BY <1>1, <2>1, <2>2, <2>3 DEF TInv, TypeOK, Alone, Continues, ThreadTypes
<1>. QED
  BY <1>2, <1>3

\* Which requests take which steps.
LEMMA StepKinds ==
    ASSUME TInv, NEW t \in Threads, NEW p, Does(t, p)
    PROVE  /\ p \in {"exists", "update", "load", "sum", "answer"}
                => at[t] \in Orders
           /\ p = "stat" => at[t] \in FishOrders \cup CardOrders
           /\ p = "mark" => at[t] \in Receipts
           /\ p = "sum" => at[t] \notin FishOrders
           /\ p = "log" => at[t] \in CardOrders \cup GoldOrders \cup CardReceipts
           /\ p = "share" => at[t] \in CardOrders \cup CardReceipts
<1>1. PICK q : <<p, q>> \in FollowOf(at[t])
  BY Stands
<1>2. at[t] \in Keys
  BY Stands
<1>. QED
  BY <1>1, <1>2
  DEF FollowOf, FishFollow, CardFollow, GoldFollow, HallOrder,
      FishReceiptFollow, CardReceiptFollow, Keys, Orders, Receipts

\* A request begins at the beginning.
LEMMA StartWalk ==
    /\ \A o \in Orders : /\ NotifySteps(o) \in RestOf(o)
                         /\ NotifySteps(o) \in Seq(Steps)
                         /\ Head(NotifySteps(o)) = "exists"
    /\ \A k \in Receipts : /\ AppleSteps(k) \in RestOf(k)
                           /\ AppleSteps(k) \in Seq(Steps)
                           /\ Head(AppleSteps(k)) = "credit"
<1>1. ASSUME NEW o \in FishOrders
      PROVE  /\ NotifySteps(o) =
                  <<"exists", "update", "load", "stat", "credit", "answer">>
             /\ RestOf(o) = FishRest
  BY PaymentAssumption DEF NotifySteps, RestOf
<1>2. ASSUME NEW o \in CardOrders
      PROVE  /\ NotifySteps(o) =
                  <<"exists", "update", "load", "stat", "share", "credit",
                    "log", "sum", "answer">>
             /\ RestOf(o) = CardRest
  <2>1. o \notin FishOrders /\ o \notin GoldOrders
    BY PaymentAssumption
  <2>. QED
    BY <2>1 DEF NotifySteps, RestOf
<1>3. ASSUME NEW o \in GoldOrders
      PROVE  /\ NotifySteps(o) =
                  <<"exists", "update", "load", "credit", "log", "sum", "answer">>
             /\ RestOf(o) = GoldRest
  <2>1. o \notin FishOrders /\ o \notin CardOrders
    BY PaymentAssumption
  <2>. QED
    BY <2>1 DEF NotifySteps, RestOf
<1>4. ASSUME NEW o \in Orders
      PROVE  NotifySteps(o) \in RestOf(o) /\ Head(NotifySteps(o)) = "exists"
  <2>1. CASE o \in FishOrders
    BY <1>1, <2>1 DEF FishRest
  <2>2. CASE o \in CardOrders
    BY <1>2, <2>2 DEF CardRest
  <2>3. CASE o \in GoldOrders
    BY <1>3, <2>3 DEF GoldRest
  <2>. QED
    BY <2>1, <2>2, <2>3 DEF Orders
<1>5. ASSUME NEW k \in Receipts
      PROVE  AppleSteps(k) \in RestOf(k) /\ Head(AppleSteps(k)) = "credit"
  <2>1. k \notin FishOrders /\ k \notin CardOrders /\ k \notin GoldOrders
    BY PaymentAssumption DEF Orders
  <2>2. CASE k \in FishReceipts
    BY <2>1, <2>2 DEF AppleSteps, RestOf, FishReceiptRest
  <2>3. CASE k \notin FishReceipts
    BY <2>1, <2>3 DEF AppleSteps, RestOf, CardReceiptRest
  <2>. QED
    BY <2>2, <2>3
<1>6. \A k, x : x \in RestOf(k) => x \in Seq(Steps)
  BY KeyWalks DEF Walks
<1>. QED
  BY <1>4, <1>5, <1>6

\* The read of the statistics is never the last step.
LEMMA StatMoves ==
    ASSUME TInv, NEW t \in Threads, ReadStat(t)
    PROVE  Alone(t) /\ ThreadTypes' /\ Continues(t, "stat")
<1>1. /\ Does(t, "stat") /\ Head(todo[t]) = "stat" /\ at[t] \in Keys
      /\ Walks(todo[t], RestOf(at[t]), FollowOf(at[t]))
  BY Stands DEF ReadStat, Does
<1>2. Tail(todo[t]) # <<>>
  <2>1. <<"stat", "end">> \notin FollowOf(at[t])
    BY DEF FollowOf, FishFollow, CardFollow, GoldFollow, HallOrder,
           FishReceiptFollow, CardReceiptFollow
  <2>. QED
    BY <1>1, <2>1 DEF Walks
<1>3. /\ Tail(todo[t]) \in RestOf(at[t]) /\ Tail(todo[t]) \in Seq(Steps)
      /\ <<"stat", Head(Tail(todo[t]))>> \in FollowOf(at[t])
  <2>1. /\ Tail(todo[t]) \in RestOf(at[t])
        /\ <<"stat", Head(Tail(todo[t]))>> \in FollowOf(at[t])
    BY <1>1, <1>2 DEF Walks
  <2>2. Tail(todo[t]) \in Seq(Steps)
    BY <2>1, KeyWalks DEF Walks
  <2>. QED
    BY <2>1, <2>2
<1>4. todo' = [todo EXCEPT ![t] = Tail(todo[t])] /\ at' = at
  BY DEF ReadStat
<1>5. /\ first' \in [Threads -> BOOLEAN]
      /\ \A s \in Threads : s # t => first'[s] = first[s]
  <2>1. (IF at[t] \in FishOrders THEN ~counted ELSE recharge = <<>>) \in BOOLEAN
    BY Zenon
  <2>. QED
    BY <2>1, Zenon DEF ReadStat, TInv, TypeOK
<1>. QED
  BY <1>1, <1>3, <1>4, <1>5 DEF TInv, TypeOK, Alone, Continues, ThreadTypes

\* A fish order whose credit fails: what is left is the answer.
Quits(t) ==
    /\ at[t] \in FishOrders /\ at'[t] = at[t] /\ Where(t) = "stat"
    /\ todo'[t] = <<"answer">> /\ Where(t)' = "answer"

LEMMA QuitMoves ==
    ASSUME TInv, NEW t \in Threads, PayRecordFails(t)
    PROVE  Alone(t) /\ ThreadTypes' /\ Quits(t) /\ at[t] \in Keys
<1>1. <<"answer">> \in Seq(Steps) /\ <<"answer">> # <<>>
      /\ Head(<<"answer">>) = "answer"
  BY DEF Steps
<1>2. /\ todo' = [todo EXCEPT ![t] = <<"answer">>] /\ at' = at /\ first' = first
      /\ at[t] \in FishOrders /\ Does(t, "stat")
  BY DEF PayRecordFails
<1>3. todo'[t] = <<"answer">> /\ todo' \in [Threads -> Seq(Steps)]
  BY <1>1, <1>2 DEF TInv, TypeOK
<1>4. Where(t)' = "answer" /\ Where(t) = "stat"
  BY <1>1, <1>2, <1>3 DEF Where, Does
<1>. QED
  BY <1>2, <1>3, <1>4 DEF TInv, TypeOK, Alone, ThreadTypes, Quits, Keys, Orders

\* What a thread may do, whatever the request.
Moves(t) == Over(t) \/ Quits(t) \/ \E p : Continues(t, p)

ThreadsOK ==
    \A t \in Threads :
        /\ at[t] = NoKey => todo[t] = <<>>
        /\ at[t] # NoKey => todo[t] \in RestOf(at[t])
        /\ at[t] \in Orders => at[t] \in paid

LEMMA ThreadsKept ==
    ASSUME TInv, NEW t \in Threads, Alone(t), Moves(t), paid' = paid
    PROVE  ThreadsOK'
<1>1. NoKey \notin Orders
  BY PaymentAssumption DEF Keys
<1> SUFFICES ASSUME NEW s \in Threads
             PROVE  /\ at'[s] = NoKey => todo'[s] = <<>>
                    /\ at'[s] # NoKey => todo'[s] \in RestOf(at'[s])
                    /\ at'[s] \in Orders => at'[s] \in paid'
  BY DEF ThreadsOK, RestOf
<1>2. CASE s # t
  BY <1>2 DEF TInv, Alone
<1>3. CASE s = t /\ Over(t)
  BY <1>1, <1>3 DEF Over
<1>4. ASSUME s = t, NEW p, Continues(t, p)
      PROVE  /\ at'[s] = NoKey => todo'[s] = <<>>
             /\ at'[s] # NoKey => todo'[s] \in RestOf(at'[s])
             /\ at'[s] \in Orders => at'[s] \in paid'
  <2>1. at[t] # NoKey
    BY <1>4, PaymentAssumption DEF Continues
  <2>. QED
    BY <1>4, <2>1 DEF TInv, Continues
<1>5. CASE s = t /\ Quits(t)
  <2>1. at'[s] \in FishOrders /\ at'[s] # NoKey /\ at'[s] = at[s]
    BY <1>1, <1>5 DEF Quits, Orders
  <2>2. todo'[s] \in RestOf(at'[s])
    BY <1>5, <2>1 DEF Quits, RestOf, FishRest
  <2>. QED
    BY <1>5, <2>1, <2>2 DEF TInv, Quits
<1>. QED
  BY <1>2, <1>3, <1>4, <1>5 DEF Moves

\* The variables that no thread owns.
StoreTypes ==
    /\ table \in [Orders -> {"none", "pending", "successful"}]
    /\ full \subseteq Orders /\ ttl \subseteq Orders
    /\ pending \subseteq Orders /\ succeeded \subseteq Orders
    /\ paid \subseteq Orders /\ settled \subseteq Orders
BookTypes ==
    /\ credited \in [Keys -> Nat] /\ shared \in [Keys -> Nat]
    /\ logged \in [Keys -> Nat] /\ rmb \in [Keys -> Nat]
    /\ mark \subseteq Receipts
StatTypes ==
    /\ counted \in BOOLEAN /\ users \in Nat
    /\ recharge \in Seq(Nat) /\ Len(recharge) <= 1
FaultTypes ==
    /\ faults \in 0..MaxFaults /\ hit \in [Keys -> Nat]
    /\ swallowed \subseteq Orders

\* What a step may add to the faults of k.
FaultOf(k) == NoFault \/ Fault(k) \/ (k \in Orders /\ Swallow(k))

Parts ==
    /\ StoreTypes /\ BookTypes /\ StatTypes /\ FaultTypes
    /\ ThreadTypes /\ ThreadsOK
    /\ paid \subseteq pending /\ succeeded \subseteq paid

LEMMA TypeParts == (TInv <=> Parts) /\ (TInv' <=> Parts')
  BY Zenon DEF TInv, TypeOK, Parts, StoreTypes, BookTypes, StatTypes,
               FaultTypes, ThreadTypes, ThreadsOK

LEMMA FaultType ==
    ASSUME TInv, NEW k \in Keys, FaultOf(k)
    PROVE  /\ FaultTypes'
           /\ \A j \in Keys : hit'[j] >= hit[j]
           /\ \A j \in Keys : j # k => hit'[j] = hit[j]
           /\ Fault(k) \/ Swallow(k) => hit'[k] = hit[k] + 1
           /\ swallowed \subseteq swallowed'
<1>1. faults \in 0..MaxFaults /\ hit \in [Keys -> Nat] /\ swallowed \subseteq Orders
  BY DEF TInv, TypeOK
<1>2. CASE NoFault
  BY <1>1, <1>2 DEF NoFault, Fault, Swallow, CountFault, FaultTypes
<1>3. CASE Fault(k)
  BY <1>1, <1>3, PaymentAssumption DEF Fault, CountFault, FaultTypes
<1>4. CASE k \in Orders /\ Swallow(k)
  BY <1>1, <1>4, PaymentAssumption DEF Swallow, CountFault, FaultTypes
<1>. QED
  BY <1>2, <1>3, <1>4 DEF FaultOf

LEMMA InitType == Init => TInv
<1> SUFFICES ASSUME Init PROVE TInv
  OBVIOUS
<1>1. StoreTypes /\ BookTypes
  BY DEF Init, StoreTypes, BookTypes
<1>2. StatTypes
  <2>1. counted \in BOOLEAN
    BY Zenon DEF Init
  <2>2. users \in Nat /\ recharge \in Seq(Nat) /\ Len(recharge) <= 1
    BY DEF Init
  <2>. QED
    BY <2>1, <2>2, Zenon DEF StatTypes
<1>3. FaultTypes
  BY PaymentAssumption DEF Init, FaultTypes
<1>4. ThreadTypes
  <2>1. first \in [Threads -> BOOLEAN]
    BY Zenon DEF Init
  <2>2. todo \in [Threads -> Seq(Steps)] /\ at \in [Threads -> Keys \cup {NoKey}]
    BY DEF Init
  <2>. QED
    BY <2>1, <2>2, Zenon DEF ThreadTypes
<1>5. ThreadsOK
  <2>1. NoKey \notin Orders
    BY PaymentAssumption DEF Keys
  <2>. QED
    BY <2>1 DEF Init, ThreadsOK
<1>6. paid \subseteq pending /\ succeeded \subseteq paid
  BY DEF Init
<1>. QED
  BY <1>1, <1>2, <1>3, <1>4, <1>5, <1>6, TypeParts DEF Parts

\* Every step of a thread moves that thread only, and leaves the payments at
\* WeChat alone.
LEMMA StepMoves ==
    ASSUME TInv, NEW t \in Threads, Step(t) \/ Fails(t)
    PROVE  /\ Alone(t) /\ ThreadTypes' /\ Moves(t) /\ at[t] \in Keys
           /\ paid' = paid /\ pending' = pending
           /\ FaultOf(at[t])
<1>. USE DEF tables, wechat, Moves, FaultOf
<1>1. CASE VerifyExists(t)
  BY <1>1, Stands, Leaves, DoneMoves DEF VerifyExists
<1>2. CASE VerifyUpdate(t)
  BY <1>2, Stands, DoneMoves DEF VerifyUpdate
<1>3. CASE LoadOrder(t)
  BY <1>3, Stands, Leaves, DoneMoves DEF LoadOrder
<1>4. CASE ReadStat(t)
  BY <1>4, Stands, StatMoves DEF ReadStat
<1>5. CASE Share(t)
  BY <1>5, Stands, DoneMoves DEF Share
<1>6. CASE Credit(t)
  BY <1>6, Stands, DoneMoves DEF Credit
<1>7. CASE LogCredit(t)
  BY <1>7, Stands, DoneMoves DEF LogCredit
<1>8. CASE RmbSum(t)
  BY <1>8, Stands, DoneMoves DEF RmbSum
<1>9. CASE Answer(t)
  BY <1>9, Stands, DoneMoves DEF Answer
<1>10. CASE AppleMark(t)
  BY <1>10, Stands, DoneMoves DEF AppleMark
<1>11. CASE Crash(t)
  BY <1>11, Leaves DEF Crash, Idle, TInv, TypeOK
<1>12. CASE PayRecordFails(t)
  BY <1>12, QuitMoves DEF PayRecordFails, Orders
<1>13. CASE GoldRecordFails(t)
  BY <1>13, Stands, DoneMoves DEF GoldRecordFails, Orders
<1>. QED
  BY <1>1, <1>2, <1>3, <1>4, <1>5, <1>6, <1>7, <1>8, <1>9, <1>10, <1>11,
     <1>12, <1>13
  DEF Step, Fails

\* The requests that come in.
Starts(t, k, steps) ==
    /\ at[t] = NoKey /\ at'[t] = k /\ todo'[t] = steps /\ first' = first
    /\ Alone(t)
    /\ Handled(k) => Fault(k)
    /\ ~Handled(k) => NoFault

LEMMA BeginMoves ==
    ASSUME TInv, NEW t \in Threads, NEW k \in Keys, NEW steps \in Seq(Steps),
           Arrives(k), Begin(t, k, steps)
    PROVE  Starts(t, k, steps) /\ ThreadTypes'
<1>1. todo' = [todo EXCEPT ![t] = steps] /\ at' = [at EXCEPT ![t] = k]
      /\ first' = first /\ at[t] = NoKey
  BY DEF Begin, Idle
<1>2. (Handled(k) => Fault(k)) /\ (~Handled(k) => NoFault)
  BY DEF Arrives
<1>. QED
  BY <1>1, <1>2 DEF Starts, Alone, TInv, TypeOK, ThreadTypes

LEMMA StepType ==
    ASSUME TInv, NEW t \in Threads, Step(t) \/ Fails(t)
    PROVE  TInv'
<1>1. /\ Alone(t) /\ ThreadTypes' /\ Moves(t) /\ at[t] \in Keys
      /\ paid' = paid /\ pending' = pending /\ FaultOf(at[t])
  BY StepMoves
<1>2. ThreadsOK' /\ FaultTypes'
  BY <1>1, ThreadsKept, FaultType
<1>3. StoreTypes /\ BookTypes /\ StatTypes /\ paid \subseteq pending
      /\ succeeded \subseteq paid
  BY TypeParts DEF Parts
<1>4. StoreTypes' /\ succeeded' \subseteq paid'
  <2>1. CASE VerifyUpdate(t)
    <3>1. at[t] \in Orders /\ at[t] \in paid
      BY <2>1, StepKinds DEF VerifyUpdate, TInv
    <3>. QED
      BY <1>1, <1>3, <2>1, <3>1 DEF VerifyUpdate, Persist, StoreTypes, wechat
  <2>2. CASE Answer(t)
    <3>1. at[t] \in Orders
      BY <2>2, StepKinds DEF Answer
    <3>. QED
      BY <1>1, <1>3, <2>2, <3>1 DEF Answer, StoreTypes, tables
  <2>3. CASE ~VerifyUpdate(t) /\ ~Answer(t)
    <3>1. UNCHANGED <<tables, wechat>>
      BY <2>3 DEF Step, VerifyExists, LoadOrder, ReadStat, Share, Credit,
                  LogCredit, RmbSum, AppleMark, Fails, Crash,
                  PayRecordFails, GoldRecordFails
    <3>. QED
      BY <1>3, <3>1 DEF StoreTypes, tables, wechat
  <2>. QED
    BY <2>1, <2>2, <2>3
<1>5. BookTypes'
  <2>1. CASE Share(t)
    BY <1>1, <1>3, <2>1 DEF Share, BookTypes
  <2>2. CASE Credit(t)
    BY <1>1, <1>3, <2>2 DEF Credit, BookTypes
  <2>3. CASE LogCredit(t)
    BY <1>1, <1>3, <2>3 DEF LogCredit, BookTypes
  <2>4. CASE RmbSum(t)
    BY <1>1, <1>3, <2>4 DEF RmbSum, BookTypes
  <2>5. CASE AppleMark(t)
    <3>1. at[t] \in Receipts
      BY <2>5, StepKinds DEF AppleMark
    <3>. QED
      BY <1>3, <2>5, <3>1 DEF AppleMark, StoreMark, BookTypes
  <2>6. CASE VerifyExists(t) \/ VerifyUpdate(t) \/ LoadOrder(t) \/ ReadStat(t)
             \/ Answer(t) \/ Fails(t)
    BY <1>3, <2>6
    DEF VerifyExists, VerifyUpdate, LoadOrder, ReadStat, Answer, Fails, Crash,
        PayRecordFails, GoldRecordFails, books, BookTypes
  <2>. QED
    BY <2>1, <2>2, <2>3, <2>4, <2>5, <2>6 DEF Step
<1>6. StatTypes'
  <2>1. CASE Credit(t)
    <3>1. counted' \in BOOLEAN
      BY <1>3, <2>1, Zenon DEF Credit, AddToDay, StatTypes
    <3>2. users' \in Nat
      BY <1>3, <2>1 DEF Credit, StatTypes
    <3>3. recharge' \in Seq(Nat) /\ Len(recharge') <= 1
      <4>1. recharge # <<>> => recharge[1] \in Nat
        BY <1>3 DEF StatTypes
      <4>2. RechargeAfter(t) \in Seq(Nat) /\ Len(RechargeAfter(t)) <= 1
        <5>1. CASE first[t] \/ recharge = <<>>
          BY <5>1 DEF RechargeAfter
        <5>2. CASE ~(first[t] \/ recharge = <<>>)
          BY <4>1, <5>2 DEF RechargeAfter
        <5>. QED
          BY <5>1, <5>2
      <4>. QED
        BY <1>3, <2>1, <4>2 DEF Credit, StatTypes
    <3>. QED
      BY <3>1, <3>2, <3>3 DEF StatTypes
  <2>2. CASE ~Credit(t)
    <3>1. UNCHANGED <<counted, users, recharge>>
      BY <2>2 DEF Step, VerifyExists, VerifyUpdate, LoadOrder, ReadStat, Share,
                  LogCredit, RmbSum, Answer, AppleMark, Fails, Crash,
                  PayRecordFails, GoldRecordFails, books
    <3>. QED
      BY <1>3, <3>1 DEF StatTypes
  <2>. QED
    BY <2>1, <2>2
<1>. QED
  BY <1>1, <1>2, <1>3, <1>4, <1>5, <1>6, TypeParts DEF Parts

\* A request that comes in, for an order that was paid and is not settled, or
\* for a receipt that is not marked.
Comes(t, k) ==
    /\ Starts(t, k, IF k \in Orders THEN NotifySteps(k) ELSE AppleSteps(k))
    /\ k \in Keys /\ ~Closed(k)
    /\ k \in Orders => k \in paid
    /\ UNCHANGED <<tables, wechat, books>>

LEMMA RequestComes ==
    ASSUME TInv, NEW t \in Threads, NEW k,
           (k \in Orders /\ Notify(t, k)) \/ (k \in Receipts /\ OnAppleStorePay(t, k))
    PROVE  Comes(t, k) /\ ThreadTypes'
<1>1. CASE k \in Orders /\ Notify(t, k)
  <2>1. k \in Keys /\ NotifySteps(k) \in Seq(Steps)
    BY <1>1, StartWalk DEF Keys
  <2>2. k \notin mark
    BY <1>1, PaymentAssumption DEF TInv, TypeOK
  <2>3. Starts(t, k, NotifySteps(k)) /\ ThreadTypes'
    BY <1>1, <2>1, BeginMoves DEF Notify
  <2>. QED
    BY <1>1, <2>1, <2>2, <2>3 DEF Comes, Closed, Notify
<1>2. CASE k \in Receipts /\ OnAppleStorePay(t, k)
  <2>1. k \in Keys /\ AppleSteps(k) \in Seq(Steps) /\ k \notin Orders
    BY <1>2, StartWalk, PaymentAssumption DEF Keys
  <2>2. k \notin settled
    BY <1>2, <2>1 DEF TInv, TypeOK
  <2>3. Starts(t, k, AppleSteps(k)) /\ ThreadTypes'
    BY <1>2, <2>1, BeginMoves DEF OnAppleStorePay
  <2>. QED
    BY <1>2, <2>1, <2>2, <2>3 DEF Comes, Closed, OnAppleStorePay
<1>. QED
  BY <1>1, <1>2

\* What a step can be.
LEMMA StepCases ==
    ASSUME TInv, [Next]_vars
    PROVE  \/ UNCHANGED vars
           \/ \E o \in Orders : OnWeChatPay(o) \/ Pay(o) \/ OrderExpires(o)
           \/ \E t \in Threads, k \in Keys : Comes(t, k) /\ ThreadTypes'
           \/ \E t \in Threads : Step(t) \/ Fails(t)
<1>1. Orders \subseteq Keys /\ Receipts \subseteq Keys
  BY DEF Keys
<1>. QED
  BY <1>1, RequestComes DEF Next

LEMMA OrderType ==
    ASSUME TInv, NEW o \in Orders, OnWeChatPay(o) \/ Pay(o) \/ OrderExpires(o)
    PROVE  TInv'
<1>1. Parts
  BY TypeParts
<1>2. UNCHANGED <<books, thread, faults, hit, swallowed, succeeded, settled>>
  BY DEF OnWeChatPay, Pay, OrderExpires, NoFault, wechat, tables
<1>3. /\ BookTypes' /\ StatTypes' /\ FaultTypes' /\ ThreadTypes'
  BY <1>1, <1>2
  DEF Parts, BookTypes, StatTypes, FaultTypes, ThreadTypes, books, thread
<1>4. paid \subseteq paid' /\ paid' \subseteq pending' /\ pending' \subseteq Orders
  <2>1. paid \subseteq pending /\ pending \subseteq Orders
    BY <1>1 DEF Parts, StoreTypes
  <2>. QED
    BY <2>1 DEF OnWeChatPay, Pay, OrderExpires, wechat, tables
<1>5. StoreTypes'
  BY <1>1, <1>2, <1>4
  DEF Parts, StoreTypes, OnWeChatPay, Pay, OrderExpires, wechat, tables
<1>6. ThreadsOK'
  BY <1>1, <1>2, <1>4 DEF Parts, ThreadsOK, RestOf, thread
<1>7. succeeded' \subseteq paid'
  BY <1>1, <1>2, <1>4 DEF Parts
<1>. QED
  BY <1>3, <1>4, <1>5, <1>6, <1>7, TypeParts DEF Parts

LEMMA ComesType ==
    ASSUME TInv, NEW t \in Threads, NEW k \in Keys, Comes(t, k), ThreadTypes'
    PROVE  TInv'
<1>1. Parts
  BY TypeParts
<1>2. StoreTypes' /\ BookTypes' /\ StatTypes' /\ UNCHANGED <<paid, pending, succeeded>>
  BY <1>1 DEF Comes, Parts, StoreTypes, BookTypes, StatTypes, tables, wechat, books
<1>3. FaultTypes'
  BY FaultType DEF Comes, Starts, FaultOf
<1>4. ThreadsOK'
  <2>1. todo'[t] \in RestOf(k)
    BY StartWalk DEF Comes, Starts, Keys
  <2>2. at'[t] = k /\ k # NoKey /\ (k \in Orders => k \in paid)
    BY PaymentAssumption DEF Comes, Starts
  <2>3. \A s \in Threads : s # t => todo'[s] = todo[s] /\ at'[s] = at[s]
    BY DEF Comes, Starts, Alone
  <2>. QED
    BY <1>1, <1>2, <2>1, <2>2, <2>3 DEF Parts, ThreadsOK, RestOf
<1>. QED
  BY <1>1, <1>2, <1>3, <1>4, TypeParts DEF Parts

LEMMA NextType == TInv /\ [Next]_vars => TInv'
<1> SUFFICES ASSUME TInv, [Next]_vars PROVE TInv'
  OBVIOUS
<1>1. CASE UNCHANGED vars
  BY <1>1, TypeParts
  DEF vars, Parts, StoreTypes, BookTypes, StatTypes, FaultTypes, ThreadTypes,
      ThreadsOK, RestOf
<1>. QED
  BY <1>1, StepCases, OrderType, ComesType, StepType

\* Every handler walks through the commands of its kind of request and no
\* others, and the books hold numbers for orders and receipts only.
THEOREM TypeCorrect == Spec => []TypeOK
<1>1. TInv => TypeOK
  BY DEF TInv
<1>. QED
  BY <1>1, InitType, NextType, PTL DEF Spec

----------------------------------------------------------------------------
(* Where threads are *)

LEMMA OthersStay ==
    ASSUME NEW t \in Threads, Alone(t), NEW s \in Threads, s # t
    PROVE  /\ at'[s] = at[s] /\ Where(s)' = Where(s) /\ first'[s] = first[s]
  BY DEF Alone, Where

LEMMA OverIsIdle ==
    ASSUME NEW t \in Threads, Over(t)
    PROVE  at'[t] = NoKey /\ at'[t] \notin Keys /\ Where(t)' = "idle"
  BY PaymentAssumption DEF Over, Where

LEMMA ContinuesNext ==
    ASSUME NEW t \in Threads, NEW p, Continues(t, p)
    PROVE  /\ at'[t] = at[t] /\ <<p, Where(t)'>> \in FollowOf(at[t])
           /\ Where(t)' # "end"
<1>1. todo'[t] # <<>> /\ todo'[t] \in Seq(Steps)
  BY KeyWalks DEF Continues, Walks
<1>2. Head(todo'[t]) \in Steps
  BY <1>1
<1>3. Head(todo'[t]) # "end"
  BY <1>2 DEF Steps
<1>. QED
  BY <1>1, <1>3 DEF Continues, Where

\* A step from p: on to the next step, or out.
Advances(t, p) ==
    /\ at[t] \in Keys /\ Where(t) = p
    /\ \/ /\ at'[t] = NoKey /\ at'[t] \notin Keys /\ Where(t)' = "idle"
          /\ p \in {"exists", "load"} \/ <<p, "end">> \in FollowOf(at[t])
       \/ /\ at'[t] = at[t] /\ <<p, Where(t)'>> \in FollowOf(at[t])
          /\ Where(t)' # "end"

\* Each step of a thread, by its name.
LEMMA StepAdvances ==
    ASSUME TInv, NEW t \in Threads
    PROVE  /\ VerifyExists(t) => Advances(t, "exists")
           /\ VerifyUpdate(t) => Advances(t, "update")
           /\ LoadOrder(t) => Advances(t, "load")
           /\ ReadStat(t) => Advances(t, "stat")
           /\ Share(t) => Advances(t, "share")
           /\ Credit(t) => Advances(t, "credit")
           /\ LogCredit(t) \/ GoldRecordFails(t) => Advances(t, "log")
           /\ RmbSum(t) => Advances(t, "sum")
           /\ Answer(t) => Advances(t, "answer")
           /\ AppleMark(t) => Advances(t, "mark")
<1>1. ASSUME NEW p, Does(t, p), Done(t) \/ (Leave(t) /\ p \in {"exists", "load"})
      PROVE  Advances(t, p)
  <2>1. at[t] \in Keys /\ Where(t) = p
    BY <1>1, Stands
  <2>2. \/ /\ Over(t)
           /\ p \in {"exists", "load"} \/ <<p, "end">> \in FollowOf(at[t])
        \/ Continues(t, p)
    BY <1>1, DoneMoves, Leaves
  <2>. QED
    BY <2>1, <2>2, OverIsIdle, ContinuesNext DEF Advances
<1>2. ReadStat(t) => Advances(t, "stat")
  BY Stands, StatMoves, ContinuesNext DEF Advances, ReadStat
<1>3. /\ VerifyExists(t) => Advances(t, "exists")
      /\ VerifyUpdate(t) => Advances(t, "update")
      /\ LoadOrder(t) => Advances(t, "load")
  BY <1>1 DEF VerifyExists, VerifyUpdate, LoadOrder
<1>4. /\ Share(t) => Advances(t, "share")
      /\ Credit(t) => Advances(t, "credit")
      /\ LogCredit(t) \/ GoldRecordFails(t) => Advances(t, "log")
      /\ RmbSum(t) => Advances(t, "sum")
  BY <1>1 DEF Share, Credit, LogCredit, GoldRecordFails, RmbSum
<1>5. /\ Answer(t) => Advances(t, "answer")
      /\ AppleMark(t) => Advances(t, "mark")
  BY <1>1 DEF Answer, AppleMark
<1>. QED
  BY <1>2, <1>3, <1>4, <1>5

LEMMA CrashStops ==
    ASSUME TInv, NEW t \in Threads, Crash(t)
    PROVE  /\ at[t] \in Keys /\ Fault(at[t])
           /\ at'[t] = NoKey /\ at'[t] \notin Keys /\ Where(t)' = "idle"
<1>1. at[t] \in Keys
  BY DEF Crash, Idle, TInv, TypeOK
<1>2. Over(t)
  BY Leaves DEF Crash
<1>. QED
  BY <1>1, <1>2, OverIsIdle DEF Crash

\* A request that has come in stands at its first step.
LEMMA ComesFirst ==
    ASSUME TInv, NEW t \in Threads, NEW k \in Keys, Comes(t, k)
    PROVE  /\ at[t] = NoKey /\ at'[t] = k /\ Where(t) = "idle"
           /\ k \in Orders => Where(t)' = "exists"
           /\ k \notin Orders => Where(t)' = "credit"
           /\ Alone(t) /\ UNCHANGED <<tables, wechat, books>> /\ ~Closed(k)
           /\ Handled(k) => Fault(k)
           /\ ~Handled(k) => NoFault
<1>1. /\ at[t] = NoKey /\ at'[t] = k /\ Alone(t)
      /\ UNCHANGED <<tables, wechat, books>> /\ ~Closed(k)
      /\ Handled(k) => Fault(k)
      /\ ~Handled(k) => NoFault
  BY DEF Comes, Starts
<1>2. Where(t) = "idle"
  BY <1>1 DEF TInv, Where
<1>3. CASE k \in Orders
  <2>1. todo'[t] = NotifySteps(k)
    BY <1>3 DEF Comes, Starts
  <2>2. todo'[t] # <<>> /\ Head(todo'[t]) = "exists"
    BY <1>3, <2>1, StartWalk, KeyWalks DEF Walks
  <2>. QED
    BY <1>1, <1>2, <1>3, <2>2 DEF Where
<1>4. CASE k \notin Orders
  <2>1. todo'[t] = AppleSteps(k) /\ k \in Receipts
    BY <1>4 DEF Comes, Starts, Keys
  <2>2. todo'[t] # <<>> /\ Head(todo'[t]) = "credit"
    BY <2>1, StartWalk, KeyWalks DEF Walks
  <2>. QED
    BY <1>1, <1>2, <1>4, <2>2 DEF Where
<1>. QED
  BY <1>3, <1>4

----------------------------------------------------------------------------
(* Orders that were marked *)

LEMMA SucceededNext == TInv /\ SucceededStays /\ [Next]_vars => SucceededStays'
<1> SUFFICES ASSUME TInv, SucceededStays, [Next]_vars PROVE SucceededStays'
  OBVIOUS
<1>. USE DEF SucceededStays
<1>1. CASE UNCHANGED <<table, succeeded, ttl>>
  BY <1>1
<1>2. CASE UNCHANGED vars
  BY <1>1, <1>2 DEF vars
<1>3. ASSUME NEW o \in Orders, OnWeChatPay(o) PROVE SucceededStays'
  <2>1. o \notin succeeded
    BY <1>3 DEF OnWeChatPay, TInv
  <2>. QED
    BY <1>3, <2>1 DEF OnWeChatPay, TInv, TypeOK
<1>4. ASSUME NEW o \in Orders, Pay(o) PROVE SucceededStays'
  BY <1>1, <1>4 DEF Pay, tables
<1>5. ASSUME NEW o \in Orders, OrderExpires(o) PROVE SucceededStays'
  BY <1>5 DEF OrderExpires, TInv, TypeOK
<1>6. ASSUME NEW t \in Threads, NEW k \in Keys, Comes(t, k) PROVE SucceededStays'
  BY <1>1, <1>6 DEF Comes, tables
<1>7. ASSUME NEW t \in Threads, VerifyUpdate(t) PROVE SucceededStays'
  <2>1. at[t] \in Orders
    BY <1>7, StepKinds DEF VerifyUpdate
  <2>. QED
    BY <1>7, <2>1 DEF VerifyUpdate, Persist, TInv, TypeOK
<1>8. ASSUME NEW t \in Threads, Step(t) \/ Fails(t), ~VerifyUpdate(t)
      PROVE  SucceededStays'
  <2>1. UNCHANGED tables
    BY <1>8 DEF Step, VerifyExists, LoadOrder, ReadStat, Share, Credit,
                LogCredit, RmbSum, Answer, AppleMark, Fails, Crash,
                PayRecordFails, GoldRecordFails
  <2>. QED
    BY <1>1, <2>1 DEF tables
<1>. QED
  BY <1>2, <1>3, <1>4, <1>5, <1>6, <1>7, <1>8, StepCases

----------------------------------------------------------------------------
(* Orders that were settled *)

\* Books only grow: what was booked stays booked.
LEMMA BooksGrow ==
    ASSUME TInv, BInv, NEW t \in Threads, Alone(t), settled' = settled,
           swallowed \subseteq swallowed',
           \A k \in Keys : /\ credited'[k] >= credited[k] /\ credited'[k] \in Nat
                           /\ logged'[k] >= logged[k] /\ logged'[k] \in Nat
                           /\ rmb'[k] >= rmb[k] /\ rmb'[k] \in Nat
                           /\ shared'[k] >= shared[k] /\ shared'[k] \in Nat,
           Booked(t)'
    PROVE  BInv'
<1>1. \A k \in Keys : /\ credited[k] \in Nat /\ logged[k] \in Nat
                      /\ rmb[k] \in Nat /\ shared[k] \in Nat
  BY DEF TInv, TypeOK
<1>2. Orders \subseteq Keys /\ settled \subseteq Orders
  BY DEF Keys, TInv, TypeOK
<1>3. SettledIsBooked'
  BY <1>1, <1>2 DEF BInv, SettledIsBooked
<1>4. ASSUME NEW s \in Threads, s # t PROVE Booked(s)'
  <2>1. at'[s] = at[s] /\ Where(s)' = Where(s)
    BY <1>4, OthersStay
  <2>2. Booked(s)
    BY DEF BInv
  <2>. QED
    BY <1>1, <1>2, <2>1, <2>2 DEF Booked
<1>. QED
  BY <1>3, <1>4 DEF BInv

\* A step that is not written to the books.
LEMMA BooksSame ==
    ASSUME TInv, BInv, NEW t \in Threads, Alone(t), settled' = settled,
           swallowed \subseteq swallowed',
           UNCHANGED <<credited, logged, rmb, shared>>, Booked(t)'
    PROVE  BInv'
<1>1. \A k \in Keys : /\ credited[k] \in Nat /\ logged[k] \in Nat
                      /\ rmb[k] \in Nat /\ shared[k] \in Nat
  BY DEF TInv, TypeOK
<1>. QED
  BY <1>1, BooksGrow

LEMMA BooksStep ==
    ASSUME TInv, BInv, NEW t \in Threads, Step(t) \/ Fails(t)
    PROVE  BInv'
<1>1. Alone(t) /\ at[t] \in Keys /\ swallowed \subseteq swallowed'
  BY StepMoves, FaultType
<1>2. \A k \in Keys : /\ credited[k] \in Nat /\ logged[k] \in Nat
                      /\ rmb[k] \in Nat /\ shared[k] \in Nat
  BY DEF TInv, TypeOK
<1>3. Booked(t) /\ Orders \subseteq Keys
  BY DEF BInv, Keys
<1>. USE DEF FollowOf, FishFollow, CardFollow, GoldFollow, HallOrder,
             FishReceiptFollow, CardReceiptFollow
<1>4. CASE VerifyExists(t) \/ VerifyUpdate(t) \/ LoadOrder(t)
  <2>1. Advances(t, "exists") \/ Advances(t, "update") \/ Advances(t, "load")
    BY <1>4, StepAdvances
  <2>2. /\ settled' = settled /\ UNCHANGED <<credited, logged, rmb, shared>>
    BY <1>4 DEF VerifyExists, VerifyUpdate, LoadOrder, wechat, books
  <2>3. at'[t] = at[t] => Where(t)' \notin {"log", "sum", "answer"}
    BY <2>1 DEF Advances
  <2>4. at'[t] = at[t] /\ at[t] \in CardOrders => Where(t)' # "credit"
    BY <2>1, PaymentAssumption DEF Advances
  <2>5. at'[t] # at[t] => at'[t] \notin Keys
    BY <2>1 DEF Advances
  <2>6. Booked(t)'
    BY <1>3, <2>3, <2>4, <2>5 DEF Booked
  <2>. QED
    BY <1>1, <2>2, <2>6, BooksSame
<1>5. CASE ReadStat(t)
  <2>1. Advances(t, "stat")
    BY <1>5, StepAdvances
  <2>2. /\ settled' = settled /\ UNCHANGED <<credited, logged, rmb, shared>>
    BY <1>5 DEF ReadStat, wechat, books
  <2>3. at'[t] = at[t] => Where(t)' \in {"credit", "share"}
    BY <2>1 DEF Advances
  <2>4. at'[t] = at[t] /\ at[t] \in CardOrders => Where(t)' # "credit"
    BY <2>1, PaymentAssumption DEF Advances
  <2>5. at'[t] # at[t] => at'[t] \notin Keys
    BY <2>1 DEF Advances
  <2>6. Booked(t)'
    BY <1>3, <2>3, <2>4, <2>5 DEF Booked
  <2>. QED
    BY <1>1, <2>2, <2>6, BooksSame
<1>6. CASE Share(t)
  <2>1. Advances(t, "share")
    BY <1>6, StepAdvances
  <2>2. /\ settled' = settled /\ UNCHANGED <<credited, logged, rmb>>
        /\ shared' = [shared EXCEPT ![at[t]] = @ + 1]
    BY <1>6 DEF Share, wechat
  <2>3. at'[t] \in Orders => at'[t] = at[t] /\ Where(t)' = "credit"
    BY <1>3, <2>1, PaymentAssumption DEF Advances, Orders
  <2>4. shared'[at[t]] = shared[at[t]] + 1
        /\ \A k \in Keys : shared'[k] >= shared[k] /\ shared'[k] \in Nat
    BY <1>1, <1>2, <2>2 DEF TInv, TypeOK
  <2>5. Booked(t)'
    BY <1>1, <1>2, <2>3, <2>4 DEF Booked
  <2>. QED
    BY <1>1, <1>2, <2>2, <2>4, <2>5, BooksGrow
<1>7. CASE Credit(t)
  <2>1. Advances(t, "credit")
    BY <1>7, StepAdvances
  <2>2. /\ settled' = settled /\ UNCHANGED <<shared, logged, rmb>>
        /\ credited' = [credited EXCEPT ![at[t]] = @ + 1]
    BY <1>7 DEF Credit, wechat
  <2>3. at'[t] \in Orders => at'[t] = at[t]
    BY <1>3, <2>1 DEF Advances
  <2>4. at'[t] \in Orders /\ at[t] \in FishOrders => Where(t)' = "answer"
    BY <1>3, <2>1 DEF Advances
  <2>5. at'[t] \in Orders /\ at[t] \notin FishOrders => Where(t)' = "log"
    BY <1>3, <2>1, <2>3, PaymentAssumption DEF Advances, Orders
  <2>6. credited'[at[t]] = credited[at[t]] + 1
        /\ \A k \in Keys : credited'[k] >= credited[k] /\ credited'[k] \in Nat
    BY <1>1, <1>2, <2>2 DEF TInv, TypeOK
  <2>7. at[t] \in FishOrders => at[t] \notin CardOrders
    BY PaymentAssumption
  <2>8. Booked(t)'
    BY <1>1, <1>2, <1>3, <2>1, <2>2, <2>3, <2>4, <2>5, <2>6, <2>7
    DEF Booked, Advances
  <2>. QED
    BY <1>1, <1>2, <2>2, <2>6, <2>8, BooksGrow
<1>8. CASE LogCredit(t)
  <2>1. Advances(t, "log")
    BY <1>8, StepAdvances
  <2>2. /\ settled' = settled /\ UNCHANGED <<shared, credited, rmb>>
        /\ logged' = [logged EXCEPT ![at[t]] = @ + 1]
    BY <1>8 DEF LogCredit, wechat
  <2>3. at'[t] \in Orders => at'[t] = at[t] /\ Where(t)' = "sum"
    BY <1>3, <2>1, PaymentAssumption DEF Advances, Orders
  <2>4. logged'[at[t]] = logged[at[t]] + 1
        /\ \A k \in Keys : logged'[k] >= logged[k] /\ logged'[k] \in Nat
    BY <1>1, <1>2, <2>2 DEF TInv, TypeOK
  <2>5. Booked(t)'
    BY <1>1, <1>2, <1>3, <2>1, <2>2, <2>3, <2>4 DEF Booked, Advances
  <2>. QED
    BY <1>1, <1>2, <2>2, <2>4, <2>5, BooksGrow
<1>9. CASE RmbSum(t)
  <2>1. Advances(t, "sum")
    BY <1>9, StepAdvances
  <2>2. /\ settled' = settled /\ UNCHANGED <<shared, credited, logged>>
        /\ rmb' = [rmb EXCEPT ![at[t]] = @ + 1]
    BY <1>9 DEF RmbSum, wechat
  <2>3. at'[t] \in Orders => at'[t] = at[t] /\ Where(t)' = "answer"
    BY <1>3, <2>1 DEF Advances
  <2>4. rmb'[at[t]] = rmb[at[t]] + 1
        /\ \A k \in Keys : rmb'[k] >= rmb[k] /\ rmb'[k] \in Nat
    BY <1>1, <1>2, <2>2 DEF TInv, TypeOK
  <2>5. Booked(t)'
    BY <1>1, <1>2, <1>3, <2>1, <2>2, <2>3, <2>4 DEF Booked, Advances
  <2>. QED
    BY <1>1, <1>2, <2>2, <2>4, <2>5, BooksGrow
<1>10. CASE AppleMark(t)
  <2>1. Advances(t, "mark") /\ at[t] \in Receipts
    BY <1>10, StepAdvances, StepKinds DEF AppleMark
  <2>2. /\ settled' = settled /\ UNCHANGED <<credited, logged, rmb, shared>>
    BY <1>10 DEF AppleMark, wechat
  <2>3. at'[t] \notin Orders
    BY <1>3, <2>1, PaymentAssumption DEF Advances
  <2>. QED
    BY <1>1, <2>2, <2>3, BooksSame DEF Booked
<1>11. CASE Crash(t)
  <2>1. at'[t] \notin Orders
    BY <1>3, <1>11, CrashStops
  <2>2. /\ settled' = settled /\ UNCHANGED <<credited, logged, rmb, shared>>
    BY <1>11 DEF Crash, wechat, books
  <2>. QED
    BY <1>1, <2>1, <2>2, BooksSame DEF Booked
<1>12. CASE Answer(t)
  <2>1. Advances(t, "answer") /\ at[t] \in Orders
    BY <1>12, StepAdvances, StepKinds DEF Answer
  <2>2. /\ settled' \subseteq settled \cup {at[t]}
        /\ UNCHANGED <<credited, logged, rmb, shared>>
    BY <1>12 DEF Answer, books
  <2>3. at'[t] \notin Orders
    BY <1>3, <2>1, PaymentAssumption DEF Advances
  <2>4. SettledIsBooked'
    BY <1>1, <1>3, <2>1, <2>2 DEF BInv, Booked, SettledIsBooked, Advances
  <2>5. \A s \in Threads : s # t => Booked(s)'
    BY <1>1, <2>2, OthersStay DEF BInv, Booked
  <2>. QED
    BY <2>3, <2>4, <2>5 DEF BInv, Booked
<1>13. CASE PayRecordFails(t)
  <2>1. /\ at'[t] \in FishOrders /\ at'[t] = at[t] /\ Where(t)' = "answer"
        /\ at'[t] \notin CardOrders
    BY <1>13, QuitMoves, PaymentAssumption DEF Quits
  <2>2. /\ settled' = settled /\ UNCHANGED <<credited, logged, rmb, shared>>
        /\ at[t] \in swallowed'
    BY <1>13 DEF PayRecordFails, Swallow, wechat, books
  <2>3. Booked(t)'
    BY <2>1, <2>2 DEF Booked
  <2>. QED
    BY <1>1, <2>2, <2>3, BooksSame
<1>14. CASE GoldRecordFails(t)
  <2>1. Advances(t, "log") /\ at[t] \in GoldOrders /\ at[t] \notin CardOrders
        /\ at[t] \notin FishOrders
    BY <1>14, StepAdvances, PaymentAssumption DEF GoldRecordFails
  <2>2. /\ settled' = settled /\ UNCHANGED <<credited, logged, rmb, shared>>
        /\ at[t] \in swallowed'
    BY <1>14 DEF GoldRecordFails, Swallow, wechat, books
  <2>3. at'[t] \in Orders => at'[t] = at[t] /\ Where(t)' = "sum"
    BY <1>3, <2>1 DEF Advances
  <2>4. Booked(t)'
    BY <1>3, <2>1, <2>2, <2>3 DEF Booked, Advances
  <2>. QED
    BY <1>1, <2>2, <2>4, BooksSame
<1>. QED
  BY <1>4, <1>5, <1>6, <1>7, <1>8, <1>9, <1>10, <1>11, <1>12, <1>13, <1>14
  DEF Step, Fails

LEMMA BooksNext == TInv /\ BInv /\ [Next]_vars => BInv'
<1> SUFFICES ASSUME TInv, BInv, [Next]_vars PROVE BInv'
  OBVIOUS
<1>1. CASE UNCHANGED <<credited, logged, rmb, shared, settled, swallowed, thread>>
  BY <1>1 DEF BInv, Booked, Where, SettledIsBooked, thread
<1>2. CASE UNCHANGED vars
  BY <1>1, <1>2 DEF vars, thread
<1>3. ASSUME NEW o \in Orders, OnWeChatPay(o) \/ Pay(o) \/ OrderExpires(o)
      PROVE  BInv'
  BY <1>1, <1>3 DEF OnWeChatPay, Pay, OrderExpires, NoFault, wechat, books
<1>4. ASSUME NEW t \in Threads, NEW k \in Keys, Comes(t, k) PROVE BInv'
  <2>1. /\ Alone(t) /\ settled' = settled
        /\ UNCHANGED <<credited, logged, rmb, shared>>
    BY <1>4, ComesFirst DEF wechat, books
  <2>3. swallowed \subseteq swallowed'
    BY <1>4, ComesFirst DEF NoFault, Fault
  <2>2. Booked(t)'
    BY <1>4, ComesFirst DEF Booked
  <2>. QED
    BY <2>1, <2>2, <2>3, BooksSame
<1>. QED
  BY <1>2, <1>3, <1>4, StepCases, BooksStep

----------------------------------------------------------------------------
(* Credits and faults *)

\* What the step of one thread does to those who will credit k.
LEMMA CreditorsStep ==
    ASSUME NEW t \in Threads, Alone(t), NEW k
    PROVE  /\ Cardinality(Creditors(k)) \in Nat /\ Cardinality(Creditors(k)') \in Nat
           /\ t \notin Creditors(k)' =>
                 Cardinality(Creditors(k)') <= Cardinality(Creditors(k))
           /\ t \in Creditors(k) =>
                 Cardinality(Creditors(k)') <= Cardinality(Creditors(k))
           /\ t \in Creditors(k) /\ t \notin Creditors(k)' =>
                 Cardinality(Creditors(k)') = Cardinality(Creditors(k)) - 1
           /\ t \notin Creditors(k) /\ t \in Creditors(k)' =>
                 Cardinality(Creditors(k)') = Cardinality(Creditors(k)) + 1
<1>1. Creditors(k) \in SUBSET Threads /\ Creditors(k)' \in SUBSET Threads
  BY DEF Creditors
<1>2. \A s \in Threads : s # t => (s \in Creditors(k) <=> s \in Creditors(k)')
  BY OthersStay DEF Creditors
<1>. QED
  BY <1>1, <1>2, StepCount

\* An order or receipt the step is not about.
LEMMA CreditsOther ==
    ASSUME TInv, NEW t \in Threads, Alone(t), NEW k \in Keys, Credits(k),
           k # at[t], k # at'[t],
           credited'[k] = credited[k], hit'[k] = hit[k],
           Closed(k)' <=> Closed(k)
    PROVE  Credits(k)'
<1>1. t \notin Creditors(k)'
  BY DEF Creditors
<1>2. /\ Cardinality(Creditors(k)') <= Cardinality(Creditors(k))
      /\ Cardinality(Creditors(k)') \in Nat /\ Cardinality(Creditors(k)) \in Nat
  BY <1>1, CreditorsStep
<1>3. Handled(k)' <=> Handled(k)
  BY OthersStay DEF Handled
<1>4. credited[k] \in Nat /\ hit[k] \in Nat
  BY DEF TInv, TypeOK
<1>. QED
  BY <1>2, <1>3, <1>4 DEF Credits

\* The order or receipt that is handled.
LEMMA CreditsOwn ==
    ASSUME TInv, NEW t \in Threads, Alone(t), NEW k \in Keys, Credits(k),
           at[t] = k, hit'[k] \in Nat,
           \/ /\ credited'[k] = credited[k] /\ hit'[k] >= hit[k]
              /\ t \in Creditors(k)' => t \in Creditors(k)
              /\ at'[t] = k \/ Closed(k)'
           \/ /\ credited'[k] = credited[k] + 1 /\ hit'[k] = hit[k]
              /\ t \in Creditors(k) /\ t \notin Creditors(k)' /\ at'[t] = k
           \/ /\ credited'[k] = credited[k] /\ hit'[k] = hit[k]
              /\ t \in Creditors(k) /\ at'[t] # k
           \/ /\ credited'[k] = credited[k] /\ hit'[k] = hit[k] + 1
              /\ at'[t] # k
    PROVE  Credits(k)'
<1>1. credited[k] \in Nat /\ hit[k] \in Nat
  BY DEF TInv, TypeOK
<1>2. /\ credited[k] + Cardinality(Creditors(k)) <= hit[k] + 1
      /\ Cardinality(Creditors(k)') \in Nat /\ Cardinality(Creditors(k)) \in Nat
  BY CreditorsStep DEF Credits
<1>3. at'[t] = k => Handled(k)'
  BY DEF Handled
<1>4. at'[t] # k => t \notin Creditors(k)'
  BY DEF Creditors
<1>5. CASE /\ credited'[k] = credited[k] /\ hit'[k] >= hit[k]
           /\ t \in Creditors(k)' => t \in Creditors(k)
           /\ at'[t] = k \/ Closed(k)'
  <2>1. Cardinality(Creditors(k)') <= Cardinality(Creditors(k))
    BY <1>5, CreditorsStep
  <2>. QED
    BY <1>1, <1>2, <1>3, <1>5, <2>1 DEF Credits
<1>6. CASE /\ credited'[k] = credited[k] + 1 /\ hit'[k] = hit[k]
           /\ t \in Creditors(k) /\ t \notin Creditors(k)' /\ at'[t] = k
  <2>1. Cardinality(Creditors(k)') = Cardinality(Creditors(k)) - 1
    BY <1>6, CreditorsStep
  <2>. QED
    BY <1>1, <1>2, <1>3, <1>6, <2>1 DEF Credits
<1>7. CASE /\ credited'[k] = credited[k] /\ hit'[k] = hit[k]
           /\ t \in Creditors(k) /\ at'[t] # k
  <2>1. Cardinality(Creditors(k)') = Cardinality(Creditors(k)) - 1
    BY <1>4, <1>7, CreditorsStep
  <2>. QED
    BY <1>1, <1>2, <1>7, <2>1 DEF Credits
<1>8. CASE /\ credited'[k] = credited[k] /\ hit'[k] = hit[k] + 1 /\ at'[t] # k
  <2>1. Cardinality(Creditors(k)') <= Cardinality(Creditors(k))
    BY <1>4, <1>8, CreditorsStep
  <2>. QED
    BY <1>1, <1>2, <1>8, <2>1 DEF Credits
<1>. QED
  BY <1>5, <1>6, <1>7, <1>8

LEMMA MarkedStep ==
    ASSUME TInv, CInv, NEW t \in Threads, Step(t) \/ Fails(t)
    PROVE  \A s \in Threads : Marked(s)'
<1>1. Alone(t) /\ \A s \in Threads : Marked(s)
  BY StepMoves DEF CInv
<1>. USE DEF FollowOf, FishFollow, CardFollow, GoldFollow, HallOrder,
             FishReceiptFollow, CardReceiptFollow
<1>2. CardReceipts \cap Orders = {} /\ CardReceipts \subseteq Keys
      /\ CardReceipts \cap FishReceipts = {}
  BY PaymentAssumption DEF Receipts, Keys
<1>3. mark \subseteq mark'
  BY DEF Step, VerifyExists, VerifyUpdate, LoadOrder, ReadStat, Share, Credit,
         LogCredit, RmbSum, Answer, AppleMark, StoreMark, Fails, Crash,
         PayRecordFails, GoldRecordFails, books
<1>4. Marked(t)'
  <2>1. CASE AppleMark(t)
    <3>1. Advances(t, "mark") /\ mark' = mark \cup {at[t]}
      BY <2>1, StepAdvances DEF AppleMark, StoreMark
    <3>. QED
      BY <1>2, <3>1 DEF Marked, Advances
  <2>2. CASE LogCredit(t)
    <3>1. Advances(t, "log")
      BY <2>2, StepAdvances
    <3>. QED
      BY <1>1, <1>2, <1>3, <3>1 DEF Marked, Advances
  <2>3. CASE Share(t)
    <3>1. Advances(t, "share")
      BY <2>3, StepAdvances
    <3>. QED
      BY <1>1, <1>2, <1>3, <3>1 DEF Marked, Advances
  <2>4. CASE Credit(t)
    <3>1. Advances(t, "credit")
      BY <2>4, StepAdvances
    <3>. QED
      BY <1>2, <3>1, PaymentAssumption DEF Marked, Advances, Orders
  <2>5. CASE VerifyExists(t) \/ VerifyUpdate(t) \/ LoadOrder(t) \/ ReadStat(t)
             \/ RmbSum(t) \/ Answer(t)
    <3>1. at[t] \in Orders /\ (at'[t] = at[t] \/ at'[t] \notin Keys)
      BY <2>5, StepAdvances, StepKinds
      DEF VerifyExists, VerifyUpdate, LoadOrder, ReadStat, RmbSum, Answer,
          Advances, Orders
    <3>. QED
      BY <1>2, <3>1 DEF Marked
  <2>6. CASE Crash(t)
    BY <1>2, <2>6, CrashStops DEF Marked
  <2>7. CASE PayRecordFails(t)
    BY <1>2, <2>7, QuitMoves DEF Marked, Quits, Orders
  <2>8. CASE GoldRecordFails(t)
    <3>1. at[t] \in Orders /\ (at'[t] = at[t] \/ at'[t] \notin Keys)
      BY <2>8, StepAdvances DEF GoldRecordFails, Advances, Orders
    <3>. QED
      BY <1>2, <3>1 DEF Marked
  <2>. QED
    BY <2>1, <2>2, <2>3, <2>4, <2>5, <2>6, <2>7, <2>8 DEF Step, Fails
<1>5. ASSUME NEW s \in Threads, s # t PROVE Marked(s)'
  BY <1>1, <1>3, <1>5, OthersStay DEF Marked
<1>. QED
  BY <1>4, <1>5

LEMMA CreditsStep ==
    ASSUME TInv, TInv', CInv, NEW t \in Threads, Step(t) \/ Fails(t)
    PROVE  CInv'
<1>0. Alone(t) /\ at[t] \in Keys /\ FaultOf(at[t])
  BY StepMoves
<1>. PICK k \in Keys : k = at[t]
  BY <1>0
<1>1. Alone(t) /\ k \in Keys /\ at[t] = k /\ FaultOf(k)
  BY <1>0
<1>2. /\ \A j \in Keys : hit'[j] >= hit[j] /\ hit'[j] \in Nat
      /\ \A j \in Keys : j # k => hit'[j] = hit[j]
      /\ Fault(k) \/ Swallow(k) => hit'[k] = hit[k] + 1
      /\ NoFault => hit'[k] = hit[k]
  BY <1>1, FaultType DEF FaultTypes, NoFault
<1>3. /\ Credits(k) /\ Marked(t) /\ k \in Orders \cup Receipts
      /\ Orders \cap Receipts = {}
  BY <1>1, PaymentAssumption DEF CInv, Keys
<1>. USE DEF FollowOf, FishFollow, CardFollow, GoldFollow, HallOrder,
             FishReceiptFollow, CardReceiptFollow, BeforeCredit
<1>4. Credits(k)'
  <2>1. CASE VerifyExists(t) \/ VerifyUpdate(t) \/ LoadOrder(t) \/ ReadStat(t)
    <3>1. /\ credited'[k] = credited[k] /\ hit'[k] = hit[k]
      BY <1>2, <2>1
      DEF VerifyExists, VerifyUpdate, LoadOrder, ReadStat, books
    <3>2. \/ Advances(t, "exists") \/ Advances(t, "update")
          \/ Advances(t, "load") \/ Advances(t, "stat")
      BY <2>1, StepAdvances
    <3>3. t \in Creditors(k) /\ (at'[t] = k \/ at'[t] \notin Keys)
      BY <3>2 DEF Advances, Creditors
    <3>. QED
      BY <1>1, <1>2, <1>3, <3>1, <3>3, CreditsOwn
  <2>2. CASE Share(t)
    <3>1. /\ credited'[k] = credited[k] /\ hit'[k] = hit[k] /\ mark' = mark
      BY <1>2, <2>2 DEF Share
    <3>2. Advances(t, "share") /\ k \in CardOrders \cup CardReceipts
      BY <2>2, StepAdvances, StepKinds DEF Share
    <3>3. CASE k \in CardOrders
      <4>1. t \in Creditors(k) /\ (at'[t] = k \/ at'[t] \notin Keys)
        BY <3>2, <3>3 DEF Advances, Creditors
      <4>. QED
        BY <1>1, <1>2, <1>3, <3>1, <4>1, CreditsOwn
    <3>4. CASE k \in CardReceipts
      <4>1. k \in mark
        BY <1>3, <3>2, <3>4 DEF Marked, Advances
      <4>2. Closed(k)'
        BY <3>1, <4>1 DEF Closed
      <4>3. k \notin Orders /\ k \notin FishReceipts
        BY <1>3, <3>4, PaymentAssumption DEF Receipts
      <4>4. t \notin Creditors(k)'
        BY <1>1, <3>2, <3>4, <4>3 DEF Advances, Creditors, Orders
      <4>. QED
        BY <1>1, <1>2, <1>3, <3>1, <4>2, <4>4, CreditsOwn
    <3>. QED
      BY <3>2, <3>3, <3>4
  <2>3. CASE Credit(t)
    <3>1. /\ credited'[k] = credited[k] + 1 /\ hit'[k] = hit[k]
      BY <1>1, <1>2, <2>3 DEF Credit, TInv, TypeOK
    <3>2. Advances(t, "credit")
      BY <2>3, StepAdvances
    <3>3. t \in Creditors(k) /\ at'[t] = k
      BY <3>2 DEF Advances, Creditors
    <3>4. t \notin Creditors(k)'
      BY <3>2, <3>3 DEF Advances, Creditors
    <3>. QED
      BY <1>1, <1>2, <1>3, <3>1, <3>3, <3>4, CreditsOwn
  <2>4. CASE LogCredit(t) \/ RmbSum(t)
    <3>1. /\ credited'[k] = credited[k] /\ hit'[k] = hit[k]
      BY <1>2, <2>4 DEF LogCredit, RmbSum
    <3>2. Advances(t, "log") \/ Advances(t, "sum")
      BY <2>4, StepAdvances
    <3>3. at'[t] = k
      BY <3>2 DEF Advances
    <3>4. k \in CardOrders => Where(t)' # "share"
      BY <3>2, <3>3, PaymentAssumption DEF Advances
    <3>5. t \notin Creditors(k)'
      BY <3>2, <3>3, <3>4 DEF Advances, Creditors
    <3>. QED
      BY <1>1, <1>2, <1>3, <3>1, <3>3, <3>5, CreditsOwn
  <2>5. CASE Answer(t)
    <3>1. credited'[k] = credited[k] /\ at[t] \in Orders /\ Advances(t, "answer")
      BY <2>5, StepAdvances, StepKinds DEF Answer, books
    <3>2. at'[t] \notin Keys
      BY <3>1 DEF Advances
    <3>3. \/ k \in settled' /\ hit'[k] = hit[k]
          \/ hit'[k] = hit[k] + 1
      BY <1>2, <2>5 DEF Answer
    <3>4. t \notin Creditors(k)' /\ at'[t] # k
      BY <1>1, <3>2 DEF Creditors
    <3>5. k \in settled' => Closed(k)'
      BY DEF Closed
    <3>. QED
      BY <1>1, <1>2, <1>3, <3>1, <3>3, <3>4, <3>5, CreditsOwn
  <2>6. CASE AppleMark(t)
    <3>1. /\ credited'[k] = credited[k] /\ hit'[k] = hit[k] /\ k \in mark'
          /\ Advances(t, "mark")
      BY <1>2, <2>6, StepAdvances DEF AppleMark, StoreMark
    <3>2. Closed(k)'
      BY <3>1 DEF Closed
    <3>3. t \notin Creditors(k)'
      BY <3>1 DEF Advances, Creditors
    <3>. QED
      BY <1>1, <1>2, <1>3, <3>1, <3>2, <3>3, CreditsOwn
  <2>7. CASE Crash(t)
    <3>1. /\ credited'[k] = credited[k] /\ hit'[k] = hit[k] + 1
          /\ at'[t] \notin Keys
      BY <1>2, <2>7, CrashStops DEF Crash, books
    <3>. QED
      BY <1>1, <1>2, <1>3, <3>1, CreditsOwn
  <2>8. CASE PayRecordFails(t)
    <3>1. credited'[k] = credited[k]
      BY <2>8 DEF PayRecordFails, books
    <3>2. Quits(t) /\ at'[t] = k /\ Where(t)' = "answer"
      BY <1>1, <2>8, QuitMoves DEF Quits
    <3>3. t \notin Creditors(k)'
      BY <3>2 DEF Creditors
    <3>. QED
      BY <1>1, <1>2, <1>3, <3>1, <3>2, <3>3, CreditsOwn
  <2>9. CASE GoldRecordFails(t)
    <3>1. credited'[k] = credited[k] /\ Advances(t, "log") /\ k \in GoldOrders
      BY <1>1, <2>9, StepAdvances DEF GoldRecordFails, books
    <3>2. at'[t] = k
      BY <3>1 DEF Advances
    <3>3. t \notin Creditors(k)'
      BY <3>1, <3>2, PaymentAssumption DEF Advances, Creditors
    <3>. QED
      BY <1>1, <1>2, <1>3, <3>1, <3>2, <3>3, CreditsOwn
  <2>. QED
    BY <2>1, <2>2, <2>3, <2>4, <2>5, <2>6, <2>7, <2>8, <2>9 DEF Step, Fails
<1>5. ASSUME NEW j \in Keys, j # k PROVE Credits(j)'
  <2>1. credited'[j] = credited[j]
    BY <1>1, <1>5
    DEF Step, VerifyExists, VerifyUpdate, LoadOrder, ReadStat, Share, Credit,
        LogCredit, RmbSum, Answer, AppleMark, Fails, Crash,
        PayRecordFails, GoldRecordFails, books, TInv, TypeOK
  <2>2. Closed(j)' <=> Closed(j)
    BY <1>5
    DEF Step, VerifyExists, VerifyUpdate, LoadOrder, ReadStat, Share, Credit,
        LogCredit, RmbSum, Answer, AppleMark, StoreMark, Fails, Crash,
        PayRecordFails, GoldRecordFails, books, wechat,
        Closed
  <2>3. at'[t] # j
    <3>1. at'[t] = k \/ at'[t] \notin Keys
      BY StepAdvances, CrashStops, QuitMoves DEF Step, Fails, Advances, Quits
    <3>. QED
      BY <1>5, <3>1
  <2>4. Credits(j) /\ hit'[j] = hit[j]
    BY <1>2, <1>5 DEF CInv
  <2>. QED
    BY <1>1, <1>5, <2>1, <2>2, <2>3, <2>4, CreditsOther
<1>6. \A s \in Threads : Marked(s)'
  BY MarkedStep
<1>. QED
  BY <1>4, <1>5, <1>6 DEF CInv

LEMMA CreditsNext == TInv /\ TInv' /\ CInv /\ [Next]_vars => CInv'
<1> SUFFICES ASSUME TInv, TInv', CInv, [Next]_vars PROVE CInv'
  OBVIOUS
<1>1. CASE UNCHANGED <<credited, mark, settled, todo, at, hit>>
  <2>1. \A t \in Threads : Where(t)' = Where(t) /\ at'[t] = at[t]
    BY <1>1 DEF Where
  <2>2. \A k \in Keys : Creditors(k)' = Creditors(k)
    BY <2>1 DEF Creditors
  <2>3. \A k \in Keys : (Closed(k)' <=> Closed(k)) /\ (Handled(k)' <=> Handled(k))
    BY <1>1 DEF Closed, Handled
  <2>4. \A k \in Keys : Credits(k)'
    BY <1>1, <2>2, <2>3 DEF CInv, Credits
  <2>. QED
    BY <1>1, <2>1, <2>4 DEF CInv, Marked
<1>2. CASE UNCHANGED vars
  BY <1>1, <1>2 DEF vars
<1>3. ASSUME NEW o \in Orders, OnWeChatPay(o) \/ Pay(o) \/ OrderExpires(o)
      PROVE  CInv'
  BY <1>1, <1>3 DEF OnWeChatPay, Pay, OrderExpires, NoFault, wechat, books, thread
<1>4. ASSUME NEW t \in Threads, NEW k \in Keys, Comes(t, k) PROVE CInv'
  <2>1. /\ Alone(t) /\ at[t] = NoKey /\ at'[t] = k /\ ~Closed(k)
        /\ UNCHANGED <<credited, mark, settled>>
        /\ Handled(k) => hit'[k] = hit[k] + 1
        /\ ~Handled(k) => hit'[k] = hit[k]
        /\ \A j \in Keys : j # k => hit'[j] = hit[j]
    BY <1>4, ComesFirst, FaultType DEF wechat, books, NoFault, FaultOf
  <2>2. /\ credited[k] \in Nat /\ hit[k] \in Nat /\ k # NoKey
    BY PaymentAssumption DEF TInv, TypeOK
  <2>3. Credits(k)'
    <3>1. Handled(k)'
      BY <2>1 DEF Handled
    <3>2. Cardinality(Creditors(k)') <= Cardinality(Creditors(k)) + 1
          /\ Cardinality(Creditors(k)') \in Nat /\ Cardinality(Creditors(k)) \in Nat
      <4>1. t \notin Creditors(k)
        BY <2>1, <2>2 DEF Creditors
      <4>. QED
        BY <2>1, <4>1, CreditorsStep
    <3>3. CASE Handled(k)
      BY <2>1, <2>2, <3>1, <3>2, <3>3 DEF CInv, Credits
    <3>4. CASE ~Handled(k)
      <4>1. Creditors(k) = {}
        BY <3>4 DEF Creditors, Handled
      <4>2. Cardinality(Creditors(k)) = 0
        BY <4>1, FS_EmptySet
      <4>3. credited[k] <= hit[k]
        BY <2>1, <3>4 DEF CInv, Credits
      <4>. QED
        BY <2>1, <2>2, <3>1, <3>2, <3>4, <4>2, <4>3 DEF Credits
    <3>. QED
      BY <3>3, <3>4
  <2>4. ASSUME NEW j \in Keys, j # k PROVE Credits(j)'
    <3>1. Closed(j)' <=> Closed(j)
      BY <2>1 DEF Closed
    <3>2. j # at[t]
      BY <2>1, PaymentAssumption
    <3>3. Credits(j)
      BY DEF CInv
    <3>. QED
      BY <2>1, <2>4, <3>1, <3>2, <3>3, CreditsOther
  <2>5. \A s \in Threads : Marked(s)'
    <3>1. \A s \in Threads : s # t => Marked(s)'
      BY <2>1, OthersStay DEF CInv, Marked
    <3>2. Marked(t)'
      BY <1>4, ComesFirst DEF Marked
    <3>. QED
      BY <3>1, <3>2
  <2>. QED
    BY <2>3, <2>4, <2>5 DEF CInv
<1>. QED
  BY <1>2, <1>3, <1>4, StepCases, CreditsStep

----------------------------------------------------------------------------
(* The agents' shares *)

LEMMA SharersStep ==
    ASSUME NEW t \in Threads, Alone(t), NEW o
    PROVE  /\ Cardinality(Sharers(o)) \in Nat /\ Cardinality(Sharers(o)') \in Nat
           /\ t \in Sharers(o)' => 
                 Cardinality(Sharers(o)') >= Cardinality(Sharers(o))
           /\ t \notin Sharers(o) =>
                 Cardinality(Sharers(o)') >= Cardinality(Sharers(o))
           /\ t \notin Sharers(o) /\ t \in Sharers(o)' =>
                 Cardinality(Sharers(o)') = Cardinality(Sharers(o)) + 1
           /\ t \in Sharers(o) /\ t \notin Sharers(o)' =>
                 Cardinality(Sharers(o)') = Cardinality(Sharers(o)) - 1
<1>1. Sharers(o) \in SUBSET Threads /\ Sharers(o)' \in SUBSET Threads
  BY DEF Sharers
<1>2. \A s \in Threads : s # t => (s \in Sharers(o) <=> s \in Sharers(o)')
  BY OthersStay DEF Sharers
<1>. QED
  BY <1>1, <1>2, StepCount

\* Who is not on the way to a credit leaves the others there; who credits or
\* dies pays for his own share; who gives a share is on the way.
LEMMA SharesKept ==
    ASSUME TInv, NEW t \in Threads, Alone(t), NEW o \in Keys, Shares(o),
           credited'[o] \in Nat, hit'[o] \in Nat, shared'[o] \in Nat,
           \/ /\ shared'[o] = shared[o] /\ t \notin Sharers(o)
              /\ credited'[o] >= credited[o] /\ hit'[o] >= hit[o]
           \/ /\ shared'[o] = shared[o]
              /\ credited'[o] + hit'[o] >= credited[o] + hit[o] + 1
           \/ /\ shared'[o] = shared[o] + 1
              /\ credited'[o] = credited[o] /\ hit'[o] = hit[o]
              /\ t \notin Sharers(o) /\ t \in Sharers(o)'
    PROVE  Shares(o)'
<1>1. credited[o] \in Nat /\ hit[o] \in Nat /\ shared[o] \in Nat
  BY DEF TInv, TypeOK
<1>2. Cardinality(Sharers(o)) \in Nat /\ Cardinality(Sharers(o)') \in Nat
  BY SharersStep
<1>3. CASE /\ shared'[o] = shared[o] /\ t \notin Sharers(o)
           /\ credited'[o] >= credited[o] /\ hit'[o] >= hit[o]
  <2>1. Cardinality(Sharers(o)') >= Cardinality(Sharers(o))
    BY <1>3, SharersStep
  <2>. QED
    BY <1>1, <1>2, <1>3, <2>1 DEF Shares
<1>4. CASE /\ shared'[o] = shared[o]
           /\ credited'[o] + hit'[o] >= credited[o] + hit[o] + 1
  <2>1. Cardinality(Sharers(o)') >= Cardinality(Sharers(o)) - 1
    BY <1>2, SharersStep
  <2>. QED
    BY <1>1, <1>2, <1>4, <2>1 DEF Shares
<1>5. CASE /\ shared'[o] = shared[o] + 1
           /\ credited'[o] = credited[o] /\ hit'[o] = hit[o]
           /\ t \notin Sharers(o) /\ t \in Sharers(o)'
  <2>1. Cardinality(Sharers(o)') = Cardinality(Sharers(o)) + 1
    BY <1>5, SharersStep
  <2>. QED
    BY <1>1, <1>2, <1>5, <2>1 DEF Shares
<1>. QED
  BY <1>3, <1>4, <1>5

LEMMA SharesStep ==
    ASSUME TInv, TInv', HInv, NEW t \in Threads, Step(t) \/ Fails(t)
    PROVE  HInv'
<1> SUFFICES ASSUME NEW o \in CardOrders PROVE Shares(o)'
  BY DEF HInv
<1>1. /\ Alone(t) /\ at[t] \in Keys /\ FaultOf(at[t])
      /\ o \in Keys /\ Shares(o)
  BY StepMoves DEF HInv, Keys, Orders
<1>2. /\ credited[o] \in Nat /\ hit[o] \in Nat /\ shared[o] \in Nat
      /\ credited'[o] \in Nat /\ hit'[o] \in Nat /\ shared'[o] \in Nat
  BY <1>1 DEF TInv, TypeOK
<1>3. /\ hit'[o] >= hit[o]
      /\ NoFault => hit'[o] = hit[o]
      /\ at[t] = o /\ Fault(at[t]) => hit'[o] = hit[o] + 1
  BY <1>1, FaultType DEF FaultTypes, NoFault
<1>4. Where(t) # "credit" \/ at[t] # o => t \notin Sharers(o)
  BY DEF Sharers
<1>5. CASE Credit(t)
  <2>1. /\ shared'[o] = shared[o]
        /\ at[t] = o => credited'[o] = credited[o] + 1
        /\ at[t] # o => credited'[o] = credited[o]
    BY <1>1, <1>5 DEF Credit, TInv, TypeOK
  <2>2. CASE at[t] = o
    <3>1. credited'[o] + hit'[o] >= credited[o] + hit[o] + 1
      BY <1>2, <1>3, <2>1, <2>2
    <3>. QED
      BY <1>1, <1>2, <2>1, <3>1, SharesKept
  <2>3. CASE at[t] # o
    BY <1>1, <1>2, <1>3, <1>4, <2>1, <2>3, SharesKept
  <2>. QED
    BY <2>2, <2>3
<1>6. CASE Crash(t)
  <2>1. shared'[o] = shared[o] /\ credited'[o] = credited[o] /\ Fault(at[t])
    BY <1>6 DEF Crash, books
  <2>2. CASE at[t] = o
    <3>1. credited'[o] + hit'[o] >= credited[o] + hit[o] + 1
      BY <1>2, <1>3, <2>1, <2>2
    <3>. QED
      BY <1>1, <1>2, <2>1, <3>1, SharesKept
  <2>3. CASE at[t] # o
    BY <1>1, <1>2, <1>3, <1>4, <2>1, <2>3, SharesKept
  <2>. QED
    BY <2>2, <2>3
<1>9. CASE PayRecordFails(t) \/ GoldRecordFails(t)
  <2>1. shared'[o] = shared[o] /\ credited'[o] = credited[o] /\ at[t] # o
    BY <1>9, PaymentAssumption DEF PayRecordFails, GoldRecordFails, books
  <2>. QED
    BY <1>1, <1>2, <1>3, <1>4, <2>1, SharesKept
<1>7. CASE Share(t)
  <2>1. /\ at[t] = o => shared'[o] = shared[o] + 1
        /\ at[t] # o => shared'[o] = shared[o]
        /\ credited'[o] = credited[o] /\ hit'[o] = hit[o]
    BY <1>1, <1>3, <1>7 DEF Share, TInv, TypeOK
  <2>2. CASE at[t] = o
    <3>1. Advances(t, "share")
      BY <1>7, StepAdvances
    <3>2. o \notin FishOrders
      BY PaymentAssumption
    <3>3. Where(t)' = "credit" /\ at'[t] = o /\ Where(t) = "share"
      BY <2>2, <3>1, <3>2 DEF Advances, FollowOf, CardFollow, HallOrder
    <3>4. t \notin Sharers(o) /\ t \in Sharers(o)'
      BY <3>3 DEF Sharers
    <3>. QED
      BY <1>1, <1>2, <2>1, <2>2, <3>4, SharesKept
  <2>3. CASE at[t] # o
    BY <1>1, <1>2, <1>3, <1>4, <2>1, <2>3, SharesKept
  <2>. QED
    BY <2>2, <2>3
<1>8. CASE Step(t) /\ ~Credit(t) /\ ~Share(t)
  <2>1. UNCHANGED <<shared, credited>>
    BY <1>8 DEF Step, VerifyExists, VerifyUpdate, LoadOrder, ReadStat, LogCredit,
                RmbSum, Answer, AppleMark, books
  <2>2. Where(t) # "credit"
    BY <1>8, StepAdvances DEF Step, Advances
  <2>. QED
    BY <1>1, <1>2, <1>3, <1>4, <2>1, <2>2, SharesKept
<1>. QED
  BY <1>5, <1>6, <1>7, <1>8, <1>9 DEF Fails

LEMMA SharesNext == TInv /\ TInv' /\ HInv /\ [Next]_vars => HInv'
<1> SUFFICES ASSUME TInv, TInv', HInv, [Next]_vars PROVE HInv'
  OBVIOUS
<1>1. CASE UNCHANGED <<shared, credited, todo, at, hit>>
  <2>1. \A t \in Threads : Where(t)' = Where(t) /\ at'[t] = at[t]
    BY <1>1 DEF Where
  <2>2. \A o \in CardOrders : Sharers(o)' = Sharers(o)
    BY <2>1 DEF Sharers
  <2>. QED
    BY <1>1, <2>2 DEF HInv, Shares
<1>2. CASE UNCHANGED vars
  BY <1>1, <1>2 DEF vars
<1>3. ASSUME NEW o \in Orders, OnWeChatPay(o) \/ Pay(o) \/ OrderExpires(o)
      PROVE  HInv'
  BY <1>1, <1>3 DEF OnWeChatPay, Pay, OrderExpires, NoFault, books, thread
<1>4. ASSUME NEW t \in Threads, NEW k \in Keys, Comes(t, k),
             NEW o \in CardOrders
      PROVE  Shares(o)'
  <2>1. /\ Alone(t) /\ at[t] = NoKey /\ UNCHANGED <<credited, shared>>
        /\ FaultOf(k)
    BY <1>4, ComesFirst DEF books, FaultOf
  <2>2. o \in Keys /\ o # NoKey /\ Shares(o)
    BY PaymentAssumption DEF HInv, Keys, Orders
  <2>3. /\ credited[o] \in Nat /\ hit'[o] \in Nat /\ shared[o] \in Nat
        /\ hit'[o] >= hit[o] /\ hit[o] \in Nat
    BY <2>1, <2>2, FaultType DEF FaultTypes, NoFault, TInv, TypeOK
  <2>4. t \notin Sharers(o)
    BY <2>1, <2>2 DEF Sharers
  <2>. QED
    BY <2>1, <2>2, <2>3, <2>4, SharesKept
<1>. QED
  BY <1>2, <1>3, <1>4, StepCases, SharesStep DEF HInv

----------------------------------------------------------------------------
(* The day's users *)

LEMMA CountersStep ==
    ASSUME NEW t \in Threads, Alone(t)
    PROVE  /\ Cardinality(Counters) \in Nat /\ Cardinality(Counters') \in Nat
           /\ Cardinality(Counters') <= N
           /\ t \notin Counters' => Cardinality(Counters') <= Cardinality(Counters)
           /\ t \in Counters /\ t \notin Counters' =>
                 Cardinality(Counters') = Cardinality(Counters) - 1
<1>1. Counters \in SUBSET Threads /\ Counters' \in SUBSET Threads
  BY DEF Counters
<1>2. \A s \in Threads : s # t => (s \in Counters <=> s \in Counters')
  BY OthersStay DEF Counters, Alone
<1>. QED
  BY <1>1, <1>2, StepCount

\* Nobody joins once the player is counted.
LEMMA UsersKept ==
    ASSUME TInv, NInv, NEW t \in Threads, Alone(t), UNCHANGED <<counted, users>>,
           t \in Counters' => ~counted
    PROVE  NInv'
<1>1. users \in Nat /\ N \in Nat
  BY NType DEF TInv, TypeOK
<1>2. counted' = counted /\ users' = users
  OBVIOUS
<1>3. counted' \in BOOLEAN /\ (~counted' => users' = 0)
  <2>1. counted \in BOOLEAN /\ (~counted => users = 0)
    BY Zenon DEF NInv
  <2>. QED
    BY <1>2, <2>1
<1>4. CASE t \notin Counters'
  <2>1. users' + Cardinality(Counters') <= N
    BY <1>1, <1>2, <1>4, CountersStep DEF NInv
  <2>. QED
    BY <1>3, <2>1, Zenon DEF NInv
<1>5. CASE t \in Counters'
  <2>1. users = 0
    BY <1>5, Zenon DEF NInv
  <2>2. users' + Cardinality(Counters') <= N
    BY <1>1, <1>2, <2>1, CountersStep
  <2>. QED
    BY <1>3, <2>2, Zenon DEF NInv
<1>. QED
  BY <1>4, <1>5

LEMMA UsersStep ==
    ASSUME TInv, NInv, NEW t \in Threads, Step(t) \/ Fails(t)
    PROVE  NInv'
<1>1. Alone(t) /\ at[t] \in Keys /\ users \in Nat /\ N \in Nat
  BY StepMoves, NType DEF TInv, TypeOK
<1>2. FishOrders \subseteq Keys /\ FishOrders \cap CardOrders = {}
      /\ FishOrders \cap Receipts = {} /\ FishOrders \cap GoldOrders = {}
  BY PaymentAssumption DEF Keys, Orders
<1>3. CASE Credit(t) /\ at[t] \in FishOrders
  <2>1. Advances(t, "credit")
    BY <1>3, StepAdvances
  <2>2. t \notin Counters'
    BY <1>2, <1>3, <2>1 DEF Advances, Counters, FollowOf, FishFollow
  <2>3. Cardinality(Counters) \in Nat /\ Cardinality(Counters') \in Nat
        /\ Cardinality(Counters') <= N
    BY <1>1, CountersStep
  <2>4. counted' = (counted \/ first[t])
    BY <1>3 DEF Credit, AddToDay
  <2>5. CASE first[t]
    <3>1. users' = users + 1
      BY <1>3, <2>5 DEF Credit
    <3>2. t \in Counters
      BY <1>3, <2>1, <2>5 DEF Counters, Advances
    <3>3. Cardinality(Counters') = Cardinality(Counters) - 1
      BY <1>1, <2>2, <3>2, CountersStep
    <3>4. users' + Cardinality(Counters') <= N
      BY <1>1, <2>3, <3>1, <3>3 DEF NInv
    <3>5. counted' = TRUE
      BY <2>4, <2>5, Zenon
    <3>6. counted' \in BOOLEAN /\ (~counted' => users' = 0)
      BY <3>5, Zenon
    <3>. QED
      BY <3>4, <3>6, Zenon DEF NInv
  <2>6. CASE ~first[t]
    <3>1. users' = users
      BY <1>3, <2>6 DEF Credit
    <3>2. counted \in BOOLEAN
      BY DEF NInv
    <3>3. counted' = counted
      BY <2>4, <2>6, <3>2, Zenon
    <3>. QED
      BY <1>1, <2>2, <3>1, <3>3, UsersKept
  <2>. QED
    BY <2>5, <2>6
<1>4. CASE ReadStat(t)
  <2>1. UNCHANGED <<counted, users>> /\ at'[t] = at[t]
    BY <1>4 DEF ReadStat, books
  <2>2. at[t] \in FishOrders => first'[t] = ~counted
    BY <1>4 DEF ReadStat, TInv, TypeOK
  <2>3. t \in Counters' => at'[t] \in FishOrders /\ first'[t]
    BY DEF Counters
  <2>4. t \in Counters' => ~counted
    BY <2>1, <2>2, <2>3, Zenon
  <2>. QED
    BY <1>1, <2>1, <2>4, UsersKept
<1>5. CASE Crash(t)
  <2>1. UNCHANGED <<counted, users>>
    BY <1>5 DEF Crash, books
  <2>2. t \notin Counters'
    BY <1>2, <1>5, CrashStops DEF Counters
  <2>. QED
    BY <1>1, <2>1, <2>2, UsersKept
<1>7. CASE PayRecordFails(t) \/ GoldRecordFails(t)
  <2>1. UNCHANGED <<counted, users>>
    BY <1>7 DEF PayRecordFails, GoldRecordFails, books
  <2>2. at'[t] \in FishOrders => Where(t)' = "answer"
    <3>1. CASE PayRecordFails(t)
      BY <3>1, QuitMoves DEF Quits
    <3>2. CASE GoldRecordFails(t)
      <4>1. Advances(t, "log") /\ at[t] \in GoldOrders
        BY <3>2, StepAdvances DEF GoldRecordFails
      <4>. QED
        BY <1>2, <4>1 DEF Advances
    <3>. QED
      BY <1>7, <3>1, <3>2
  <2>3. t \notin Counters'
    BY <2>2 DEF Counters
  <2>. QED
    BY <1>1, <2>1, <2>3, UsersKept
<1>6. CASE Step(t) /\ ~ReadStat(t) /\ ~(Credit(t) /\ at[t] \in FishOrders)
  <2>1. UNCHANGED <<counted, users>>
    BY <1>6 DEF Step, VerifyExists, VerifyUpdate, LoadOrder, Share, Credit,
                LogCredit, RmbSum, Answer, AppleMark, books
  <2>2. \E p : Advances(t, p) /\ p # "stat"
    BY <1>6, StepAdvances DEF Step
  <2>3. t \notin Counters'
    <3>1. ASSUME at'[t] \in FishOrders PROVE Where(t)' # "credit"
      BY <1>2, <2>2, <3>1 DEF Advances, FollowOf, FishFollow
    <3>. QED
      BY <3>1 DEF Counters
  <2>. QED
    BY <1>1, <2>1, <2>3, UsersKept
<1>. QED
  BY <1>3, <1>4, <1>5, <1>6, <1>7 DEF Fails

LEMMA UsersNext == TInv /\ NInv /\ [Next]_vars => NInv'
<1> SUFFICES ASSUME TInv, NInv, [Next]_vars PROVE NInv'
  OBVIOUS
<1>1. CASE UNCHANGED <<counted, users, todo, at, first>>
  <2>1. \A t \in Threads : /\ Where(t)' = Where(t) /\ at'[t] = at[t]
                           /\ first'[t] = first[t]
    BY <1>1 DEF Where
  <2>2. Counters' = Counters
    BY <2>1 DEF Counters
  <2>3. counted' = counted /\ users' = users
    BY <1>1
  <2>. QED
    BY <2>2, <2>3, Zenon DEF NInv
<1>2. CASE UNCHANGED vars
  BY <1>1, <1>2 DEF vars
<1>3. ASSUME NEW o \in Orders, OnWeChatPay(o) \/ Pay(o) \/ OrderExpires(o)
      PROVE  NInv'
  BY <1>1, <1>3 DEF OnWeChatPay, Pay, OrderExpires, books, thread
<1>4. ASSUME NEW t \in Threads, NEW k \in Keys, Comes(t, k) PROVE NInv'
  <2>1. Alone(t) /\ UNCHANGED <<counted, users>>
    BY <1>4, ComesFirst DEF books
  <2>2. k \in FishOrders => Where(t)' = "exists"
    BY <1>4, ComesFirst DEF Orders
  <2>3. t \notin Counters'
    BY <1>4, <2>2, ComesFirst DEF Counters
  <2>. QED
    BY <2>1, <2>3, UsersKept
<1>. QED
  BY <1>2, <1>3, <1>4, StepCases, UsersStep

----------------------------------------------------------------------------
(* The recharge total *)

LEMMA UnitsKept ==
    ASSUME RInv, \A o \in CardOrders : credited'[o] = credited[o],
           recharge' = recharge
    PROVE  RInv'
<1>1. Units' = Units
  BY DEF Units
<1>. QED
  BY <1>1 DEF RInv, RechargeNeverAhead, CardCredits, Units

LEMMA UnitsGrow ==
    ASSUME TInv, NEW o \in CardOrders,
           credited' = [credited EXCEPT ![o] = @ + 1]
    PROVE  /\ <<o, credited[o] + 1>> \notin Units
           /\ Units' = Units \cup {<<o, credited[o] + 1>>}
<1>1. /\ CardOrders \subseteq Keys
      /\ \A j \in CardOrders : credited[j] \in Nat /\ credited'[j] \in Nat
      /\ credited'[o] = credited[o] + 1
      /\ \A j \in CardOrders : j # o => credited'[j] = credited[j]
  BY DEF TInv, TypeOK, Keys, Orders
<1>2. \A x : x \in Units <=> \E j \in CardOrders : x \in {j} \X (1..credited[j])
  BY DEF Units
<1>3. \A x : x \in Units' <=> \E j \in CardOrders : x \in {j} \X (1..credited'[j])
  BY DEF Units
<1>4. <<o, credited[o] + 1>> \notin Units
  BY <1>1, <1>2
<1>5. ASSUME NEW x \in Units PROVE x \in Units'
  <2>1. PICK j \in CardOrders : x \in {j} \X (1..credited[j])
    BY <1>2
  <2>2. 1..credited[j] \subseteq 1..credited'[j]
    BY <1>1
  <2>3. x \in {j} \X (1..credited'[j])
    BY <2>1, <2>2
  <2>. QED
    BY <1>3, <2>3
<1>6. <<o, credited[o] + 1>> \in Units'
  <2>1. credited[o] + 1 \in 1..credited'[o]
    BY <1>1
  <2>2. <<o, credited[o] + 1>> \in {o} \X (1..credited'[o])
    BY <2>1
  <2>. QED
    BY <1>3, <2>2
<1>7. ASSUME NEW x \in Units' PROVE x \in Units \cup {<<o, credited[o] + 1>>}
  <2>1. PICK j \in CardOrders : x \in {j} \X (1..credited'[j])
    BY <1>3
  <2>2. PICK n \in 1..credited'[j] : x = <<j, n>>
    BY <2>1
  <2>3. CASE n \in 1..credited[j]
    <3>1. x \in {j} \X (1..credited[j])
      BY <2>2, <2>3
    <3>. QED
      BY <1>2, <3>1
  <2>4. CASE n \notin 1..credited[j]
    <3>1. j = o /\ n = credited[o] + 1
      BY <1>1, <2>2, <2>4
    <3>. QED
      BY <2>2, <3>1
  <2>. QED
    BY <2>3, <2>4
<1>. QED
  BY <1>4, <1>5, <1>6, <1>7

LEMMA RechargeCredit ==
    ASSUME TInv, RInv, NEW t \in Threads, Credit(t)
    PROVE  RInv'
<1>1. credited' = [credited EXCEPT ![at[t]] = @ + 1]
  BY DEF Credit
<1>2. CASE at[t] \notin CardOrders
  <2>1. recharge' = recharge /\ \A o \in CardOrders : credited'[o] = credited[o]
    BY <1>1, <1>2 DEF Credit, TInv, TypeOK, Keys, Orders
  <2>. QED
    BY <2>1, UnitsKept
<1>3. CASE at[t] \in CardOrders
  <2>. PICK o \in CardOrders : o = at[t]
    BY <1>3
  <2>1. credited' = [credited EXCEPT ![o] = @ + 1]
    BY <1>1
  <2>2. /\ <<o, credited[o] + 1>> \notin Units
        /\ Units' = Units \cup {<<o, credited[o] + 1>>}
    BY <2>1, UnitsGrow
  <2>3. IsFiniteSet(Units) /\ Cardinality(Units) \in Nat
    BY FS_CardinalityType DEF RInv
  <2>4. IsFiniteSet(Units') /\ Cardinality(Units') = Cardinality(Units) + 1
    BY <2>2, <2>3, FS_AddElement
  <2>5. recharge' = RechargeAfter(t)
    BY <1>3 DEF Credit
  <2>6. \/ recharge' = <<1>>
        \/ recharge # <<>> /\ recharge' = <<recharge[1] + 1>>
    BY <2>5 DEF RechargeAfter
  <2>7. recharge # <<>> => recharge[1] \in Nat /\ recharge[1] <= Cardinality(Units)
    BY DEF RInv, RechargeNeverAhead, CardCredits, Units, TInv, TypeOK
  <2>8. recharge'[1] <= Cardinality(Units')
    BY <2>3, <2>4, <2>6, <2>7
  <2>. QED
    BY <2>4, <2>8 DEF RInv, RechargeNeverAhead, CardCredits, Units
<1>. QED
  BY <1>2, <1>3

LEMMA RechargeNext == TInv /\ RInv /\ [Next]_vars => RInv'
<1> SUFFICES ASSUME TInv, RInv, [Next]_vars PROVE RInv'
  OBVIOUS
<1>1. CASE UNCHANGED <<credited, recharge>>
  BY <1>1, UnitsKept
<1>2. CASE UNCHANGED vars
  BY <1>1, <1>2 DEF vars
<1>3. ASSUME NEW o \in Orders, OnWeChatPay(o) \/ Pay(o) \/ OrderExpires(o)
      PROVE  RInv'
  BY <1>1, <1>3 DEF OnWeChatPay, Pay, OrderExpires, books
<1>4. ASSUME NEW t \in Threads, NEW k \in Keys, Comes(t, k) PROVE RInv'
  BY <1>1, <1>4, ComesFirst DEF books
<1>5. ASSUME NEW t \in Threads, Step(t) \/ Fails(t), ~Credit(t) PROVE RInv'
  <2>1. UNCHANGED <<credited, recharge>>
    BY <1>5 DEF Step, VerifyExists, VerifyUpdate, LoadOrder, ReadStat, Share,
                LogCredit, RmbSum, Answer, AppleMark, Fails, Crash,
                PayRecordFails, GoldRecordFails, books
  <2>. QED
    BY <1>1, <2>1
<1>. QED
  BY <1>2, <1>3, <1>4, <1>5, StepCases, RechargeCredit

----------------------------------------------------------------------------
(* The invariant and what follows from it *)

LEMMA InitAll == Init => IInv
<1> SUFFICES ASSUME Init PROVE IInv
  OBVIOUS
<1>1. TInv
  BY InitType
<1>2. SucceededStays
  BY DEF Init, SucceededStays
<1>3. /\ \A t \in Threads : at[t] = NoKey /\ at[t] \notin Keys /\ Where(t) = "idle"
      /\ \A k \in Keys : /\ credited[k] = 0 /\ shared[k] = 0 /\ hit[k] = 0
  BY PaymentAssumption DEF Init, Where
<1>4. BInv
  BY <1>3 DEF Init, BInv, SettledIsBooked, Booked, Keys
<1>5. Cardinality({}) = 0
  BY FS_EmptySet
<1>6. CInv
  <2>1. \A k \in Keys : Creditors(k) = {}
    BY <1>3 DEF Creditors
  <2>2. \A k \in Keys : Credits(k)
    BY <1>3, <1>5, <2>1 DEF Credits
  <2>. QED
    BY <1>3, <2>2 DEF CInv, Marked
<1>7. HInv
  <2>1. \A o \in CardOrders : Sharers(o) = {} /\ o \in Keys
    BY <1>3 DEF Sharers, Keys, Orders
  <2>. QED
    BY <1>3, <1>5, <2>1 DEF HInv, Shares
<1>8. NInv
  <2>1. Counters = {}
    BY <1>3 DEF Counters
  <2>2. users = 0 /\ counted = FALSE
    BY DEF Init
  <2>3. users + Cardinality(Counters) <= N
    BY <1>5, <2>1, <2>2, NType
  <2>4. counted \in BOOLEAN
    BY <2>2, Zenon
  <2>. QED
    BY <2>2, <2>3, <2>4, Zenon DEF NInv
<1>9. RInv
  <2>1. \A o \in CardOrders : 1..credited[o] = {}
    BY <1>3 DEF Keys, Orders
  <2>2. Units = {}
    BY <2>1 DEF Units
  <2>3. IsFiniteSet(Units)
    BY <2>2, FS_EmptySet
  <2>. QED
    BY <2>3 DEF RInv, RechargeNeverAhead, Init
<1>. QED
  BY <1>1, <1>2, <1>4, <1>6, <1>7, <1>8, <1>9 DEF IInv

LEMMA NextAll == IInv /\ [Next]_vars => IInv'
<1> SUFFICES ASSUME IInv, [Next]_vars PROVE IInv'
  OBVIOUS
<1>1. TInv'
  BY NextType DEF IInv
<1>. QED
  BY <1>1, SucceededNext, BooksNext, CreditsNext, SharesNext, UsersNext,
     RechargeNext DEF IInv

LEMMA AlwaysIInv == Spec => []IInv
  BY InitAll, NextAll, PTL DEF Spec

\* What verfiyRcvDatas has marked is still in redis, and has no TTL, whenever
\* the notification that marked it, or one after it, credits the player:
\* however the hour ends between its commands.
THEOREM SucceededTheorem == Spec => []SucceededStays
<1>1. IInv => SucceededStays
  BY DEF IInv
<1>. QED
  BY <1>1, AlwaysIInv, PTL

\* However many threads handle the notifications of an order or the requests
\* with a receipt, every credit after the first is paid for by a crash, a
\* lost answer or a request that overtook another.
THEOREM CreditsTheorem == Spec => []CreditsNeedFaults
<1>1. ASSUME IInv PROVE CreditsNeedFaults
  <2>1. ASSUME NEW k \in Keys PROVE credited[k] <= 1 + hit[k]
    <3>1. Creditors(k) \in SUBSET Threads
      BY DEF Creditors
    <3>2. Cardinality(Creditors(k)) \in Nat
      BY <3>1, SomeThreads
    <3>3. credited[k] + Cardinality(Creditors(k)) <= hit[k] + 1
      BY <1>1 DEF IInv, CInv, Credits
    <3>4. credited[k] \in Nat /\ hit[k] \in Nat
      BY <1>1 DEF IInv, TInv, TypeOK
    <3>. QED
      BY <3>2, <3>3, <3>4
  <2>. QED
    BY <2>1 DEF CreditsNeedFaults
<1>. QED
  BY <1>1, AlwaysIInv, PTL

\* WeChat sees SUCCESS only for orders whose books are complete; the fish
\* orders whose credit, and the gold orders whose record, failed with an error
\* that the code swallows are the only exceptions.
THEOREM SettledTheorem == Spec => []SettledIsBooked
<1>1. IInv => SettledIsBooked
  BY DEF IInv, BInv
<1>. QED
  BY <1>1, AlwaysIInv, PTL

\* The agents' share of a card order runs ahead of its credits by no more
\* than the threads that handle the order and the faults it met.
THEOREM SharesTheorem == Spec => []SharesAreEarned
<1>1. ASSUME IInv PROVE SharesAreEarned
  <2>1. ASSUME NEW o \in CardOrders
        PROVE  shared[o] <= credited[o] + hit[o]
                            + Cardinality({t \in Threads : at[t] = o})
    <3>. DEFINE S == {t \in Threads : at[t] = o}
    <3>1. S \in SUBSET Threads /\ Sharers(o) \subseteq S
      BY DEF Sharers
    <3>2. IsFiniteSet(S) /\ Cardinality(S) \in Nat
      BY <3>1, SomeThreads
    <3>3. Cardinality(Sharers(o)) <= Cardinality(S)
      BY <3>1, <3>2, FS_Subset
    <3>4. Cardinality(Sharers(o)) \in Nat
      BY <3>1, SomeThreads
    <3>5. Shares(o) /\ o \in Keys
      BY <1>1 DEF IInv, HInv, Keys, Orders
    <3>6. shared[o] \in Nat /\ credited[o] \in Nat /\ hit[o] \in Nat
      BY <1>1, <3>5 DEF IInv, TInv, TypeOK
    <3>. HIDE DEF S
    <3>7. shared[o] <= credited[o] + hit[o] + Cardinality(S)
      BY <3>2, <3>3, <3>4, <3>5, <3>6 DEF Shares
    <3>. QED
      BY <3>7 DEF S
  <2>. QED
    BY <2>1 DEF SharesAreEarned
<1>. QED
  BY <1>1, AlwaysIInv, PTL

\* The day's paying users are overcounted at most once by each thread, and
\* the recharge total never runs ahead of the credits of the card orders.
THEOREM StatisticsTheorem == Spec => []StatisticsBounded
<1>1. ASSUME IInv PROVE StatisticsBounded
  <2>1. Counters \in SUBSET Threads
    BY DEF Counters
  <2>2. Cardinality(Counters) \in Nat
    BY <2>1, SomeThreads
  <2>3. users \in Nat /\ users + Cardinality(Counters) <= N
    BY <1>1 DEF IInv, NInv, TInv, TypeOK
  <2>4. users <= N
    BY <2>2, <2>3, NType
  <2>5. RechargeNeverAhead
    BY <1>1 DEF IInv, RInv
  <2>. QED
    BY <2>4, <2>5 DEF StatisticsBounded, UsersOvershootBounded, N
<1>. QED
  BY <1>1, AlwaysIInv, PTL
============================================================================
