---------------------------- MODULE WalletProofs ----------------------------
(***************************************************************************)
(* Proofs for Wallet and Benefit, both about one player's purse, for every *)
(* number of server threads, items, courses and goods: the overdraft       *)
(* bound, although each balance is checked by one command and debited by a *)
(* later one, the VIP level, that transfers neither lose nor make items;   *)
(* and how often relief coins can be taken.                                *)
(***************************************************************************)
EXTENDS Wallet, Benefit, FiniteSetTheorems, TLAPS

\* The requests that have checked account a for item i and not yet debited it.
Pending(a, i) ==
    {r \in Requests : debit[r].acct = a /\ debit[r].item = i}

\* How far below zero k debits of the largest size lead.
Depth(k) == MaxDebit * k

N == Cardinality(Requests)

\* The accounts in which the player keeps items.
Owner == {"purse", "box"}

\* Increments sent before the debit never lower a balance, and a debit is at
\* most MaxDebit.
Signs ==
    /\ \A r \in Requests : \A k \in 1..Len(credits[r]) : credits[r][k].num >= 0
    /\ \A r \in Requests :
         debit[r].acct \in Owner => -MaxDebit <= debit[r].num /\ debit[r].num <= 0

(***************************************************************************)
(* The strengthening.  Of the debits pending on a balance the one checked  *)
(* last was covered when it was checked.  As long as it is pending, the    *)
(* others that were debited since account for the overdraft; afterwards    *)
(* one thread less does.                                                   *)
(***************************************************************************)
Covered(a, i) ==
    LET open == Cardinality(Pending(a, i))
    IN \/ bal[a][i] + Depth(N - 1 - open) >= 0
       \/ \E r \in Pending(a, i) :
             bal[a][i] + debit[r].num + Depth(N - open) >= 0

AllCovered == \A a \in Owner, i \in Items : Covered(a, i)

\* A request that waits for its second check carries well-typed inputs.
ReqOK ==
    \A r \in Requests :
        /\ pc[r] = "take" => req[r].item \in Items /\ req[r].num \in Nums
        /\ pc[r] = "exchange" => req[r].course \in Courses
        /\ pc[r] \in {"vip", "work"} /\ req[r].op = "buy"
             => req[r].price \in Int
        /\ pc[r] = "vip" => req[r].op = "buy"
        /\ pc[r] # "work" => debit[r] = NoDebit

IInv == TypeOK /\ ReqOK /\ Signs /\ AllCovered

----------------------------------------------------------------------------
LEMMA NType == N \in Nat \ {0}
  BY WalletAssumption, FS_CardinalityType, FS_EmptySet DEF N

LEMMA PendingType ==
    ASSUME NEW a, NEW i
    PROVE  /\ IsFiniteSet(Pending(a, i))
           /\ Cardinality(Pending(a, i)) \in Nat
           /\ Cardinality(Pending(a, i)) <= N
<1>1. Pending(a, i) \in SUBSET Requests
  BY DEF Pending
<1>2. IsFiniteSet(Pending(a, i)) /\ Cardinality(Pending(a, i)) <= N
  BY <1>1, WalletAssumption, FS_Subset DEF N
<1>. QED
  BY <1>2, FS_CardinalityType

\* Depth grows by MaxDebit for each further debit.
LEMMA DepthStep ==
    ASSUME NEW k \in Int
    PROVE  /\ Depth(k) \in Int
           /\ Depth(k + 1) = Depth(k) + MaxDebit
           /\ k >= 0 => Depth(k) >= 0
           /\ Depth(k - 1) = Depth(k) - MaxDebit
  BY WalletAssumption DEF Depth

LEMMA DepthMonotone ==
    ASSUME NEW j \in Int, NEW k \in Int, j <= k
    PROVE  Depth(j) <= Depth(k)
<1>1. PICK d \in Nat : k = j + d
  <2>. k - j \in Nat /\ k = j + (k - j)
    OBVIOUS
  <2>. QED
    OBVIOUS
<1>2. Depth(k) = Depth(j) + MaxDebit * d
  BY <1>1, WalletAssumption DEF Depth
<1>3. MaxDebit * d \in Nat
  BY WalletAssumption
<1>. QED
  BY <1>2, <1>3, DepthStep

\* The bound itself.
LEMMA CoveredBound ==
    ASSUME TypeOK, Signs, NEW a \in Owner, NEW i \in Items, Covered(a, i)
    PROVE  bal[a][i] >= -(Cardinality(Requests) - 1) * MaxDebit
<1>. DEFINE open == Cardinality(Pending(a, i))
<1>1. open \in Nat /\ bal[a][i] \in Int /\ N \in Nat \ {0}
  BY PendingType, NType DEF TypeOK, Owner, Accounts
<1>2. bal[a][i] + Depth(N - 1) >= 0
  <2>1. CASE bal[a][i] + Depth(N - 1 - open) >= 0
    <3>1. Depth(N - 1 - open) <= Depth(N - 1)
      BY <1>1, DepthMonotone
    <3>. QED
      BY <1>1, <2>1, <3>1, DepthStep
  <2>2. ASSUME NEW r \in Pending(a, i),
               bal[a][i] + debit[r].num + Depth(N - open) >= 0
        PROVE  bal[a][i] + Depth(N - 1) >= 0
    <3>1. open >= 1
      BY <1>1, PendingType, FS_EmptySet
    <3>2. Depth(N - open) <= Depth(N - 1)
      BY <1>1, <3>1, DepthMonotone
    <3>3. debit[r].num \in Int /\ debit[r].num <= 0
      BY DEF Pending, Signs, TypeOK, Increments
    <3>. QED
      BY <1>1, <2>2, <3>2, <3>3, DepthStep
  <2>. QED
    BY <2>1, <2>2 DEF Covered
<1>3. Depth(N - 1) = (Cardinality(Requests) - 1) * MaxDebit
  BY <1>1, WalletAssumption DEF Depth, N
<1>4. Depth(N - 1) \in Int
  BY <1>1, DepthStep
<1>5. -(Cardinality(Requests) - 1) * MaxDebit
        = -((Cardinality(Requests) - 1) * MaxDebit)
  BY <1>1, WalletAssumption DEF N
<1>. QED
  BY <1>1, <1>2, <1>3, <1>4, <1>5
----------------------------------------------------------------------------
(* What a step can do to one balance and the debits pending on it. *)

\* The balance does not fall and the pending debits stay.
LEMMA CoveredKeep ==
    ASSUME TypeOK, NEW a \in Owner, NEW i \in Items, Covered(a, i),
           bal'[a][i] \in Int, bal'[a][i] >= bal[a][i],
           Pending(a, i)' = Pending(a, i),
           \A q \in Pending(a, i) : debit'[q] = debit[q]
    PROVE  Covered(a, i)'
<1>2. \A q \in Pending(a, i) : debit'[q] = debit[q] /\ debit[q].num \in Int
  BY DEF Pending, TypeOK, Increments
<1>3. Cardinality(Pending(a, i)) \in Nat /\ N \in Nat
  BY PendingType, NType
<1>4. bal[a][i] \in Int
  BY DEF TypeOK, Owner, Accounts
<1>. DEFINE open == Cardinality(Pending(a, i))
<1>5. Depth(N - 1 - open) \in Int /\ Depth(N - open) \in Int
  BY <1>3, DepthStep
<1>6. Cardinality(Pending(a, i)') = open
  OBVIOUS
<1>7. CASE bal[a][i] + Depth(N - 1 - open) >= 0
  BY <1>4, <1>5, <1>6, <1>7 DEF Covered
<1>8. ASSUME NEW r \in Pending(a, i),
             bal[a][i] + debit[r].num + Depth(N - open) >= 0
      PROVE  Covered(a, i)'
  <2>1. bal'[a][i] + debit'[r].num + Depth(N - open) >= 0
    BY <1>2, <1>4, <1>5, <1>8
  <2>. QED
    BY <1>6, <2>1 DEF Covered
<1>. QED
  BY <1>7, <1>8 DEF Covered

\* A request gives up its pending debit without sending it.
LEMMA CoveredDrop ==
    ASSUME TypeOK, Signs, NEW a \in Owner, NEW i \in Items, Covered(a, i),
           bal' = bal,
           NEW r \in Requests, debit'[r] = NoDebit,
           \A q \in Requests : q # r => debit'[q] = debit[q]
    PROVE  Covered(a, i)'
<1>1. CASE r \notin Pending(a, i)
  <2>1. Pending(a, i)' = Pending(a, i)
    BY <1>1 DEF Pending, NoDebit, Owner
  <2>2. \A q \in Pending(a, i) : debit'[q] = debit[q]
    BY <1>1 DEF Pending
  <2>3. bal'[a][i] \in Int /\ bal'[a][i] >= bal[a][i]
    BY DEF TypeOK, Owner, Accounts
  <2>. QED
    BY <2>1, <2>2, <2>3, CoveredKeep
<1>2. CASE r \in Pending(a, i)
  <2>. DEFINE open == Cardinality(Pending(a, i))
  <2>1. Pending(a, i)' = Pending(a, i) \ {r}
    BY <1>2 DEF Pending, NoDebit, Owner
  <2>2. /\ Cardinality(Pending(a, i)') = open - 1 /\ open \in Nat
        /\ N \in Nat
    BY <1>2, <2>1, PendingType, NType, FS_RemoveElement
  <2>3. /\ Depth(N - 1 - open) \in Int /\ Depth(N - open) \in Int
        /\ Depth(N - (open - 1)) \in Int
        /\ Depth(N - 1 - open) <= Depth(N - open)
        /\ Depth(N - open) <= Depth(N - (open - 1))
    <3>1. /\ N - 1 - open \in Int /\ N - open \in Int
          /\ N - (open - 1) \in Int
          /\ N - 1 - open <= N - open /\ N - open <= N - (open - 1)
      BY <2>2
    <3>. HIDE DEF open
    <3>. QED
      BY <3>1, DepthStep, DepthMonotone
  <2>4. N - 1 - (open - 1) = N - open
    BY <2>2
  <2>5. /\ bal[a][i] \in Int
        /\ \A q \in Pending(a, i) : debit[q].num \in Int /\ debit[q].num <= 0
    BY DEF TypeOK, Owner, Accounts, Pending, Signs, Increments
  <2>6. CASE bal[a][i] + Depth(N - 1 - open) >= 0
    <3>1. bal[a][i] + Depth(N - open) >= 0
      BY <2>3, <2>5, <2>6
    <3>. QED
      BY <2>2, <2>4, <3>1 DEF Covered
  <2>7. ASSUME NEW q \in Pending(a, i),
               bal[a][i] + debit[q].num + Depth(N - open) >= 0
        PROVE  Covered(a, i)'
    <3>1. bal[a][i] + Depth(N - open) >= 0
      BY <2>3, <2>5, <2>7
    <3>. QED
      BY <2>2, <2>4, <3>1 DEF Covered
  <2>. QED
    BY <2>6, <2>7 DEF Covered
<1>. QED
  BY <1>1, <1>2

\* A request sends the debit that was pending.
LEMMA CoveredDebit ==
    ASSUME TypeOK, Signs, NEW a \in Owner, NEW i \in Items, Covered(a, i),
           NEW r \in Pending(a, i), debit'[r] = NoDebit,
           bal'[a][i] = bal[a][i] + debit[r].num,
           \A q \in Requests : q # r => debit'[q] = debit[q]
    PROVE  Covered(a, i)'
<1>. DEFINE open == Cardinality(Pending(a, i))
<1>1. Pending(a, i)' = Pending(a, i) \ {r}
  BY DEF Pending, NoDebit, Owner
<1>2. Cardinality(Pending(a, i)') = open - 1 /\ open \in Nat /\ N \in Nat
  BY <1>1, PendingType, NType, FS_RemoveElement
<1>3. /\ Depth(N - 1 - open) \in Int /\ Depth(N - open) \in Int
      /\ Depth((N - 1 - open) + 1) = Depth(N - 1 - open) + MaxDebit
      /\ Depth((N - open) + 1) = Depth(N - open) + MaxDebit
  BY <1>2, DepthStep
<1>4. /\ N - 1 - (open - 1) = N - open
      /\ (N - 1 - open) + 1 = N - open
      /\ N - (open - 1) = (N - open) + 1
  BY <1>2
<1>5. /\ bal[a][i] \in Int /\ MaxDebit \in Nat
      /\ \A q \in Pending(a, i) : /\ debit[q].num \in Int
                                  /\ debit[q].num >= -MaxDebit
  BY WalletAssumption DEF TypeOK, Owner, Accounts, Pending, Signs, Increments
<1>6. CASE bal[a][i] + Depth(N - 1 - open) >= 0
  <2>1. bal'[a][i] + Depth(N - open) >= 0
    BY <1>3, <1>4, <1>5, <1>6
  <2>. QED
    BY <1>2, <1>4, <2>1 DEF Covered
<1>7. CASE bal[a][i] + debit[r].num + Depth(N - open) >= 0
  BY <1>2, <1>4, <1>7 DEF Covered
<1>8. ASSUME NEW q \in Pending(a, i), q # r,
             bal[a][i] + debit[q].num + Depth(N - open) >= 0
      PROVE  Covered(a, i)'
  <2>1. q \in Pending(a, i)' /\ debit'[q] = debit[q]
    BY <1>1, <1>8 DEF Pending
  <2>2. bal'[a][i] + debit'[q].num + Depth(N - (open - 1)) >= 0
    BY <1>3, <1>4, <1>5, <1>8, <2>1
  <2>. QED
    BY <1>2, <2>1, <2>2 DEF Covered
<1>. QED
  BY <1>6, <1>7, <1>8 DEF Covered

\* A request finds its debit covered and will send it later.
LEMMA CoveredCheck ==
    ASSUME TypeOK, NEW a \in Owner, NEW i \in Items, bal' = bal,
           NEW r \in Requests, debit'[r].acct = a, debit'[r].item = i,
           debit'[r].num \in Int, bal[a][i] + debit'[r].num >= 0
    PROVE  Covered(a, i)'
<1>1. r \in Pending(a, i)' /\ Pending(a, i)' \in SUBSET Requests
  BY DEF Pending
<1>2. /\ Cardinality(Pending(a, i)') \in Nat
      /\ Cardinality(Pending(a, i)') <= N
      /\ N \in Nat
  BY <1>1, WalletAssumption, FS_Subset, FS_CardinalityType, NType DEF N
<1>3. /\ Depth(N - Cardinality(Pending(a, i)')) \in Int
      /\ Depth(N - Cardinality(Pending(a, i)')) >= 0
  BY <1>2, DepthStep
<1>4. bal[a][i] \in Int
  BY DEF TypeOK, Owner, Accounts
<1>5. bal'[a][i] + debit'[r].num + Depth(N - Cardinality(Pending(a, i)')) >= 0
  BY <1>3, <1>4
<1>. QED
  BY <1>1, <1>5 DEF Covered
----------------------------------------------------------------------------
LEMMA PutType ==
    ASSUME NEW a \in Accounts, NEW i \in Items, NEW n \in Int
    PROVE  Put(a, i, n) \in Increments
  BY DEF Put, Increments

LEMMA NoDebitType == NoDebit \in Increments /\ NoDebit.acct \notin Owner
  BY WalletAssumption DEF NoDebit, Increments, Accounts, Owner

\* An HINCRBY changes one field of one hash.
LEMMA ApplyEffect ==
    ASSUME TypeOK, NEW e \in Increments, Apply(e)
    PROVE  /\ bal' \in [Accounts -> [Items -> Int]]
           /\ \A a \in Accounts, i \in Items :
                bal'[a][i] = IF a = e.acct /\ i = e.item
                               THEN bal[a][i] + e.num ELSE bal[a][i]
<1>1. e.acct \in Accounts /\ e.item \in Items /\ e.num \in Int
  BY DEF Increments
<1>2. bal \in [Accounts -> [Items -> Int]]
  BY DEF TypeOK
<1>. QED
  BY <1>1, <1>2 DEF Apply

LEMMA InitIInv == Init => IInv
<1>. SUFFICES ASSUME Init PROVE IInv
  OBVIOUS
<1>1. bal \in [Accounts -> [Items -> Nat]]
  BY WalletAssumption DEF Init, Accounts
<1>2. TypeOK
  <2>1. Len(Doors) \in Nat
    BY WalletAssumption
  <2>2. debit \in [Requests -> Increments]
    BY NoDebitType DEF Init
  <2>3. credits \in [Requests -> Seq(Increments)]
        /\ levels \in [Requests -> Seq(1..Len(Doors))]
    BY DEF Init
  <2>4. bal \in [Accounts -> [Items -> Int]]
    BY <1>1
  <2>5. req \in [Requests -> Asked]
    BY DEF Init, Asked, NoReq
  <2>6. /\ charge \in Int /\ level \in 0..Len(Doors) /\ served \in 0..MaxOps
        /\ peak \in Int
    <3>1. charge = 0 /\ level = 0 /\ served = 0 /\ peak = 0
      BY DEF Init
    <3>. QED
      BY <2>1, <3>1, WalletAssumption
  <2>7. flow \in [Items -> Int] /\ pc \in [Requests -> Steps]
    BY DEF Init, Steps
  <2>8. crashed \in BOOLEAN /\ torn \in BOOLEAN /\ lock \in {Unset, Locked, Open}
        /\ pwd \in Passwords \cup {NoPwd}
    BY DEF Init
  <2>. QED
    BY <2>2, <2>3, <2>4, <2>5, <2>6, <2>7, <2>8 DEF TypeOK
<1>3. ReqOK
  BY DEF Init, ReqOK
<1>4. Signs
  BY NoDebitType DEF Init, Signs
<1>5. AllCovered
  <2>1. SUFFICES ASSUME NEW a \in Owner, NEW i \in Items PROVE Covered(a, i)
    BY DEF AllCovered
  <2>2. Pending(a, i) = {}
    BY NoDebitType DEF Pending, Init
  <2>3. Cardinality(Pending(a, i)) = 0
    BY <2>2, FS_EmptySet
  <2>4. bal[a][i] \in Nat
    BY <1>1 DEF Owner, Accounts
  <2>5. Depth(N - 1 - 0) \in Int /\ Depth(N - 1 - 0) >= 0
    BY NType, DepthStep
  <2>. QED
    BY <2>3, <2>4, <2>5 DEF Covered
<1>. QED
  BY <1>2, <1>3, <1>4, <1>5 DEF IInv

\* Accepting a request whose debit is covered.
LEMMA AcceptStep ==
    ASSUME IInv, NEW r \in Requests, NEW q \in Asked, pc[r] # "work",
           NEW cs \in Seq(Increments), NEW d \in Increments,
           Accept(r, q, cs, d),
           q.op = "buy" => q.price \in Int,
           \A k \in 1..Len(cs) : cs[k].num >= 0,
           d.acct \in Owner => /\ -MaxDebit <= d.num /\ d.num <= 0
                               /\ bal[d.acct][d.item] + d.num >= 0
    PROVE  IInv'
<1>. USE DEF Accept, money, safe, vip
<1>1. /\ pc \in [Requests -> Steps] /\ debit \in [Requests -> Increments]
      /\ credits \in [Requests -> Seq(Increments)]
      /\ served \in 0..MaxOps /\ MaxOps \in Nat
  BY WalletAssumption DEF IInv, TypeOK
<1>2. TypeOK'
  <2>1. /\ pc' \in [Requests -> Steps] /\ debit' \in [Requests -> Increments]
        /\ credits' \in [Requests -> Seq(Increments)]
        /\ served' \in 0..MaxOps
    BY <1>1 DEF Steps
  <2>2. req' \in [Requests -> Asked]
    BY DEF IInv, TypeOK
  <2>. QED
    BY <2>1, <2>2 DEF IInv, TypeOK
<1>3. ReqOK'
  <2>1. /\ pc'[r] = "work" /\ req'[r] = q
        /\ \A p \in Requests \ {r} :
             pc'[p] = pc[p] /\ req'[p] = req[p] /\ debit'[p] = debit[p]
    BY <1>1 DEF IInv, TypeOK
  <2>. QED
    BY <2>1 DEF IInv, ReqOK
<1>4. Signs'
  BY <1>1 DEF IInv, Signs
<1>5. ASSUME NEW a \in Owner, NEW i \in Items PROVE Covered(a, i)'
  <2>0. debit[r] = NoDebit
    BY DEF IInv, ReqOK
  <2>1. CASE d.acct = a /\ d.item = i
    <3>1. debit'[r] = d /\ d.num \in Int
      BY <1>1 DEF Increments
    <3>. QED
      BY <2>1, <3>1, CoveredCheck DEF IInv
  <2>2. CASE ~(d.acct = a /\ d.item = i)
    <3>1. /\ Pending(a, i)' = Pending(a, i)
          /\ \A p \in Pending(a, i) : debit'[p] = debit[p]
      BY <1>1, <2>0, <2>2, NoDebitType DEF Pending
    <3>2. bal'[a][i] \in Int /\ bal'[a][i] >= bal[a][i]
      BY DEF IInv, TypeOK, Owner, Accounts
    <3>. QED
      BY <3>1, <3>2, CoveredKeep DEF IInv, AllCovered
  <2>. QED
    BY <2>1, <2>2
<1>. QED
  BY <1>2, <1>3, <1>4, <1>5 DEF IInv, AllCovered
----------------------------------------------------------------------------
\* Steps that leave the balances and the pending debits alone.
LEMMA QuietStep ==
    ASSUME IInv, TypeOK', UNCHANGED <<bal, credits, debit>>, ReqOK'
    PROVE  IInv'
<1>1. Signs'
  BY DEF IInv, Signs
<1>2. AllCovered'
  BY DEF IInv, AllCovered, Covered, Pending
<1>. QED
  BY <1>1, <1>2 DEF IInv

LEMMA SaveStep ==
    ASSUME IInv, NEW r \in Requests, NEW i \in Items, NEW n \in Nums,
           BoxSave(r, i, n)
    PROVE  IInv'
<1>1. n \in Nat /\ n <= MaxDebit /\ MaxDebit \in Nat /\ n <= bal["purse"][i]
  BY WalletAssumption DEF BoxSave, SaveCovered
<1>2. bal["purse"][i] \in Int
  BY DEF IInv, TypeOK, Accounts
<1>3. Put("box", i, n) \in Increments /\ Put("purse", i, -n) \in Increments
  BY <1>1, PutType DEF Accounts
<1>. DEFINE cs == <<Put("box", i, n)>>
            d == Put("purse", i, -n)
            q == [op |-> "save"]
<1>4. cs \in Seq(Increments) /\ \A k \in 1..Len(cs) : cs[k].num >= 0
  BY <1>1, <1>3 DEF Put
<1>5. q \in Asked /\ q.op # "buy"
  BY DEF Asked
<1>6. -MaxDebit <= d.num /\ d.num <= 0 /\ bal[d.acct][d.item] + d.num >= 0
  BY <1>1, <1>2 DEF Put
<1>7. Accept(r, q, cs, d) /\ pc[r] # "work"
  BY DEF BoxSave, SaveMoves
<1>. HIDE DEF cs, d, q
<1>. QED
  BY <1>3, <1>4, <1>5, <1>6, <1>7, AcceptStep DEF d
LEMMA RefuseStep ==
    ASSUME IInv, NEW r \in Requests, pc[r] # "work", Refuse(r)
    PROVE  IInv'
<1>. USE DEF Refuse, money, safe, vip, work
<1>1. NoReq \in Asked
  BY DEF NoReq, Asked
<1>2. pc' \in [Requests -> Steps] /\ req' \in [Requests -> Asked]
  BY <1>1 DEF IInv, TypeOK, Steps
<1>3. TypeOK'
  BY <1>2 DEF IInv, TypeOK
<1>4. ReqOK'
  BY DEF IInv, ReqOK, TypeOK
<1>. QED
  BY <1>3, <1>4, QuietStep

LEMMA TakeStep ==
    ASSUME IInv, NEW r \in Requests, BoxTake(r)
    PROVE  IInv'
<1>. DEFINE i == req[r].item
            n == req[r].num
            cs == TakeMoves(i, n).credits
            d == TakeMoves(i, n).debit
            q == [op |-> "take"]
<1>1. pc[r] = "take" /\ i \in Items /\ n \in Nums
  BY DEF BoxTake, IInv, ReqOK
<1>2. n \in Nat /\ n <= MaxDebit /\ MaxDebit \in Nat
  BY <1>1, WalletAssumption
<1>3. CASE n > bal["box"][i]
  <2>1. Refuse(r)
    BY <1>3 DEF BoxTake
  <2>. QED
    BY <1>1, <2>1, RefuseStep
<1>4. CASE ~(n > bal["box"][i])
  <2>1. bal["box"][i] \in Int
    BY <1>1 DEF IInv, TypeOK, Accounts
  <2>2. /\ Put("purse", i, n) \in Increments
        /\ Put("stray", i, n) \in Increments
        /\ Put("box", i, -n) \in Increments
    BY <1>1, <1>2, PutType DEF Accounts
  <2>3. d = Put("box", i, -n)
    BY DEF TakeMoves
  <2>4. CASE i = Diamond
    <3>1. cs = <<Put("purse", i, n), Put("stray", i, n)>>
      BY <2>4 DEF TakeMoves
    <3>2. cs \in Seq(Increments) /\ \A k \in 1..Len(cs) : cs[k].num >= 0
      BY <1>2, <2>2, <3>1 DEF Put
    <3>3. Accept(r, q, cs, d)
      BY <1>4 DEF BoxTake
    <3>4. q \in Asked /\ q.op # "buy"
      BY DEF Asked
    <3>5. -MaxDebit <= d.num /\ d.num <= 0 /\ bal[d.acct][d.item] + d.num >= 0
      BY <1>2, <1>4, <2>1, <2>3 DEF Put
    <3>. HIDE DEF cs, d, q
    <3>. QED
      BY <1>1, <2>2, <2>3, <3>2, <3>3, <3>4, <3>5, AcceptStep
  <2>5. CASE i # Diamond
    <3>1. cs = <<Put("purse", i, n)>>
      BY <2>5 DEF TakeMoves
    <3>2. cs \in Seq(Increments) /\ \A k \in 1..Len(cs) : cs[k].num >= 0
      BY <1>2, <2>2, <3>1 DEF Put
    <3>3. Accept(r, q, cs, d)
      BY <1>4 DEF BoxTake
    <3>4. q \in Asked /\ q.op # "buy"
      BY DEF Asked
    <3>5. -MaxDebit <= d.num /\ d.num <= 0 /\ bal[d.acct][d.item] + d.num >= 0
      BY <1>2, <1>4, <2>1, <2>3 DEF Put
    <3>. HIDE DEF cs, d, q
    <3>. QED
      BY <1>1, <2>2, <2>3, <3>2, <3>3, <3>4, <3>5, AcceptStep
  <2>. QED
    BY <2>4, <2>5
<1>. QED
  BY <1>3, <1>4

LEMMA ExchangeStep ==
    ASSUME IInv, NEW r \in Requests, CurrencyExchange(r)
    PROVE  IInv'
<1>. DEFINE c == req[r].course
            cs == ExchangeCredits(c)
            d == ExchangeDebit(c)
            q == [op |-> "exchange"]
<1>1. pc[r] = "exchange" /\ c \in Courses
  BY DEF CurrencyExchange, IInv, ReqOK
<1>2. /\ c.cost_type \in Items /\ c.gain_type \in Items
      /\ c.cost \in Nat /\ c.gain \in Nat
      /\ c.cost <= MaxDebit /\ MaxDebit \in Nat
  BY <1>1, WalletAssumption DEF CourseRecords
<1>3. PaidFrom(c) \in Accounts
  BY DEF PaidFrom, Accounts
<1>4. CASE bal[PaidFrom(c)][c.cost_type] < c.cost
  <2>1. Refuse(r)
    BY <1>4 DEF CurrencyExchange
  <2>. QED
    BY <1>1, <2>1, RefuseStep
<1>5. CASE ~(bal[PaidFrom(c)][c.cost_type] < c.cost)
  <2>1. bal[PaidFrom(c)][c.cost_type] \in Int
    BY <1>2, <1>3 DEF IInv, TypeOK
  <2>2. /\ c.gain \in Int /\ c.cost \in Int /\ -c.cost \in Int
        /\ Diamond \in Items /\ Coin \in Items
    BY <1>2, WalletAssumption
  <2>3. cs \in Seq(Increments) /\ \A k \in 1..Len(cs) : cs[k].num >= 0
    <3>. DEFINE p == Put("purse", Diamond, c.gain)
                b1 == Put("box", Diamond, c.gain)
                b2 == Put("box", Coin, c.gain)
                m == Put("sums", Coin, c.gain)
                b == Put("box", c.gain_type, c.gain)
    <3>1. cs = <<p, b1>> \/ cs = <<b2, m>> \/ cs = <<b>>
      BY DEF ExchangeCredits, Diamond, Coin
    <3>2. /\ p \in Increments /\ b1 \in Increments /\ b2 \in Increments
          /\ m \in Increments /\ b \in Increments
      BY <1>2, <2>2, PutType DEF Accounts
    <3>3. p.num >= 0 /\ b1.num >= 0 /\ b2.num >= 0 /\ m.num >= 0 /\ b.num >= 0
      BY <1>2 DEF Put
    <3>. HIDE DEF cs, p, b1, b2, m, b
    <3>4. CASE cs = <<p, b1>>
      BY <3>2, <3>3, <3>4
    <3>5. CASE cs = <<b2, m>>
      BY <3>2, <3>3, <3>5
    <3>6. CASE cs = <<b>>
      BY <3>2, <3>3, <3>6
    <3>. QED
      BY <3>1, <3>4, <3>5, <3>6
  <2>4. d \in Increments
    BY <1>2, <1>3, <2>2, PutType DEF ExchangeDebit, Accounts
  <2>5. d.acct \in Owner => /\ -MaxDebit <= d.num /\ d.num <= 0
                            /\ bal[d.acct][d.item] + d.num >= 0
    BY <1>2, <1>5, <2>1 DEF ExchangeDebit, Put, Owner
  <2>6. Accept(r, q, cs, d)
    BY <1>5 DEF CurrencyExchange
  <2>7. q \in Asked /\ q.op # "buy"
    BY DEF Asked
  <2>. HIDE DEF cs, d, q
  <2>. QED
    BY <1>1, <2>3, <2>4, <2>5, <2>6, <2>7, AcceptStep
<1>. QED
  BY <1>4, <1>5

LEMMA BuyStep ==
    ASSUME IInv, NEW r \in Requests, NEW g \in Goods, NEW price \in Prices,
           BuyCoin(r, g, price)
    PROVE  IInv'
<1>. DEFINE cs == <<Put("sums", Diamond, g.price),
                    Put("box", Diamond, g.cards + g.present)>>
            q == [op |-> "buy", price |-> price]
<1>1. /\ g.price \in Nat /\ g.cards + g.present \in Nat /\ price \in Int
      /\ Diamond \in Items
  BY WalletAssumption DEF GoodsRecords
<1>2. /\ Put("sums", Diamond, g.price) \in Increments
      /\ Put("box", Diamond, g.cards + g.present) \in Increments
  BY <1>1, PutType DEF Accounts
<1>3. cs \in Seq(Increments) /\ \A k \in 1..Len(cs) : cs[k].num >= 0
  BY <1>1, <1>2 DEF Put
<1>4. q \in Asked /\ q.price \in Int
  BY <1>1 DEF Asked
<1>5. Accept(r, q, cs, NoDebit) /\ pc[r] # "work"
  BY DEF BuyCoin
<1>. HIDE DEF cs, q
<1>. QED
  BY <1>3, <1>4, <1>5, NoDebitType, AcceptStep
----------------------------------------------------------------------------
LEMMA RecordType ==
    ASSUME IInv, NEW r \in Requests, NEW e \in Increments, Record(r, e)
    PROVE  flow' \in [Items -> Int]
<1>1. e.item \in Items /\ e.num \in Int /\ flow \in [Items -> Int]
  BY DEF Increments, IInv, TypeOK
<1>. QED
  BY <1>1 DEF Record

LEMMA CreditPreserves ==
    ASSUME IInv, NEW r \in Requests, CreditStep(r)
    PROVE  IInv'
<1>. DEFINE e == Head(credits[r])
<1>1. credits \in [Requests -> Seq(Increments)] /\ credits[r] # <<>>
  BY DEF IInv, TypeOK, CreditStep
<1>2. /\ e \in Increments /\ e = credits[r][1] /\ 1 \in 1..Len(credits[r])
      /\ Tail(credits[r]) \in Seq(Increments)
      /\ \A k \in 1..Len(Tail(credits[r])) :
           /\ Tail(credits[r])[k] = credits[r][k + 1]
           /\ k + 1 \in 1..Len(credits[r])
  BY <1>1
<1>3. e.num >= 0 /\ e.num \in Int
  BY <1>2 DEF IInv, Signs, Increments
<1>4. /\ bal' \in [Accounts -> [Items -> Int]]
      /\ \A a \in Accounts, i \in Items :
           bal'[a][i] = IF a = e.acct /\ i = e.item
                          THEN bal[a][i] + e.num ELSE bal[a][i]
  <2>1. Apply(e)
    BY DEF CreditStep
  <2>. HIDE DEF e
  <2>. QED
    BY <1>2, <2>1, ApplyEffect DEF IInv
<1>5. flow' \in [Items -> Int]
  <2>1. Record(r, e)
    BY DEF CreditStep
  <2>. QED
    BY <1>2, <2>1, RecordType
<1>6. /\ credits' = [credits EXCEPT ![r] = Tail(credits[r])]
      /\ UNCHANGED <<pwd, lock, charge, level, pc, req, debit, levels,
                     served, crashed, peak, torn>>
  BY DEF CreditStep, safe, vip
<1>7. credits' \in [Requests -> Seq(Increments)]
  BY <1>1, <1>2, <1>6
<1>8. TypeOK'
  BY <1>4, <1>5, <1>6, <1>7 DEF IInv, TypeOK
<1>9. ReqOK'
  BY <1>6 DEF IInv, ReqOK
<1>10. Signs'
  BY <1>1, <1>2, <1>6 DEF IInv, Signs
<1>11. ASSUME NEW a \in Owner, NEW i \in Items PROVE Covered(a, i)'
  <2>1. a \in Accounts /\ bal[a][i] \in Int
    BY DEF Owner, Accounts, IInv, TypeOK
  <2>2. bal'[a][i] \in Int /\ bal'[a][i] >= bal[a][i]
    BY <1>3, <1>4, <2>1
  <2>3. Pending(a, i)' = Pending(a, i)
    BY <1>6 DEF Pending
  <2>. QED
    BY <1>6, <2>2, <2>3, CoveredKeep DEF IInv, AllCovered
<1>. QED
  BY <1>8, <1>9, <1>10, <1>11 DEF IInv, AllCovered

LEMMA DebitPreserves ==
    ASSUME IInv, NEW r \in Requests, DebitStep(r)
    PROVE  IInv'
<1>. DEFINE e == debit[r]
<1>1. e \in Increments /\ e.num \in Int /\ e.acct \in Accounts
  BY DEF IInv, TypeOK, Increments
<1>2. /\ bal' \in [Accounts -> [Items -> Int]]
      /\ \A a \in Accounts, i \in Items :
           bal'[a][i] = IF a = e.acct /\ i = e.item
                          THEN bal[a][i] + e.num ELSE bal[a][i]
  <2>1. Apply(e)
    BY DEF DebitStep
  <2>. HIDE DEF e
  <2>. QED
    BY <1>1, <2>1, ApplyEffect DEF IInv
<1>3. flow' \in [Items -> Int]
  <2>1. Record(r, e)
    BY DEF DebitStep
  <2>. QED
    BY <1>1, <2>1, RecordType
<1>4. /\ debit' = [debit EXCEPT ![r] = NoDebit]
      /\ UNCHANGED <<pwd, lock, charge, level, credits, levels, served, crashed,
                     peak, torn>>
      /\ pc[r] = "work"
      /\ \/ /\ req[r].op = "buy" /\ pc' = [pc EXCEPT ![r] = "vip"]
            /\ req' = req
         \/ /\ pc' = [pc EXCEPT ![r] = "idle"]
            /\ req' = [req EXCEPT ![r] = NoReq]
  BY DEF DebitStep, safe, vip
<1>5. /\ debit \in [Requests -> Increments] /\ pc \in [Requests -> Steps]
      /\ req \in [Requests -> Asked]
  BY DEF IInv, TypeOK
<1>6. debit' \in [Requests -> Increments]
  BY <1>4, <1>5, NoDebitType
<1>7. pc' \in [Requests -> Steps] /\ req' \in [Requests -> Asked]
  <2>1. NoReq \in Asked
    BY DEF NoReq, Asked
  <2>. QED
    BY <1>4, <1>5, <2>1 DEF Steps
<1>8. TypeOK'
  BY <1>2, <1>3, <1>4, <1>6, <1>7 DEF IInv, TypeOK
<1>9. ReqOK'
  BY <1>4, <1>5 DEF IInv, ReqOK
<1>10. Signs'
  BY <1>4, <1>5, NoDebitType DEF IInv, Signs
<1>11. debit'[r] = NoDebit /\ \A q \in Requests : q # r => debit'[q] = debit[q]
  BY <1>4, <1>5
<1>12. ASSUME NEW a \in Owner, NEW i \in Items PROVE Covered(a, i)'
  <2>0. a \in Accounts
    BY DEF Owner, Accounts
  <2>1. CASE e.acct = a /\ e.item = i
    <3>1. r \in Pending(a, i) /\ bal'[a][i] = bal[a][i] + debit[r].num
      BY <1>2, <2>0, <2>1 DEF Pending
    <3>. QED
      BY <1>11, <3>1, CoveredDebit DEF IInv, AllCovered
  <2>2. CASE ~(e.acct = a /\ e.item = i)
    <3>1. bal'[a][i] = bal[a][i] /\ bal[a][i] \in Int
      BY <1>2, <2>0, <2>2 DEF IInv, TypeOK
    <3>2. /\ Pending(a, i)' = Pending(a, i)
          /\ \A p \in Pending(a, i) : debit'[p] = debit[p]
      BY <1>11, <2>2, NoDebitType DEF Pending
    <3>. QED
      BY <3>1, <3>2, CoveredKeep DEF IInv, AllCovered
  <2>. QED
    BY <2>1, <2>2
<1>. QED
  BY <1>8, <1>9, <1>10, <1>12 DEF IInv, AllCovered

LEMMA CrashPreserves ==
    ASSUME IInv, NEW r \in Requests, Crash(r)
    PROVE  IInv'
<1>. USE DEF Crash, money, safe, vip
<1>1. /\ debit \in [Requests -> Increments] /\ pc \in [Requests -> Steps]
      /\ req \in [Requests -> Asked] /\ NoReq \in Asked
      /\ credits \in [Requests -> Seq(Increments)]
      /\ levels \in [Requests -> Seq(1..Len(Doors))]
  BY DEF IInv, TypeOK, NoReq, Asked
<1>2. /\ debit' \in [Requests -> Increments] /\ pc' \in [Requests -> Steps]
      /\ req' \in [Requests -> Asked]
      /\ credits' \in [Requests -> Seq(Increments)]
      /\ levels' \in [Requests -> Seq(1..Len(Doors))]
      /\ crashed' \in BOOLEAN /\ torn' \in BOOLEAN
  BY <1>1, NoDebitType DEF Steps
<1>3. TypeOK'
  BY <1>2 DEF IInv, TypeOK
<1>4. ReqOK'
  BY <1>1 DEF IInv, ReqOK
<1>5. Signs'
  BY <1>1, NoDebitType DEF IInv, Signs
<1>6. debit'[r] = NoDebit /\ \A q \in Requests : q # r => debit'[q] = debit[q]
  BY <1>1
<1>7. AllCovered'
  BY <1>6, CoveredDrop DEF IInv, AllCovered
<1>. QED
  BY <1>3, <1>4, <1>5, <1>7 DEF IInv
----------------------------------------------------------------------------
\* A sum of charges is worth one of the levels 0..Len(Doors), and a larger
\* sum is worth no lower one.
LEMMA LevelType ==
    ASSUME NEW x \in Int, NEW y \in Int, x <= y
    PROVE  /\ LevelOf(x) \in 0..Len(Doors)
           /\ LevelOf(y) \in 0..Len(Doors)
           /\ LevelOf(x) <= LevelOf(y)
<1>. DEFINE all == 1..Len(Doors)
            X == {k \in all : x >= Doors[k]}
            Y == {k \in all : y >= Doors[k]}
<1>1. Len(Doors) \in Nat /\ \A k \in all : Doors[k] \in Nat
  BY WalletAssumption
<1>2. IsFiniteSet(all) /\ Cardinality(all) = Len(Doors)
  <2>1. /\ IsFiniteSet(1..Len(Doors))
        /\ Cardinality(1..Len(Doors))
             = IF 1 > Len(Doors) THEN 0 ELSE Len(Doors) - 1 + 1
    BY <1>1, FS_Interval
  <2>. QED
    BY <1>1, <2>1
<1>3. X \in SUBSET Y /\ Y \in SUBSET all
  BY <1>1
<1>. HIDE DEF all, X, Y
<1>4. IsFiniteSet(Y) /\ Cardinality(Y) <= Len(Doors)
  BY <1>2, <1>3, FS_Subset
<1>5. IsFiniteSet(X) /\ Cardinality(X) <= Cardinality(Y)
  BY <1>3, <1>4, FS_Subset
<1>6. Cardinality(X) \in Nat /\ Cardinality(Y) \in Nat
  BY <1>4, <1>5, FS_CardinalityType
<1>7. LevelOf(x) = Cardinality(X) /\ LevelOf(y) = Cardinality(Y)
  BY DEF LevelOf, all, X, Y
<1>. QED
  BY <1>1, <1>4, <1>5, <1>6, <1>7

LEMMA VipChargeStep ==
    ASSUME IInv, NEW r \in Requests, VipCharge(r)
    PROVE  /\ IInv'
           /\ charge' \in Int
           /\ levels' = [levels EXCEPT ![r] = [k \in 1..LevelOf(charge') |-> k]]
           /\ LevelOf(charge') \in 0..Len(Doors)
<1>. USE DEF VipCharge, money, safe
<1>1. /\ charge \in Int /\ req[r].price \in Int /\ Len(Doors) \in Nat
      /\ pc[r] = "vip" /\ peak \in Int
  BY WalletAssumption DEF IInv, TypeOK, ReqOK
<1>2. /\ charge' \in Int /\ charge' = charge + req[r].price
      /\ peak' \in Int
  BY <1>1
<1>10. torn' \in BOOLEAN
  <2>1. torn' = (\E q \in Requests : levels[q] # <<>>)
    OBVIOUS
  <2>. QED
    BY <2>1, Zenon
<1>3. LevelOf(charge') \in 0..Len(Doors)
  <2>. DEFINE c == charge'
  <2>1. c \in Int /\ c <= c
    BY <1>2
  <2>. HIDE DEF c
  <2>2. LevelOf(c) \in 0..Len(Doors)
    BY <2>1, LevelType
  <2>. QED
    BY <2>2 DEF c
<1>4. levels' = [levels EXCEPT ![r] = [k \in 1..LevelOf(charge') |-> k]]
  BY <1>2 DEF NewLevels
<1>. DEFINE L == LevelOf(charge')
            new == [k \in 1..L |-> k]
<1>5. new \in Seq(1..Len(Doors))
  <2>1. L \in Nat /\ L <= Len(Doors)
    BY <1>1, <1>3
  <2>. HIDE DEF L
  <2>2. new \in [1..L -> 1..Len(Doors)]
    BY <1>1, <2>1
  <2>. QED
    BY <2>1, <2>2
<1>6. levels' \in [Requests -> Seq(1..Len(Doors))]
  <2>. HIDE DEF new
  <2>1. levels' = [levels EXCEPT ![r] = new]
    BY <1>4 DEF new
  <2>. QED
    BY <1>5, <2>1 DEF IInv, TypeOK
<1>7. pc' \in [Requests -> Steps]
  BY DEF IInv, TypeOK, Steps
<1>8. TypeOK'
  BY <1>2, <1>6, <1>7, <1>10 DEF IInv, TypeOK
<1>9. ReqOK'
  BY DEF IInv, ReqOK, TypeOK
<1>. QED
  BY <1>2, <1>3, <1>4, <1>8, <1>9, QuietStep

LEMMA VipLevelStep ==
    ASSUME IInv, NEW r \in Requests, VipLevel(r)
    PROVE  IInv'
<1>. USE DEF VipLevel, money, safe
<1>1. /\ levels \in [Requests -> Seq(1..Len(Doors))]
      /\ pc \in [Requests -> Steps] /\ req \in [Requests -> Asked]
      /\ NoReq \in Asked /\ Len(Doors) \in Nat /\ level \in 0..Len(Doors)
  BY WalletAssumption DEF IInv, TypeOK, NoReq, Asked
<1>2. CASE levels[r] = <<>>
  <2>1. pc' \in [Requests -> Steps] /\ req' \in [Requests -> Asked]
    BY <1>1, <1>2 DEF Steps
  <2>2. TypeOK'
    BY <1>2, <2>1 DEF IInv, TypeOK
  <2>3. ReqOK'
    BY <1>1, <1>2 DEF IInv, ReqOK
  <2>. QED
    BY <2>2, <2>3, QuietStep
<1>3. CASE levels[r] # <<>>
  <2>1. /\ Head(levels[r]) \in 1..Len(Doors)
        /\ Tail(levels[r]) \in Seq(1..Len(Doors))
    BY <1>1, <1>3
  <2>2. level' \in 0..Len(Doors)
        /\ levels' \in [Requests -> Seq(1..Len(Doors))]
    <3>1. /\ level' = Head(levels[r])
          /\ levels' = [levels EXCEPT ![r] = Tail(levels[r])]
      BY <1>3
    <3>2. Head(levels[r]) \in 0..Len(Doors)
      BY <1>1, <2>1
    <3>. QED
      BY <1>1, <2>1, <3>1, <3>2
  <2>3. TypeOK'
    BY <1>3, <2>2 DEF IInv, TypeOK
  <2>4. ReqOK'
    BY <1>3 DEF IInv, ReqOK
  <2>. QED
    BY <2>3, <2>4, QuietStep
<1>. QED
  BY <1>2, <1>3

\* A request goes on to its second check.
LEMMA ContinueStep ==
    ASSUME IInv, NEW r \in Requests, pc[r] = "idle",
           NEW st \in {"take", "exchange", "unlock"}, NEW q \in Asked,
           Continue(r, st, q),
           st = "take" => q.item \in Items /\ q.num \in Nums,
           st = "exchange" => q.course \in Courses
    PROVE  IInv'
<1>. USE DEF Continue, money, safe, vip, work
<1>1. pc' \in [Requests -> Steps] /\ req' \in [Requests -> Asked]
  BY DEF IInv, TypeOK, Steps
<1>2. TypeOK'
  BY <1>1 DEF IInv, TypeOK
<1>3. /\ pc'[r] = st /\ req'[r] = q
      /\ \A p \in Requests \ {r} : pc'[p] = pc[p] /\ req'[p] = req[p]
  BY DEF IInv, TypeOK
<1>4. ReqOK'
  BY <1>3 DEF IInv, ReqOK
<1>. QED
  BY <1>2, <1>4, QuietStep

LEMMA LockStep ==
    ASSUME IInv,
           \/ \E p \in Passwords : SetBoxPwd(p) \/ BoxFindPwd(p)
           \/ BoxLock \/ Login \/ \E r \in Requests : BoxUnlock(r)
    PROVE  IInv'
<1>. USE DEF money, vip, work
<1>1. CASE \E p \in Passwords : SetBoxPwd(p) \/ BoxFindPwd(p)
  <2>1. TypeOK' /\ ReqOK' /\ UNCHANGED <<bal, credits, debit>>
    BY <1>1 DEF SetBoxPwd, BoxFindPwd, IInv, TypeOK, ReqOK
  <2>. QED
    BY <2>1, QuietStep
<1>2. CASE BoxLock \/ Login
  <2>1. TypeOK' /\ ReqOK' /\ UNCHANGED <<bal, credits, debit>>
    BY <1>2 DEF BoxLock, Login, IInv, TypeOK, ReqOK
  <2>. QED
    BY <2>1, QuietStep
<1>3. ASSUME NEW r \in Requests, BoxUnlock(r) PROVE IInv'
  <2>1. pc' \in [Requests -> Steps]
    BY <1>3 DEF BoxUnlock, IInv, TypeOK, Steps
  <2>2. TypeOK'
    BY <1>3, <2>1 DEF BoxUnlock, IInv, TypeOK
  <2>3. ReqOK'
    BY <1>3 DEF BoxUnlock, IInv, ReqOK, TypeOK
  <2>. QED
    BY <1>3, <2>2, <2>3, QuietStep DEF BoxUnlock
<1>. QED
  BY <1>1, <1>2, <1>3

LEMMA IInvStep == IInv /\ [Next]_vars => IInv'
<1>. SUFFICES ASSUME IInv, [Next]_vars PROVE IInv'
  OBVIOUS
<1>1. ASSUME NEW r \in Requests, NEW i \in Items, NEW n \in Nums,
             BoxTakeLock(r, i, n)
      PROVE  IInv'
  <2>. DEFINE q == [op |-> "take", item |-> i, num |-> n]
  <2>1. q \in Asked /\ q.item \in Items /\ q.num \in Nums
    BY DEF Asked
  <2>2. Continue(r, "take", q) /\ pc[r] = "idle"
    BY <1>1 DEF BoxTakeLock
  <2>. HIDE DEF q
  <2>. QED
    BY <2>1, <2>2, ContinueStep
<1>2. ASSUME NEW r \in Requests, NEW c \in Courses, ExchangePwd(r, c)
      PROVE  IInv'
  <2>. DEFINE q == [op |-> "exchange", course |-> c]
  <2>1. q \in Asked /\ q.course \in Courses
    BY DEF Asked
  <2>2. Continue(r, "exchange", q) /\ pc[r] = "idle"
    BY <1>2 DEF ExchangePwd
  <2>. HIDE DEF q
  <2>. QED
    BY <2>1, <2>2, ContinueStep
<1>3. ASSUME NEW r \in Requests, NEW p \in Passwords, BoxUnlockPwd(r, p)
      PROVE  IInv'
  <2>1. NoReq \in Asked
    BY DEF NoReq, Asked
  <2>2. Continue(r, "unlock", NoReq) /\ pc[r] = "idle"
    BY <1>3 DEF BoxUnlockPwd
  <2>. QED
    BY <2>1, <2>2, ContinueStep
<1>4. CASE UNCHANGED vars
  <2>1. TypeOK' /\ ReqOK' /\ UNCHANGED <<bal, credits, debit>>
    BY <1>4 DEF vars, IInv, TypeOK, ReqOK
  <2>. QED
    BY <2>1, QuietStep
<1>5. ASSUME NEW r \in Requests, Step(r) PROVE IInv'
  BY <1>1, <1>2, <1>3, <1>5, SaveStep, TakeStep, ExchangeStep, BuyStep,
     VipChargeStep, VipLevelStep, CreditPreserves, DebitPreserves,
     CrashPreserves, LockStep
  DEF Step
<1>. QED
  BY <1>4, <1>5, LockStep DEF Next

LEMMA IInvInvariant == Spec => []IInv
  BY InitIInv, IInvStep, PTL DEF Spec

----------------------------------------------------------------------------
\* Every reachable state is well typed.
THEOREM TypeCorrect == Spec => []TypeOK
  BY IInvInvariant, PTL DEF IInv

\* Whatever the threads, quantities and courses: neither purse nor box is
\* ever overdrawn by more than one debit for each thread but one.
THEOREM Overdraft == Spec => []OverdraftBounded
<1>1. IInv => OverdraftBounded
  BY CoveredBound DEF IInv, AllCovered, OverdraftBounded, Owner
<1>. QED
  BY <1>1, IInvInvariant, PTL

(***************************************************************************)
(* No level that a request still has to write exceeds what the highest     *)
(* charge was worth.  As long as the latest charge is not torn, only its   *)
(* own HSETs are outstanding, and the last of them is its level.           *)
(***************************************************************************)
LevelsEarned ==
    /\ LevelWasEarned
    /\ charge <= peak
    /\ \A r \in Requests : \A k \in 1..Len(levels[r]) :
          levels[r][k] <= LevelOf(peak)

LevelsCurrent ==
    /\ LevelIsCurrent
    /\ ~torn => \A r \in Requests : levels[r] # <<>> =>
          /\ levels[r][Len(levels[r])] = LevelOf(charge)
          /\ \A q \in Requests : levels[q] # <<>> => q = r

\* The steps that touch the record of the charges.
LEMMA VipSteps ==
    ASSUME [Next]_vars
    PROVE  \/ \E r \in Requests : VipCharge(r) \/ VipLevel(r) \/ Crash(r)
           \/ UNCHANGED <<charge, level, levels, peak, torn>>
  BY DEF Next, Step, BoxSave, BoxTakeLock, BoxTake, ExchangePwd,
         CurrencyExchange, BuyCoin, CreditStep, DebitStep, BoxUnlockPwd,
         BoxUnlock, SetBoxPwd, BoxFindPwd, BoxLock, Login, Accept, Refuse,
         Continue, vars, vip, work

\* What VipLevel does with a list of HSETs that is not empty.
LEMMA LevelWritten ==
    ASSUME IInv, NEW r \in Requests, VipLevel(r), levels[r] # <<>>
    PROVE  /\ level' = levels[r][1] /\ 1 \in 1..Len(levels[r])
           /\ levels' = [levels EXCEPT ![r] = Tail(levels[r])]
           /\ Len(Tail(levels[r])) = Len(levels[r]) - 1
           /\ Len(levels[r]) \in Nat
           /\ \A k \in 1..Len(Tail(levels[r])) :
                /\ Tail(levels[r])[k] = levels[r][k + 1]
                /\ k + 1 \in 1..Len(levels[r])
<1>1. levels[r] \in Seq(1..Len(Doors))
  BY DEF IInv, TypeOK
<1>2. level' = Head(levels[r])
      /\ levels' = [levels EXCEPT ![r] = Tail(levels[r])]
  BY DEF VipLevel
<1>. QED
  BY <1>1, <1>2

LEMMA EarnedStep ==
    ASSUME IInv, LevelsEarned, [Next]_vars
    PROVE  LevelsEarned'
<1>1. /\ levels \in [Requests -> Seq(1..Len(Doors))] /\ Len(Doors) \in Nat
      /\ charge \in Int /\ peak \in Int /\ level \in 0..Len(Doors)
  BY WalletAssumption DEF IInv, TypeOK
<1>2. ASSUME NEW r \in Requests, VipCharge(r) PROVE LevelsEarned'
  <2>1. /\ charge' \in Int /\ LevelOf(charge') \in 0..Len(Doors)
        /\ levels' = [levels EXCEPT ![r] = [k \in 1..LevelOf(charge') |-> k]]
    BY <1>2, VipChargeStep
  <2>2. peak' \in Int /\ peak <= peak' /\ charge' <= peak' /\ level' = level
    BY <1>1, <1>2, <2>1 DEF VipCharge
  <2>. DEFINE c == charge'
              p == peak'
  <2>3. /\ LevelOf(peak) \in 0..Len(Doors) /\ LevelOf(p) \in 0..Len(Doors)
        /\ LevelOf(peak) <= LevelOf(p) /\ LevelOf(c) <= LevelOf(p)
    <3>1. c \in Int /\ p \in Int /\ peak <= p /\ c <= p
      BY <2>1, <2>2
    <3>. HIDE DEF c, p
    <3>. QED
      BY <1>1, <3>1, LevelType
  <2>4. LevelOf(c) \in 0..Len(Doors) /\ levels'[r] = [k \in 1..LevelOf(c) |-> k]
    BY <1>1, <2>1
  <2>. HIDE DEF c, p
  <2>5. level <= LevelOf(p)
    BY <1>1, <2>3 DEF LevelsEarned, LevelWasEarned
  <2>6. ASSUME NEW q \in Requests, NEW k \in 1..Len(levels'[q])
        PROVE  levels'[q][k] <= LevelOf(p)
    <3>1. CASE q = r
      <4>1. Len(levels'[q]) = LevelOf(c) /\ levels'[q][k] = k
        BY <1>1, <2>4, <3>1
      <4>. QED
        BY <1>1, <2>3, <2>4, <4>1
    <3>2. CASE q # r
      <4>1. levels'[q] = levels[q] /\ levels[q][k] \in Nat
        BY <1>1, <2>1, <3>2
      <4>2. levels[q][k] <= LevelOf(peak)
        BY <4>1 DEF LevelsEarned
      <4>. QED
        BY <1>1, <2>3, <4>1, <4>2
    <3>. QED
      BY <3>1, <3>2
  <2>. QED
    BY <2>2, <2>5, <2>6 DEF LevelsEarned, LevelWasEarned, LevelOf, c, p
<1>3. ASSUME NEW r \in Requests, VipLevel(r) PROVE LevelsEarned'
  <2>1. charge' = charge /\ peak' = peak
    BY <1>3 DEF VipLevel
  <2>2. CASE levels[r] = <<>>
    BY <1>3, <2>1, <2>2
    DEF VipLevel, LevelsEarned, LevelWasEarned, LevelOf
  <2>3. CASE levels[r] # <<>>
    <3>1. level' <= LevelOf(peak)
      BY <1>3, <2>3, LevelWritten DEF LevelsEarned
    <3>2. ASSUME NEW q \in Requests, NEW k \in 1..Len(levels'[q])
          PROVE  levels'[q][k] <= LevelOf(peak)
      <4>1. CASE q = r
        <5>1. /\ levels'[q] = Tail(levels[r])
              /\ \A j \in 1..Len(Tail(levels[r])) :
                   /\ Tail(levels[r])[j] = levels[r][j + 1]
                   /\ j + 1 \in 1..Len(levels[r])
          BY <1>1, <1>3, <2>3, <4>1, LevelWritten
        <5>2. levels'[q][k] = levels[r][k + 1] /\ k + 1 \in 1..Len(levels[r])
          BY <5>1
        <5>. QED
          BY <5>2 DEF LevelsEarned
      <4>2. CASE q # r
        <5>1. levels'[q] = levels[q]
          BY <1>1, <1>3, <2>3, <4>2, LevelWritten
        <5>. QED
          BY <5>1 DEF LevelsEarned
      <4>. QED
        BY <4>1, <4>2
    <3>. QED
      BY <2>1, <3>1, <3>2 DEF LevelsEarned, LevelWasEarned, LevelOf
  <2>. QED
    BY <2>2, <2>3
<1>4. ASSUME NEW r \in Requests, Crash(r) PROVE LevelsEarned'
  <2>1. /\ charge' = charge /\ level' = level /\ peak' = peak
        /\ levels' = [levels EXCEPT ![r] = <<>>]
    BY <1>4 DEF Crash
  <2>2. \A q \in Requests : levels'[q] = levels[q] \/ levels'[q] = <<>>
    BY <1>1, <2>1
  <2>3. ASSUME NEW q \in Requests, NEW k \in 1..Len(levels'[q])
        PROVE  levels'[q][k] <= LevelOf(peak)
    BY <2>2 DEF LevelsEarned
  <2>. QED
    BY <2>1, <2>3 DEF LevelsEarned, LevelWasEarned, LevelOf
<1>5. CASE UNCHANGED <<charge, level, levels, peak, torn>>
  BY <1>5 DEF LevelsEarned, LevelWasEarned, LevelOf
<1>. QED
  BY <1>2, <1>3, <1>4, <1>5, VipSteps

LEMMA CurrentStep ==
    ASSUME IInv, LevelsCurrent, [Next]_vars
    PROVE  LevelsCurrent'
<1>1. /\ levels \in [Requests -> Seq(1..Len(Doors))] /\ Len(Doors) \in Nat
  BY WalletAssumption DEF IInv, TypeOK
<1>2. ASSUME NEW r \in Requests, VipCharge(r) PROVE LevelsCurrent'
  <2>. DEFINE n == LevelOf(charge')
  <2>1. n \in 0..Len(Doors) /\ levels' = [levels EXCEPT ![r] = [k \in 1..n |-> k]]
    BY <1>2, VipChargeStep
  <2>2. torn' = (\E q \in Requests : levels[q] # <<>>)
    BY <1>2 DEF VipCharge
  <2>. HIDE DEF n
  <2>3. CASE torn'
    BY <2>3 DEF LevelsCurrent, LevelIsCurrent
  <2>4. CASE ~torn'
    <3>1. \A q \in Requests : q # r => levels'[q] = <<>>
      BY <1>1, <2>1, <2>2, <2>4
    <3>2. levels'[r] = [k \in 1..n |-> k] /\ Len(levels'[r]) = n
      BY <1>1, <2>1
    <3>3. n > 0 => levels'[r] # <<>> /\ levels'[r][n] = n
      <4>1. n > 0 => n \in 1..n
        BY <1>1, <2>1
      <4>2. n > 0 => levels'[r][n] = n
        BY <3>2, <4>1
      <4>3. ASSUME NEW x, x = <<>> PROVE Len(x) = 0
        BY <4>3
      <4>4. n > 0 => Len(levels'[r]) # 0
        BY <1>1, <2>1, <3>2
      <4>. QED
        BY <4>2, <4>3, <4>4, Zenon
    <3>4. levels'[r] # <<>> => n > 0
      BY <1>1, <2>1, <3>2
    <3>5. LevelIsCurrent'
      BY <3>3 DEF LevelIsCurrent, n, LevelOf
    <3>6. \A q \in Requests : levels'[q] # <<>> =>
            /\ levels'[q][Len(levels'[q])] = n
            /\ \A p \in Requests : levels'[p] # <<>> => p = q
      BY <3>1, <3>2, <3>3, <3>4
    <3>. QED
      BY <3>5, <3>6 DEF LevelsCurrent, n, LevelOf
  <2>. QED
    BY <2>3, <2>4
<1>3. ASSUME NEW r \in Requests, VipLevel(r) PROVE LevelsCurrent'
  <2>1. charge' = charge /\ torn' = torn
    BY <1>3 DEF VipLevel
  <2>2. CASE levels[r] = <<>>
    BY <1>3, <2>1, <2>2
    DEF VipLevel, LevelsCurrent, LevelIsCurrent, LevelOf
  <2>3. CASE levels[r] # <<>>
    <3>. DEFINE s == levels[r]
                t == Tail(levels[r])
    <3>1. /\ level' = s[1] /\ levels' = [levels EXCEPT ![r] = t]
          /\ s \in Seq(1..Len(Doors)) /\ Len(t) = Len(s) - 1 /\ Len(s) \in Nat
          /\ \A k \in 1..Len(t) : t[k] = s[k + 1] /\ k + 1 \in 1..Len(s)
      BY <1>1, <1>3, <2>3, LevelWritten
    <3>2. levels'[r] = t /\ \A q \in Requests : q # r => levels'[q] = levels[q]
      BY <1>1, <3>1
    <3>3. ASSUME ~torn
          PROVE  /\ s[Len(s)] = LevelOf(charge)
                 /\ \A q \in Requests : q # r => levels'[q] = <<>>
      BY <2>3, <3>2, <3>3 DEF LevelsCurrent
    <3>8. t \in Seq(1..Len(Doors)) /\ (t # <<>> => Len(t) > 0)
          /\ (t = <<>> => Len(t) = 0)
      <4>1. t \in Seq(1..Len(Doors))
        BY <1>1, <2>3
      <4>2. ASSUME NEW x \in Seq(1..Len(Doors))
            PROVE  x # <<>> <=> Len(x) > 0
        OBVIOUS
      <4>. HIDE DEF s, t
      <4>. QED
        BY <4>1, <4>2
    <3>. HIDE DEF s, t
    <3>4. t # <<>> => t[Len(t)] = s[Len(s)]
      BY <3>1, <3>8
    <3>5. ASSUME t = <<>> PROVE level' = s[Len(s)]
      <4>1. Len(s) = 1
        BY <3>1, <3>5, <3>8
      <4>. QED
        BY <3>1, <4>1
    <3>6. LevelIsCurrent'
      BY <2>1, <3>2, <3>3, <3>5 DEF LevelIsCurrent, LevelOf
    <3>7. ~torn => \A q \in Requests : levels'[q] # <<>> =>
            /\ levels'[q][Len(levels'[q])] = LevelOf(charge)
            /\ \A p \in Requests : levels'[p] # <<>> => p = q
      BY <3>2, <3>3, <3>4
    <3>. QED
      BY <2>1, <3>6, <3>7 DEF LevelsCurrent, LevelOf
  <2>. QED
    BY <2>2, <2>3
<1>4. ASSUME NEW r \in Requests, Crash(r) PROVE LevelsCurrent'
  <2>1. /\ charge' = charge /\ level' = level
        /\ levels' = [levels EXCEPT ![r] = <<>>]
        /\ torn' = (torn \/ levels[r] # <<>>)
    BY <1>4 DEF Crash
  <2>2. CASE torn'
    BY <2>2 DEF LevelsCurrent, LevelIsCurrent
  <2>3. CASE ~torn'
    <3>1. ~torn /\ \A q \in Requests : levels'[q] = levels[q]
      BY <1>1, <2>1, <2>3
    <3>. QED
      BY <2>1, <3>1 DEF LevelsCurrent, LevelIsCurrent, LevelOf
  <2>. QED
    BY <2>2, <2>3
<1>5. CASE UNCHANGED <<charge, level, levels, peak, torn>>
  BY <1>5 DEF LevelsCurrent, LevelIsCurrent, LevelOf
<1>. QED
  BY <1>2, <1>3, <1>4, <1>5, VipSteps

\* However the HSETs of concurrent purchases fall and whatever price a client
\* sends, the VIP level was earned by the highest charge there was, and a
\* purchase whose HSETs were neither mixed with others nor cut off leaves the
\* level of the charge behind.
THEOREM VipLevelTheorem == Spec => []VipLevelSound
<1>1. Init => LevelsEarned /\ LevelsCurrent
  <2>1. SUFFICES ASSUME Init PROVE LevelsEarned /\ LevelsCurrent
    OBVIOUS
  <2>2. LevelOf(0) \in 0..Len(Doors) /\ Len(Doors) \in Nat
    BY LevelType, WalletAssumption
  <2>3. LevelsEarned
    BY <2>1, <2>2 DEF Init, LevelsEarned, LevelWasEarned
  <2>4. {k \in 1..Len(Doors) : 0 >= Doors[k]} = {}
    BY WalletAssumption
  <2>5. LevelOf(0) = 0
    BY <2>4, FS_EmptySet DEF LevelOf
  <2>6. LevelsCurrent
    BY <2>1, <2>5 DEF Init, LevelsCurrent, LevelIsCurrent
  <2>. QED
    BY <2>3, <2>6
<1>2. IInv /\ LevelsEarned /\ LevelsCurrent /\ [Next]_vars
        => LevelsEarned' /\ LevelsCurrent'
  BY EarnedStep, CurrentStep
<1>3. LevelsEarned /\ LevelsCurrent => VipLevelSound
  BY DEF LevelsEarned, LevelsCurrent, VipLevelSound
<1>. QED
  BY <1>1, <1>2, <1>3, IInvInvariant, PTL DEF Spec

----------------------------------------------------------------------------
(* Transfers between purse and box. *)

Transfers == {"save", "take"}

\* Request r has no credit of purse or box left to send.
Credited(r) == \A k \in 1..Len(credits[r]) : credits[r][k].acct \notin Owner

\* What a transfer has credited and not yet debited.
Owes(r, i) ==
    IF /\ pc[r] = "work" /\ req[r].op \in Transfers
       /\ debit[r].item = i /\ Credited(r)
      THEN -debit[r].num ELSE 0

\* The same for all requests together, one element for each unit.
UnitsOf(f) == {u \in Requests \X (1..MaxDebit) : u[2] <= f[u[1]]}
Units(i) == UnitsOf([r \in Requests |-> Owes(r, i)])

\* The credits of a transfer: at most one of purse or box, the first, which
\* gives what the debit takes.
Shape(r) ==
    pc[r] = "work" =>
        \/ req[r].op \in {"exchange", "buy"}
        \/ /\ req[r].op \in Transfers
           /\ debit[r].acct \in Owner
           /\ \/ Credited(r)
              \/ /\ credits[r] # <<>>
                 /\ Head(credits[r]).acct \in Owner
                 /\ Head(credits[r]).item = debit[r].item
                 /\ Head(credits[r]).num = -debit[r].num
                 /\ \A k \in 2..Len(credits[r]) : credits[r][k].acct \notin Owner

(***************************************************************************)
(* The strengthening: purse and box exceed what exchanges and purchases    *)
(* left there by what the transfers under way have credited and not yet    *)
(* debited, and by more only after a request was cut off.                  *)
(***************************************************************************)
Balance(i) ==
    /\ Owned(i) >= Start[i] + flow[i] + Cardinality(Units(i))
    /\ crashed \/ Owned(i) <= Start[i] + flow[i] + Cardinality(Units(i))

SInv == IInv /\ (\A r \in Requests : Shape(r)) /\ \A i \in Items : Balance(i)

LEMMA OwesType ==
    ASSUME IInv, NEW r \in Requests, Shape(r), NEW i
    PROVE  Owes(r, i) \in 0..MaxDebit
<1>1. MaxDebit \in Nat /\ debit[r].num \in Int
  BY WalletAssumption DEF IInv, TypeOK, Increments
<1>2. debit[r].acct \in Owner => -MaxDebit <= debit[r].num /\ debit[r].num <= 0
  BY DEF IInv, Signs
<1>. QED
  BY <1>1, <1>2 DEF Shape, Owes, Transfers

LEMMA OwesTypeNext ==
    ASSUME IInv', NEW r \in Requests, Shape(r)', NEW i
    PROVE  Owes(r, i)' \in 0..MaxDebit
<1>1. MaxDebit \in Nat /\ debit'[r].num \in Int
  BY WalletAssumption DEF IInv, TypeOK, Increments
<1>2. debit'[r].acct \in Owner =>
        -MaxDebit <= debit'[r].num /\ debit'[r].num <= 0
  BY DEF IInv, Signs
<1>. QED
  BY <1>1, <1>2 DEF Shape, Owes, Transfers

LEMMA UpTo ==
    ASSUME NEW n \in Nat
    PROVE  IsFiniteSet(1..n) /\ Cardinality(1..n) = n
  BY FS_Interval

\* The units of one request, counted.
LEMMA UnitsSplit ==
    ASSUME NEW f \in [Requests -> 0..MaxDebit], NEW r \in Requests
    PROVE  LET Rest == {u \in UnitsOf(f) : u[1] # r}
           IN /\ Cardinality(UnitsOf(f)) \in Nat /\ Cardinality(Rest) \in Nat
              /\ Cardinality(UnitsOf(f)) = Cardinality(Rest) + f[r]
<1>. DEFINE all == Requests \X (1..MaxDebit)
            Rest == {u \in UnitsOf(f) : u[1] # r}
            x == f[r]
            Own == {r} \X (1..x)
<1>1. MaxDebit \in Nat /\ x \in Nat /\ x <= MaxDebit
  BY WalletAssumption
<1>2. IsFiniteSet(1..MaxDebit) /\ IsFiniteSet(1..x) /\ Cardinality(1..x) = x
  <2>. HIDE DEF x
  <2>. QED
    BY <1>1, UpTo
<1>3. IsFiniteSet(all)
  BY <1>2, WalletAssumption, FS_Product
<1>4. IsFiniteSet({r}) /\ Cardinality({r}) = 1
  BY FS_Singleton
<1>5. IsFiniteSet(Own) /\ Cardinality(Own) = x
  <2>. HIDE DEF x
  <2>1. IsFiniteSet(Own) /\ Cardinality(Own) = Cardinality({r}) * Cardinality(1..x)
    BY <1>2, <1>4, FS_Product
  <2>. QED
    BY <1>1, <1>2, <1>4, <2>1
<1>6. UnitsOf(f) \subseteq all /\ Rest \subseteq all
  BY DEF UnitsOf
<1>7. IsFiniteSet(UnitsOf(f)) /\ IsFiniteSet(Rest)
  <2>. HIDE DEF all, Rest
  <2>. QED
    BY <1>3, <1>6, FS_Subset
<1>8. Cardinality(UnitsOf(f)) \in Nat /\ Cardinality(Rest) \in Nat
  BY <1>7, FS_CardinalityType
<1>9. UnitsOf(f) = Rest \cup Own
  <2>1. ASSUME NEW u \in UnitsOf(f) PROVE u \in Rest \cup Own
    BY <1>1 DEF UnitsOf
  <2>2. ASSUME NEW u \in Own PROVE u \in UnitsOf(f)
    BY <1>1 DEF UnitsOf
  <2>. QED
    BY <2>1, <2>2
<1>10. Rest \cap Own = {}
  OBVIOUS
<1>. HIDE DEF all, Rest, Own, x
<1>11. Cardinality(Rest \cup Own)
         = Cardinality(Rest) + Cardinality(Own) - Cardinality(Rest \cap Own)
  BY <1>5, <1>7, FS_Union
<1>12. Cardinality(Rest \cap Own) = 0
  BY <1>10, FS_EmptySet
<1>13. Cardinality(UnitsOf(f)) = Cardinality(Rest) + x
  BY <1>1, <1>5, <1>8, <1>9, <1>11, <1>12
<1>. QED
  BY <1>8, <1>13 DEF Rest, x

\* A change of what one request owes.
LEMMA UnitsChange ==
    ASSUME NEW f \in [Requests -> 0..MaxDebit],
           NEW g \in [Requests -> 0..MaxDebit], NEW r \in Requests,
           \A q \in Requests : q # r => g[q] = f[q]
    PROVE  /\ Cardinality(UnitsOf(f)) \in Nat /\ Cardinality(UnitsOf(g)) \in Nat
           /\ Cardinality(UnitsOf(g)) + f[r] = Cardinality(UnitsOf(f)) + g[r]
<1>. DEFINE F == {u \in UnitsOf(f) : u[1] # r}
            G == {u \in UnitsOf(g) : u[1] # r}
<1>1. F = G
  BY DEF UnitsOf
<1>2. /\ Cardinality(UnitsOf(f)) \in Nat /\ Cardinality(F) \in Nat
      /\ Cardinality(UnitsOf(f)) = Cardinality(F) + f[r]
  BY UnitsSplit
<1>3. /\ Cardinality(UnitsOf(g)) \in Nat
      /\ Cardinality(UnitsOf(g)) = Cardinality(G) + g[r]
  BY UnitsSplit
<1>4. f[r] \in Int /\ g[r] \in Int
  BY WalletAssumption
<1>. HIDE DEF F, G
<1>. QED
  BY <1>1, <1>2, <1>3, <1>4

\* A step of request r leaves what the other requests do alone.
Only(r) ==
    \A q \in Requests : q # r =>
        /\ pc'[q] = pc[q] /\ req'[q] = req[q]
        /\ credits'[q] = credits[q] /\ debit'[q] = debit[q]

LEMMA ShapeOthers ==
    ASSUME SInv, NEW r \in Requests, Shape(r)', Only(r)
    PROVE  \A q \in Requests : Shape(q)'
  BY DEF SInv, Only, Shape, Credited

LEMMA UnitsStep ==
    ASSUME SInv, IInv', NEW r \in Requests, Shape(r)', Only(r), NEW i
    PROVE  /\ Owes(r, i) \in Nat /\ Owes(r, i)' \in Nat
           /\ Cardinality(Units(i)) \in Nat /\ Cardinality(Units(i)') \in Nat
           /\ Cardinality(Units(i)') + Owes(r, i)
                = Cardinality(Units(i)) + Owes(r, i)'
<1>. DEFINE f == [q \in Requests |-> Owes(q, i)]
            g == [q \in Requests |-> Owes(q, i)']
<1>1. f \in [Requests -> 0..MaxDebit]
  BY OwesType DEF SInv
<1>2. g \in [Requests -> 0..MaxDebit]
  BY ShapeOthers, OwesTypeNext
<1>3. \A q \in Requests : q # r => Owes(q, i)' = Owes(q, i)
  BY DEF Only, Owes, Credited
<1>4. Units(i) = UnitsOf(f) /\ Units(i)' = UnitsOf(g)
  BY DEF Units, UnitsOf
<1>5. f[r] = Owes(r, i) /\ g[r] = Owes(r, i)'
      /\ \A q \in Requests : q # r => g[q] = f[q]
  BY <1>3
<1>6. f[r] \in Nat /\ g[r] \in Nat
  BY <1>1, <1>2, WalletAssumption
<1>. HIDE DEF f, g
<1>7. /\ Cardinality(UnitsOf(f)) \in Nat /\ Cardinality(UnitsOf(g)) \in Nat
      /\ Cardinality(UnitsOf(g)) + f[r] = Cardinality(UnitsOf(f)) + g[r]
  BY <1>1, <1>2, <1>5, UnitsChange
<1>. QED
  BY <1>4, <1>5, <1>6, <1>7

\* A step that changes what is owned, what flowed in and what is owed alike.
LEMMA BalanceStep ==
    ASSUME SInv, IInv', NEW r \in Requests, Shape(r)', Only(r), NEW i \in Items,
           crashed' = crashed,
           Owned(i)' - flow'[i] - Owes(r, i)' = Owned(i) - flow[i] - Owes(r, i)
    PROVE  Balance(i)'
<1>1. /\ Owned(i) \in Int /\ Owned(i)' \in Int
      /\ flow[i] \in Int /\ flow'[i] \in Int /\ Start[i] \in Int
  <2>1. /\ bal \in [Accounts -> [Items -> Int]] /\ flow \in [Items -> Int]
        /\ "purse" \in Accounts /\ "box" \in Accounts
    BY DEF SInv, IInv, TypeOK, Accounts
  <2>2. bal' \in [Accounts -> [Items -> Int]] /\ flow' \in [Items -> Int]
    BY DEF IInv, TypeOK
  <2>3. Owned(i) \in Int /\ flow[i] \in Int
    BY <2>1 DEF Owned
  <2>4. Owned(i)' \in Int /\ flow'[i] \in Int
    BY <2>1, <2>2 DEF Owned
  <2>5. Start[i] \in Int
    BY WalletAssumption
  <2>. QED
    BY <2>3, <2>4, <2>5
<1>2. /\ Owes(r, i) \in Nat /\ Owes(r, i)' \in Nat
      /\ Cardinality(Units(i)) \in Nat /\ Cardinality(Units(i)') \in Nat
      /\ Cardinality(Units(i)') + Owes(r, i) = Cardinality(Units(i)) + Owes(r, i)'
  BY UnitsStep
<1>3. Balance(i)
  BY DEF SInv
<1>4. CASE crashed
  <2>1. Owned(i)' >= Start[i] + flow'[i] + Cardinality(Units(i)')
    BY <1>1, <1>2, <1>3 DEF Balance
  <2>. QED
    BY <1>4, <2>1 DEF Balance
<1>5. CASE ~crashed
  <2>1. Owned(i)' >= Start[i] + flow'[i] + Cardinality(Units(i)')
    BY <1>1, <1>2, <1>3 DEF Balance
  <2>2. Owned(i)' <= Start[i] + flow'[i] + Cardinality(Units(i)')
    BY <1>1, <1>2, <1>3, <1>5 DEF Balance
  <2>. QED
    BY <2>1, <2>2 DEF Balance
<1>. QED
  BY <1>4, <1>5

\* A step of a request that owes nothing before and after.
LEMMA CalmStep ==
    ASSUME SInv, IInv', NEW r \in Requests, Shape(r)', Only(r),
           UNCHANGED <<bal, flow, crashed>>,
           \A i \in Items : Owes(r, i) = 0 /\ Owes(r, i)' = 0
    PROVE  SInv'
<1>1. ASSUME NEW i \in Items PROVE Balance(i)'
  <2>1. Owned(i)' = Owned(i) /\ flow'[i] = flow[i]
    BY DEF Owned
  <2>. QED
    BY <2>1, BalanceStep
<1>. QED
  BY <1>1, ShapeOthers DEF SInv

LEMMA OwnedEffect ==
    ASSUME TypeOK, NEW e \in Increments, Apply(e), NEW i \in Items
    PROVE  /\ Owned(i) \in Int
           /\ e.acct \in Owner /\ e.item = i => Owned(i)' = Owned(i) + e.num
           /\ ~(e.acct \in Owner /\ e.item = i) => Owned(i)' = Owned(i)
<1>1. /\ bal["purse"][i] \in Int /\ bal["box"][i] \in Int /\ e.num \in Int
      /\ "purse" \in Accounts /\ "box" \in Accounts
  BY DEF TypeOK, Accounts, Increments
<1>2. \A a \in Accounts :
        bal'[a][i] = IF a = e.acct /\ i = e.item THEN bal[a][i] + e.num ELSE bal[a][i]
  BY ApplyEffect
<1>. QED
  BY <1>1, <1>2 DEF Owned, Owner

LEMMA FlowEffect ==
    ASSUME TypeOK, NEW r \in Requests, NEW e \in Increments, Record(r, e),
           NEW i \in Items
    PROVE  /\ flow[i] \in Int
           /\ req[r].op \in {"exchange", "buy"} /\ e.acct \in Owner /\ e.item = i
                => flow'[i] = flow[i] + e.num
           /\ ~(req[r].op \in {"exchange", "buy"} /\ e.acct \in Owner /\ e.item = i)
                => flow'[i] = flow[i]
<1>1. flow \in [Items -> Int] /\ e.item \in Items
  BY DEF TypeOK, Increments
<1>. QED
  BY <1>1 DEF Record, Owner

LEMMA CreditBalances ==
    ASSUME SInv, IInv', NEW r \in Requests, CreditStep(r)
    PROVE  SInv'
<1>. DEFINE e == Head(credits[r])
<1>1. /\ credits \in [Requests -> Seq(Increments)] /\ credits[r] # <<>>
      /\ pc[r] = "work" /\ TypeOK /\ Shape(r)
  BY DEF SInv, IInv, TypeOK, CreditStep
<1>2. /\ e \in Increments /\ e = credits[r][1] /\ 1 \in 1..Len(credits[r])
      /\ \A k \in 1..Len(Tail(credits[r])) :
           /\ Tail(credits[r])[k] = credits[r][k + 1]
           /\ k + 1 \in 2..Len(credits[r]) /\ k + 1 \in 1..Len(credits[r])
  BY <1>1
<1>3. /\ UNCHANGED <<pc, req, debit, crashed>>
      /\ credits' = [credits EXCEPT ![r] = Tail(credits[r])]
      /\ Apply(e) /\ Record(r, e)
  BY DEF CreditStep
<1>4. credits'[r] = Tail(credits[r]) /\ Only(r)
  BY <1>1, <1>3 DEF Only
<1>5. e.num \in Int /\ debit[r].num \in Int
  BY <1>1, <1>2 DEF TypeOK, Increments
<1>. HIDE DEF e
<1>6. CASE req[r].op \in {"exchange", "buy"}
  <2>1. Shape(r)' /\ \A i : Owes(r, i) = 0 /\ Owes(r, i)' = 0
    BY <1>3, <1>6 DEF Shape, Owes, Transfers
  <2>2. ASSUME NEW i \in Items PROVE Balance(i)'
    <3>1. Owned(i)' - flow'[i] = Owned(i) - flow[i]
      BY <1>1, <1>2, <1>3, <1>5, <1>6, OwnedEffect, FlowEffect
    <3>2. Owned(i)' - flow'[i] - Owes(r, i)' = Owned(i) - flow[i] - Owes(r, i)
      BY <2>1, <3>1
    <3>. QED
      BY <1>3, <1>4, <2>1, <3>2, BalanceStep
  <2>. QED
    BY <1>4, <2>1, <2>2, ShapeOthers DEF SInv
<1>7. CASE req[r].op \in Transfers /\ Credited(r)
  <2>1. Credited(r)' /\ e.acct \notin Owner
    BY <1>2, <1>4, <1>7 DEF Credited
  <2>2. Shape(r)' /\ \A i : Owes(r, i)' = Owes(r, i)
    BY <1>1, <1>3, <1>7, <2>1 DEF Shape, Owes, Transfers
  <2>3. ASSUME NEW i \in Items PROVE Balance(i)'
    <3>1. Owned(i)' = Owned(i) /\ flow'[i] = flow[i]
      BY <1>1, <1>2, <1>3, <2>1, OwnedEffect, FlowEffect
    <3>. QED
      BY <1>3, <1>4, <2>2, <3>1, BalanceStep
  <2>. QED
    BY <1>4, <2>2, <2>3, ShapeOthers DEF SInv
<1>8. CASE req[r].op \in Transfers /\ ~Credited(r)
  <2>1. /\ debit[r].acct \in Owner /\ e.acct \in Owner
        /\ e.item = debit[r].item /\ e.num = -debit[r].num
        /\ \A k \in 2..Len(credits[r]) : credits[r][k].acct \notin Owner
    BY <1>1, <1>8 DEF Shape, Transfers, e
  <2>2. Credited(r)'
    BY <1>2, <1>4, <2>1 DEF Credited
  <2>3. Shape(r)'
    BY <1>3, <1>8, <2>1, <2>2 DEF Shape
  <2>4. \A i : /\ Owes(r, i) = 0
               /\ Owes(r, i)' = IF e.item = i THEN e.num ELSE 0
    BY <1>1, <1>3, <1>8, <2>1, <2>2 DEF Owes
  <2>5. ASSUME NEW i \in Items PROVE Balance(i)'
    <3>1. flow'[i] = flow[i] /\ flow[i] \in Int
      BY <1>1, <1>2, <1>3, <1>8, FlowEffect DEF Transfers
    <3>2. /\ Owned(i) \in Int
          /\ Owned(i)' = IF e.item = i THEN Owned(i) + e.num ELSE Owned(i)
      BY <1>1, <1>2, <1>3, <2>1, OwnedEffect
    <3>3. Owned(i)' - flow'[i] - Owes(r, i)' = Owned(i) - flow[i] - Owes(r, i)
      BY <1>5, <2>4, <3>1, <3>2
    <3>. QED
      BY <1>3, <1>4, <2>3, <3>3, BalanceStep
  <2>. QED
    BY <1>4, <2>3, <2>5, ShapeOthers DEF SInv
<1>. QED
  BY <1>1, <1>6, <1>7, <1>8 DEF Shape

LEMMA DebitBalances ==
    ASSUME SInv, IInv', NEW r \in Requests, DebitStep(r)
    PROVE  SInv'
<1>. DEFINE e == debit[r]
<1>1. /\ TypeOK /\ Shape(r) /\ pc[r] = "work" /\ credits[r] = <<>>
      /\ e \in Increments /\ e.num \in Int
  BY DEF SInv, IInv, TypeOK, DebitStep, Increments
<1>2. /\ pc \in [Requests -> Steps] /\ req \in [Requests -> Asked]
      /\ debit \in [Requests -> Increments]
  BY <1>1 DEF TypeOK
<1>3. Apply(e) /\ Record(r, e) /\ crashed' = crashed
  BY DEF DebitStep
<1>4. Only(r) /\ pc'[r] # "work"
  BY <1>2 DEF DebitStep, Only
<1>5. Shape(r)' /\ \A i : Owes(r, i)' = 0
  BY <1>4 DEF Shape, Owes
<1>6. Credited(r)
  BY <1>1 DEF Credited
<1>7. CASE req[r].op \in {"exchange", "buy"}
  <2>1. \A i : Owes(r, i) = 0
    BY <1>7 DEF Owes, Transfers
  <2>2. ASSUME NEW i \in Items PROVE Balance(i)'
    <3>. HIDE DEF e
    <3>1. Owned(i)' - flow'[i] = Owned(i) - flow[i]
      BY <1>1, <1>3, <1>7, OwnedEffect, FlowEffect
    <3>2. Owned(i)' - flow'[i] - Owes(r, i)' = Owned(i) - flow[i] - Owes(r, i)
      BY <1>5, <2>1, <3>1
    <3>. QED
      BY <1>3, <1>4, <1>5, <3>2, BalanceStep
  <2>. QED
    BY <1>4, <1>5, <2>2, ShapeOthers DEF SInv
<1>8. CASE req[r].op \in Transfers
  <2>1. debit[r].acct \in Owner
    BY <1>1, <1>8 DEF Shape, Transfers
  <2>2. \A i : Owes(r, i) = IF e.item = i THEN -e.num ELSE 0
    BY <1>1, <1>6, <1>8 DEF Owes
  <2>3. ASSUME NEW i \in Items PROVE Balance(i)'
    <3>1. e.acct \in Owner
      BY <2>1
    <3>. HIDE DEF e
    <3>2. flow'[i] = flow[i] /\ flow[i] \in Int
      BY <1>1, <1>3, <1>8, FlowEffect DEF Transfers
    <3>3. /\ Owned(i) \in Int
          /\ Owned(i)' = IF e.item = i THEN Owned(i) + e.num ELSE Owned(i)
      BY <1>1, <1>3, <3>1, OwnedEffect
    <3>4. Owned(i)' - flow'[i] - Owes(r, i)' = Owned(i) - flow[i] - Owes(r, i)
      BY <1>1, <1>5, <2>2, <3>2, <3>3
    <3>. QED
      BY <1>3, <1>4, <1>5, <3>4, BalanceStep
  <2>. QED
    BY <1>4, <1>5, <2>3, ShapeOthers DEF SInv
<1>. QED
  BY <1>1, <1>7, <1>8 DEF Shape

\* What a request that is cut off had credited is never debited.
LEMMA CrashBalances ==
    ASSUME SInv, IInv', NEW r \in Requests, Crash(r)
    PROVE  SInv'
<1>1. /\ pc \in [Requests -> Steps] /\ req \in [Requests -> Asked]
      /\ debit \in [Requests -> Increments]
      /\ credits \in [Requests -> Seq(Increments)]
  BY DEF SInv, IInv, TypeOK
<1>2. /\ Only(r) /\ pc'[r] = "idle" /\ crashed' = TRUE
      /\ bal' = bal /\ flow' = flow
  BY <1>1 DEF Crash, Only, money
<1>3. Shape(r)' /\ \A i : Owes(r, i)' = 0
  BY <1>2 DEF Shape, Owes
<1>4. ASSUME NEW i \in Items PROVE Balance(i)'
  <2>1. /\ Owes(r, i) \in Nat
        /\ Cardinality(Units(i)) \in Nat /\ Cardinality(Units(i)') \in Nat
        /\ Cardinality(Units(i)') + Owes(r, i) = Cardinality(Units(i)) + Owes(r, i)'
    BY <1>2, <1>3, UnitsStep
  <2>2. Cardinality(Units(i)') <= Cardinality(Units(i))
    BY <1>3, <2>1
  <2>3. Owned(i)' = Owned(i) /\ flow'[i] = flow[i]
    BY <1>2 DEF Owned
  <2>4. Owned(i) \in Int /\ flow[i] \in Int /\ Start[i] \in Int
    <3>1. /\ bal \in [Accounts -> [Items -> Int]] /\ flow \in [Items -> Int]
          /\ "purse" \in Accounts /\ "box" \in Accounts
      BY DEF SInv, IInv, TypeOK, Accounts
    <3>. QED
      BY <3>1, WalletAssumption DEF Owned
  <2>5. Owned(i) >= Start[i] + flow[i] + Cardinality(Units(i))
    BY DEF SInv, Balance
  <2>6. Owned(i)' >= Start[i] + flow'[i] + Cardinality(Units(i)')
    BY <2>1, <2>2, <2>3, <2>4, <2>5
  <2>. QED
    BY <1>2, <2>6 DEF Balance
<1>. QED
  BY <1>2, <1>3, <1>4, ShapeOthers DEF SInv

LEMMA AcceptBalances ==
    ASSUME SInv, IInv', NEW r \in Requests, pc[r] # "work",
           NEW q, NEW cs, NEW d, Accept(r, q, cs, d), Shape(r)',
           (~Credited(r))' \/ q.op \notin Transfers
    PROVE  SInv'
<1>1. /\ pc \in [Requests -> Steps] /\ req \in [Requests -> Asked]
      /\ debit \in [Requests -> Increments]
      /\ credits \in [Requests -> Seq(Increments)]
  BY DEF SInv, IInv, TypeOK
<1>2. Only(r) /\ req'[r] = q /\ UNCHANGED <<bal, flow, crashed>>
  BY <1>1 DEF Accept, Only, money
<1>3. \A i \in Items : Owes(r, i) = 0 /\ Owes(r, i)' = 0
  BY <1>2 DEF Owes
<1>. QED
  BY <1>2, <1>3, CalmStep

\* A request that accepts nothing and sends no increment.
LEMMA OtherBalances ==
    ASSUME SInv, IInv', NEW r \in Requests, pc[r] # "work", pc'[r] # "work",
           Only(r), UNCHANGED <<bal, flow, crashed>>
    PROVE  SInv'
<1>1. Shape(r)' /\ \A i \in Items : Owes(r, i) = 0 /\ Owes(r, i)' = 0
  BY DEF Shape, Owes
<1>. QED
  BY <1>1, CalmStep

LEMMA SaveBalances ==
    ASSUME SInv, IInv', NEW r \in Requests, NEW i \in Items, NEW n \in Nums,
           BoxSave(r, i, n)
    PROVE  SInv'
<1>. DEFINE cs == <<Put("box", i, n)>>
            d == Put("purse", i, -n)
            q == [op |-> "save"]
<1>1. Accept(r, q, cs, d) /\ pc[r] = "idle" /\ n \in Nat
  BY WalletAssumption DEF BoxSave, SaveMoves
<1>2. /\ req \in [Requests -> Asked] /\ debit \in [Requests -> Increments]
      /\ credits \in [Requests -> Seq(Increments)]
  BY DEF SInv, IInv, TypeOK
<1>3. credits'[r] = cs /\ debit'[r] = d /\ req'[r] = q
  BY <1>1, <1>2 DEF Accept
<1>4. /\ Len(cs) = 1 /\ cs # <<>> /\ Head(cs) = cs[1]
      /\ cs[1] = [acct |-> "box", item |-> i, num |-> n]
  BY DEF Put
<1>5. d = [acct |-> "purse", item |-> i, num |-> -n] /\ n = -(-n)
  BY <1>1 DEF Put
<1>. HIDE DEF cs, d
<1>6. (~Credited(r))'
  BY <1>3, <1>4 DEF Credited, Owner
<1>7. Shape(r)'
  BY <1>3, <1>4, <1>5 DEF Shape, Transfers, Owner
<1>. QED
  BY <1>1, <1>6, <1>7, AcceptBalances

LEMMA TakeBalances ==
    ASSUME SInv, IInv', NEW r \in Requests, BoxTake(r)
    PROVE  SInv'
<1>. DEFINE q == [op |-> "take"]
<1>1. pc[r] = "take" /\ req[r].item \in Items /\ req[r].num \in Nums
  BY DEF BoxTake, SInv, IInv, ReqOK
<1>2. PICK i \in Items, n \in Nums : i = req[r].item /\ n = req[r].num
  BY <1>1
<1>3. /\ pc \in [Requests -> Steps] /\ req \in [Requests -> Asked]
      /\ debit \in [Requests -> Increments]
      /\ credits \in [Requests -> Seq(Increments)] /\ n \in Nat
  BY WalletAssumption DEF SInv, IInv, TypeOK
<1>4. CASE Refuse(r)
  <2>1. Only(r) /\ pc'[r] = "idle" /\ UNCHANGED <<bal, flow, crashed>>
    BY <1>3, <1>4 DEF Refuse, Only, money, work
  <2>. QED
    BY <1>1, <2>1, OtherBalances
<1>5. CASE ~Refuse(r)
  <2>. DEFINE cs == TakeMoves(i, n).credits
              d == TakeMoves(i, n).debit
  <2>1. Accept(r, q, cs, d)
    BY <1>2, <1>5 DEF BoxTake
  <2>2. credits'[r] = cs /\ debit'[r] = d /\ req'[r] = q
    BY <1>3, <2>1 DEF Accept
  <2>3. d = [acct |-> "box", item |-> i, num |-> -n] /\ n = -(-n)
    BY <1>3 DEF TakeMoves, Put
  <2>4. /\ cs # <<>> /\ Len(cs) \in {1, 2} /\ Head(cs) = cs[1]
        /\ cs[1] = [acct |-> "purse", item |-> i, num |-> n]
        /\ Len(cs) = 2 => cs[2].acct = "stray"
    <3>. DEFINE p == Put("purse", i, n)
                s == Put("stray", i, n)
    <3>1. cs = <<p, s>> \/ cs = <<p>>
      BY DEF TakeMoves
    <3>2. p = [acct |-> "purse", item |-> i, num |-> n] /\ s.acct = "stray"
      BY DEF Put
    <3>. HIDE DEF p, s, cs
    <3>. QED
      BY <3>1, <3>2
  <2>. HIDE DEF cs, d
  <2>5. (~Credited(r))'
    BY <2>2, <2>4 DEF Credited, Owner
  <2>6. Shape(r)'
    <3>1. \A k \in 2..Len(cs) : cs[k].acct \notin Owner
      BY <2>4 DEF Owner
    <3>. QED
      BY <2>2, <2>3, <2>4, <3>1 DEF Shape, Transfers, Owner
  <2>. QED
    BY <1>1, <2>1, <2>5, <2>6, AcceptBalances
<1>. QED
  BY <1>4, <1>5

LEMMA PurchaseBalances ==
    ASSUME SInv, IInv', NEW r \in Requests,
           \/ CurrencyExchange(r)
           \/ \E g \in Goods, price \in Prices : BuyCoin(r, g, price)
    PROVE  SInv'
<1>1. req \in [Requests -> Asked] /\ pc \in [Requests -> Steps]
  BY DEF SInv, IInv, TypeOK
<1>2. ASSUME NEW q, NEW cs, NEW d, Accept(r, q, cs, d), pc[r] # "work",
             q.op \in {"exchange", "buy"}
      PROVE  SInv'
  <2>1. req'[r] = q
    BY <1>1, <1>2 DEF Accept
  <2>2. Shape(r)' /\ q.op \notin Transfers
    BY <1>2, <2>1 DEF Shape, Transfers
  <2>. QED
    BY <1>2, <2>2, AcceptBalances
<1>3. CASE CurrencyExchange(r)
  <2>. DEFINE c == req[r].course
              q == [op |-> "exchange"]
  <2>1. pc[r] = "exchange" /\ q.op \in {"exchange", "buy"}
    BY <1>3 DEF CurrencyExchange
  <2>2. Refuse(r) \/ Accept(r, q, ExchangeCredits(c), ExchangeDebit(c))
    BY <1>3 DEF CurrencyExchange
  <2>3. CASE Refuse(r)
    <3>1. Only(r) /\ pc'[r] = "idle" /\ UNCHANGED <<bal, flow, crashed>>
      BY <1>1, <2>3 DEF Refuse, Only, money, work
    <3>. QED
      BY <2>1, <3>1, OtherBalances
  <2>4. CASE ~Refuse(r)
    <3>. HIDE DEF q
    <3>. QED
      BY <1>2, <2>1, <2>2, <2>4
  <2>. QED
    BY <2>3, <2>4
<1>4. ASSUME NEW g \in Goods, NEW price \in Prices, BuyCoin(r, g, price)
      PROVE  SInv'
  <2>. DEFINE q == [op |-> "buy", price |-> price]
              cs == <<Put("sums", Diamond, g.price),
                      Put("box", Diamond, g.cards + g.present)>>
  <2>1. Accept(r, q, cs, NoDebit) /\ pc[r] # "work" /\ q.op \in {"exchange", "buy"}
    BY <1>4 DEF BuyCoin
  <2>. HIDE DEF q, cs
  <2>. QED
    BY <1>2, <2>1
<1>. QED
  BY <1>3, <1>4

LEMMA SInvStep == SInv /\ IInv' /\ [Next]_vars => SInv'
<1>. SUFFICES ASSUME SInv, IInv', [Next]_vars PROVE SInv'
  OBVIOUS
<1>1. /\ pc \in [Requests -> Steps] /\ req \in [Requests -> Asked]
      /\ levels \in [Requests -> Seq(1..Len(Doors))]
  BY DEF SInv, IInv, TypeOK
<1>2. CASE UNCHANGED <<bal, flow, crashed, pc, req, credits, debit>>
  <2>1. \A r \in Requests : Shape(r)'
    BY <1>2 DEF SInv, Shape, Credited
  <2>2. ASSUME NEW i \in Items PROVE Balance(i)'
    <3>1. \A r \in Requests : Owes(r, i)' = Owes(r, i)
      BY <1>2 DEF Owes, Credited
    <3>2. Units(i)' = Units(i)
      BY <3>1 DEF Units
    <3>. QED
      BY <1>2, <3>2 DEF SInv, Balance, Owned
  <2>. QED
    BY <2>1, <2>2 DEF SInv
<1>3. ASSUME NEW r \in Requests,
             \/ \E i \in Items, n \in Nums : BoxTakeLock(r, i, n)
             \/ \E c \in Courses : ExchangePwd(r, c)
             \/ \E p \in Passwords : BoxUnlockPwd(r, p)
      PROVE  SInv'
  <2>1. /\ pc[r] = "idle"
        /\ \E st \in {"take", "exchange", "unlock"} : \E q : Continue(r, st, q)
    BY <1>3 DEF BoxTakeLock, ExchangePwd, BoxUnlockPwd
  <2>2. Only(r) /\ pc'[r] # "work" /\ UNCHANGED <<bal, flow, crashed>>
    BY <1>1, <2>1 DEF Continue, Only, money, work
  <2>. QED
    BY <2>1, <2>2, OtherBalances
<1>4. ASSUME NEW r \in Requests, VipCharge(r) \/ VipLevel(r) \/ BoxUnlock(r)
      PROVE  SInv'
  <2>1. /\ Only(r) /\ pc[r] # "work" /\ pc'[r] # "work"
        /\ UNCHANGED <<bal, flow, crashed>>
    BY <1>1, <1>4 DEF VipCharge, VipLevel, BoxUnlock, Only, money, work
  <2>. QED
    BY <2>1, OtherBalances
<1>5. ASSUME NEW r \in Requests, Step(r) PROVE SInv'
  BY <1>3, <1>4, <1>5, SaveBalances, TakeBalances, PurchaseBalances,
     CreditBalances, DebitBalances, CrashBalances DEF Step
<1>6. CASE \/ \E p \in Passwords : SetBoxPwd(p) \/ BoxFindPwd(p)
           \/ BoxLock \/ Login \/ UNCHANGED vars
  <2>1. UNCHANGED <<bal, flow, crashed, pc, req, credits, debit>>
    BY <1>6 DEF SetBoxPwd, BoxFindPwd, BoxLock, Login, vars, money, work
  <2>. QED
    BY <1>2, <2>1
<1>. QED
  BY <1>5, <1>6 DEF Next

(***************************************************************************)
(* A transfer credits the one side before it debits the other: whatever    *)
(* the threads do and wherever a worker dies, purse and box together never *)
(* hold less than exchanges and purchases left there, and no more once     *)
(* nothing is under way and nothing was cut off.                           *)
(***************************************************************************)
THEOREM TransfersTheorem == Spec => []TransfersSound
<1>1. Init => SInv
  <2>. SUFFICES ASSUME Init PROVE SInv
    OBVIOUS
  <2>1. IInv
    BY InitIInv
  <2>2. \A r \in Requests : Shape(r) /\ \A i : Owes(r, i) = 0
    BY DEF Init, Shape, Owes
  <2>3. ASSUME NEW i \in Items PROVE Balance(i)
    <3>1. Units(i) = {}
      BY <2>2, WalletAssumption DEF Units, UnitsOf
    <3>2. Cardinality(Units(i)) = 0
      BY <3>1, FS_EmptySet
    <3>3. /\ bal["purse"] = Start /\ bal["box"] = [j \in Items |-> 0]
          /\ flow[i] = 0 /\ Start[i] \in Nat
      BY WalletAssumption DEF Init, Accounts
    <3>4. Owned(i) = Start[i]
      BY <3>3 DEF Owned
    <3>. QED
      BY <3>2, <3>3, <3>4 DEF Balance
  <2>. QED
    BY <2>1, <2>2, <2>3 DEF SInv
<1>2. SInv => TransfersSound
  <2>. SUFFICES ASSUME SInv PROVE TransfersSound
    OBVIOUS
  <2>1. ASSUME NEW i \in Items
        PROVE  /\ Owned(i) >= Start[i] + flow[i]
               /\ Idle /\ ~crashed => Owned(i) = Start[i] + flow[i]
    <3>. DEFINE f == [r \in Requests |-> Owes(r, i)]
    <3>1. f \in [Requests -> 0..MaxDebit]
      BY OwesType DEF SInv
    <3>2. PICK r : r \in Requests
      BY WalletAssumption
    <3>3. Cardinality(Units(i)) \in Nat
      <4>. HIDE DEF f
      <4>1. Cardinality(UnitsOf(f)) \in Nat
        BY <3>1, <3>2, UnitsSplit
      <4>. QED
        BY <4>1 DEF f, Units
    <3>4. Owned(i) \in Int /\ flow[i] \in Int /\ Start[i] \in Int
      <4>1. /\ bal \in [Accounts -> [Items -> Int]] /\ flow \in [Items -> Int]
            /\ "purse" \in Accounts /\ "box" \in Accounts
        BY DEF SInv, IInv, TypeOK, Accounts
      <4>. QED
        BY <4>1, WalletAssumption DEF Owned
    <3>5. Balance(i)
      BY DEF SInv
    <3>6. Owned(i) >= Start[i] + flow[i]
      BY <3>3, <3>4, <3>5 DEF Balance
    <3>7. ASSUME Idle, ~crashed PROVE Owned(i) = Start[i] + flow[i]
      <4>1. \A q \in Requests : Owes(q, i) = 0
        BY <3>7 DEF Idle, Owes
      <4>2. Units(i) = {}
        BY <4>1, WalletAssumption DEF Units, UnitsOf
      <4>3. Cardinality(Units(i)) = 0
        BY <4>2, FS_EmptySet
      <4>. QED
        BY <3>4, <3>5, <3>7, <4>3 DEF Balance
    <3>. QED
      BY <3>6, <3>7
  <2>. QED
    BY <2>1 DEF TransfersSound, TransferNeverLoses, TransferExact
<1>. QED
  BY <1>1, <1>2, SInvStep, IInvInvariant, PTL DEF Spec

----------------------------------------------------------------------------
(***************************************************************************)
(* Relief coins, for every number of server threads, every daily limit and *)
(* every number of days.  Neither bound is inductive as it stands: each    *)
(* counts, besides the grants already made, the requests that are past the *)
(* check the next grant would have to pass.                                *)
(***************************************************************************)

\* The requests that can still make a grant on day d without reading a
\* counter that already holds the grants of day d.
Late(d) ==
    {r \in Takers : \/ stage[r] = "read" /\ checkDay[r] < d /\ today <= d
                    \/ stage[r] = "takeDate" /\ today <= d
                    \/ stage[r] = "pipe" /\ takeDay[r] = d}

\* The requests whose comparison with token t has succeeded.
Holding(t) ==
    {r \in Takers : /\ stage[r] \in {"date", "read", "takeDate", "pipe"}
                    /\ tok[r] = t}

\* A request that is under way carries a token.
TokensKnown ==
    \A r \in Takers : stage[r] # "idle" => tok[r] \in Tokens

\* No table of the present day or a later one is dropped.
DatesOrdered ==
    /\ \A r \in Takers : checkDay[r] <= today /\ takeDay[r] <= today
    /\ \A d \in Days : d >= today => taken[d] = count[d]
    /\ \A d \in Days : d > today => taken[d] = 0

\* Once the limit of a day is reached, grants and late requests together
\* stay within the bound.
LateBounded ==
    \A d \in Days :
        taken[d] >= SaveTimes
            => taken[d] + Cardinality(Late(d))
                 <= SaveTimes - 1 + Cardinality(Takers)

\* What n times a SET of a token is worth.
Worth(n) == n * Cardinality(Takers)

\* Grants made with a token and the requests that hold it are covered by the
\* times it was SET, and the last SET covers no grant before the token is
\* spent: when that happens the pipeline deletes it.
HoldingBounded ==
    \A t \in Tokens :
        /\ spent[t] + Cardinality(Holding(t)) <= Worth(sets[t])
        /\ token = t => spent[t] + Cardinality(Takers) <= Worth(sets[t])

BenefitInv ==
    /\ BenefitTypeOK /\ TokensKnown /\ DatesOrdered /\ LateBounded
    /\ HoldingBounded

----------------------------------------------------------------------------
\* A set of requests that loses one member and gains none has one member
\* less.
LEMMA OneTakerLess ==
    ASSUME NEW S \in SUBSET Takers, NEW T \in SUBSET Takers,
           NEW r \in S, T \subseteq S \ {r}
    PROVE  /\ Cardinality(S) \in Nat
           /\ Cardinality(T) \in Nat
           /\ Cardinality(T) <= Cardinality(S) - 1
<1>1. IsFiniteSet(S) /\ IsFiniteSet(T)
  BY BenefitAssumption, FS_Subset
<1>2. IsFiniteSet(S \ {r}) /\ Cardinality(S \ {r}) = Cardinality(S) - 1
  BY <1>1, FS_RemoveElement
<1>3. Cardinality(T) <= Cardinality(S \ {r})
  BY <1>2, FS_Subset
<1>. QED
  BY <1>1, <1>2, <1>3, FS_CardinalityType

\* A set of requests that gains no member does not get larger.
LEMMA NoMoreTakers ==
    ASSUME NEW S \in SUBSET Takers, NEW T \in SUBSET Takers,
           T \subseteq S
    PROVE  /\ Cardinality(S) \in Nat
           /\ Cardinality(T) \in Nat
           /\ Cardinality(T) <= Cardinality(S)
<1>1. IsFiniteSet(S) /\ IsFiniteSet(T)
  BY BenefitAssumption, FS_Subset
<1>. QED
  BY <1>1, FS_Subset, FS_CardinalityType

LEMMA TakersCount == Cardinality(Takers) \in Nat
  BY BenefitAssumption, FS_CardinalityType

\* One SET more is worth one grant per thread more.
LEMMA WorthMore ==
    ASSUME NEW n \in Nat
    PROVE  /\ Worth(0) = 0
           /\ Worth(n) \in Nat
           /\ Worth(n + 1) = Worth(n) + Cardinality(Takers)
<1>1. ASSUME NEW c \in Nat
      PROVE  0 * c = 0 /\ n * c \in Nat /\ (n + 1) * c = n * c + c
  BY <1>1
<1>. QED
  BY <1>1, TakersCount DEF Worth

----------------------------------------------------------------------------
LEMMA InitBenefit == BenefitInit => BenefitInv
<1>. SUFFICES ASSUME BenefitInit PROVE BenefitInv
  OBVIOUS
<1>. USE BenefitAssumption DEF BenefitInit
<1>1. BenefitTypeOK
  BY DEF BenefitTypeOK, Days, Tokens, NoToken, ReliefSteps
<1>2. TokensKnown
  BY DEF TokensKnown
<1>3. DatesOrdered
  BY DEF DatesOrdered, Days
<1>4. LateBounded
  BY DEF LateBounded, Days
<1>5. HoldingBounded
  <2>1. \A t \in Tokens : Holding(t) = {}
    BY DEF Holding
  <2>2. Cardinality({}) = 0
    BY FS_EmptySet
  <2>3. Worth(0) = 0
    BY WorthMore
  <2>4. SUFFICES ASSUME NEW t \in Tokens
                 PROVE  /\ spent[t] + Cardinality(Holding(t)) <= Worth(sets[t])
                        /\ token = t => spent[t] + Cardinality(Takers)
                                         <= Worth(sets[t])
    BY DEF HoldingBounded
  <2>5. token # t /\ spent[t] = 0 /\ sets[t] = 0
    BY DEF Tokens, NoToken
  <2>. QED
    BY <2>1, <2>2, <2>3, <2>5
<1>. QED
  BY <1>1, <1>2, <1>3, <1>4, <1>5 DEF BenefitInv

LEMMA BenefitTypes ==
    ASSUME BenefitTypeOK, TokensKnown, [BenefitNext]_benefitVars
    PROVE  BenefitTypeOK'
<1>. USE BenefitAssumption
<1>. USE DEF BenefitTypeOK, ReliefSteps
<1>1. ASSUME NEW r \in Takers, GetBenefitInfo(r) PROVE BenefitTypeOK'
  BY <1>1 DEF GetBenefitInfo, store, history
<1>2. ASSUME NEW r \in Takers, TakeBenefit(r) PROVE BenefitTypeOK'
  <2>1. PICK t \in Tokens : tok' = [tok EXCEPT ![r] = t]
    BY <1>2 DEF TakeBenefit
  <2>. QED
    BY <1>2, <2>1 DEF TakeBenefit, store, history
<1>0. ASSUME NEW r \in Takers, SetToken(r) PROVE BenefitTypeOK'
  <2>1. tok[r] \in Tokens
    BY <1>0 DEF SetToken, TokensKnown
  <2>2. sets' \in [Tokens -> Nat] /\ stage' \in [Takers -> ReliefSteps]
    BY <1>0, <2>1 DEF SetToken
  <2>. QED
    BY <1>0, <2>1, <2>2 DEF SetToken
<1>12. CASE Tick
  <2>1. clock' \in Tokens
    BY <1>12 DEF Tick, Tokens
  <2>. QED
    BY <1>12, <2>1 DEF Tick, store, history
<1>3. ASSUME NEW r \in Takers, CheckToken(r) PROVE BenefitTypeOK'
  BY <1>3 DEF CheckToken, store, history
<1>4. ASSUME NEW r \in Takers, CheckDate(r) PROVE BenefitTypeOK'
  BY <1>4 DEF CheckDate, LocalDate, store, history
<1>5. ASSUME NEW r \in Takers, CanTakeBenefit(r) PROVE BenefitTypeOK'
  <2>1. Amounts \subseteq Nat
    BY DEF Amounts
  <2>2. stage' \in [Takers -> ReliefSteps] /\ amount' \in [Takers -> Nat]
    BY <1>5, <2>1 DEF CanTakeBenefit
  <2>. QED
    BY <1>5, <2>2 DEF CanTakeBenefit, store, history
<1>6. ASSUME NEW r \in Takers, TakeDate(r) PROVE BenefitTypeOK'
  BY <1>6 DEF TakeDate, LocalDate, store, history
<1>7. ASSUME NEW r \in Takers, ExecutePipe(r) PROVE BenefitTypeOK'
  <2>0. tok[r] \in Tokens /\ takeDay[r] \in Days
    BY <1>7 DEF ExecutePipe, TokensKnown, Tokens
  <2>1. /\ count' \in [Days -> Nat]
        /\ taken' \in [Days -> Nat]
        /\ spent' \in [Tokens -> Nat]
    BY <1>7, <2>0 DEF ExecutePipe
  <2>2. coin' \in Nat /\ stage' \in [Takers -> ReliefSteps]
    BY <1>7 DEF ExecutePipe
  <2>. QED
    BY <1>7, <2>1, <2>2 DEF ExecutePipe, DeleteToken
<1>8. ASSUME NEW r \in Takers, SetExpire(r) PROVE BenefitTypeOK'
  BY <1>8 DEF SetExpire, history
<1>9. CASE Midnight
  <2>1. today' \in Days
    BY <1>9 DEF Midnight, Days
  <2>. QED
    BY <1>9, <2>1 DEF Midnight, store, history
<1>10. ASSUME NEW d \in Days, DropTable(d) PROVE BenefitTypeOK'
  BY <1>10 DEF DropTable, history
<1>11. CASE UNCHANGED benefitVars
  BY <1>11 DEF benefitVars
<1>. QED
  BY <1>0, <1>1, <1>2, <1>3, <1>4, <1>5, <1>6, <1>7, <1>8, <1>9, <1>10,
     <1>11, <1>12 DEF BenefitNext, ReliefStep

LEMMA TokensStep ==
    ASSUME BenefitTypeOK, TokensKnown, [BenefitNext]_benefitVars
    PROVE  TokensKnown'
<1>. USE DEF BenefitTypeOK, TokensKnown
<1>1. ASSUME NEW r \in Takers, GetBenefitInfo(r) \/ TakeBenefit(r)
      PROVE  TokensKnown'
  <2>1. PICK t \in Tokens : tok' = [tok EXCEPT ![r] = t]
    BY <1>1 DEF GetBenefitInfo, TakeBenefit
  <2>2. \A q \in Takers : q # r => stage'[q] = stage[q] /\ tok'[q] = tok[q]
    BY <1>1, <2>1 DEF GetBenefitInfo, TakeBenefit
  <2>3. tok'[r] \in Tokens
    BY <2>1
  <2>. QED
    BY <2>2, <2>3
<1>3. ASSUME NEW r \in Takers, ReliefStep(r),
             ~(GetBenefitInfo(r) \/ TakeBenefit(r))
      PROVE  TokensKnown'
  <2>1. /\ tok' = tok /\ stage[r] # "idle"
        /\ \A q \in Takers : q # r => stage'[q] = stage[q]
    BY <1>3 DEF ReliefStep, SetToken, CheckToken, CheckDate, LocalDate,
                CanTakeBenefit, TakeDate, ExecutePipe, SetExpire
  <2>. QED
    BY <2>1
<1>4. CASE Midnight \/ Tick
  BY <1>4 DEF Midnight, Tick
<1>5. ASSUME NEW d \in Days, DropTable(d) PROVE TokensKnown'
  BY <1>5 DEF DropTable
<1>6. CASE UNCHANGED benefitVars
  BY <1>6 DEF benefitVars
<1>. QED
  BY <1>1, <1>3, <1>4, <1>5, <1>6 DEF BenefitNext

LEMMA DatesStep ==
    ASSUME BenefitTypeOK, DatesOrdered, [BenefitNext]_benefitVars
    PROVE  DatesOrdered'
<1>. USE DEF DatesOrdered
<1>1. /\ today \in Nat /\ Days \subseteq Nat
      /\ count \in [Days -> Nat] /\ taken \in [Days -> Nat]
      /\ checkDay \in [Takers -> Days] /\ takeDay \in [Takers -> Days]
  BY BenefitAssumption DEF BenefitTypeOK, Days
<1>2. CASE Tick
  BY <1>2 DEF Tick, store, history
<1>3. ASSUME NEW r \in Takers, ReliefStep(r), ~ExecutePipe(r) PROVE DatesOrdered'
  <2>1. /\ today' = today /\ count' = count /\ taken' = taken
        /\ \A q \in Takers : /\ checkDay'[q] \in {checkDay[q], today}
                             /\ takeDay'[q] \in {takeDay[q], today}
    BY <1>1, <1>3 DEF ReliefStep, GetBenefitInfo, SetToken, TakeBenefit, CheckToken, CheckDate, LocalDate,
                      CanTakeBenefit, TakeDate, SetExpire, store, history
  <2>2. today <= today
    BY <1>1
  <2>3. \A q \in Takers : checkDay'[q] <= today' /\ takeDay'[q] <= today'
    BY <2>1, <2>2
  <2>. QED
    BY <2>1, <2>3
<1>4. ASSUME NEW r \in Takers, ExecutePipe(r) PROVE DatesOrdered'
  <2>1. \A d \in Days :
          /\ taken'[d] = IF d = takeDay[r] THEN taken[d] + 1 ELSE taken[d]
          /\ count'[d] = IF d = takeDay[r] THEN count[d] + 1 ELSE count[d]
    BY <1>1, <1>4 DEF ExecutePipe
  <2>2. today' = today /\ checkDay' = checkDay /\ takeDay' = takeDay
    BY <1>4 DEF ExecutePipe
  <2>. QED
    BY <1>1, <2>1, <2>2
<1>5. CASE Midnight
  <2>1. \A r \in Takers : checkDay[r] \in Nat /\ takeDay[r] \in Nat
    BY <1>1
  <2>2. /\ today' = today + 1 /\ count' = count /\ taken' = taken
        /\ checkDay' = checkDay /\ takeDay' = takeDay
    BY <1>5 DEF Midnight, store, history
  <2>3. \A r \in Takers : checkDay'[r] <= today' /\ takeDay'[r] <= today'
    BY <1>1, <2>1, <2>2
  <2>4. \A d \in Days : d >= today' => d > today
    BY <1>1, <2>2
  <2>. QED
    BY <1>1, <2>2, <2>3, <2>4
<1>6. ASSUME NEW d \in Days, DropTable(d) PROVE DatesOrdered'
  <2>1. \A e \in Days : count'[e] = IF e = d THEN 0 ELSE count[e]
    BY <1>1, <1>6 DEF DropTable
  <2>. QED
    BY <1>1, <1>6, <2>1 DEF DropTable, history
<1>7. CASE UNCHANGED benefitVars
  BY <1>7 DEF benefitVars
<1>. QED
  BY <1>2, <1>3, <1>4, <1>5, <1>6, <1>7 DEF BenefitNext
----------------------------------------------------------------------------
\* When the limit of day d has been reached, only a grant on day d itself
\* changes the late requests other than by removing some.
LEMMA LateShrinks ==
    ASSUME BenefitTypeOK, DatesOrdered, [BenefitNext]_benefitVars,
           NEW d \in Days, taken[d] >= SaveTimes
    PROVE  Late(d)' \subseteq Late(d)
<1>1. /\ today \in Nat /\ Days \subseteq Nat
      /\ count \in [Days -> Nat] /\ taken \in [Days -> Nat]
      /\ checkDay \in [Takers -> Days] /\ takeDay \in [Takers -> Days]
      /\ stage \in [Takers -> ReliefSteps]
  BY BenefitAssumption DEF BenefitTypeOK, Days
<1>2. d <= today
  BY <1>1, BenefitAssumption DEF DatesOrdered
<1>3. today <= d => d = today /\ count[d] >= SaveTimes
  BY <1>1, <1>2 DEF DatesOrdered
<1>4. SUFFICES ASSUME NEW q \in Takers, q \in Late(d)'
               PROVE  q \in Late(d)
  BY DEF Late
<1>. USE DEF Late
<1>5. CASE Tick
  BY <1>4, <1>5 DEF Tick
<1>6. ASSUME NEW r \in Takers, ReliefStep(r), q # r PROVE q \in Late(d)
  <2>1. /\ stage'[q] = stage[q] /\ checkDay'[q] = checkDay[q]
        /\ takeDay'[q] = takeDay[q] /\ today' = today
    BY <1>1, <1>6 DEF ReliefStep, GetBenefitInfo, SetToken, TakeBenefit, CheckToken, CheckDate, LocalDate,
              CanTakeBenefit, TakeDate, ExecutePipe, SetExpire, store, history
  <2>. QED
    BY <1>4, <2>1
<1>7. CASE \/ TakeBenefit(q) \/ CheckToken(q) \/ SetExpire(q)
           \/ ExecutePipe(q) \/ GetBenefitInfo(q) \/ SetToken(q)
  <2>1. stage'[q] \in {"token", "date", "idle", "expire", "set"}
    BY <1>1, <1>7 DEF GetBenefitInfo, SetToken, TakeBenefit, CheckToken, SetExpire, ExecutePipe
  <2>. QED
    BY <1>4, <2>1
<1>8. CASE CheckDate(q)
  <2>1. stage'[q] = "read" /\ checkDay'[q] = today
    BY <1>1, <1>8 DEF CheckDate, LocalDate
  <2>. QED
    BY <1>1, <1>2, <1>4, <2>1
<1>9. CASE CanTakeBenefit(q)
  <2>1. /\ stage[q] = "read" /\ stage'[q] = "takeDate" /\ today' = today
        /\ ~(SaveTimes <= count[checkDay[q]])
    BY <1>1, <1>4, <1>9 DEF CanTakeBenefit, LimitReached
  <2>2. today <= d
    BY <1>4, <2>1
  <2>3. checkDay[q] \in Nat /\ checkDay[q] <= today
    BY <1>1 DEF DatesOrdered
  <2>4. checkDay[q] # d
    BY <1>1, <1>3, <2>1, <2>2, BenefitAssumption
  <2>. QED
    BY <1>1, <1>3, <2>1, <2>2, <2>3, <2>4
<1>10. CASE TakeDate(q)
  <2>1. stage[q] = "takeDate" /\ stage'[q] = "pipe" /\ takeDay'[q] = today
    BY <1>1, <1>10 DEF TakeDate, LocalDate
  <2>. QED
    BY <1>1, <1>4, <2>1
<1>11. CASE Midnight
  <2>1. stage' = stage /\ takeDay' = takeDay /\ today' = today + 1
    BY <1>11 DEF Midnight
  <2>. QED
    BY <1>1, <1>2, <1>4, <2>1
<1>12. CASE \E e \in Days : DropTable(e)
  BY <1>4, <1>12 DEF DropTable
<1>13. CASE UNCHANGED benefitVars
  BY <1>4, <1>13 DEF benefitVars
<1>. QED
  BY <1>5, <1>6, <1>7, <1>8, <1>9, <1>10, <1>11, <1>12, <1>13
  DEF BenefitNext, ReliefStep

LEMMA LateStep ==
    ASSUME BenefitTypeOK, DatesOrdered, LateBounded, [BenefitNext]_benefitVars
    PROVE  LateBounded'
<1>1. SUFFICES ASSUME NEW d \in Days, taken'[d] >= SaveTimes
               PROVE  taken'[d] + Cardinality(Late(d)')
                        <= SaveTimes - 1 + Cardinality(Takers)
  BY DEF LateBounded, Days
<1>2. Late(d) \in SUBSET Takers /\ Late(d)' \in SUBSET Takers
  BY DEF Late
<1>3. taken \in [Days -> Nat] /\ SaveTimes \in Nat \ {0}
  BY BenefitAssumption DEF BenefitTypeOK
<1>4. CASE taken'[d] = taken[d]
  <2>1. Late(d)' \subseteq Late(d)
    BY <1>1, <1>4, LateShrinks
  <2>2. taken[d] + Cardinality(Late(d))
          <= SaveTimes - 1 + Cardinality(Takers)
    BY <1>1, <1>4 DEF LateBounded
  <2>. QED
    BY <1>2, <1>3, <1>4, <2>1, <2>2, NoMoreTakers, TakersCount
<1>5. CASE taken'[d] # taken[d]
  <2>1. PICK r \in Takers : ExecutePipe(r)
    BY <1>5 DEF BenefitNext, ReliefStep, Tick, GetBenefitInfo, SetToken, TakeBenefit, CheckToken,
                CheckDate, LocalDate, CanTakeBenefit, TakeDate, SetExpire, Midnight,
                DropTable, benefitVars, store, history
  <2>2. takeDay[r] = d /\ taken'[d] = taken[d] + 1
    BY <1>3, <1>5, <2>1 DEF ExecutePipe
  <2>3. r \in Late(d)
    BY <2>1, <2>2 DEF Late, ExecutePipe
  <2>4. r \notin Late(d)'
    BY <2>1 DEF Late, ExecutePipe, BenefitTypeOK
  <2>5. CASE taken[d] >= SaveTimes
    <3>1. Late(d)' \subseteq Late(d) \ {r}
      BY <2>4, <2>5, LateShrinks
    <3>2. taken[d] + Cardinality(Late(d))
            <= SaveTimes - 1 + Cardinality(Takers)
      BY <2>5 DEF LateBounded
    <3>. QED
      BY <1>2, <1>3, <2>2, <2>3, <3>1, <3>2, OneTakerLess, TakersCount
  <2>6. CASE ~(taken[d] >= SaveTimes)
    <3>1. Late(d)' \subseteq Takers \ {r}
      BY <1>2, <2>4
    <3>2. taken'[d] = SaveTimes
      BY <1>1, <1>3, <2>2, <2>6
    <3>3. Cardinality(Late(d)') <= Cardinality(Takers) - 1
          /\ Cardinality(Late(d)') \in Nat
      BY <1>2, <3>1, OneTakerLess
    <3>. QED
      BY <1>3, <3>2, <3>3, TakersCount
  <2>. QED
    BY <2>5, <2>6
<1>. QED
  BY <1>4, <1>5
----------------------------------------------------------------------------
\* Only a comparison with the current token adds a holder.
LEMMA HoldingGrows ==
    ASSUME BenefitTypeOK, [BenefitNext]_benefitVars, NEW t \in Tokens,
           token # t
    PROVE  Holding(t)' \subseteq Holding(t)
<1>1. /\ stage \in [Takers -> ReliefSteps]
      /\ tok \in [Takers -> Tokens \cup {NoToken}]
  BY DEF BenefitTypeOK
<1>. USE DEF Holding
<1>2. CASE Tick
  BY <1>2 DEF Tick
<1>3. ASSUME NEW r \in Takers, ReliefStep(r)
      PROVE  Holding(t)' \subseteq Holding(t)
  <2>2. \A q \in Takers : q # r => stage'[q] = stage[q] /\ tok'[q] = tok[q]
    BY <1>1, <1>3 DEF ReliefStep, GetBenefitInfo, SetToken, TakeBenefit,
       CheckToken, CheckDate, LocalDate, CanTakeBenefit, TakeDate,
       ExecutePipe, SetExpire
  <2>3. r \in Holding(t)' => r \in Holding(t)
    BY <1>1, <1>3 DEF ReliefStep, GetBenefitInfo, SetToken, TakeBenefit,
       CheckToken, CheckDate, LocalDate, CanTakeBenefit, TakeDate,
       ExecutePipe, SetExpire
  <2>. QED
    BY <2>2, <2>3
<1>4. CASE Midnight
  BY <1>4 DEF Midnight
<1>5. CASE \E d \in Days : DropTable(d)
  BY <1>5 DEF DropTable
<1>6. CASE UNCHANGED benefitVars
  BY <1>6 DEF benefitVars
<1>. QED
  BY <1>2, <1>3, <1>4, <1>5, <1>6 DEF BenefitNext

LEMMA HoldingStep ==
    ASSUME BenefitTypeOK, TokensKnown, HoldingBounded,
           [BenefitNext]_benefitVars
    PROVE  HoldingBounded'
<1>1. SUFFICES ASSUME NEW t \in Tokens
               PROVE  /\ spent'[t] + Cardinality(Holding(t)')
                           <= Worth(sets'[t])
                      /\ token' = t => spent'[t] + Cardinality(Takers)
                                         <= Worth(sets'[t])
  BY DEF HoldingBounded, Tokens, Worth
<1>2. Holding(t) \in SUBSET Takers /\ Holding(t)' \in SUBSET Takers
  BY DEF Holding
<1>3. /\ spent \in [Tokens -> Nat] /\ sets \in [Tokens -> Nat]
      /\ Cardinality(Takers) \in Nat
  BY TakersCount DEF BenefitTypeOK
<1>4. /\ spent[t] \in Nat /\ sets[t] \in Nat /\ Worth(sets[t]) \in Nat
      /\ Worth(sets[t] + 1) = Worth(sets[t]) + Cardinality(Takers)
  BY <1>3, WorthMore
<1>5. /\ spent[t] + Cardinality(Holding(t)) <= Worth(sets[t])
      /\ token = t => spent[t] + Cardinality(Takers) <= Worth(sets[t])
  BY DEF HoldingBounded
<1>6. /\ Cardinality(Holding(t)) \in Nat /\ Cardinality(Holding(t)') \in Nat
      /\ Cardinality(Holding(t)') <= Cardinality(Takers)
  BY <1>2, NoMoreTakers
<1>7. token # t => Cardinality(Holding(t)') <= Cardinality(Holding(t))
  BY <1>2, HoldingGrows, NoMoreTakers
<1>8. ASSUME NEW r \in Takers, SetToken(r)
      PROVE  /\ spent'[t] + Cardinality(Holding(t)') <= Worth(sets'[t])
             /\ token' = t => spent'[t] + Cardinality(Takers)
                                <= Worth(sets'[t])
  <2>1. tok[r] \in Tokens /\ spent' = spent /\ token' = tok[r]
    BY <1>8 DEF SetToken, TokensKnown
  <2>2. sets'[t] = IF t = tok[r] THEN sets[t] + 1 ELSE sets[t]
    BY <1>3, <1>8, <2>1 DEF SetToken
  <2>3. Holding(t)' = Holding(t)
    BY <1>8 DEF SetToken, Holding, BenefitTypeOK
  <2>4. CASE t = tok[r]
    BY <1>3, <1>4, <1>5, <1>6, <2>1, <2>2, <2>3, <2>4
  <2>5. CASE t # tok[r]
    BY <1>5, <2>1, <2>2, <2>3, <2>5
  <2>. QED
    BY <2>4, <2>5
<1>9. ASSUME NEW r \in Takers, ExecutePipe(r)
      PROVE  /\ spent'[t] + Cardinality(Holding(t)') <= Worth(sets'[t])
             /\ token' = t => spent'[t] + Cardinality(Takers)
                                <= Worth(sets'[t])
  <2>1. sets' = sets /\ token' # t
    BY <1>9 DEF ExecutePipe, DeleteToken, NoToken, Tokens
  <2>2. CASE tok[r] = t
    <3>1. spent'[t] = spent[t] + 1
      BY <1>3, <1>9, <2>2 DEF ExecutePipe
    <3>2. r \in Holding(t)
      BY <1>9, <2>2 DEF Holding, ExecutePipe
    <3>3. Holding(t)' \subseteq Holding(t) \ {r}
      BY <1>9 DEF Holding, ExecutePipe, BenefitTypeOK
    <3>4. Cardinality(Holding(t)') <= Cardinality(Holding(t)) - 1
      BY <1>2, <3>2, <3>3, OneTakerLess
    <3>. QED
      BY <1>4, <1>5, <1>6, <2>1, <3>1, <3>4
  <2>3. CASE tok[r] # t
    <3>1. spent'[t] = spent[t]
      BY <1>3, <1>9, <2>3 DEF ExecutePipe
    <3>2. Holding(t)' \subseteq Holding(t)
      BY <1>9 DEF Holding, ExecutePipe, BenefitTypeOK
    <3>3. Cardinality(Holding(t)') <= Cardinality(Holding(t))
      BY <1>2, <3>2, NoMoreTakers
    <3>. QED
      BY <1>4, <1>5, <1>6, <2>1, <3>1, <3>3
  <2>. QED
    BY <2>2, <2>3
<1>10. CASE /\ ~(\E r \in Takers : SetToken(r))
            /\ ~(\E r \in Takers : ExecutePipe(r))
  <2>1. spent' = spent /\ sets' = sets /\ token' = token
    BY <1>10 DEF BenefitNext, ReliefStep, Tick, GetBenefitInfo, TakeBenefit,
       CheckToken, CheckDate, LocalDate, CanTakeBenefit, TakeDate, SetExpire,
       Midnight, DropTable, benefitVars, store, history
  <2>2. CASE token = t
    BY <1>3, <1>4, <1>5, <1>6, <2>1, <2>2
  <2>3. CASE token # t
    BY <1>4, <1>5, <1>6, <1>7, <2>1, <2>3
  <2>. QED
    BY <2>2, <2>3
<1>. QED
  BY <1>8, <1>9, <1>10

----------------------------------------------------------------------------
LEMMA BenefitInvariant == BenefitSpec => []BenefitInv
<1>1. BenefitInv /\ [BenefitNext]_benefitVars => BenefitInv'
  BY BenefitTypes, TokensStep, DatesStep, LateStep, HoldingStep DEF BenefitInv
<1>. QED
  BY InitBenefit, <1>1, PTL DEF BenefitSpec

\* Every reachable state of the relief coins is well typed.
THEOREM BenefitTypeCorrect == BenefitSpec => []BenefitTypeOK
  BY BenefitInvariant, PTL DEF BenefitInv

\* However many threads serve takeBenefit, and however midnight falls between
\* the two dates a request computes, a day's grants exceed save_times by
\* fewer than there are threads.
THEOREM DailyOvershoot == BenefitSpec => []DailyOvershootBounded
<1>1. BenefitInv => DailyOvershootBounded
  <2>1. SUFFICES ASSUME BenefitInv, NEW d \in Days
                 PROVE  taken[d] <= SaveTimes - 1 + Cardinality(Takers)
    BY DEF DailyOvershootBounded
  <2>2. /\ taken[d] \in Nat /\ SaveTimes \in Nat \ {0}
        /\ Cardinality(Takers) \in Nat
    BY <2>1, BenefitAssumption, TakersCount DEF BenefitInv, BenefitTypeOK
  <2>3. CASE taken[d] >= SaveTimes
    <3>1. Late(d) \in SUBSET Takers
      BY DEF Late
    <3>2. Cardinality(Late(d)) \in Nat
      BY <3>1, NoMoreTakers
    <3>3. taken[d] + Cardinality(Late(d))
            <= SaveTimes - 1 + Cardinality(Takers)
      BY <2>1, <2>3 DEF BenefitInv, LateBounded
    <3>. QED
      BY <2>2, <3>2, <3>3
  <2>4. CASE ~(taken[d] >= SaveTimes)
    BY <2>2, <2>4
  <2>. QED
    BY <2>3, <2>4
<1>. QED
  BY <1>1, BenefitInvariant, PTL

\* A token of getBenefitInfo is worth at most one grant per thread for each
\* time it was SET, although calls within one instant make the same token.
THEOREM TokenOvershoot == BenefitSpec => []TokenOvershootBounded
<1>1. BenefitInv => TokenOvershootBounded
  <2>1. SUFFICES ASSUME BenefitInv, NEW t \in Tokens
                 PROVE  spent[t] <= sets[t] * Cardinality(Takers)
    BY DEF TokenOvershootBounded
  <2>2. spent[t] \in Nat /\ sets[t] \in Nat
    BY <2>1 DEF BenefitInv, BenefitTypeOK
  <2>3. Holding(t) \in SUBSET Takers
    BY DEF Holding
  <2>4. Cardinality(Holding(t)) \in Nat
    BY <2>3, NoMoreTakers
  <2>5. Worth(sets[t]) \in Nat
    BY <2>2, WorthMore
  <2>6. spent[t] + Cardinality(Holding(t)) <= Worth(sets[t])
    BY <2>1 DEF BenefitInv, HoldingBounded
  <2>7. spent[t] <= Worth(sets[t])
    BY <2>2, <2>4, <2>5, <2>6
  <2>. QED
    BY <2>7 DEF Worth
<1>. QED
  BY <1>1, BenefitInvariant, PTL
============================================================================
