------------------------------- MODULE Quota -------------------------------
(***************************************************************************)
(* What a limit is worth when it is compared by one command and used up by *)
(* a later one.  A request that finds fewer than Limit uses of a key may   *)
(* use it later, whatever others have used meanwhile.  Handlers of this    *)
(* form implement this specification, and so overshoot the limit by no     *)
(* more than one use for each other request.                               *)
(***************************************************************************)
EXTENDS Naturals, FiniteSets

CONSTANTS
    Keys,      \* what is limited, each key on its own
    Requests,  \* those who may be between comparison and use
    Limit      \* the uses of a key that the comparison allows

VARIABLES
    used,     \* the uses of each key
    holders   \* the requests that have passed the comparison of each key

vars == <<used, holders>>

Init ==
    /\ used \in [Keys -> 0..Limit]
    /\ holders = [k \in Keys |-> {}]

\* The comparison of request r succeeds.
Pass(k, r) ==
    /\ used[k] < Limit
    /\ r \in holders'[k] \ holders[k]
    /\ holders' = [holders EXCEPT ![k] = @ \cup {r}]
    /\ UNCHANGED used

\* Request r uses the key, without looking again.
Use(k, r) ==
    /\ r \in holders[k]
    /\ used' = [used EXCEPT ![k] = @ + 1]
    /\ holders' = [holders EXCEPT ![k] = @ \ {r}]

\* Request r ends without having used the key.
GiveUp(k, r) ==
    /\ r \in holders[k]
    /\ holders' = [holders EXCEPT ![k] = @ \ {r}]
    /\ UNCHANGED used

\* A use is given back.
Free(k) ==
    /\ used[k] > 0
    /\ used' = [used EXCEPT ![k] = @ - 1]
    /\ UNCHANGED holders

Next ==
    \E k \in Keys :
        \/ \E r \in Requests : Pass(k, r) \/ Use(k, r) \/ GiveUp(k, r)
        \/ Free(k)

Spec == Init /\ [][Next]_vars

----------------------------------------------------------------------------
\* A key is used at most once beyond its limit for each other request.
UsesBounded ==
    \A k \in Keys : used[k] < Limit + Cardinality(Requests)
============================================================================
