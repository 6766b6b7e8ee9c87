------------------------------ MODULE MCWallet ------------------------------
(* Purse and safe box, instantiated for TLC.                               *)
EXTENDS Wallet, TLC

\* Item 3 stands for every item that is neither diamond nor coin.
MCItems == {1, 2, 3}
MCStart == [i \in MCItems |-> 1]
MCStartGoods == [i \in MCItems |-> IF i = 3 THEN 1 ELSE 0]

Course(ct, gt) == [cost_type |-> ct, gain_type |-> gt, cost |-> 1, gain |-> 1]

\* One course for each branch of the handler.
MCCourses == {Course(1, 2), Course(2, 1), Course(3, 2)}

\* Goods without and with a present.
MCGoods == {[cards |-> 1, present |-> 0, price |-> 1],
            [cards |-> 1, present |-> 1, price |-> 2]}

\* A price worth three doors, and a negative one.
MCPrices == {3, -2}
MCDoors == <<1, 2, 3>>

\* The server threads are interchangeable.
Perms == Permutations(Requests)
=============================================================================
