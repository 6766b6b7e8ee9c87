----------------------------- MODULE MCPayment -----------------------------
(* Orders and receipts, instantiated for TLC.                              *)
EXTENDS Payment, TLC

Perms == Permutations(Threads)
============================================================================
