----------------------------- MODULE MCRewards -----------------------------
(* Rewards that are given once, instantiated for TLC.                      *)
EXTENDS Rewards, TLC

Perms == Permutations(Threads) \cup Permutations(Users)
============================================================================
