------------------------------ MODULE MCParty ------------------------------
(* Party matchmaking, instantiated for TLC.                                *)
EXTENDS Party, TLC

Perms == Permutations(Accounts)
============================================================================
