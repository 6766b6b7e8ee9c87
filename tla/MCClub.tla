------------------------------- MODULE MCClub -------------------------------
(* Clubs, instantiated for TLC.                                            *)
EXTENDS Club, TLC

Perms == Permutations(Threads) \cup Permutations(Accounts)
============================================================================
