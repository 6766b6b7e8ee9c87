----------------------------- MODULE MCFriends -----------------------------
(* Friends and friend requests, instantiated for TLC.                      *)
EXTENDS Friends, TLC

Perms == Permutations(Threads) \cup Permutations(Users)
============================================================================
