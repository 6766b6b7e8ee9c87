----------------------------- MODULE MCSession -----------------------------
(* Logins and sessions, instantiated for TLC.                              *)
EXTENDS Session, TLC

Perms == Permutations(Threads)
============================================================================
