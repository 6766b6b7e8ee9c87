------------------------------- MODULE MCMail -------------------------------
(* Letters between players, instantiated for TLC.                          *)
EXTENDS Mail, TLC

\* One number of warheads is negative: nothing keeps a client from sending it.
MCWarheads == {0, -1}

Perms == Permutations(Threads) \cup Permutations(Users)
=============================================================================
