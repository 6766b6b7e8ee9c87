----------------------------- MODULE MCBenefit -----------------------------
(* Relief coins, instantiated for TLC.                                     *)
EXTENDS Benefit, TLC

\* The server threads are interchangeable.
Perms == Permutations(Takers)
============================================================================
