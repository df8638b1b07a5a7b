------------------------------ MODULE MCShares ------------------------------
(* Shares on a small instance: see MCShares.cfg. *)
EXTENDS Shares, TLC

Symmetry == Permutations(Procs) \cup Permutations(Tokens)
=============================================================================
