----------------------------- MODULE MCAccounts -----------------------------
(* Accounts on a small instance: see MCAccounts.cfg. *)
EXTENDS Accounts, TLC

CONSTANTS short, other, long

MCPasswords == {short, other, long}

(* A password of more than 72 bytes that begins with one of exactly 72. *)
MCHead == [pw \in MCPasswords |-> IF pw = long THEN short ELSE pw]

Symmetry == Permutations(Procs) \cup Permutations(Ids) \cup Permutations(Names)
=============================================================================
