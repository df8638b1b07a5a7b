----------------------------- MODULE MCPostgres -----------------------------
(* PostgresReplies on a small instance: see MCPostgres.cfg. *)
EXTENDS PostgresReplies, TLC

MCListKeys == {"list"}

Symmetry == Permutations(Procs) \cup Permutations(Users)
              \cup Permutations(Ids) \cup Permutations(Texts)
=============================================================================
