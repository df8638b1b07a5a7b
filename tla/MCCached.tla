------------------------------ MODULE MCCached ------------------------------
(* CachedStore on small instances: see MCCached.cfg and the other .cfg files *)
(* that name this module.                                                    *)
EXTENDS CachedStore, TLC

MCListKeys == {"list", "search"}

Symmetry == Permutations(Procs) \cup Permutations(Users)
              \cup Permutations(Ids) \cup Permutations(Texts)
=============================================================================
