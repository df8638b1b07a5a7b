------------------------------ MODULE MCMemory ------------------------------
(* MemoryStore on small instances: see MCMemory.cfg and MCMemoryLive.cfg. *)
EXTENDS MemoryStore, TLC

MCListKeys == {"list"}
MCWritten == -2 .. 18

Symmetry == Permutations(Procs) \cup Permutations(Users) \cup Permutations(Ids)
=============================================================================
