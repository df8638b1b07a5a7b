---------------------------- MODULE MCRateLimiter ----------------------------
(* RateLimiter on a small instance: see MCRateLimiter.cfg. *)
EXTENDS RateLimiter, TLC

Symmetry == Permutations(Procs) \cup Permutations(Buckets) \cup Permutations(Addrs)
=============================================================================
