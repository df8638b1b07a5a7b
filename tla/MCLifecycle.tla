----------------------------- MODULE MCLifecycle -----------------------------
(* Lifecycle on a small instance: see MCLifecycle.cfg.  The server's binary  *)
(* is one migration behind that of the command line, as in a rollout.        *)
EXTENDS Lifecycle

MCReplicas == {"server"}
MCOperators == {"cli"}
MCLatest == [s \in MCReplicas \cup MCOperators |-> IF s = "server" THEN 1 ELSE 2]
=============================================================================
