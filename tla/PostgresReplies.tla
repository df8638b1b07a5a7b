--------------------------- MODULE PostgresReplies ---------------------------
(***************************************************************************)
(* PostgresStore with a history variable: the values that the key of each  *)
(* request has had since the request began.  It is what relates an answer, *)
(* put together from several statements, to the table over time, and it    *)
(* completes the mapping of PostgresStore to SnippetContract.              *)
(***************************************************************************)
EXTENDS PostgresStore

VARIABLE seen

obsVars == <<rows, used, pc, req, snap, count, reply, faults, seen>>

ObsInit == Init /\ seen = [p \in Procs |-> {}]

(* What a request has seen after a step, as in SnippetContract. *)
Observe ==
  seen' = [p \in Procs |->
             IF req'[p].key = None THEN {}
                                   ELSE seen[p] \cup {View(req'[p].key, rows')}]

ObsNext == Next /\ Observe

ObsSpec == ObsInit /\ [][ObsNext]_obsVars

Contract == INSTANCE SnippetContract

(* PostgresStore honours the contract of the Store interface: whatever the  *)
(* interleaving of statements, each request has at most one effect, allowed *)
(* to its user when it takes place, and unless a database error lies behind *)
(* it the answer is explained by what the snippet was during the request.   *)
HonoursContract == Contract!Spec

(* Types of the store with its history, and that each handler is at a       *)
(* statement its request has.                                               *)
ObsTypeInv ==
  /\ TypeInv
  /\ seen \in [Procs -> SUBSET (Row \cup {None} \cup Listings)]
=============================================================================
