---------------------------- MODULE CachedReplies ----------------------------
(***************************************************************************)
(* CachedStore with two history variables that say what its answers are    *)
(* worth: what the key of a request has been since the request began (as   *)
(* in PostgresReplies), and how many ticks ago each snippet last was each  *)
(* row.  The first relates the inner store to SnippetContract, the second  *)
(* relates what a client is shown, from Redis or not, to the past of the   *)
(* table.                                                                  *)
(***************************************************************************)
EXTENDS CachedStore, PostgresReplies

VARIABLE ago

historyVars == <<allVars, seen, ago>>

(* Past Window ticks nothing is counted: a row of longer ago, or of never.  *)
Window == TTL + MaxLag

HistoryInit ==
  /\ CacheInit
  /\ seen = [p \in Procs |-> {}]
  /\ ago = [id \in Ids |->
              [row \in Row |-> IF rows[id] = row THEN 0 ELSE Window]]

(* The row a snippet is now was there 0 ticks ago; time moves the others    *)
(* away, if it `passes` in this step.                                       *)
Recall(passes) ==
  ago' = [id \in Ids |->
            [row \in Row |->
               IF rows'[id] = row THEN 0
               ELSE IF passes THEN Older(ago[id][row]) ELSE ago[id][row]]]

HistoryNext ==
  /\ \/ Tick /\ Recall(TRUE)
     \/ /\ \E p \in Procs : Start(p) \/ Inner(p) \/ Redis(p) \/ Die(p)
        /\ Recall(FALSE)
  /\ Observe

HistorySpec == HistoryInit /\ [][HistoryNext]_historyVars

FairHistorySpec == HistorySpec /\ Fairness

-----------------------------------------------------------------------------
(* Properties *)

(* Types of the histories. *)
HistoryTypeOK ==
  /\ seen \in [Procs -> SUBSET (Row \cup {None} \cup Listings)]
  /\ ago \in [Ids -> [Row -> 0..Window]]

(* The row that value `val` of key `k` shows for a snippet, if it does:     *)
(* alone, or on the page of a listing.                                      *)
Shown(k, val, id) ==
  CASE k \notin Ids -> val.page[id]
    [] k = id      -> val
    [] OTHER       -> None

Recent(k, val) ==
  \A id \in Ids :
    Shown(k, val, id) # None => ago[id][Shown(k, val, id)] < Window

(* No client is shown a version of a snippet that was replaced or deleted   *)
(* longer than the TTL plus the slowest read ago: not from an entry of its  *)
(* own, not on a page of the list or of a search, not by a query that was   *)
(* slow or broke off - whatever DELs are lost, whoever stops, and however   *)
(* SETs and DELs of different replicas meet.                                *)
ShownRecently ==
  TTL > 0 =>
    /\ \A k \in Keys : Cached(k) => Recent(k, cache[k].val)
    /\ \A p \in Procs : Cacheable(p) => Recent(req[p].key, reply[p].val)
=============================================================================
