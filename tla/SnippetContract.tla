--------------------------- MODULE SnippetContract ---------------------------
(***************************************************************************)
(* What every implementation of the Store interface owes its callers for   *)
(* snippets, said without statements, locks or snapshots: a request has at *)
(* most one effect, at one moment; the effect is one its user may have at  *)
(* that moment; and the answer is explained by what the request's snippet  *)
(* (or listing) has been while the request was under way.  An answer that  *)
(* hides a database error is the only one that needs no explanation.       *)
(***************************************************************************)
EXTENDS Snippets

CONSTANT Procs

VARIABLES
  rows,   \* the stored snippets
  used,   \* ids taken so far
  req,    \* request under way, per process
  seen,   \* values the request's key has had since it began
  reply   \* its answer, once there is one

vars == <<rows, used, req, seen, reply>>

Init ==
  /\ rows \in Tables
  /\ used = Stored(rows)
  /\ req = [p \in Procs |-> NoRequest]
  /\ seen = [p \in Procs |-> {}]
  /\ reply = [p \in Procs |-> NoReply]

(* Every step adds the current value of its key to what a request has seen. *)
Watch ==
  seen' = [p \in Procs |->
             IF req'[p].key = None THEN {}
                                   ELSE seen[p] \cup {View(req'[p].key, rows')}]

Call(p) ==
  /\ req[p] = NoRequest
  /\ \E r \in Requests : req' = [req EXCEPT ![p] = r]
  /\ Watch
  /\ UNCHANGED <<rows, used, reply>>

-----------------------------------------------------------------------------
(* Effects *)

(* The contents an insert may store: the client's, or a copy of what the    *)
(* forked snippet has been.                                                 *)
Insertable(p) ==
  IF req[p].op = "fork" THEN {row.text : row \in seen[p] \ {None}}
                        ELSE {req[p].text}

Insert(p, id, text) ==
  /\ req[p].op \in Inserts
  /\ id \notin used
  /\ text \in Insertable(p)
  /\ rows' = [rows EXCEPT ![id] = [owner |-> req[p].user, text |-> text]]
  /\ used' = used \cup {id}

LoseInsert(p, id) ==
  /\ req[p].op \in Inserts
  /\ id \notin used
  /\ used' = used \cup {id}
  /\ UNCHANGED rows

OwnRow(p) ==
  /\ rows[req[p].key] # None
  /\ MayWrite(rows[req[p].key], req[p].user)

Overwrite(p) ==
  /\ req[p].op = "update"
  /\ OwnRow(p)
  /\ rows' = [rows EXCEPT ![req[p].key] = WithText(@, req[p].text)]
  /\ UNCHANGED used

Remove(p) ==
  /\ req[p].op = "delete"
  /\ OwnRow(p)
  /\ rows' = [rows EXCEPT ![req[p].key] = None]
  /\ UNCHANGED used

Effect(p) ==
  \/ \E id \in Ids, text \in Texts : Insert(p, id, text)
  \/ \E id \in Ids : LoseInsert(p, id)
  \/ Overwrite(p)
  \/ Remove(p)
  \/ UNCHANGED <<rows, used>>

-----------------------------------------------------------------------------
(* Answers explained by seen', the values up to and including this step *)

Was(p, row) == row \in seen'[p]
WasWritable(p) ==
  \E row \in seen'[p] \ {None} : MayWrite(row, req[p].user)
WasForeign(p) ==
  \E row \in seen'[p] \ {None} : ~MayWrite(row, req[p].user)

ListingExplained(p, val) ==
  /\ \E v \in seen'[p] : v.total = val.total
  /\ \E v \in seen'[p] : v.page = val.page

Stores(p, row) == \E id \in used' \ used : rows'[id] = row

(* 200/201: a read returns what was there, an insert has stored its row, an *)
(* update has taken effect unless the snippet was gone, a delete leaves the *)
(* snippet gone.                                                            *)
OkExplained(p, val) ==
  LET op == req[p].op
  IN \/ op = "get" /\ val # None /\ Was(p, val)
     \/ op = "list" /\ ListingExplained(p, val)
     \/ op \in Inserts /\ Stores(p, val)
     \/ /\ op = "update"
        /\ WasWritable(p)
        /\ val.text = req[p].text
        /\ \/ Was(p, None)
           \/ rows'[req[p].key] = val
     \/ op = "delete" /\ WasWritable(p) /\ Was(p, None)

Explained(p, r) ==
  \/ r.failed
  \/ r.status = "OK" /\ OkExplained(p, r.val)
  \/ r.status = "NotFound" /\ req[p].op # "list" /\ Was(p, None)
  \/ r.status = "Forbidden" /\ req[p].op \in OwnedWrites /\ WasForeign(p)

Finish(p) ==
  /\ req[p] # NoRequest
  /\ reply[p] = NoReply
  /\ Effect(p)
  /\ UNCHANGED req
  /\ Watch
  /\ reply' = [reply EXCEPT ![p] = reply'[p]]
  /\ reply'[p] \in Replies
  /\ Explained(p, reply'[p])

(* The answer goes out, or the request is abandoned without one. *)
Return(p) ==
  /\ req[p] # NoRequest
  /\ req' = [req EXCEPT ![p] = NoRequest]
  /\ reply' = [reply EXCEPT ![p] = NoReply]
  /\ Watch
  /\ UNCHANGED <<rows, used>>

Next == \E p \in Procs : Call(p) \/ Finish(p) \/ Return(p)

Spec == Init /\ [][Next]_vars
=============================================================================
