---------------------------- MODULE PostgresStore ----------------------------
(***************************************************************************)
(* The snippet operations of service/postgres_store.go, as concurrent HTTP *)
(* handlers run them.  Each SQL statement is one atomic step and there is  *)
(* no transaction around the statements of an operation, so the steps of   *)
(* different requests interleave.  Any statement may report an error; a    *)
(* write that reports one may have been applied all the same (the          *)
(* connection broke after the commit).                                     *)
(***************************************************************************)
EXTENDS Snippets

CONSTANTS
  Procs,     \* request handlers
  MaxFaults  \* bound on the number of failures in a behaviour

ASSUME PostgresAssumption == MaxFaults \in Nat

VARIABLES
  rows,    \* table snippets
  used,    \* ids drawn so far by uuid.New()
  pc,      \* next statement of each handler
  req,     \* request each handler serves
  snap,    \* row read by the GetSnippet inside update, delete and fork
  count,   \* result of SELECT COUNT(*)
  reply,   \* what the operation returned
  faults   \* failures so far

vars == <<rows, used, pc, req, snap, count, reply, faults>>

Steps == {"idle", "count", "select", "query", "exec", "reply"}

(* The database keeps its rows over restarts of the backend: any table is   *)
(* a possible start.                                                        *)
Init ==
  /\ rows \in Tables
  /\ used = Stored(rows)
  /\ pc = [p \in Procs |-> "idle"]
  /\ req = [p \in Procs |-> NoRequest]
  /\ snap = [p \in Procs |-> None]
  /\ count = [p \in Procs |-> 0]
  /\ reply = [p \in Procs |-> NoReply]
  /\ faults = 0

-----------------------------------------------------------------------------
(* Calls *)

Begin(p, step, request) ==
  /\ pc[p] = "idle"
  /\ pc' = [pc EXCEPT ![p] = step]
  /\ req' = [req EXCEPT ![p] = request]
  /\ UNCHANGED <<rows, used, snap, count, reply, faults>>

(* Ids are finite here: an insert begins only while one is left for it. *)
IdLeft ==
  Cardinality(used) + Cardinality({p \in Procs : req[p].op \in Inserts})
    < Cardinality(Ids)

GetSnippet(p) ==
  \E id \in Ids : Begin(p, "query", Request("get", id, None, None))

(* ListSnippets and SearchSnippets run the same two statements over the     *)
(* rows that match.  The page modelled holds every match (offset 0).        *)
ListSnippets(p) ==
  \E key \in ListKeys : Begin(p, "count", Request("list", key, None, None))

CreateSnippet(p) ==
  /\ IdLeft
  /\ \E user \in Users, text \in Texts :
       Begin(p, "exec", Request("create", None, user, text))

UpdateSnippet(p) ==
  \E id \in Ids, user \in Users, text \in Texts :
    Begin(p, "query", Request("update", id, user, text))

DeleteSnippet(p) ==
  \E id \in Ids, user \in Users :
    Begin(p, "query", Request("delete", id, user, None))

ForkSnippet(p) ==
  /\ IdLeft
  /\ \E id \in Ids, user \in Users :
       Begin(p, "query", Request("fork", id, user, None))

-----------------------------------------------------------------------------
(* Statements *)

Answer(p, r) ==
  /\ pc' = [pc EXCEPT ![p] = "reply"]
  /\ reply' = [reply EXCEPT ![p] = r]
  /\ UNCHANGED req

Fail ==
  /\ faults < MaxFaults
  /\ faults' = faults + 1

(* Mutant of Refused: the check is dropped. *)
NeverRefused(p, row) == FALSE

(* The ownership check of UpdateSnippet and DeleteSnippet. *)
Refused(p, row) == req[p].op \in OwnedWrites /\ ~MayWrite(row, req[p].user)

(* SELECT ... WHERE id = $1, and the checks each operation makes on it. *)
Query(p) ==
  LET row == rows[req[p].key]
      op == req[p].op
  IN /\ pc[p] = "query"
     /\ \/ /\ row = None
           /\ Answer(p, Reply("NotFound", None, FALSE))
           /\ UNCHANGED snap
        \/ /\ row # None
           /\ op = "get"
           /\ Answer(p, Reply("OK", row, FALSE))
           /\ UNCHANGED snap
        \/ /\ row # None
           /\ Refused(p, row)
           /\ Answer(p, Reply("Forbidden", None, FALSE))
           /\ UNCHANGED snap
        \/ /\ row # None
           /\ op # "get"
           /\ ~Refused(p, row)
           /\ pc' = [pc EXCEPT ![p] = "exec"]
           /\ snap' = [snap EXCEPT ![p] = row]
           /\ UNCHANGED <<req, reply>>
     /\ UNCHANGED <<rows, used, count, faults>>

(* Any other error of that SELECT is answered like a missing row. *)
QueryFails(p) ==
  /\ pc[p] = "query"
  /\ Fail
  /\ Answer(p, Reply("NotFound", None, TRUE))
  /\ UNCHANGED <<rows, used, snap, count>>

(* The part of the table that holds the snippets of `ids`. *)
Part(ids) == [id \in Ids |-> IF id \in ids THEN rows[id] ELSE None]

Count(p) ==
  LET total == Cardinality(Stored(rows))
  IN /\ pc[p] = "count"
     /\ \/ /\ total = 0
           /\ Answer(p, Reply("OK", Listing(0, EmptyTable), FALSE))
           /\ UNCHANGED count
        \/ /\ total > 0
           /\ pc' = [pc EXCEPT ![p] = "select"]
           /\ count' = [count EXCEPT ![p] = total]
           /\ UNCHANGED <<req, reply>>
     /\ UNCHANGED <<rows, used, snap, faults>>

CountFails(p) ==
  /\ pc[p] = "count"
  /\ Fail
  /\ Answer(p, Reply("OK", Listing(0, EmptyTable), TRUE))
  /\ UNCHANGED <<rows, used, snap, count>>

Select(p) ==
  /\ pc[p] = "select"
  /\ Answer(p, Reply("OK", Listing(count[p], rows), FALSE))
  /\ UNCHANGED <<rows, used, snap, count, faults>>

(* The statement fails, or rows.Next() and rows.Scan() do on some rows: the *)
(* page has what was read, and nothing asks for rows.Err().                 *)
SelectFails(p) ==
  /\ pc[p] = "select"
  /\ Fail
  /\ \E read \in SUBSET Ids :
       Answer(p, Reply("OK", Listing(count[p], Part(read)), TRUE))
  /\ UNCHANGED <<rows, used, snap, count>>

(* Mutant of NewRow: a fork takes its text from the request. *)
ForkOfNothing(p) == [owner |-> req[p].user, text |-> req[p].text]

(* The row INSERT stores: a fork copies the snapshot, not the current row. *)
NewRow(p) ==
  [owner |-> req[p].user,
   text |-> IF req[p].op = "fork" THEN snap[p].text ELSE req[p].text]

Insert(p) ==
  /\ pc[p] = "exec"
  /\ req[p].op \in Inserts
  /\ \E id \in Ids \ used :
       /\ rows' = [rows EXCEPT ![id] = NewRow(p)]
       /\ used' = used \cup {id}
  /\ Answer(p, Reply("OK", NewRow(p), FALSE))
  /\ UNCHANGED <<snap, count, faults>>

(* An id that was drawn is never drawn again, stored or not.  CreateSnippet *)
(* only logs the error; ForkSnippet reports it as a missing snippet.        *)
InsertFails(p) ==
  /\ pc[p] = "exec"
  /\ req[p].op \in Inserts
  /\ Fail
  /\ \E id \in Ids \ used :
       /\ rows' \in {rows, [rows EXCEPT ![id] = NewRow(p)]}
       /\ used' = used \cup {id}
  /\ Answer(p, IF req[p].op = "create" THEN Reply("OK", NewRow(p), TRUE)
                                       ELSE Reply("NotFound", None, TRUE))
  /\ UNCHANGED <<snap, count>>

(* Mutant of Overwritten: an update stores its row whether it is there or   *)
(* not.                                                                     *)
Upserted(p) ==
  [rows EXCEPT ![req[p].key] = [owner |-> req[p].user, text |-> req[p].text]]

(* UPDATE ... WHERE id = $5 does nothing, successfully, on a missing row. *)
Overwritten(p) ==
  LET id == req[p].key
  IN IF rows[id] = None THEN rows
                        ELSE [rows EXCEPT ![id] = WithText(@, req[p].text)]

Update(p) ==
  /\ pc[p] = "exec"
  /\ req[p].op = "update"
  /\ rows' = Overwritten(p)
  /\ Answer(p, Reply("OK", WithText(snap[p], req[p].text), FALSE))
  /\ UNCHANGED <<used, snap, count, faults>>

(* Mutant of Removed: WHERE also asks for the owner, and leaves the snippets *)
(* that have none.                                                          *)
RemovedByOwner(p) ==
  [rows EXCEPT ![req[p].key] =
     IF @ # None /\ @.owner = req[p].user THEN None ELSE @]

Removed(p) == [rows EXCEPT ![req[p].key] = None]

Delete(p) ==
  /\ pc[p] = "exec"
  /\ req[p].op = "delete"
  /\ rows' = Removed(p)
  /\ Answer(p, Reply("OK", None, FALSE))
  /\ UNCHANGED <<used, snap, count, faults>>

(* An error of UPDATE or DELETE is answered like a foreign snippet. *)
OwnedWriteFails(p) ==
  /\ pc[p] = "exec"
  /\ req[p].op \in OwnedWrites
  /\ Fail
  /\ rows' \in {rows, IF req[p].op = "update" THEN Overwritten(p)
                                              ELSE Removed(p)}
  /\ Answer(p, Reply("Forbidden", None, TRUE))
  /\ UNCHANGED <<used, snap, count>>

(* The goroutine of the request ends. *)
Reset(p) ==
  /\ pc' = [pc EXCEPT ![p] = "idle"]
  /\ req' = [req EXCEPT ![p] = NoRequest]
  /\ snap' = [snap EXCEPT ![p] = None]
  /\ count' = [count EXCEPT ![p] = 0]
  /\ reply' = [reply EXCEPT ![p] = NoReply]
  /\ UNCHANGED <<rows, used>>

(* The handler writes its response. *)
Return(p) ==
  /\ pc[p] = "reply"
  /\ Reset(p)
  /\ UNCHANGED faults

(* A replica stops between two statements of a request, or after the last   *)
(* one and before the response: nobody goes on with the request.            *)
Crash(p) ==
  /\ pc[p] # "idle"
  /\ Fail
  /\ Reset(p)

-----------------------------------------------------------------------------
Call(p) ==
  \/ GetSnippet(p)
  \/ ListSnippets(p)
  \/ CreateSnippet(p)
  \/ UpdateSnippet(p)
  \/ DeleteSnippet(p)
  \/ ForkSnippet(p)

Statement(p) ==
  \/ Query(p)
  \/ QueryFails(p)
  \/ Count(p)
  \/ CountFails(p)
  \/ Select(p)
  \/ SelectFails(p)
  \/ Insert(p)
  \/ InsertFails(p)
  \/ Update(p)
  \/ Delete(p)
  \/ OwnedWriteFails(p)

Next == \E p \in Procs : Call(p) \/ Statement(p) \/ Return(p) \/ Crash(p)

Spec == Init /\ [][Next]_vars

-----------------------------------------------------------------------------
(* Properties *)

(* Types: a stored snippet, an answer and a snapshot are well formed, and    *)
(* only a user, never a piece of a request, owns a snippet.                  *)
TypeOK ==
  /\ rows \in Tables
  /\ used \subseteq Ids
  /\ pc \in [Procs -> Steps]
  /\ req \in [Procs -> Requests \cup {NoRequest}]
  /\ snap \in [Procs -> Row \cup {None}]
  /\ count \in [Procs -> Nat]
  /\ reply \in [Procs -> Replies \cup {NoReply}]
  /\ faults \in 0..MaxFaults

(* The request of a handler fits the statement it is at, and a read that is *)
(* answered with success has something to return.                           *)
StepFits(p) ==
  /\ pc[p] = "idle" <=> req[p] = NoRequest
  /\ pc[p] = "query" => req[p].op \in {"get", "fork"} \cup OwnedWrites
  /\ pc[p] \in {"count", "select"} => req[p].op = "list"
  /\ pc[p] = "exec" => req[p].op \in Inserts \cup OwnedWrites
  /\ pc[p] = "exec" /\ req[p].op # "create" => snap[p] \in Row
  /\ IF pc[p] = "reply" THEN reply[p] \in Replies ELSE reply[p] = NoReply
  /\ req[p].op \in Reads /\ reply[p].status = "OK" =>
       reply[p].val \in Row \cup Listings

TypeInv == TypeOK /\ \A p \in Procs : StepFits(p)

(* What a handler about to write knows of the row it read: its user may     *)
(* write it, and if the snippet is still stored it still has that owner.    *)
(* This is why the ownership check may be made before the statement, outside *)
(* any transaction.                                                         *)
SnapshotHolds(p) ==
  pc[p] = "exec" /\ req[p].op # "create" =>
    /\ req[p].key \in used
    /\ req[p].op \in OwnedWrites => MayWrite(snap[p], req[p].user)
    /\ rows[req[p].key] # None => rows[req[p].key].owner = snap[p].owner

SnapshotInv ==
  /\ Stored(rows) \subseteq used
  /\ \A p \in Procs : SnapshotHolds(p)

(* A stored snippet is changed or removed only by the statement of an       *)
(* update or delete whose user may write the row AS IT IS when the          *)
(* statement runs, and a change never alters its owner.  The ownership      *)
(* check of UpdateSnippet and DeleteSnippet is made on an earlier read, and *)
(* the statement's WHERE clause does not repeat it.                         *)
OwnerStep(id) ==
  /\ rows'[id] # None => rows'[id].owner = rows[id].owner
  /\ \E p \in Procs :
       /\ pc[p] = "exec"
       /\ req[p].op \in OwnedWrites
       /\ req[p].key = id
       /\ MayWrite(rows[id], req[p].user)

OnlyOwnerWrites ==
  [][\A id \in Stored(rows) : rows'[id] # rows[id] => OwnerStep(id)]_vars

(* An id names one snippet for ever: a snippet that was removed does not    *)
(* come back, whatever writes were in flight when it went.                  *)
GoneForGood ==
  [][\A id \in used \ Stored(rows) : rows'[id] = None]_vars

(* A created snippet is stored: openapi answers 201 with "snippet created". *)
CreatedIsStored ==
  [][\A p \in Procs :
       /\ req[p].op = "create"
       /\ pc[p] = "exec"
       /\ reply'[p].status = "OK"
       => \E id \in Ids \ Stored(rows) : rows'[id] = NewRow(p)]_vars
=============================================================================
