------------------------ MODULE PostgresStore_proofs ------------------------
(***************************************************************************)
(* Proofs about PostgresStore, for any number of handlers, users, snippets *)
(* and failures.  Type correctness comes first; then the invariant that a  *)
(* snapshot still tells the owner of the row; the action properties follow *)
(* from it.                                                                *)
(***************************************************************************)
EXTENDS PostgresStore, FiniteSetTheorems, TLAPS

(* The fields of a request, by the operation that was asked for. *)
LEMMA RequestFields ==
  ASSUME NEW r \in Requests
  PROVE  /\ r # NoRequest
         /\ r.op \in Ops
         /\ r.op = "list" => r.key \in ListKeys
         /\ r.op \in {"get", "fork"} \cup OwnedWrites => r.key \in Ids
         /\ r.op \in Inserts \cup OwnedWrites => r.user \in Users
         /\ r.op \in {"create", "update"} => r.text \in Texts
BY DEF Requests, Request, NoRequest, Ops, Reads, Inserts, OwnedWrites

(* The number of stored snippets is a number. *)
LEMMA StoredCount ==
  ASSUME NEW table \in Tables
  PROVE  Cardinality(Stored(table)) \in Nat
<1>1. IsFiniteSet(Ids)
  BY SnippetsAssumption
<1>2. Stored(table) \subseteq Ids
  BY DEF Stored
<1>3. IsFiniteSet(Stored(table))
  BY <1>1, <1>2, FS_Subset
<1> QED
  BY <1>3, FS_CardinalityType

LEMMA InitTypeInv == Init => TypeInv
<1> SUFFICES ASSUME Init PROVE TypeInv
  OBVIOUS
<1>1. TypeOK
  BY PostgresAssumption DEF Init, TypeOK, Steps, Stored
<1>2. ASSUME NEW p \in Procs PROVE StepFits(p)
  BY DEF Init, StepFits, NoRequest, Request, Reads, NoReply, Reply
<1> QED
  BY <1>1, <1>2 DEF TypeInv

(* The six calls: an idle handler takes a request. *)
LEMMA BeginTypeInv ==
  ASSUME TypeInv, NEW p \in Procs, NEW step, NEW r \in Requests,
         \/ step = "query" /\ r.op \in {"get", "fork"} \cup OwnedWrites
         \/ step = "count" /\ r.op = "list"
         \/ step = "exec" /\ r.op = "create",
         Begin(p, step, r)
  PROVE  TypeInv'
<1>1. TypeOK'
  BY DEF TypeInv, TypeOK, Begin, Steps
<1>2. ASSUME NEW q \in Procs PROVE StepFits(q)'
  <2>1. CASE q = p
    <3>1. reply'[p] = NoReply /\ NoReply.status # "OK"
      BY DEF TypeInv, StepFits, Begin, NoReply, Reply
    <3> QED
      BY <2>1, <3>1, RequestFields DEF TypeInv, TypeOK, Begin, StepFits, Inserts
  <2>2. CASE q # p
    BY <2>2 DEF TypeInv, TypeOK, Begin, StepFits
  <2> QED
    BY <2>1, <2>2
<1> QED
  BY <1>1, <1>2 DEF TypeInv

LEMMA CallTypeInv ==
  ASSUME TypeInv, NEW p \in Procs, Call(p)
  PROVE  TypeInv'
<1>1. CASE GetSnippet(p)
  <2>1. PICK id \in Ids : Begin(p, "query", Request("get", id, None, None))
    BY <1>1 DEF GetSnippet
  <2>2. Request("get", id, None, None) \in Requests
    BY DEF Requests
  <2>3. Request("get", id, None, None).op = "get"
    BY DEF Request
  <2> QED
    BY <2>1, <2>2, <2>3, BeginTypeInv
<1>2. CASE ListSnippets(p)
  <2>1. PICK key \in ListKeys :
          Begin(p, "count", Request("list", key, None, None))
    BY <1>2 DEF ListSnippets
  <2>2. Request("list", key, None, None) \in Requests
    BY DEF Requests
  <2>3. Request("list", key, None, None).op = "list"
    BY DEF Request
  <2> QED
    BY <2>1, <2>2, <2>3, BeginTypeInv
<1>3. CASE CreateSnippet(p)
  <2>1. PICK user \in Users, text \in Texts :
          Begin(p, "exec", Request("create", None, user, text))
    BY <1>3 DEF CreateSnippet
  <2>2. Request("create", None, user, text) \in Requests
    BY DEF Requests
  <2>3. Request("create", None, user, text).op = "create"
    BY DEF Request
  <2> QED
    BY <2>1, <2>2, <2>3, BeginTypeInv
<1>4. CASE UpdateSnippet(p)
  <2>1. PICK id \in Ids, user \in Users, text \in Texts :
          Begin(p, "query", Request("update", id, user, text))
    BY <1>4 DEF UpdateSnippet
  <2>2. Request("update", id, user, text) \in Requests
    BY DEF Requests
  <2>3. Request("update", id, user, text).op \in OwnedWrites
    BY DEF Request, OwnedWrites
  <2> QED
    BY <2>1, <2>2, <2>3, BeginTypeInv
<1>5. CASE DeleteSnippet(p)
  <2>1. PICK id \in Ids, user \in Users :
          Begin(p, "query", Request("delete", id, user, None))
    BY <1>5 DEF DeleteSnippet
  <2>2. Request("delete", id, user, None) \in Requests
    BY DEF Requests
  <2>3. Request("delete", id, user, None).op \in OwnedWrites
    BY DEF Request, OwnedWrites
  <2> QED
    BY <2>1, <2>2, <2>3, BeginTypeInv
<1>6. CASE ForkSnippet(p)
  <2>1. PICK id \in Ids, user \in Users :
          Begin(p, "query", Request("fork", id, user, None))
    BY <1>6 DEF ForkSnippet
  <2>2. Request("fork", id, user, None) \in Requests
    BY DEF Requests
  <2>3. Request("fork", id, user, None).op = "fork"
    BY DEF Request
  <2> QED
    BY <2>1, <2>2, <2>3, BeginTypeInv
<1> QED
  BY <1>1, <1>2, <1>3, <1>4, <1>5, <1>6 DEF Call

(* A step in which handler p gets its answer keeps the types, as long as    *)
(* what it does to the table does.                                          *)
LEMMA AnswerTypeInv ==
  ASSUME TypeInv, NEW p \in Procs, NEW r \in Replies, Answer(p, r),
         pc[p] # "idle",
         req[p].op \in Reads => r.val \in Row \cup Listings \/ r.status # "OK",
         rows' \in Tables, used' \subseteq Ids, faults' \in 0..MaxFaults,
         UNCHANGED <<snap, count>>
  PROVE  TypeInv'
<1>1. TypeOK'
  BY DEF TypeInv, TypeOK, Answer, Steps
<1>2. ASSUME NEW q \in Procs PROVE StepFits(q)'
  BY DEF TypeInv, TypeOK, Answer, StepFits
<1> QED
  BY <1>1, <1>2 DEF TypeInv

(* The answers the operations give are answers. *)
LEMMA PlainReply ==
  /\ \A status \in Statuses, f \in BOOLEAN :
       /\ Reply(status, None, f) \in Replies
       /\ Reply(status, None, f).status = status
  /\ \A row \in Row, f \in BOOLEAN :
       /\ Reply("OK", row, f) \in Replies
       /\ Reply("OK", row, f).val = row
  /\ \A total \in Nat, page \in Tables, f \in BOOLEAN :
       /\ Reply("OK", Listing(total, page), f) \in Replies
       /\ Reply("OK", Listing(total, page), f).val \in Listings
BY DEF Reply, Replies, Statuses, Listing, Listings

LEMMA FailBound == ASSUME TypeOK, Fail PROVE faults' \in 0..MaxFaults
BY PostgresAssumption DEF TypeOK, Fail

LEMMA EmptyIsTable == EmptyTable \in Tables
BY DEF EmptyTable, Tables

LEMMA PartIsTable ==
  ASSUME rows \in Tables, NEW ids PROVE Part(ids) \in Tables
BY DEF Tables, Part

LEMMA QueryTypeInv ==
  ASSUME TypeInv, NEW p \in Procs, Query(p) \/ QueryFails(p)
  PROVE  TypeInv'
<1> USE DEF TypeInv
<1>1. /\ pc[p] = "query"
      /\ UNCHANGED <<rows, used, count>>
  BY DEF Query, QueryFails
<1>2. req[p] \in Requests /\ req[p].op \in {"get", "fork"} \cup OwnedWrites
  BY <1>1 DEF TypeOK, StepFits
<1>3. req[p].key \in Ids
  BY <1>2, RequestFields
<1>4. rows[req[p].key] \in Row \cup {None}
  BY <1>3 DEF TypeOK, Tables
<1>5. CASE QueryFails(p)
  <2>1. Answer(p, Reply("NotFound", None, TRUE)) /\ UNCHANGED snap
    BY <1>5 DEF QueryFails
  <2>2. faults' \in 0..MaxFaults
    BY <1>5, FailBound DEF QueryFails
  <2> QED
    BY <1>1, <2>1, <2>2, PlainReply, AnswerTypeInv DEF TypeOK, Statuses
<1>6. CASE Query(p)
  <2> DEFINE row == rows[req[p].key]
  <2>1. faults' = faults
    BY <1>6 DEF Query
  <2>2. CASE \E r \in Replies :
               /\ Answer(p, r)
               /\ r.status = "OK" => r.val \in Row
               /\ UNCHANGED snap
    BY <1>1, <2>1, <2>2, AnswerTypeInv DEF TypeOK
  <2>3. CASE /\ row # None
             /\ req[p].op # "get"
             /\ pc' = [pc EXCEPT ![p] = "exec"]
             /\ snap' = [snap EXCEPT ![p] = row]
             /\ UNCHANGED <<req, reply>>
    <3>1. TypeOK'
      BY <1>1, <1>4, <2>1, <2>3 DEF TypeOK, Steps
    <3>2. ASSUME NEW q \in Procs PROVE StepFits(q)'
      BY <1>1, <1>2, <1>4, <2>3 DEF TypeOK, StepFits, Inserts
    <3> QED
      BY <3>1, <3>2
  <2> QED
    BY <1>4, <1>6, <2>2, <2>3, PlainReply DEF Query, Statuses
<1> QED
  BY <1>5, <1>6

LEMMA ListingTypeInv ==
  ASSUME TypeInv, NEW p \in Procs,
         Count(p) \/ CountFails(p) \/ Select(p) \/ SelectFails(p)
  PROVE  TypeInv'
<1> USE DEF TypeInv
<1>1. /\ pc[p] \in {"count", "select"}
      /\ UNCHANGED <<rows, used, snap>>
  BY DEF Count, CountFails, Select, SelectFails
<1>2. rows \in Tables /\ count[p] \in Nat /\ 0 \in Nat
  BY DEF TypeOK
<1>3. CASE CountFails(p) \/ SelectFails(p)
  <2>1. UNCHANGED count /\ faults' \in 0..MaxFaults
    BY <1>3, FailBound DEF CountFails, SelectFails
  <2>2. PICK r \in Replies : Answer(p, r) /\ r.val \in Listings
    BY <1>2, <1>3, PlainReply, EmptyIsTable, PartIsTable
    DEF CountFails, SelectFails
  <2> QED
    BY <1>1, <2>1, <2>2, AnswerTypeInv DEF TypeOK
<1>4. CASE Select(p)
  <2>1. UNCHANGED <<count, faults>>
    BY <1>4 DEF Select
  <2>2. PICK r \in Replies : Answer(p, r) /\ r.val \in Listings
    BY <1>2, <1>4, PlainReply DEF Select
  <2> QED
    BY <1>1, <2>1, <2>2, AnswerTypeInv DEF TypeOK
<1>5. CASE Count(p)
  <2>1. faults' = faults /\ Cardinality(Stored(rows)) \in Nat
    BY <1>2, <1>5, StoredCount DEF Count
  <2>2. CASE /\ UNCHANGED count
             /\ \E r \in Replies : Answer(p, r) /\ r.val \in Listings
    BY <1>1, <2>1, <2>2, AnswerTypeInv DEF TypeOK
  <2>3. CASE /\ pc' = [pc EXCEPT ![p] = "select"]
             /\ count' = [count EXCEPT ![p] = Cardinality(Stored(rows))]
             /\ UNCHANGED <<req, reply>>
    <3>1. TypeOK'
      BY <1>1, <2>1, <2>3 DEF TypeOK, Steps
    <3>2. ASSUME NEW q \in Procs PROVE StepFits(q)'
      BY <1>1, <2>3 DEF TypeOK, StepFits
    <3> QED
      BY <3>1, <3>2
  <2> QED
    BY <1>2, <1>5, <2>2, <2>3, PlainReply, EmptyIsTable DEF Count
<1> QED
  BY <1>3, <1>4, <1>5

(* The statements that write leave a well-formed table. *)
LEMMA WrittenTables ==
  ASSUME TypeInv, NEW p \in Procs, pc[p] = "exec"
  PROVE  /\ req[p].op \in Inserts => NewRow(p) \in Row
         /\ req[p].op \in Inserts =>
              \A id \in Ids : [rows EXCEPT ![id] = NewRow(p)] \in Tables
         /\ req[p].op = "update" =>
              /\ Overwritten(p) \in Tables
              /\ WithText(snap[p], req[p].text) \in Row
         /\ req[p].op = "delete" => Removed(p) \in Tables
<1> USE DEF TypeInv
<1>1. /\ req[p] \in Requests
      /\ req[p].op \in Inserts \cup OwnedWrites
      /\ req[p].op # "create" => snap[p] \in Row
      /\ rows \in Tables
  BY DEF TypeOK, StepFits
<1>2. /\ req[p].user \in Users
      /\ req[p].op \in {"create", "update"} => req[p].text \in Texts
      /\ req[p].op \in OwnedWrites => req[p].key \in Ids
  BY <1>1, RequestFields
<1>3. req[p].op \in Inserts => NewRow(p) \in Row
  BY <1>1, <1>2 DEF NewRow, Row, Owners, Inserts
<1>4. ASSUME NEW id \in Ids, NewRow(p) \in Row
      PROVE  [rows EXCEPT ![id] = NewRow(p)] \in Tables
  BY <1>1, <1>4 DEF Tables
<1>5. ASSUME req[p].op = "update"
      PROVE  /\ Overwritten(p) \in Tables
             /\ WithText(snap[p], req[p].text) \in Row
  <2>1. req[p].key \in Ids /\ req[p].text \in Texts /\ snap[p] \in Row
    BY <1>1, <1>2, <1>5 DEF OwnedWrites
  <2>2. CASE rows[req[p].key] = None
    BY <1>1, <2>1, <2>2 DEF Overwritten, Row, WithText
  <2>3. CASE rows[req[p].key] # None
    <3>1. rows[req[p].key] \in Row
      BY <1>1, <2>1, <2>3 DEF Tables
    <3>2. WithText(rows[req[p].key], req[p].text) \in Row
      BY <2>1, <3>1 DEF Row, WithText
    <3> QED
      BY <1>1, <2>1, <2>3, <3>2 DEF Overwritten, Tables, WithText, Row
  <2> QED
    BY <2>2, <2>3
<1>6. req[p].op = "delete" => Removed(p) \in Tables
  BY <1>1, <1>2 DEF Removed, Tables, OwnedWrites
<1> QED
  BY <1>3, <1>4, <1>5, <1>6

LEMMA WriteTypeInv ==
  ASSUME TypeInv, NEW p \in Procs,
         \/ Insert(p) \/ InsertFails(p)
         \/ Update(p) \/ Delete(p) \/ OwnedWriteFails(p)
  PROVE  TypeInv'
<1> USE DEF TypeInv
<1>1. pc[p] = "exec" /\ UNCHANGED <<snap, count>>
  BY DEF Insert, InsertFails, Update, Delete, OwnedWriteFails
<1>2. TypeOK /\ req[p].op \notin Reads
  BY <1>1 DEF StepFits, Reads, Inserts, OwnedWrites
<1>3. CASE Insert(p)
  <2>1. PICK id \in Ids \ used : /\ rows' = [rows EXCEPT ![id] = NewRow(p)]
                                /\ used' = used \cup {id}
    BY <1>3 DEF Insert
  <2>2. rows' \in Tables
    BY <1>1, <1>3, <2>1, WrittenTables DEF Insert
  <2>3. used' \subseteq Ids /\ faults' \in 0..MaxFaults
    BY <1>3, <2>1 DEF Insert, TypeOK
  <2>4. PICK r \in Replies : Answer(p, r)
    BY <1>1, <1>3, WrittenTables, PlainReply DEF Statuses, Insert
  <2> QED
    BY <1>1, <1>2, <2>2, <2>3, <2>4, AnswerTypeInv
<1>4. CASE InsertFails(p)
  <2>1. rows' \in Tables /\ used' \subseteq Ids
    BY <1>1, <1>4, WrittenTables DEF InsertFails, TypeOK
  <2>2. faults' \in 0..MaxFaults
    BY <1>4, FailBound DEF InsertFails
  <2>3. PICK r \in Replies : Answer(p, r)
    BY <1>1, <1>4, WrittenTables, PlainReply DEF Statuses, InsertFails
  <2> QED
    BY <1>1, <1>2, <2>1, <2>2, <2>3, AnswerTypeInv
<1>5. CASE Update(p)
  <2>1. rows' \in Tables /\ used' \subseteq Ids /\ faults' \in 0..MaxFaults
    BY <1>1, <1>5, WrittenTables DEF Update, TypeOK
  <2>2. PICK r \in Replies : Answer(p, r)
    BY <1>1, <1>5, WrittenTables, PlainReply DEF Statuses, Update
  <2> QED
    BY <1>1, <1>2, <2>1, <2>2, AnswerTypeInv
<1>6. CASE Delete(p)
  <2>1. rows' \in Tables /\ used' \subseteq Ids /\ faults' \in 0..MaxFaults
    BY <1>1, <1>6, WrittenTables DEF Delete, TypeOK
  <2>2. PICK r \in Replies : Answer(p, r)
    BY <1>6, PlainReply DEF Statuses, Delete
  <2> QED
    BY <1>1, <1>2, <2>1, <2>2, AnswerTypeInv
<1>7. CASE OwnedWriteFails(p)
  <2>1. rows' \in Tables /\ used' \subseteq Ids
    BY <1>1, <1>7, WrittenTables DEF OwnedWriteFails, TypeOK, OwnedWrites
  <2>2. faults' \in 0..MaxFaults
    BY <1>7, FailBound DEF OwnedWriteFails
  <2>3. PICK r \in Replies : Answer(p, r)
    BY <1>7, PlainReply DEF Statuses, OwnedWriteFails
  <2> QED
    BY <1>1, <1>2, <2>1, <2>2, <2>3, AnswerTypeInv
<1> QED
  BY <1>3, <1>4, <1>5, <1>6, <1>7

LEMMA ReturnTypeInv ==
  ASSUME TypeInv, NEW p \in Procs, Return(p) \/ Crash(p)
  PROVE  TypeInv'
<1>1. faults' \in 0..MaxFaults
  BY FailBound DEF TypeInv, TypeOK, Return, Crash
<1>2. Reset(p)
  BY DEF Return, Crash
<1>3. TypeOK'
  BY <1>1, <1>2 DEF TypeInv, TypeOK, Reset, Steps
<1>4. ASSUME NEW q \in Procs PROVE StepFits(q)'
  BY <1>2 DEF TypeInv, TypeOK, Reset, StepFits, NoReply, Reply, NoRequest,
     Request, Reads
<1> QED
  BY <1>3, <1>4 DEF TypeInv

LEMMA NextTypeInv == TypeInv /\ [Next]_vars => TypeInv'
<1> SUFFICES ASSUME TypeInv, [Next]_vars PROVE TypeInv'
  OBVIOUS
<1>1. CASE UNCHANGED vars
  BY <1>1 DEF TypeInv, TypeOK, StepFits, vars
<1>2. ASSUME NEW p \in Procs, Call(p) PROVE TypeInv'
  BY <1>2, CallTypeInv
<1>3. ASSUME NEW p \in Procs, Statement(p) PROVE TypeInv'
  BY <1>3, QueryTypeInv, ListingTypeInv, WriteTypeInv DEF Statement
<1>4. ASSUME NEW p \in Procs, Return(p) \/ Crash(p) PROVE TypeInv'
  BY <1>4, ReturnTypeInv
<1> QED
  BY <1>1, <1>2, <1>3, <1>4 DEF Next

(* Every variable keeps its type, and the reply and request of a handler    *)
(* fit the statement it is at.                                              *)
THEOREM TypeCorrect == Spec => []TypeInv
<1>1. Init => TypeInv
  BY InitTypeInv
<1>2. TypeInv /\ [Next]_vars => TypeInv'
  BY NextTypeInv
<1> QED
  BY <1>1, <1>2, PTL DEF Spec

(* The type invariant alone. *)
THEOREM TypeSafe == Spec => []TypeOK
<1>1. TypeInv => TypeOK
  BY DEF TypeInv
<1> QED
  BY <1>1, TypeCorrect, PTL

-----------------------------------------------------------------------------
(* Owners and snapshots *)

Inv == TypeInv /\ SnapshotInv

(* No step gives a drawn id a row it did not have, or another owner. *)
OwnersKept ==
  \A id \in used : rows'[id] # None =>
    /\ rows[id] # None
    /\ rows'[id].owner = rows[id].owner

(* An UPDATE keeps the owner and stores nothing that was not stored. *)
LEMMA OverwriteKeepsOwners ==
  ASSUME TypeInv, NEW p \in Procs, pc[p] = "exec", req[p].op = "update",
         rows' = Overwritten(p), UNCHANGED used
  PROVE  OwnersKept /\ Stored(rows') = Stored(rows)
<1> USE DEF TypeInv
<1>1. rows \in Tables /\ req[p].key \in Ids /\ used \subseteq Ids
  BY RequestFields DEF TypeOK, StepFits, OwnedWrites
<1>2. CASE rows[req[p].key] = None
  BY <1>1, <1>2 DEF Overwritten, OwnersKept, Stored
<1>3. CASE rows[req[p].key] # None
  <2>1. rows' = [rows EXCEPT ![req[p].key] =
                    WithText(rows[req[p].key], req[p].text)]
    BY <1>3 DEF Overwritten
  <2>2. WithText(rows[req[p].key], req[p].text) \in Row
    <3>1. req[p].text \in Texts
      BY RequestFields DEF TypeOK, StepFits, OwnedWrites
    <3> QED
      BY <1>1, <1>3, <3>1 DEF Tables, WithText, Row
  <2>3. WithText(rows[req[p].key], req[p].text).owner = rows[req[p].key].owner
    BY DEF WithText
  <2> QED
    BY <1>1, <1>3, <2>1, <2>2, <2>3, SnippetsAssumption
    DEF OwnersKept, Stored, Tables
<1> QED
  BY <1>2, <1>3

LEMMA RemoveKeepsOwners ==
  ASSUME TypeInv, NEW p \in Procs, pc[p] = "exec", req[p].op = "delete",
         rows' = Removed(p), UNCHANGED used
  PROVE  OwnersKept /\ Stored(rows') \subseteq Stored(rows)
<1> USE DEF TypeInv
<1>1. rows \in Tables /\ req[p].key \in Ids /\ used \subseteq Ids
  BY RequestFields DEF TypeOK, StepFits, OwnedWrites
<1> QED
  BY <1>1 DEF Removed, OwnersKept, Stored, Tables

(* An INSERT takes an id that was never drawn. *)
LEMMA InsertKeepsOwners ==
  ASSUME Inv, NEW p \in Procs, NEW id \in Ids \ used, NEW row,
         rows' = [rows EXCEPT ![id] = row],
         used' = used \cup {id}
  PROVE  OwnersKept /\ Stored(rows') \subseteq used'
BY DEF Inv, TypeInv, TypeOK, SnapshotInv, OwnersKept, Stored, Tables

LEMMA LostInsertKeepsOwners ==
  ASSUME Inv, NEW id, UNCHANGED rows, used' = used \cup {id}
  PROVE  OwnersKept /\ Stored(rows') \subseteq used'
BY DEF Inv, SnapshotInv, OwnersKept, Stored

(* What every step does to the table, in one place. *)
LEMMA StepKeepsOwners ==
  ASSUME Inv, [Next]_vars
  PROVE  /\ OwnersKept
         /\ Stored(rows') \subseteq used'
         /\ used \subseteq used'
<1>1. Stored(rows) \subseteq used
  BY DEF Inv, SnapshotInv
<1>2. CASE UNCHANGED <<rows, used>>
  BY <1>1, <1>2 DEF OwnersKept, Stored
<1>3. ASSUME NEW p \in Procs, Insert(p) \/ InsertFails(p)
      PROVE  /\ OwnersKept
             /\ Stored(rows') \subseteq used'
             /\ used \subseteq used'
  <2>1. PICK id \in Ids \ used :
           /\ rows' \in {rows, [rows EXCEPT ![id] = NewRow(p)]}
           /\ used' = used \cup {id}
    BY <1>3 DEF Insert, InsertFails
  <2>2. CASE rows' = rows
    BY <2>1, <2>2, LostInsertKeepsOwners
  <2>3. CASE rows' = [rows EXCEPT ![id] = NewRow(p)]
    BY <2>1, <2>3, InsertKeepsOwners
  <2> QED
    BY <2>1, <2>2, <2>3
<1>4. ASSUME NEW p \in Procs, Update(p) \/ Delete(p) \/ OwnedWriteFails(p)
      PROVE  /\ OwnersKept
             /\ Stored(rows') \subseteq used'
             /\ used \subseteq used'
  <2>1. UNCHANGED used /\ pc[p] = "exec"
    BY <1>4 DEF Update, Delete, OwnedWriteFails
  <2>2. \/ UNCHANGED rows
        \/ req[p].op = "update" /\ rows' = Overwritten(p)
        \/ req[p].op = "delete" /\ rows' = Removed(p)
    BY <1>4 DEF Update, Delete, OwnedWriteFails, OwnedWrites
  <2> QED
    BY <1>1, <1>2, <2>1, <2>2, OverwriteKeepsOwners, RemoveKeepsOwners DEF Inv
<1>5. ASSUME NEW p \in Procs, Call(p) \/ Return(p) \/ Crash(p)
      PROVE  UNCHANGED <<rows, used>>
  BY <1>5 DEF Call, Begin, GetSnippet, ListSnippets, CreateSnippet,
     UpdateSnippet, DeleteSnippet, ForkSnippet, Return, Crash, Reset
<1>6. ASSUME NEW p \in Procs,
             \/ Query(p) \/ QueryFails(p) \/ Count(p) \/ CountFails(p)
             \/ Select(p) \/ SelectFails(p)
      PROVE  UNCHANGED <<rows, used>>
  BY <1>6 DEF Query, QueryFails, Count, CountFails, Select, SelectFails
<1>7. CASE UNCHANGED vars
  BY <1>2, <1>7 DEF vars
<1> QED
  BY <1>2, <1>3, <1>4, <1>5, <1>6, <1>7 DEF Next, Statement

(* Whose statement is next, and what it has read, changes only by its own   *)
(* Query: every other step leaves it or ends it.                            *)
LEMMA StepKeepsSnapshots ==
  ASSUME Inv, NEW p \in Procs, Call(p) \/ Statement(p) \/ Return(p) \/ Crash(p),
         NEW q \in Procs, pc'[q] = "exec", req'[q].op # "create"
  PROVE  \/ pc[q] = "exec" /\ req'[q] = req[q] /\ snap'[q] = snap[q]
         \/ q = p /\ Query(p) /\ snap'[p] = rows[req[p].key]
             /\ snap'[p] # None /\ req[p].op # "get"
             /\ ~Refused(p, rows[req[p].key]) /\ req'[p] = req[p]
<1> USE DEF Inv, TypeInv, TypeOK
<1>1. CASE Call(p)
  <2>1. CASE CreateSnippet(p)
    BY <1>1, <2>1 DEF CreateSnippet, Begin, Request
  <2>2. CASE ~CreateSnippet(p)
    BY <1>1, <2>2 DEF Call, Begin, GetSnippet, ListSnippets, UpdateSnippet,
       DeleteSnippet, ForkSnippet
  <2> QED
    BY <2>1, <2>2
<1>2. CASE Return(p) \/ Crash(p)
  BY <1>2 DEF Return, Crash, Reset
<1>3. CASE Query(p)
  BY <1>3 DEF Query, Answer
<1>4. CASE Count(p) \/ Select(p)
  BY <1>4 DEF Count, Select, Answer
<1>5. CASE QueryFails(p) \/ CountFails(p) \/ SelectFails(p)
  BY <1>5 DEF QueryFails, CountFails, SelectFails, Answer
<1>6. CASE Insert(p) \/ InsertFails(p)
  BY <1>6 DEF Insert, InsertFails, Answer
<1>7. CASE Update(p) \/ Delete(p) \/ OwnedWriteFails(p)
  BY <1>7 DEF Update, Delete, OwnedWriteFails, Answer
<1> QED
  BY <1>1, <1>2, <1>3, <1>4, <1>5, <1>6, <1>7 DEF Statement

LEMMA NextInv == Inv /\ [Next]_vars => Inv'
<1> SUFFICES ASSUME Inv, [Next]_vars PROVE Inv'
  OBVIOUS
<1>1. TypeInv'
  BY NextTypeInv DEF Inv
<1>2. /\ OwnersKept
      /\ Stored(rows') \subseteq used'
      /\ used \subseteq used'
  BY StepKeepsOwners
<1>3. CASE UNCHANGED vars
  BY <1>3 DEF Inv, TypeInv, TypeOK, StepFits, SnapshotInv, SnapshotHolds,
     Stored, vars
<1>4. ASSUME NEW p \in Procs, Call(p) \/ Statement(p) \/ Return(p) \/ Crash(p),
             NEW q \in Procs
      PROVE  SnapshotHolds(q)'
  <2> SUFFICES ASSUME pc'[q] = "exec", req'[q].op # "create"
               PROVE  /\ req'[q].key \in used'
                      /\ req'[q].op \in OwnedWrites =>
                           MayWrite(snap'[q], req'[q].user)
                      /\ rows'[req'[q].key] # None =>
                           rows'[req'[q].key].owner = snap'[q].owner
    BY DEF SnapshotHolds
  <2>1. CASE pc[q] = "exec" /\ req'[q] = req[q] /\ snap'[q] = snap[q]
    <3>1. SnapshotHolds(q)
      BY DEF Inv, SnapshotInv
    <3> QED
      BY <1>2, <2>1, <3>1 DEF SnapshotHolds, OwnersKept
  <2>2. CASE q = p /\ Query(p) /\ snap'[p] = rows[req[p].key]
             /\ snap'[p] # None /\ req[p].op # "get"
             /\ ~Refused(p, rows[req[p].key]) /\ req'[p] = req[p]
    <3>1. pc[p] = "query" /\ UNCHANGED rows
      BY <2>2 DEF Query
    <3>2. req[p].op \in {"fork"} \cup OwnedWrites /\ req[p].key \in Ids
      BY <2>2, <3>1, RequestFields DEF Inv, TypeInv, TypeOK, StepFits
    <3>3. req[p].key \in used
      BY <2>2, <3>2 DEF Inv, SnapshotInv, Stored
    <3> QED
      BY <1>2, <2>2, <3>1, <3>2, <3>3 DEF Refused
  <2> QED
    BY <1>4, <2>1, <2>2, StepKeepsSnapshots
<1> QED
  BY <1>1, <1>2, <1>3, <1>4 DEF Inv, SnapshotInv, Next

LEMMA SpecInv == Spec => []Inv
<1>1. Init => Inv
  BY InitTypeInv DEF Inv, SnapshotInv, SnapshotHolds, Init
<1>2. Inv /\ [Next]_vars => Inv'
  BY NextInv
<1> QED
  BY <1>1, <1>2, PTL DEF Spec

(* The owner a handler read before its write is still the owner when it     *)
(* writes, if the snippet is still there.                                   *)
THEOREM SnapshotSafe == Spec => []SnapshotInv
<1>1. Inv => SnapshotInv
  BY DEF Inv
<1> QED
  BY <1>1, SpecInv, PTL

LEMMA ChangeIsOwners ==
  ASSUME Inv, [Next]_vars, NEW id \in Stored(rows), rows'[id] # rows[id]
  PROVE  OwnerStep(id)
<1> USE DEF Inv, TypeInv, TypeOK
<1>1. id \in Ids /\ id \in used
  BY DEF Stored, SnapshotInv
<1>2. rows'[id] # None => rows'[id].owner = rows[id].owner
  BY <1>1, StepKeepsOwners DEF OwnersKept
<1>3. PICK p \in Procs : \/ Insert(p) \/ InsertFails(p)
                         \/ Update(p) \/ Delete(p) \/ OwnedWriteFails(p)
  BY DEF Next, vars, Statement, Call, Begin, GetSnippet, ListSnippets,
     CreateSnippet, UpdateSnippet, DeleteSnippet, ForkSnippet, Return, Crash, Reset,
     Query, QueryFails, Count, CountFails, Select, SelectFails
<1>4. ~(Insert(p) \/ InsertFails(p))
  BY <1>1 DEF Insert, InsertFails, Tables
<1>5. pc[p] = "exec" /\ req[p].op \in OwnedWrites
  BY <1>3, <1>4 DEF Update, Delete, OwnedWriteFails, OwnedWrites
<1>6. rows' \in {rows, Overwritten(p), Removed(p)}
  BY <1>3, <1>4 DEF Update, Delete, OwnedWriteFails
<1>7. req[p].key = id
  BY <1>1, <1>6 DEF Overwritten, Removed, Tables
<1>8. SnapshotHolds(p)
  BY DEF SnapshotInv
<1>9. MayWrite(rows[id], req[p].user)
  BY <1>5, <1>7, <1>8 DEF SnapshotHolds, MayWrite, Stored, OwnedWrites
<1> QED
  BY <1>2, <1>5, <1>7, <1>9 DEF OwnerStep

(* A stored snippet changes only through a request whose user may write it  *)
(* at that moment, although the check was made on an earlier read.          *)
THEOREM OwnershipSafe == Spec => OnlyOwnerWrites
<1>1. Inv /\ [Next]_vars
        => [\A id \in Stored(rows) :
              rows'[id] # rows[id] => OwnerStep(id)]_vars
  BY ChangeIsOwners
<1> QED
  BY <1>1, SpecInv, PTL DEF Spec, OnlyOwnerWrites

(* A snippet that was removed never comes back under its id. *)
THEOREM GoneSafe == Spec => GoneForGood
<1>1. Inv /\ [Next]_vars
        => [\A id \in used \ Stored(rows) : rows'[id] = None]_vars
  BY StepKeepsOwners DEF OwnersKept, Stored, Inv, TypeInv, TypeOK
<1> QED
  BY <1>1, SpecInv, PTL DEF Spec, GoneForGood
=============================================================================
