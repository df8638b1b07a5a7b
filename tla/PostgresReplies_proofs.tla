----------------------- MODULE PostgresReplies_proofs -----------------------
(***************************************************************************)
(* PostgresStore, with the history of what each request has seen,          *)
(* implements SnippetContract: the initial states correspond, and every    *)
(* step of the store is a step of the contract or leaves its variables.    *)
(***************************************************************************)
EXTENDS PostgresReplies, PostgresStore_proofs

(* What a request has read is among the values it has seen, and so is the   *)
(* present value of its key.                                                *)
SeenFits(p) ==
  /\ IF req[p].key = None THEN seen[p] = {}
                          ELSE View(req[p].key, rows) \in seen[p]
  /\ pc[p] = "exec" /\ req[p].op # "create" => snap[p] \in seen[p]
  /\ pc[p] = "select" => \E v \in seen[p] : v.total = count[p]

ObsInv ==
  /\ Inv
  /\ seen \in [Procs -> SUBSET (Row \cup {None} \cup Listings)]
  /\ \A p \in Procs : SeenFits(p)

(* Only the inserts made by create have no key. *)
LEMMA KeyOf ==
  ASSUME NEW r \in Requests
  PROVE  /\ r.op # "create" => r.key # None
         /\ r.op = "create" => r.key = None
         /\ r.key # None => r.key \in Keys
  BY SnippetsAssumption DEF Requests, Request, Keys

LEMMA ViewType ==
  ASSUME NEW table \in Tables, NEW k \in Keys
  PROVE  View(k, table) \in Row \cup {None} \cup Listings
<1>1. CASE k \in Ids
  BY <1>1 DEF View, Tables
<1>2. CASE k \notin Ids
  BY <1>2, StoredCount DEF View, Listing, Listings
<1> QED
  BY <1>1, <1>2

(* Which request a handler serves changes only when it begins or ends. *)
LEMMA RequestStep ==
  ASSUME ObsInv, NEW p \in Procs,
         Call(p) \/ Statement(p) \/ Return(p) \/ Crash(p)
  PROVE  \/ UNCHANGED req
         \/ req[p] = NoRequest /\ \E r \in Requests : req' = [req EXCEPT ![p] = r]
         \/ req' = [req EXCEPT ![p] = NoRequest]
<1> USE DEF ObsInv, Inv, TypeInv, StepFits
<1>1. ASSUME NEW r \in Requests, NEW step, Begin(p, step, r)
      PROVE  req[p] = NoRequest /\ req' = [req EXCEPT ![p] = r]
  BY <1>1 DEF Begin
<1>2. CASE GetSnippet(p)
  <2>1. \A id \in Ids : Request("get", id, None, None) \in Requests
    BY DEF Requests
  <2> QED
    BY <1>1, <1>2, <2>1 DEF GetSnippet
<1>3. CASE ListSnippets(p)
  <2>1. \A k \in ListKeys : Request("list", k, None, None) \in Requests
    BY DEF Requests
  <2> QED
    BY <1>1, <1>3, <2>1 DEF ListSnippets
<1>4. CASE CreateSnippet(p)
  <2>1. \A user \in Users, text \in Texts :
          Request("create", None, user, text) \in Requests
    BY DEF Requests
  <2> QED
    BY <1>1, <1>4, <2>1 DEF CreateSnippet
<1>5. CASE UpdateSnippet(p)
  <2>1. \A id \in Ids, user \in Users, text \in Texts :
          Request("update", id, user, text) \in Requests
    BY DEF Requests
  <2> QED
    BY <1>1, <1>5, <2>1 DEF UpdateSnippet
<1>6. CASE DeleteSnippet(p) \/ ForkSnippet(p)
  <2>1. \A id \in Ids, user \in Users :
          /\ Request("delete", id, user, None) \in Requests
          /\ Request("fork", id, user, None) \in Requests
    BY DEF Requests
  <2> QED
    BY <1>1, <1>6, <2>1 DEF DeleteSnippet, ForkSnippet
<1>7. CASE Statement(p)
  BY <1>7 DEF Statement, Query, QueryFails, Count, CountFails, Select,
     SelectFails, Insert, InsertFails, Update, Delete, OwnedWriteFails, Answer
<1>8. CASE Return(p) \/ Crash(p)
  BY <1>8 DEF Return, Crash, Reset
<1> QED
  BY <1>2, <1>3, <1>4, <1>5, <1>6, <1>7, <1>8 DEF Call

LEMMA SeenType ==
  ASSUME Inv', Observe, seen \in [Procs -> SUBSET (Row \cup {None} \cup Listings)]
  PROVE  seen' \in [Procs -> SUBSET (Row \cup {None} \cup Listings)]
<1>1. ASSUME NEW p \in Procs, req'[p].key # None
      PROVE  View(req'[p].key, rows') \in Row \cup {None} \cup Listings
  <2>1. req'[p] \in Requests /\ rows' \in Tables
    BY <1>1 DEF Inv, TypeInv, TypeOK, NoRequest, Request
  <2> QED
    BY <1>1, <2>1, KeyOf, ViewType
<1> QED
  BY <1>1 DEF Observe

(* The history grows while a request lasts. *)
LEMMA SeenGrows ==
  ASSUME ObsInv, Observe, NEW q \in Procs, req'[q].key = req[q].key
  PROVE  seen[q] \subseteq seen'[q]
BY DEF ObsInv, Observe, SeenFits

LEMMA NextObsInv == ObsInv /\ [ObsNext]_obsVars => ObsInv'
<1> SUFFICES ASSUME ObsInv, [ObsNext]_obsVars PROVE ObsInv'
  OBVIOUS
<1>1. CASE UNCHANGED obsVars
  BY <1>1 DEF obsVars, ObsInv, Inv, TypeInv, TypeOK, StepFits, SnapshotInv,
     SnapshotHolds, Stored, SeenFits, View
<1>2. CASE ObsNext
  <2>1. Next /\ Observe
    BY <1>2 DEF ObsNext
  <2>2. Inv'
    BY <2>1, NextInv DEF ObsInv
  <2>3. seen' \in [Procs -> SUBSET (Row \cup {None} \cup Listings)]
    BY <2>1, <2>2, SeenType DEF ObsInv
  <2>4. PICK p \in Procs : Call(p) \/ Statement(p) \/ Return(p) \/ Crash(p)
    BY <2>1 DEF Next
  <2>5. ASSUME NEW q \in Procs
        PROVE  IF req'[q].key = None THEN seen'[q] = {}
                                     ELSE View(req'[q].key, rows') \in seen'[q]
    BY <2>1 DEF Observe
  <2>6. ASSUME NEW q \in Procs, pc'[q] = "exec", req'[q].op # "create"
        PROVE  snap'[q] \in seen'[q]
    <3>1. CASE pc[q] = "exec" /\ req'[q] = req[q] /\ snap'[q] = snap[q]
      BY <2>1, <2>6, <3>1, SeenGrows DEF ObsInv, SeenFits
    <3>2. CASE /\ q = p /\ Query(p) /\ snap'[p] = rows[req[p].key]
               /\ req'[p] = req[p]
      <4>1. UNCHANGED rows /\ req[p].op \in {"get", "fork"} \cup OwnedWrites
        BY <3>2 DEF Query, ObsInv, Inv, TypeInv, StepFits
      <4>2. req[p] \in Requests /\ req[p].key \in Ids
        BY <4>1, RequestFields
        DEF ObsInv, Inv, TypeInv, TypeOK, NoRequest, Request, OwnedWrites
      <4>3. req'[p].key # None
        BY <3>2, <4>2, SnippetsAssumption
      <4> QED
        BY <2>5, <3>2, <4>1, <4>2, <4>3 DEF View
    <3> QED
      BY <2>4, <2>6, <3>1, <3>2, StepKeepsSnapshots DEF ObsInv
  <2>7. ASSUME NEW q \in Procs, pc'[q] = "select"
        PROVE  \E v \in seen'[q] : v.total = count'[q]
    <3>1. \/ pc[q] = "select" /\ req'[q] = req[q] /\ count'[q] = count[q]
          \/ q = p /\ Count(p) /\ req'[p] = req[p]
      <4> USE DEF ObsInv, Inv, TypeInv, TypeOK
      <4>1. CASE Call(p)
        BY <2>7, <4>1 DEF Call, Begin, GetSnippet, ListSnippets, CreateSnippet,
           UpdateSnippet, DeleteSnippet, ForkSnippet
      <4>2. CASE Return(p) \/ Crash(p)
        BY <2>7, <4>2 DEF Return, Crash, Reset
      <4>3. CASE Query(p) \/ QueryFails(p)
        BY <2>7, <4>3 DEF Query, QueryFails, Answer
      <4>4. CASE Count(p) \/ CountFails(p) \/ Select(p) \/ SelectFails(p)
        BY <2>7, <4>4 DEF Count, CountFails, Select, SelectFails, Answer
      <4>5. CASE Insert(p) \/ InsertFails(p)
        BY <2>7, <4>5 DEF Insert, InsertFails, Answer
      <4>6. CASE Update(p) \/ Delete(p) \/ OwnedWriteFails(p)
        BY <2>7, <4>6 DEF Update, Delete, OwnedWriteFails, Answer
      <4> QED
        BY <2>4, <4>1, <4>2, <4>3, <4>4, <4>5, <4>6 DEF Statement
    <3>2. CASE pc[q] = "select" /\ req'[q] = req[q] /\ count'[q] = count[q]
      <4>1. \E v \in seen[q] : v.total = count[q]
        BY <3>2 DEF ObsInv, SeenFits
      <4> QED
        BY <2>1, <3>2, <4>1, SeenGrows
    <3>3. CASE q = p /\ Count(p) /\ req'[p] = req[p]
      <4>1. /\ UNCHANGED rows
            /\ count'[p] = Cardinality(Stored(rows))
            /\ req[p].op = "list"
        BY <2>7, <3>3 DEF Count, Answer, ObsInv, Inv, TypeInv, TypeOK, StepFits
      <4>2. req[p].key \in ListKeys
        BY <4>1, RequestFields
        DEF ObsInv, Inv, TypeInv, TypeOK, NoRequest, Request
      <4>3. req[p].key \notin Ids /\ req[p].key # None
        BY <4>2, SnippetsAssumption
      <4>4. View(req[p].key, rows) \in seen'[p]
        BY <2>5, <3>3, <4>1, <4>3
      <4> QED
        BY <3>3, <4>1, <4>3, <4>4 DEF View, Listing
    <3> QED
      BY <3>1, <3>2, <3>3
  <2> QED
    BY <2>2, <2>3, <2>5, <2>6, <2>7 DEF ObsInv, SeenFits
<1> QED
  BY <1>1, <1>2

LEMMA ObsSpecInv == ObsSpec => []ObsInv
<1>1. ObsInit => ObsInv
  BY InitTypeInv DEF ObsInit, ObsInv, Inv, SnapshotInv, SnapshotHolds, Init,
     SeenFits, NoRequest, Request
<1>2. ObsInv /\ [ObsNext]_obsVars => ObsInv'
  BY NextObsInv
<1> QED
  BY <1>1, <1>2, PTL DEF ObsSpec

-----------------------------------------------------------------------------
(* Step simulation *)

(* The contract speaks of snippets in the words of the store. *)
LEMMA SameWords ==
  /\ \A table, k : Contract!View(k, table) = View(k, table)
  /\ \A table : Contract!Stored(table) = Stored(table)
  /\ \A row, user : Contract!MayWrite(row, user) = MayWrite(row, user)
  /\ \A row, text : Contract!WithText(row, text) = WithText(row, text)
  /\ Contract!Inserts = Inserts /\ Contract!OwnedWrites = OwnedWrites
  /\ Contract!NoRequest = NoRequest /\ Contract!NoReply = NoReply
<1>1. \A S : Contract!Cardinality(S) = Cardinality(S)
  BY DEF Contract!Cardinality, Cardinality
<1>2. \A table : Contract!Stored(table) = Stored(table)
  BY DEF Contract!Stored, Stored
<1>3. \A table, k : Contract!View(k, table) = View(k, table)
  BY <1>1, <1>2 DEF Contract!View, View, Contract!Listing, Listing
<1> QED
  BY <1>2, <1>3
  DEF Contract!MayWrite, MayWrite, Contract!WithText, WithText,
      Contract!Inserts, Inserts, Contract!OwnedWrites, OwnedWrites,
      Contract!NoRequest, Contract!Request, NoRequest, Request,
      Contract!NoReply, Contract!Reply, NoReply, Reply

LEMMA SameTables == Contract!Tables = Tables
BY DEF Contract!Tables, Tables, Contract!Row, Row, Contract!Owners, Owners

LEMMA SameRequests == Contract!Requests = Requests
BY DEF Contract!Requests, Requests, Contract!Request, Request

LEMMA SameReplies == Contract!Replies = Replies
BY SameTables
DEF Contract!Replies, Replies, Contract!Statuses, Statuses, Contract!Row, Row,
    Contract!Owners, Owners, Contract!Listings, Listings

LEMMA WatchIsObserve == Contract!Watch <=> Observe
BY SameWords DEF Contract!Watch, Observe

(* A step that changes neither the table nor a request nor an answer shows  *)
(* a request nothing new.                                                   *)
LEMMA NothingNew ==
  ASSUME ObsInv, Observe, UNCHANGED <<rows, used, req, reply>>
  PROVE  UNCHANGED Contract!vars
<1>1. ASSUME NEW p \in Procs PROVE seen'[p] = seen[p]
  BY DEF ObsInv, SeenFits, Observe
<1>2. seen' = [p \in Procs |-> seen'[p]] /\ seen = [p \in Procs |-> seen[p]]
  BY DEF ObsInv, Observe
<1>3. seen' = seen
  BY <1>1, <1>2
<1> QED
  BY <1>3 DEF Contract!vars

(* An answer with its effect and its explanation is a step of the contract. *)
LEMMA FinishStep ==
  ASSUME ObsInv, Observe, NEW p \in Procs, NEW r \in Replies, Answer(p, r),
         pc[p] \notin {"idle", "reply"},
         Contract!Effect(p), Contract!Explained(p, r)
  PROVE  Contract!Next
<1> USE DEF ObsInv, Inv, TypeInv, TypeOK
<1>1. req[p] # NoRequest /\ reply[p] = NoReply
  BY DEF StepFits
<1>2. reply'[p] = r /\ reply' = [reply EXCEPT ![p] = r] /\ UNCHANGED req
  BY DEF Answer
<1>3. Contract!Explained(p, reply'[p])
  BY <1>2
<1>4. Contract!Finish(p)
  BY <1>1, <1>2, <1>3, WatchIsObserve, SameWords, SameReplies
  DEF Contract!Finish
<1> QED
  BY <1>4 DEF Contract!Next

LEMMA EndStep ==
  ASSUME ObsInv, Observe, NEW p \in Procs, Return(p) \/ Crash(p)
  PROVE  Contract!Next
<1>1. req[p] # NoRequest
  BY DEF ObsInv, Inv, TypeInv, StepFits, Return, Crash
<1>2. Contract!Return(p)
  BY <1>1, WatchIsObserve, SameWords DEF Return, Crash, Reset, Contract!Return
<1> QED
  BY <1>2 DEF Contract!Next

LEMMA BeginStep ==
  ASSUME ObsInv, Observe, NEW p \in Procs, Call(p)
  PROVE  Contract!Next
<1>1. UNCHANGED <<rows, used, reply>> /\ req[p] = NoRequest /\ req'[p] # NoRequest
  <2>1. /\ \A id \in Ids : Request("get", id, None, None) # NoRequest
        /\ \A k \in ListKeys : Request("list", k, None, None) # NoRequest
        /\ \A user, text : Request("create", None, user, text) # NoRequest
        /\ \A id, user, text : Request("update", id, user, text) # NoRequest
        /\ \A id, user : Request("delete", id, user, None) # NoRequest
        /\ \A id, user : Request("fork", id, user, None) # NoRequest
    BY DEF Request, NoRequest
  <2>2. \A step, r : Begin(p, step, r) /\ r # NoRequest =>
          UNCHANGED <<rows, used, reply>> /\ req[p] = NoRequest /\ req'[p] # NoRequest
    BY DEF Begin, ObsInv, Inv, TypeInv, TypeOK, StepFits
  <2> QED
    BY <2>1, <2>2 DEF Call, GetSnippet, ListSnippets, CreateSnippet,
       UpdateSnippet, DeleteSnippet, ForkSnippet
<1>2. \E r \in Requests : req' = [req EXCEPT ![p] = r]
  BY <1>1, RequestStep DEF ObsInv, Inv, TypeInv, TypeOK
<1>3. Contract!Call(p)
  BY <1>1, <1>2, WatchIsObserve, SameWords, SameRequests DEF Contract!Call
<1> QED
  BY <1>3 DEF Contract!Next

(* The key of a request that is at a statement, and what it has seen after  *)
(* the step: at least what its key shows now.                               *)
LEMMA SeesNow ==
  ASSUME ObsInv, Observe, NEW p \in Procs, pc[p] # "idle", UNCHANGED req,
         req[p].op # "create"
  PROVE  /\ req[p] \in Requests
         /\ View(req[p].key, rows) \in seen'[p]
         /\ View(req[p].key, rows') \in seen'[p]
         /\ seen[p] \subseteq seen'[p]
<1>1. req[p] \in Requests
  BY DEF ObsInv, Inv, TypeInv, TypeOK, StepFits
<1>2. req[p].key # None
  BY <1>1, KeyOf
<1> QED
  BY <1>1, <1>2, SeenGrows DEF ObsInv, SeenFits, Observe

LEMMA QueryStep ==
  ASSUME ObsInv, Observe, NEW p \in Procs, Query(p) \/ QueryFails(p)
  PROVE  [Contract!Next]_(Contract!vars)
<1> DEFINE row == rows[req[p].key]
<1>1. /\ pc[p] = "query"
      /\ UNCHANGED <<rows, used, req>>
      /\ req[p].op \in {"get", "fork"} \cup OwnedWrites
  BY DEF Query, QueryFails, Answer, ObsInv, Inv, TypeInv, StepFits
<1>2. req[p].op # "create" /\ req[p].op # "list"
  BY <1>1 DEF OwnedWrites
<1>3. req[p].key \in Ids
  BY <1>1, <1>2, SeesNow, RequestFields
<1>4. row \in seen'[p] /\ row \in Row \cup {None}
  BY <1>1, <1>2, <1>3, SeesNow DEF View, ObsInv, Inv, TypeInv, TypeOK, Tables
<1>5. Contract!Effect(p)
  BY <1>1 DEF Contract!Effect
<1>6. CASE QueryFails(p)
  <2>1. Answer(p, Reply("NotFound", None, TRUE))
    BY <1>6 DEF QueryFails
  <2>2. Contract!Explained(p, Reply("NotFound", None, TRUE))
    BY DEF Contract!Explained, Reply
  <2>3. Reply("NotFound", None, TRUE) \in Replies
    BY PlainReply DEF Statuses
  <2> QED
    BY <1>1, <1>5, <2>1, <2>2, <2>3, FinishStep
<1>7. CASE Answer(p, Reply("NotFound", None, FALSE)) /\ row = None
  <2>1. Contract!Explained(p, Reply("NotFound", None, FALSE))
    BY <1>2, <1>4, <1>7 DEF Contract!Explained, Contract!Was, Reply
  <2>2. Reply("NotFound", None, FALSE) \in Replies
    BY PlainReply DEF Statuses
  <2> QED
    BY <1>1, <1>5, <1>7, <2>1, <2>2, FinishStep
<1>8. CASE Answer(p, Reply("OK", row, FALSE)) /\ row # None /\ req[p].op = "get"
  <2>1. Contract!Explained(p, Reply("OK", row, FALSE))
    BY <1>4, <1>8
    DEF Contract!Explained, Contract!OkExplained, Contract!Was, Reply
  <2>2. Reply("OK", row, FALSE) \in Replies
    BY <1>4, <1>8, PlainReply
  <2> QED
    BY <1>1, <1>5, <1>8, <2>1, <2>2, FinishStep
<1>9. CASE /\ Answer(p, Reply("Forbidden", None, FALSE))
           /\ row # None
           /\ Refused(p, row)
  <2>1. Contract!WasForeign(p) /\ req[p].op \in OwnedWrites
    BY <1>4, <1>9, SameWords DEF Contract!WasForeign, Refused
  <2>2. Contract!Explained(p, Reply("Forbidden", None, FALSE))
    BY <2>1, SameWords DEF Contract!Explained, Reply
  <2>3. Reply("Forbidden", None, FALSE) \in Replies
    BY PlainReply DEF Statuses
  <2> QED
    BY <1>1, <1>5, <1>9, <2>2, <2>3, FinishStep
<1>10. CASE UNCHANGED reply
  BY <1>1, <1>10, NothingNew
<1> QED
  BY <1>6, <1>7, <1>8, <1>9, <1>10 DEF Query

LEMMA ListStep ==
  ASSUME ObsInv, Observe, NEW p \in Procs,
         Count(p) \/ CountFails(p) \/ Select(p) \/ SelectFails(p)
  PROVE  [Contract!Next]_(Contract!vars)
<1> DEFINE total == Cardinality(Stored(rows))
<1>1. /\ pc[p] \in {"count", "select"}
      /\ UNCHANGED <<rows, used, req>>
      /\ req[p].op = "list"
  BY DEF Count, CountFails, Select, SelectFails, Answer, ObsInv, Inv, TypeInv,
     StepFits
<1>2. req[p] \in Requests /\ req[p].key \in ListKeys
  BY <1>1, SeesNow, RequestFields
<1>3. req[p].key \notin Ids
  BY <1>2, SnippetsAssumption
<1>4. Listing(total, rows) \in seen'[p] /\ seen[p] \subseteq seen'[p]
  BY <1>1, <1>3, SeesNow DEF View
<1>5. rows \in Tables /\ count[p] \in Nat /\ total \in Nat /\ 0 \in Nat
  BY StoredCount DEF ObsInv, Inv, TypeInv, TypeOK
<1>6. Contract!Effect(p)
  BY <1>1 DEF Contract!Effect
<1>7. ASSUME NEW val \in Listings, Answer(p, Reply("OK", val, TRUE))
      PROVE  Contract!Next
  <2>1. Contract!Explained(p, Reply("OK", val, TRUE))
    BY DEF Contract!Explained, Reply
  <2>2. Reply("OK", val, TRUE) \in Replies
    BY DEF Reply, Replies, Statuses
  <2> QED
    BY <1>1, <1>6, <1>7, <2>1, <2>2, FinishStep
<1>8. ASSUME NEW val \in Listings, Answer(p, Reply("OK", val, FALSE)),
             Contract!ListingExplained(p, val)
      PROVE  Contract!Next
  <2>1. Contract!OkExplained(p, val)
    BY <1>1, <1>8 DEF Contract!OkExplained
  <2>2. Contract!Explained(p, Reply("OK", val, FALSE))
    BY <2>1 DEF Contract!Explained, Reply
  <2>3. Reply("OK", val, FALSE) \in Replies
    BY DEF Reply, Replies, Statuses
  <2> QED
    BY <1>1, <1>6, <1>8, <2>2, <2>3, FinishStep
<1>9. /\ Listing(0, EmptyTable) \in Listings
      /\ \A ids : Listing(count[p], Part(ids)) \in Listings
      /\ Listing(count[p], rows) \in Listings
  BY <1>5, EmptyIsTable, PartIsTable DEF Listing, Listings
<1>10. CASE CountFails(p) \/ SelectFails(p)
  BY <1>7, <1>9, <1>10 DEF CountFails, SelectFails
<1>11. CASE Select(p)
  <2>1. \E v \in seen[p] : v.total = count[p]
    BY <1>11 DEF Select, ObsInv, SeenFits
  <2>2. \E v \in seen'[p] : v.total = Listing(count[p], rows).total
    BY <1>4, <2>1 DEF Listing
  <2>3. \E v \in seen'[p] : v.page = Listing(count[p], rows).page
    BY <1>4 DEF Listing
  <2>4. Contract!ListingExplained(p, Listing(count[p], rows))
    BY <2>2, <2>3 DEF Contract!ListingExplained
  <2> QED
    BY <1>8, <1>9, <1>11, <2>4 DEF Select
<1>12. CASE Count(p) /\ total = 0
  <2>1. Stored(rows) = {}
    <3>1. IsFiniteSet(Ids) /\ Stored(rows) \subseteq Ids
      BY SnippetsAssumption DEF Stored
    <3>2. IsFiniteSet(Stored(rows))
      BY <3>1, FS_Subset
    <3> QED
      BY <1>12, <3>2, FS_EmptySet
  <2>2. rows = EmptyTable
    <3>1. \A i \in Ids : rows[i] = None
      BY <2>1 DEF Stored
    <3> QED
      BY <1>5, <3>1 DEF EmptyTable, Tables
  <2>3. Contract!ListingExplained(p, Listing(0, EmptyTable))
    BY <1>4, <1>12, <2>2 DEF Contract!ListingExplained, Listing
  <2>4. Answer(p, Reply("OK", Listing(0, EmptyTable), FALSE))
    <3>1. ~(total > 0)
      BY <1>12
    <3> QED
      BY <1>12, <3>1, Zenon DEF Count
  <2> QED
    BY <1>8, <1>9, <2>3, <2>4
<1>13. CASE Count(p) /\ total # 0
  <2>1. UNCHANGED reply
    BY <1>5, <1>13 DEF Count
  <2> QED
    BY <1>1, <2>1, NothingNew
<1> QED
  BY <1>10, <1>11, <1>12, <1>13

(* An insert stores a new row, whose text a fork has from the snippet as it *)
(* read it.                                                                 *)
LEMMA InsertStep ==
  ASSUME ObsInv, Observe, NEW p \in Procs, Insert(p) \/ InsertFails(p)
  PROVE  Contract!Next
<1>1. /\ pc[p] = "exec" /\ UNCHANGED req /\ req[p].op \in Inserts
      /\ req[p] \in Requests
  BY DEF Insert, InsertFails, Answer, ObsInv, Inv, TypeInv, TypeOK, StepFits
<1>2. NewRow(p) \in Row
  BY <1>1, WrittenTables DEF ObsInv, Inv
<1>3. NewRow(p).text \in Texts /\ NewRow(p).text \in Contract!Insertable(p)
  <2>1. CASE req[p].op = "fork"
    <3>1. snap[p] \in Row /\ snap[p] \in seen[p]
      BY <1>1, <2>1 DEF ObsInv, Inv, TypeInv, StepFits, SeenFits
    <3>2. snap[p] # None
      BY <3>1, SnippetsAssumption
    <3> QED
      BY <2>1, <3>1, <3>2 DEF NewRow, Contract!Insertable, Row
  <2>2. CASE req[p].op # "fork"
    BY <1>2, <2>2 DEF NewRow, Contract!Insertable, Row
  <2> QED
    BY <2>1, <2>2
<1>4. ASSUME NEW id \in Ids \ used, rows' = [rows EXCEPT ![id] = NewRow(p)],
             used' = used \cup {id}
      PROVE  Contract!Effect(p) /\ Contract!Stores(p, NewRow(p))
  <2>1. Contract!Insert(p, id, NewRow(p).text)
    BY <1>1, <1>3, <1>4, SameWords DEF Contract!Insert, NewRow
  <2>2. rows'[id] = NewRow(p)
    BY <1>4 DEF ObsInv, Inv, TypeInv, TypeOK, Tables
  <2> QED
    BY <1>3, <1>4, <2>1, <2>2 DEF Contract!Effect, Contract!Stores
<1>5. ASSUME NEW id \in Ids \ used, rows' = rows, used' = used \cup {id}
      PROVE  Contract!Effect(p)
  BY <1>1, <1>5, SameWords DEF Contract!Effect, Contract!LoseInsert
<1>6. /\ Reply("OK", NewRow(p), FALSE) \in Replies
      /\ Reply("OK", NewRow(p), TRUE) \in Replies
      /\ Reply("NotFound", None, TRUE) \in Replies
  BY <1>2 DEF Reply, Replies, Statuses
<1>7. CASE Insert(p)
  <2>1. Contract!Effect(p) /\ Contract!Stores(p, NewRow(p))
    BY <1>4, <1>7 DEF Insert
  <2>2. Contract!OkExplained(p, NewRow(p))
    BY <1>1, <2>1, SameWords DEF Contract!OkExplained
  <2>3. Contract!Explained(p, Reply("OK", NewRow(p), FALSE))
    BY <2>2 DEF Contract!Explained, Reply
  <2>4. Answer(p, Reply("OK", NewRow(p), FALSE))
    BY <1>7 DEF Insert
  <2> QED
    BY <1>1, <1>6, <2>1, <2>3, <2>4, FinishStep
<1>8. CASE InsertFails(p)
  <2>1. Contract!Effect(p)
    BY <1>4, <1>5, <1>8 DEF InsertFails
  <2>2. PICK r \in Replies : Answer(p, r) /\ r.failed
    BY <1>6, <1>8 DEF InsertFails, Reply
  <2>3. Contract!Explained(p, r)
    BY <2>2 DEF Contract!Explained
  <2> QED
    BY <1>1, <2>1, <2>2, <2>3, FinishStep
<1> QED
  BY <1>7, <1>8

(* An update or delete acts on the row as it is; by SnapshotInv its user    *)
(* may write it.                                                            *)
LEMMA OwnedWriteStep ==
  ASSUME ObsInv, Observe, NEW p \in Procs,
         Update(p) \/ Delete(p) \/ OwnedWriteFails(p)
  PROVE  Contract!Next
<1> DEFINE key == req[p].key
           row == rows[req[p].key]
<1>1. /\ pc[p] = "exec" /\ UNCHANGED <<req, used>>
      /\ req[p].op \in OwnedWrites /\ req[p].op # "create"
  BY DEF Update, Delete, OwnedWriteFails, Answer, OwnedWrites
<1>2. req[p] \in Requests /\ key \in Ids /\ req[p].user \in Users
  BY <1>1, SeesNow, RequestFields DEF OwnedWrites
<1>3. rows \in Tables /\ row \in Row \cup {None}
  BY <1>2 DEF ObsInv, Inv, TypeInv, TypeOK, Tables
<1>4. /\ snap[p] \in Row /\ snap[p] # None /\ snap[p] \in seen'[p]
      /\ MayWrite(snap[p], req[p].user)
      /\ row # None => row.owner = snap[p].owner
  BY <1>1, SeesNow, SnippetsAssumption
  DEF ObsInv, Inv, TypeInv, StepFits, SeenFits, SnapshotInv, SnapshotHolds
<1>5. row \in seen'[p] /\ rows'[key] \in seen'[p]
  BY <1>1, <1>2, SeesNow DEF View
<1>6. Contract!WasWritable(p)
  BY <1>4, SameWords DEF Contract!WasWritable
<1>7. ASSUME row # None PROVE Contract!OwnRow(p)
  BY <1>4, <1>7, SameWords DEF Contract!OwnRow, MayWrite
<1>8. ASSUME rows' = rows PROVE Contract!Effect(p)
  BY <1>1, <1>8 DEF Contract!Effect
<1>9. ASSUME req[p].op = "update", rows' = Overwritten(p)
      PROVE  Contract!Effect(p)
  <2>1. CASE row = None
    BY <1>8, <1>9, <2>1 DEF Overwritten
  <2>2. CASE row # None
    BY <1>1, <1>7, <1>9, <2>2, SameWords
    DEF Overwritten, Contract!Effect, Contract!Overwrite
  <2> QED
    BY <2>1, <2>2
<1>10. ASSUME req[p].op = "delete", rows' = Removed(p)
       PROVE  Contract!Effect(p)
  <2>1. CASE row = None
    BY <1>2, <1>3, <1>8, <1>10, <2>1 DEF Removed, Tables
  <2>2. CASE row # None
    BY <1>1, <1>7, <1>10, <2>2 DEF Removed, Contract!Effect, Contract!Remove
  <2> QED
    BY <2>1, <2>2
<1>11. CASE Update(p)
  <2> DEFINE val == WithText(snap[p], req[p].text)
  <2>1. req[p].op = "update" /\ rows' = Overwritten(p)
        /\ Answer(p, Reply("OK", val, FALSE))
    BY <1>11 DEF Update
  <2>2. val \in Row /\ val.text = req[p].text
    BY <1>2, <1>4, <2>1, RequestFields DEF WithText, Row
  <2>3. row = None \/ rows'[key] = val
    BY <1>2, <1>3, <1>4, <2>1 DEF Overwritten, WithText, Tables
  <2>4. Contract!OkExplained(p, val)
    BY <1>5, <1>6, <2>1, <2>2, <2>3 DEF Contract!OkExplained, Contract!Was
  <2>5. Contract!Explained(p, Reply("OK", val, FALSE))
    BY <2>4 DEF Contract!Explained, Reply
  <2>6. Reply("OK", val, FALSE) \in Replies
    BY <2>2, PlainReply
  <2> QED
    BY <1>1, <1>9, <2>1, <2>5, <2>6, FinishStep
<1>12. CASE Delete(p)
  <2>1. req[p].op = "delete" /\ rows' = Removed(p)
        /\ Answer(p, Reply("OK", None, FALSE))
    BY <1>12 DEF Delete
  <2>2. rows'[key] = None
    BY <1>2, <1>3, <2>1 DEF Removed, Tables
  <2>3. Contract!OkExplained(p, None)
    BY <1>5, <1>6, <2>1, <2>2 DEF Contract!OkExplained, Contract!Was
  <2>4. Contract!Explained(p, Reply("OK", None, FALSE))
    BY <2>3 DEF Contract!Explained, Reply
  <2>5. Reply("OK", None, FALSE) \in Replies
    BY PlainReply DEF Statuses
  <2> QED
    BY <1>1, <1>10, <2>1, <2>4, <2>5, FinishStep
<1>13. CASE OwnedWriteFails(p)
  <2>1. Contract!Effect(p)
    BY <1>1, <1>8, <1>9, <1>10, <1>13 DEF OwnedWriteFails, OwnedWrites
  <2>2. Contract!Explained(p, Reply("Forbidden", None, TRUE))
    BY DEF Contract!Explained, Reply
  <2>3. Reply("Forbidden", None, TRUE) \in Replies
    BY PlainReply DEF Statuses
  <2>4. Answer(p, Reply("Forbidden", None, TRUE))
    BY <1>13 DEF OwnedWriteFails
  <2> QED
    BY <1>1, <2>1, <2>2, <2>3, <2>4, FinishStep
<1> QED
  BY <1>11, <1>12, <1>13

(* Every step of the store is a step of the contract or a stutter. *)
LEMMA StepSimulation ==
  ObsInv /\ [ObsNext]_obsVars => [Contract!Next]_(Contract!vars)
<1> SUFFICES ASSUME ObsInv, [ObsNext]_obsVars
             PROVE  [Contract!Next]_(Contract!vars)
  OBVIOUS
<1>1. CASE UNCHANGED obsVars
  BY <1>1 DEF obsVars, Contract!vars
<1>2. CASE ObsNext
  <2>1. Observe
    BY <1>2 DEF ObsNext
  <2>2. PICK p \in Procs : Call(p) \/ Statement(p) \/ Return(p) \/ Crash(p)
    BY <1>2 DEF ObsNext, Next
  <2>3. CASE Call(p)
    BY <2>1, <2>3, BeginStep
  <2>4. CASE Return(p) \/ Crash(p)
    BY <2>1, <2>4, EndStep
  <2>5. CASE Statement(p)
    BY <2>1, <2>5, QueryStep, ListStep, InsertStep, OwnedWriteStep DEF Statement
  <2> QED
    BY <2>2, <2>3, <2>4, <2>5
<1> QED
  BY <1>1, <1>2

LEMMA InitSimulation == ObsInit => Contract!Init
BY SameWords, SameTables DEF ObsInit, Init, Contract!Init

(* Types, of the history too, for any number of handlers. *)
THEOREM ObsTypeSafe == ObsSpec => []ObsTypeInv
<1>1. ObsInv => ObsTypeInv
  BY DEF ObsInv, Inv, ObsTypeInv
<1> QED
  BY <1>1, ObsSpecInv, PTL

(* PostgresStore implements the contract of the Store interface, for any    *)
(* number of handlers, snippets and users, and with any number of failures. *)
THEOREM ContractHonoured == ObsSpec => HonoursContract
<1>1. ObsInv /\ [ObsNext]_obsVars => [Contract!Next]_(Contract!vars)
  BY StepSimulation
<1>2. ObsInit => Contract!Init
  BY InitSimulation
<1> QED
  BY <1>1, <1>2, ObsSpecInv, PTL DEF ObsSpec, Contract!Spec, HonoursContract
=============================================================================
