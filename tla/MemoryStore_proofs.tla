------------------------- MODULE MemoryStore_proofs -------------------------
(***************************************************************************)
(* Proofs about MemoryStore: types, the mutual exclusion that the lock     *)
(* gives, and the refinement of SnippetContract; and about Pages.          *)
(***************************************************************************)
EXTENDS MemoryStore, FiniteSetTheorems, TLAPS

Inside == {"look", "store", "unlock"}

(* Who holds the lock, and in which mode. *)
LockFits(p) ==
  /\ p \in readers <=> (~Locks(p) /\ pc[p] \in Inside)
  /\ writer = p <=> (Locks(p) /\ pc[p] \in Inside \cup {"drain"})
  /\ Locks(p) /\ pc[p] \in Inside => readers = {}
  /\ pc[p] = "wait" => ~Locks(p) /\ writer # None
  /\ pc[p] \in {"drain", "store"} => Locks(p)

(* What a handler holds at each step.  The row it has looked up is still    *)
(* the stored one when it writes, because it is alone inside the lock.      *)
HandlerFits(p) ==
  /\ pc[p] = "idle" <=> req[p] = NoRequest
  /\ pc[p] \in {"unlock", "reply"} <=> reply[p] # NoReply
  /\ pc[p] = "store" /\ req[p].op # "create" =>
       /\ snap[p] # None /\ snap[p] = rows[req[p].key]
       /\ req[p].op \in OwnedWrites => MayWrite(snap[p], req[p].user)

StateInv ==
  /\ StateTypeOK
  /\ \A p \in Procs : LockFits(p)
  /\ \A p \in Procs : HandlerFits(p)

(* The present value of its key is among the values a request has seen.     *)
SeenFits(p) == IF req[p].key = None THEN seen[p] = {}
                                    ELSE View(req[p].key, rows) \in seen[p]

MemoryInv ==
  /\ StateInv
  /\ seen \in [Procs -> SUBSET (Row \cup {None} \cup Listings)]
  /\ \A p \in Procs : SeenFits(p)

-----------------------------------------------------------------------------
(* Requests, tables and answers *)

LEMMA RequestFields ==
  ASSUME NEW r \in Requests
  PROVE  /\ r # NoRequest
         /\ r.op \in Ops
         /\ r.op = "list" => r.key \in ListKeys
         /\ r.op \notin {"list", "create"} => r.key \in Ids
         /\ r.op \in Inserts \cup OwnedWrites => r.user \in Users
         /\ r.op \in {"create", "update"} => r.text \in Texts
         /\ r.op # "create" => r.key # None
         /\ r.op = "create" => r.key = None
         /\ r.key # None => r.key \in Keys
BY SnippetsAssumption
DEF Requests, Request, NoRequest, Ops, Reads, Inserts, OwnedWrites, Keys

LEMMA StoredCount ==
  ASSUME NEW table \in Tables
  PROVE  Cardinality(Stored(table)) \in Nat
<1>1. IsFiniteSet(Ids) /\ Stored(table) \subseteq Ids
  BY SnippetsAssumption DEF Stored
<1>2. IsFiniteSet(Stored(table))
  BY <1>1, FS_Subset
<1> QED
  BY <1>2, FS_CardinalityType

LEMMA ViewType ==
  ASSUME NEW table \in Tables, NEW k \in Keys
  PROVE  View(k, table) \in Row \cup {None} \cup Listings
<1>1. CASE k \in Ids
  BY <1>1 DEF View, Tables
<1>2. CASE k \notin Ids
  BY <1>2, StoredCount DEF View, Listing, Listings
<1> QED
  BY <1>1, <1>2

LEMMA PlainReply ==
  /\ \A status \in Statuses : Reply(status, None, FALSE) \in Replies
  /\ \A row \in Row : Reply("OK", row, FALSE) \in Replies
  /\ \A val \in Listings : Reply("OK", val, FALSE) \in Replies
BY DEF Reply, Replies, Statuses

LEMMA RealReply == \A r \in Replies : r # NoReply
BY DEF Replies, Statuses, NoReply, Reply

(* A handler that is busy has a request, and what follows from that. *)
LEMMA Busy ==
  ASSUME StateInv, NEW p \in Procs, pc[p] # "idle" PROVE req[p] \in Requests
BY DEF StateInv, StateTypeOK, HandlerFits

-----------------------------------------------------------------------------
(* The lock *)

LEMMA CallState == ASSUME StateInv, NEW p \in Procs, Call(p) PROVE StateInv'
<1> USE DEF StateInv, StateTypeOK
<1>1. PICK r \in Requests : req' = [req EXCEPT ![p] = r]
  BY DEF Call
<1>2. /\ pc[p] = "idle" /\ pc' = [pc EXCEPT ![p] = "lock"]
      /\ UNCHANGED <<rows, used, snap, reply, lockVars>> /\ r # NoRequest
  BY <1>1, RequestFields DEF Call
<1>3. StateTypeOK'
  BY <1>1, <1>2 DEF Steps, lockVars
<1>4. ASSUME NEW q \in Procs PROVE LockFits(q)' /\ HandlerFits(q)'
  BY <1>1, <1>2 DEF LockFits, HandlerFits, Locks, Inside, lockVars
<1> QED
  BY <1>3, <1>4

LEMMA RLockState == ASSUME StateInv, NEW p \in Procs, RLock(p) PROVE StateInv'
<1> USE DEF StateInv, StateTypeOK, RLock
<1>1. StateTypeOK'
  BY DEF Steps
<1>2. ASSUME NEW q \in Procs PROVE LockFits(q)' /\ HandlerFits(q)'
  BY ProcsAssumption DEF LockFits, HandlerFits, Locks, Inside
<1> QED
  BY <1>1, <1>2

LEMMA LockState == ASSUME StateInv, NEW p \in Procs, Lock(p) PROVE StateInv'
<1> USE DEF StateInv, StateTypeOK, Lock
<1>1. StateTypeOK'
  BY DEF Steps
<1>2. ASSUME NEW q \in Procs PROVE LockFits(q)' /\ HandlerFits(q)'
  BY ProcsAssumption DEF LockFits, HandlerFits, Locks, Inside
<1> QED
  BY <1>1, <1>2

LEMMA DrainedState == ASSUME StateInv, NEW p \in Procs, Drained(p) PROVE StateInv'
<1> USE DEF StateInv, StateTypeOK, Drained, lockVars
<1>1. StateTypeOK'
  BY DEF Steps
<1>2. ASSUME NEW q \in Procs PROVE LockFits(q)' /\ HandlerFits(q)'
  BY ProcsAssumption DEF LockFits, HandlerFits, Locks, Inside
<1> QED
  BY <1>1, <1>2

(* The writer hands the lock to the readers that wait; a reader only leaves. *)
LEMMA UnlockState == ASSUME StateInv, NEW p \in Procs, Unlock(p) PROVE StateInv'
<1> USE DEF StateInv, StateTypeOK
<1>1. /\ pc[p] = "unlock" /\ UNCHANGED <<rows, used, req, snap, reply>>
      /\ readers' = (readers \ {p}) \cup Admitted(p)
      /\ writer' = IF writer = p THEN None ELSE writer
      /\ pc' = [q \in Procs |-> IF q = p THEN "reply"
                                ELSE IF q \in Admitted(p) THEN "look" ELSE pc[q]]
  BY DEF Unlock
<1>2. StateTypeOK'
  BY <1>1 DEF Steps, Admitted
<1>3. CASE Locks(p)
  <2>1. writer = p /\ readers = {} /\ Admitted(p) = {q \in Procs : pc[q] = "wait"}
    BY <1>1, <1>3 DEF LockFits, Inside, Admitted
  <2>2. ASSUME NEW q \in Procs PROVE LockFits(q)' /\ HandlerFits(q)'
    BY <1>1, <1>3, <2>1, ProcsAssumption DEF LockFits, HandlerFits, Locks, Inside
  <2> QED
    BY <1>2, <2>2
<1>4. CASE ~Locks(p)
  <2>1. writer # p /\ p \in readers /\ Admitted(p) = {}
    BY <1>1, <1>4 DEF LockFits, Inside, Admitted
  <2>2. ASSUME NEW q \in Procs PROVE LockFits(q)' /\ HandlerFits(q)'
    BY <1>1, <1>4, <2>1, ProcsAssumption DEF LockFits, HandlerFits, Locks, Inside
  <2> QED
    BY <1>2, <2>2
<1> QED
  BY <1>3, <1>4

LEMMA ReturnState == ASSUME StateInv, NEW p \in Procs, Return(p) PROVE StateInv'
<1> USE DEF StateInv, StateTypeOK, Return, lockVars
<1>1. StateTypeOK'
  BY DEF Steps
<1>2. ASSUME NEW q \in Procs PROVE LockFits(q)' /\ HandlerFits(q)'
  BY DEF LockFits, HandlerFits, Locks, Inside, NoRequest, Request, Inserts, OwnedWrites
<1> QED
  BY <1>1, <1>2

-----------------------------------------------------------------------------
(* Inside the lock *)

(* An operation that finds its answer without writing. *)
LEMMA AnswerState ==
  ASSUME StateInv, NEW p \in Procs, pc[p] \in {"look", "store"},
         NEW status, NEW val, Answer(p, status, val),
         Reply(status, val, FALSE) \in Replies,
         UNCHANGED <<rows, used, req, snap, lockVars>>
  PROVE  StateInv'
<1> USE DEF StateInv, StateTypeOK, Answer, lockVars
<1>1. StateTypeOK'
  BY DEF Steps
<1>2. Reply(status, val, FALSE) # NoReply
  BY RealReply
<1>3. ASSUME NEW q \in Procs PROVE LockFits(q)' /\ HandlerFits(q)'
  BY <1>2 DEF LockFits, HandlerFits, Locks, Inside
<1> QED
  BY <1>1, <1>3

(* What the first look at the map leads to: an answer, or a row to work on. *)
LEMMA LookCases ==
  ASSUME StateInv, NEW p \in Procs, Look(p)
  PROVE  \/ \E status \in Statuses, val \in {None} \cup Row \cup Listings :
              /\ Answer(p, status, val) /\ Reply(status, val, FALSE) \in Replies
              /\ UNCHANGED snap
              /\ \/ /\ req[p].op = "list" /\ status = "OK"
                    /\ val = View(req[p].key, rows)
                 \/ /\ req[p].op = "get" /\ status = "OK"
                    /\ val = View(req[p].key, rows) /\ val # None
                 \/ /\ req[p].op \notin {"list", "create"} /\ status = "NotFound"
                    /\ val = None /\ View(req[p].key, rows) = None
                 \/ /\ Refused(p) /\ status = "Forbidden" /\ val = None
                    /\ View(req[p].key, rows) = rows[req[p].key]
                    /\ rows[req[p].key] # None
         \/ /\ pc' = [pc EXCEPT ![p] = "store"] /\ Locks(p) /\ UNCHANGED reply
            /\ \/ req[p].op = "create" /\ UNCHANGED snap
               \/ /\ snap' = [snap EXCEPT ![p] = rows[req[p].key]]
                  /\ rows[req[p].key] \in Row /\ rows[req[p].key] # None /\ ~Refused(p)
<1>1. req[p] \in Requests /\ rows \in Tables
  BY Busy DEF Look, StateInv, StateTypeOK
<1>2. CASE LookAtAll(p)
  <2> DEFINE val == Listing(Cardinality(Stored(rows)), rows)
  <2>1. req[p].op = "list" /\ Answer(p, "OK", val) /\ UNCHANGED snap
    BY <1>2 DEF LookAtAll
  <2>2. req[p].key \notin Ids
    BY <1>1, <2>1, RequestFields, SnippetsAssumption
  <2>3. val = View(req[p].key, rows)
    BY <2>2 DEF View
  <2>4. val \in Listings
    BY <1>1, StoredCount DEF Listing, Listings
  <2>5. Reply("OK", val, FALSE) \in Replies
    BY <2>4, PlainReply
  <2> QED
    BY <2>1, <2>3, <2>4, <2>5 DEF Statuses
<1>3. CASE LookUp(p)
  <2> DEFINE row == rows[req[p].key]
  <2>1. req[p].op \notin {"list", "create"} /\ req[p].key \in Ids
    BY <1>1, <1>3, RequestFields DEF LookUp
  <2>2. row \in Row \cup {None} /\ row = View(req[p].key, rows)
    BY <1>1, <2>1 DEF Tables, View
  <2>3. CASE row = None /\ Answer(p, "NotFound", None) /\ UNCHANGED snap
    BY <2>1, <2>2, <2>3, PlainReply DEF Statuses
  <2>4. CASE row # None /\ req[p].op = "get" /\ Answer(p, "OK", row) /\ UNCHANGED snap
    <3>1. row \in Row /\ Reply("OK", row, FALSE) \in Replies
      BY <2>2, <2>4, PlainReply
    <3> QED
      BY <2>2, <2>4, <3>1 DEF Statuses
  <2>5. CASE row # None /\ Refused(p) /\ Answer(p, "Forbidden", None) /\ UNCHANGED snap
    BY <2>2, <2>5, PlainReply DEF Statuses
  <2>6. CASE /\ row # None /\ req[p].op # "get" /\ ~Refused(p)
             /\ snap' = [snap EXCEPT ![p] = row] /\ pc' = [pc EXCEPT ![p] = "store"]
             /\ UNCHANGED reply
    <3>1. Locks(p)
      BY <1>1, <2>1, <2>6, RequestFields DEF Locks, Ops, Reads
    <3> QED
      BY <2>2, <2>6, <3>1
  <2> QED
    BY <1>3, <2>3, <2>4, <2>5, <2>6 DEF LookUp
<1>4. CASE /\ req[p].op = "create" /\ pc' = [pc EXCEPT ![p] = "store"]
           /\ UNCHANGED <<snap, reply>>
  BY <1>4 DEF Locks, Inserts
<1> QED
  BY <1>2, <1>3, <1>4 DEF Look

LEMMA LookState == ASSUME StateInv, NEW p \in Procs, Look(p) PROVE StateInv'
<1>1. pc[p] = "look" /\ UNCHANGED <<rows, used, req, lockVars>>
  BY DEF Look
<1>2. ASSUME NEW status, NEW val, Answer(p, status, val), UNCHANGED snap,
             Reply(status, val, FALSE) \in Replies
      PROVE  StateInv'
  BY <1>1, <1>2, AnswerState
<1>3. ASSUME pc' = [pc EXCEPT ![p] = "store"], Locks(p), UNCHANGED reply,
             \/ req[p].op = "create" /\ UNCHANGED snap
             \/ /\ snap' = [snap EXCEPT ![p] = rows[req[p].key]]
                /\ rows[req[p].key] \in Row /\ rows[req[p].key] # None /\ ~Refused(p)
      PROVE  StateInv'
  <2> USE DEF StateInv, StateTypeOK, lockVars
  <2>1. StateTypeOK'
    BY <1>1, <1>3 DEF Steps
  <2>2. ASSUME NEW q \in Procs PROVE LockFits(q)'
    BY <1>1, <1>3 DEF LockFits, Locks, Inside
  <2>3. ASSUME NEW q \in Procs PROVE HandlerFits(q)'
    BY <1>1, <1>3 DEF HandlerFits, Refused
  <2> QED
    BY <2>1, <2>2, <2>3
<1> QED
  BY <1>2, <1>3, LookCases

(* Whoever is about to write holds the lock, and nobody else is inside.     *)
LEMMA Alone ==
  ASSUME StateInv, NEW p \in Procs, pc[p] = "store", NEW q \in Procs,
         pc[q] \in {"look", "store"}
  PROVE  p = q
BY DEF StateInv, LockFits, Inside

(* The rows that the three kinds of write store, and their answers. *)
LEMMA StoreCases ==
  ASSUME StateInv, NEW p \in Procs, Store(p)
  PROVE  /\ rows' \in Tables /\ used' \subseteq Ids
         /\ req[p] \in Requests
         /\ \/ /\ req[p].op \in Inserts /\ NewText(p) \in Texts
               /\ Reply("OK", [owner |-> req[p].user, text |-> NewText(p)], FALSE)
                    \in Replies
            \/ /\ req[p].op = "update" /\ Updated(p) \in Row
               /\ Reply("OK", Updated(p), FALSE) \in Replies
            \/ /\ req[p].op = "delete" /\ Reply("OK", None, FALSE) \in Replies
<1> USE DEF StateInv, StateTypeOK
<1>1. req[p] \in Requests /\ pc[p] = "store"
  BY Busy DEF Store
<1>2. req[p].op # "create" => snap[p] \in Row
  BY <1>1 DEF HandlerFits
<1>3. CASE StoreNew(p)
  <2> DEFINE new == [owner |-> req[p].user, text |-> NewText(p)]
  <2>1. req[p].op \in Inserts
    BY <1>3 DEF StoreNew
  <2>2. NewText(p) \in Texts
    BY <1>1, <1>2, <2>1, RequestFields DEF NewText, Inserts, Row
  <2>3. new \in Row
    BY <1>1, <2>1, <2>2, RequestFields DEF Row, Owners
  <2>4. PICK id \in Ids \ used : rows' = [rows EXCEPT ![id] = new] /\ used' = used \cup {id}
    BY <1>3 DEF StoreNew
  <2> QED
    BY <1>1, <2>1, <2>2, <2>3, <2>4, PlainReply DEF Tables
<1>4. CASE StoreUpdate(p)
  <2>1. req[p].op = "update" /\ req[p].key \in Ids /\ req[p].text \in Texts
    BY <1>1, <1>4, RequestFields DEF StoreUpdate
  <2>2. Updated(p) \in Row
    BY <1>2, <2>1 DEF Updated, WithText, Row
  <2> QED
    BY <1>1, <1>4, <2>1, <2>2, PlainReply DEF StoreUpdate, Tables
<1>5. CASE StoreDelete(p)
  BY <1>1, <1>5, PlainReply DEF StoreDelete, Tables, Statuses
<1> QED
  BY <1>3, <1>4, <1>5 DEF Store

LEMMA StoreState == ASSUME StateInv, NEW p \in Procs, Store(p) PROVE StateInv'
<1>1. /\ pc[p] = "store" /\ UNCHANGED <<req, snap, lockVars>>
      /\ rows' \in Tables /\ used' \subseteq Ids
  BY StoreCases DEF Store
<1>2. PICK r \in Replies : /\ reply' = [reply EXCEPT ![p] = r]
                           /\ pc' = [pc EXCEPT ![p] = "unlock"]
  BY StoreCases DEF Store, StoreNew, StoreUpdate, StoreDelete, Answer, Inserts
<1>3. \A q \in Procs : q # p => pc[q] # "store"
  BY <1>1, Alone
<1> USE DEF StateInv, StateTypeOK, lockVars
<1>4. StateTypeOK'
  BY <1>1, <1>2 DEF Steps
<1>5. ASSUME NEW q \in Procs PROVE LockFits(q)'
  BY <1>1, <1>2 DEF LockFits, Locks, Inside
<1>6. ASSUME NEW q \in Procs PROVE HandlerFits(q)'
  BY <1>1, <1>2, <1>3, RealReply DEF HandlerFits
<1> QED
  BY <1>4, <1>5, <1>6

-----------------------------------------------------------------------------
(* The inductive invariant *)

LEMMA InitMemory == Init => MemoryInv
<1> SUFFICES ASSUME Init PROVE MemoryInv
  OBVIOUS
<1>1. StateTypeOK
  BY DEF Init, StateTypeOK, Stored, Steps
<1>2. ASSUME NEW p \in Procs PROVE LockFits(p) /\ HandlerFits(p) /\ SeenFits(p)
  BY ProcsAssumption DEF Init, LockFits, HandlerFits, SeenFits, Inside, NoRequest, Request
<1> QED
  BY <1>1, <1>2 DEF MemoryInv, StateInv, Init

LEMMA StepState ==
  ASSUME StateInv, NEW p \in Procs,
         \/ Call(p) \/ RLock(p) \/ Lock(p) \/ Drained(p)
         \/ Look(p) \/ Store(p) \/ Unlock(p) \/ Return(p)
  PROVE  StateInv'
BY CallState, RLockState, LockState, DrainedState, LookState, StoreState, UnlockState,
   ReturnState

LEMMA ObserveKeeps ==
  ASSUME StateInv', Observe, seen \in [Procs -> SUBSET (Row \cup {None} \cup Listings)]
  PROVE  /\ seen' \in [Procs -> SUBSET (Row \cup {None} \cup Listings)]
         /\ \A p \in Procs : SeenFits(p)'
<1>1. ASSUME NEW p \in Procs, req'[p].key # None
      PROVE  View(req'[p].key, rows') \in Row \cup {None} \cup Listings
  <2>1. req'[p] \in Requests /\ rows' \in Tables
    BY <1>1 DEF StateInv, StateTypeOK, NoRequest, Request
  <2> QED
    BY <1>1, <2>1, RequestFields, ViewType
<1> QED
  BY <1>1 DEF Observe, SeenFits

LEMMA MemoryStep == MemoryInv /\ [Next]_vars => MemoryInv'
<1> SUFFICES ASSUME MemoryInv, [Next]_vars PROVE MemoryInv'
  OBVIOUS
<1>1. CASE UNCHANGED vars
  BY <1>1 DEF vars, lockVars, MemoryInv, StateInv, StateTypeOK, LockFits, HandlerFits,
     SeenFits, Locks, View, Stored
<1>2. CASE Next
  <2>1. PICK p \in Procs :
          /\ \/ Call(p) \/ RLock(p) \/ Lock(p) \/ Drained(p)
             \/ Look(p) \/ Store(p) \/ Unlock(p) \/ Return(p)
          /\ Observe
    BY <1>2, Zenon DEF Next, Run, Acquire
  <2>2. StateInv'
    BY <2>1, StepState DEF MemoryInv
  <2> QED
    BY <2>1, <2>2, ObserveKeeps DEF MemoryInv
<1> QED
  BY <1>1, <1>2

LEMMA MemoryInvariant == Spec => []MemoryInv
<1> QED
  BY InitMemory, MemoryStep, PTL DEF Spec

(* Types, of the history too, for any number of handlers. *)
THEOREM MemoryTypeSafe == Spec => []MemoryTypeOK
<1>1. MemoryInv => MemoryTypeOK
  BY DEF MemoryInv, StateInv, MemoryTypeOK
<1> QED
  BY <1>1, MemoryInvariant, PTL

(* No handler reads or writes the map while another is about to write it,   *)
(* for any number of handlers, readers and writers.                         *)
THEOREM WritesAloneSafe == Spec => []WritesAlone
<1>1. MemoryInv => WritesAlone
  BY Alone DEF MemoryInv, WritesAlone
<1> QED
  BY <1>1, MemoryInvariant, PTL

(* The handler a request waits for holds the lock and is on its way to      *)
(* Unlock, or waits for readers that are: there is no circle.               *)
THEOREM NobodyStuckSafe == Spec => []NobodyStuck
<1>1. MemoryInv => NobodyStuck
  <2> SUFFICES ASSUME MemoryInv, NEW p \in Procs, HeldUp(p)
               PROVE  \E q \in Procs : GoesOn(q)
    BY DEF NobodyStuck
  <2> USE DEF MemoryInv, StateInv
  <2>1. ASSUME NEW q \in readers
        PROVE  GoesOn(q)
    <3>1. q \in Procs
      BY <2>1 DEF StateTypeOK
    <3> QED
      BY <2>1, <3>1 DEF LockFits, Inside, GoesOn
  <2>2. CASE readers # {}
    <3>1. PICK q \in readers : TRUE
      BY <2>2
    <3> QED
      BY <2>1, <3>1 DEF StateTypeOK
  <2>3. CASE readers = {}
    <3>1. writer # None
      BY <2>3 DEF HeldUp, LockFits
    <3>2. writer \in Procs
      BY <3>1 DEF StateTypeOK
    <3>3. pc[writer] \in Inside \cup {"drain"}
      BY <3>2 DEF LockFits
    <3> QED
      BY <2>3, <3>2, <3>3 DEF Inside, GoesOn
  <2> QED
    BY <2>2, <2>3
<1> QED
  BY <1>1, MemoryInvariant, PTL

-----------------------------------------------------------------------------
(* Step simulation *)

(* The contract speaks of snippets in the words of the store. *)
LEMMA SameWords ==
  /\ \A table, k : Contract!View(k, table) = View(k, table)
  /\ \A table : Contract!Stored(table) = Stored(table)
  /\ \A row, user : Contract!MayWrite(row, user) = MayWrite(row, user)
  /\ \A row, text : Contract!WithText(row, text) = WithText(row, text)
  /\ Contract!Inserts = Inserts /\ Contract!OwnedWrites = OwnedWrites
  /\ Contract!NoRequest = NoRequest /\ Contract!NoReply = NoReply
<1>1. \A S : Contract!Cardinality(S) = Cardinality(S)
  BY DEF Contract!Cardinality, Cardinality
<1>2. \A table : Contract!Stored(table) = Stored(table)
  BY DEF Contract!Stored, Stored
<1>3. \A table, k : Contract!View(k, table) = View(k, table)
  BY <1>1, <1>2 DEF Contract!View, View, Contract!Listing, Listing
<1> QED
  BY <1>2, <1>3
  DEF Contract!MayWrite, MayWrite, Contract!WithText, WithText,
      Contract!Inserts, Inserts, Contract!OwnedWrites, OwnedWrites,
      Contract!NoRequest, Contract!Request, NoRequest, Request,
      Contract!NoReply, Contract!Reply, NoReply, Reply

LEMMA SameSets ==
  /\ Contract!Tables = Tables /\ Contract!Requests = Requests
  /\ Contract!Replies = Replies
<1>1. Contract!Tables = Tables
  BY DEF Contract!Tables, Tables, Contract!Row, Row, Contract!Owners, Owners
<1>2. Contract!Requests = Requests
  BY DEF Contract!Requests, Requests, Contract!Request, Request
<1> QED
  BY <1>1, <1>2
  DEF Contract!Replies, Replies, Contract!Statuses, Statuses, Contract!Row, Row,
      Contract!Owners, Owners, Contract!Listings, Listings

LEMMA WatchIsObserve == Contract!Watch <=> Observe
BY SameWords DEF Contract!Watch, Observe

(* Steps of the lock, and the look of a write, show a request nothing new.  *)
LEMMA NothingNew ==
  ASSUME MemoryInv, Observe, UNCHANGED <<rows, used, req, reply>>
  PROVE  UNCHANGED Contract!vars
<1>1. ASSUME NEW p \in Procs PROVE seen'[p] = seen[p]
  BY DEF MemoryInv, SeenFits, Observe
<1>2. seen' = [p \in Procs |-> seen'[p]] /\ seen = [p \in Procs |-> seen[p]]
  BY DEF MemoryInv, Observe
<1>3. seen' = seen
  BY <1>1, <1>2
<1> QED
  BY <1>3 DEF Contract!vars

(* An answer with its effect and its explanation is a step of the contract. *)
LEMMA FinishStep ==
  ASSUME MemoryInv, Observe, NEW p \in Procs, pc[p] \in {"look", "store"}, UNCHANGED req,
         NEW status, NEW val, Answer(p, status, val),
         Reply(status, val, FALSE) \in Replies,
         Contract!Effect(p), Contract!Explained(p, Reply(status, val, FALSE))
  PROVE  Contract!Next
<1> USE DEF MemoryInv, StateInv, StateTypeOK
<1>1. req[p] # NoRequest /\ reply[p] = NoReply
  BY DEF HandlerFits
<1>2. /\ reply'[p] = Reply(status, val, FALSE)
      /\ reply' = [reply EXCEPT ![p] = reply'[p]]
  BY DEF Answer
<1>3. Contract!Explained(p, reply'[p])
  BY <1>2
<1>4. Contract!Finish(p)
  BY <1>1, <1>2, <1>3, WatchIsObserve, SameWords, SameSets DEF Contract!Finish
<1> QED
  BY <1>4 DEF Contract!Next

(* The values a request has seen by the end of a step: among them what its  *)
(* key shows before and after it.                                           *)
LEMMA SeesNow ==
  ASSUME MemoryInv, Observe, NEW p \in Procs, UNCHANGED req, req[p] \in Requests,
         req[p].op # "create"
  PROVE  /\ View(req[p].key, rows) \in seen'[p]
         /\ View(req[p].key, rows') \in seen'[p]
<1>1. req[p].key # None
  BY RequestFields
<1> QED
  BY <1>1 DEF MemoryInv, SeenFits, Observe

LEMMA LookStep ==
  ASSUME MemoryInv, Observe, NEW p \in Procs, Look(p)
  PROVE  Contract!Next \/ UNCHANGED Contract!vars
<1>1. pc[p] = "look" /\ UNCHANGED <<rows, used, req, lockVars>> /\ req[p] \in Requests
  BY Busy DEF Look, MemoryInv
<1>2. req[p].op # "create" => View(req[p].key, rows) \in seen'[p]
  BY <1>1, SeesNow
<1>3. Contract!Effect(p)
  BY <1>1 DEF Contract!Effect
<1>4. CASE UNCHANGED reply
  BY <1>1, <1>4, NothingNew
<1>5. ASSUME NEW status \in Statuses, NEW val \in {None} \cup Row \cup Listings,
             Answer(p, status, val), Reply(status, val, FALSE) \in Replies,
             Contract!Explained(p, Reply(status, val, FALSE))
      PROVE  Contract!Next
  BY <1>1, <1>3, <1>5, FinishStep
<1>6. ASSUME NEW val, req[p].op = "list", val = View(req[p].key, rows)
      PROVE  Contract!Explained(p, Reply("OK", val, FALSE))
  <2>1. Contract!ListingExplained(p, val)
    BY <1>2, <1>6 DEF Contract!ListingExplained
  <2> QED
    BY <1>6, <2>1 DEF Contract!Explained, Contract!OkExplained, Reply
<1>7. ASSUME NEW val, req[p].op = "get", val = View(req[p].key, rows), val # None
      PROVE  Contract!Explained(p, Reply("OK", val, FALSE))
  BY <1>2, <1>7 DEF Contract!Explained, Contract!OkExplained, Contract!Was, Reply
<1>8. ASSUME req[p].op \notin {"list", "create"}, View(req[p].key, rows) = None
      PROVE  Contract!Explained(p, Reply("NotFound", None, FALSE))
  BY <1>2, <1>8 DEF Contract!Explained, Contract!Was, Reply
<1>9. ASSUME Refused(p), View(req[p].key, rows) = rows[req[p].key],
             rows[req[p].key] # None
      PROVE  Contract!Explained(p, Reply("Forbidden", None, FALSE))
  <2>1. req[p].op \in OwnedWrites /\ ~MayWrite(rows[req[p].key], req[p].user)
    BY <1>9 DEF Refused
  <2>2. rows[req[p].key] \in seen'[p]
    BY <1>2, <1>9, <2>1 DEF OwnedWrites
  <2>3. Contract!WasForeign(p)
    BY <1>9, <2>1, <2>2, SameWords DEF Contract!WasForeign
  <2> QED
    BY <2>1, <2>3, SameWords DEF Contract!Explained, Reply
<1>10. StateInv
  BY DEF MemoryInv
<1>11. ASSUME NEW status \in Statuses, NEW val \in {None} \cup Row \cup Listings,
              Answer(p, status, val), Reply(status, val, FALSE) \in Replies,
              \/ /\ req[p].op = "list" /\ status = "OK" /\ val = View(req[p].key, rows)
              \/ /\ req[p].op = "get" /\ status = "OK"
                 /\ val = View(req[p].key, rows) /\ val # None
              \/ /\ req[p].op \notin {"list", "create"} /\ status = "NotFound"
                 /\ val = None /\ View(req[p].key, rows) = None
              \/ /\ Refused(p) /\ status = "Forbidden" /\ val = None
                 /\ View(req[p].key, rows) = rows[req[p].key]
                 /\ rows[req[p].key] # None
       PROVE  Contract!Next
  <2>1. Contract!Explained(p, Reply(status, val, FALSE))
    BY <1>6, <1>7, <1>8, <1>9, <1>11
  <2> QED
    BY <1>5, <1>11, <2>1
<1> QED
  BY <1>4, <1>10, <1>11, LookCases

(* A write acts on the row it has looked up, which is still the stored one. *)
LEMMA StoreStep ==
  ASSUME MemoryInv, Observe, NEW p \in Procs, Store(p) PROVE Contract!Next
<1> DEFINE key == req[p].key
<1>1. /\ pc[p] = "store" /\ UNCHANGED <<req, snap, lockVars>> /\ req[p] \in Requests
      /\ rows \in Tables /\ rows' \in Tables /\ StateInv
  BY StoreCases DEF Store, MemoryInv, StateInv, StateTypeOK
<1>2. req[p].op # "create" =>
        /\ key \in Ids /\ View(key, rows) = rows[key] /\ View(key, rows') = rows'[key]
        /\ rows[key] \in seen'[p] /\ rows'[key] \in seen'[p]
        /\ snap[p] = rows[key] /\ rows[key] \in Row /\ rows[key] # None
  <2>1. ASSUME req[p].op # "create"
        PROVE  /\ key \in Ids
               /\ View(key, rows) \in seen'[p] /\ View(key, rows') \in seen'[p]
    <3>1. req[p].op # "list"
      BY <1>1, RequestFields DEF StateInv, LockFits, Locks, Inserts, OwnedWrites
    <3> QED
      BY <1>1, <2>1, <3>1, SeesNow, RequestFields
  <2>2. req[p].op # "create" =>
          snap[p] = rows[key] /\ rows[key] \in Row /\ rows[key] # None
    BY <1>1, <2>1 DEF StateInv, StateTypeOK, HandlerFits
  <2> QED
    BY <2>1, <2>2 DEF View
<1>3. CASE StoreNew(p)
  <2> DEFINE new == [owner |-> req[p].user, text |-> NewText(p)]
  <2>1. /\ req[p].op \in Inserts /\ Answer(p, "OK", new)
        /\ NewText(p) \in Texts /\ Reply("OK", new, FALSE) \in Replies
    BY <1>1, <1>3, StoreCases DEF StoreNew, Inserts
  <2>2. PICK id \in Ids \ used :
          rows' = [rows EXCEPT ![id] = new] /\ used' = used \cup {id}
    BY <1>3 DEF StoreNew
  <2>3. NewText(p) \in Contract!Insertable(p)
    <3>1. CASE req[p].op = "fork"
      <4>1. snap[p] \in seen[p] \ {None}
        BY <1>1, <1>2, <3>1, RequestFields DEF MemoryInv, SeenFits
      <4> QED
        BY <3>1, <4>1 DEF NewText, Contract!Insertable
    <3>2. CASE req[p].op # "fork"
      BY <3>2 DEF NewText, Contract!Insertable
    <3> QED
      BY <3>1, <3>2
  <2>4. Contract!Insert(p, id, NewText(p))
    BY <2>1, <2>2, <2>3, SameWords DEF Contract!Insert
  <2>5. Contract!Effect(p)
    BY <2>1, <2>4 DEF Contract!Effect
  <2>6. Contract!Stores(p, new)
    BY <1>1, <2>2 DEF Contract!Stores, Tables
  <2>7. Contract!Explained(p, Reply("OK", new, FALSE))
    BY <2>1, <2>6, SameWords DEF Contract!Explained, Contract!OkExplained, Reply
  <2> QED
    BY <1>1, <2>1, <2>5, <2>7, FinishStep
<1>4. ASSUME req[p].op \in OwnedWrites
      PROVE  /\ Contract!WasWritable(p) /\ Contract!OwnRow(p)
             /\ req[p].op # "create"
  <2>1. req[p].op # "create"
    BY <1>4 DEF OwnedWrites
  <2>2. MayWrite(rows[key], req[p].user)
    BY <1>1, <1>2, <1>4, <2>1 DEF StateInv, HandlerFits
  <2> QED
    BY <1>2, <2>1, <2>2, SameWords DEF Contract!WasWritable, Contract!OwnRow
<1>5. CASE StoreUpdate(p)
  <2>1. /\ req[p].op = "update" /\ req[p].op \in OwnedWrites /\ UNCHANGED used
        /\ rows' = [rows EXCEPT ![key] = Updated(p)] /\ Answer(p, "OK", Updated(p))
        /\ Reply("OK", Updated(p), FALSE) \in Replies
    BY <1>1, <1>5, StoreCases DEF StoreUpdate, OwnedWrites, Inserts
  <2>2. Updated(p) = WithText(rows[key], req[p].text) /\ Updated(p).text = req[p].text
    BY <1>2, <1>4, <2>1 DEF Updated, WithText
  <2>3. Contract!Overwrite(p)
    BY <1>4, <2>1, <2>2, SameWords DEF Contract!Overwrite
  <2>4. rows'[key] = Updated(p)
    BY <1>1, <1>2, <1>4, <2>1 DEF Tables
  <2>5. Contract!OkExplained(p, Updated(p))
    BY <1>4, <2>1, <2>2, <2>4 DEF Contract!OkExplained
  <2>6. Contract!Effect(p) /\ Contract!Explained(p, Reply("OK", Updated(p), FALSE))
    BY <2>3, <2>5 DEF Contract!Effect, Contract!Explained, Reply
  <2> QED
    BY <1>1, <2>1, <2>6, FinishStep
<1>6. CASE StoreDelete(p)
  <2>1. /\ req[p].op = "delete" /\ req[p].op \in OwnedWrites /\ UNCHANGED used
        /\ rows' = [rows EXCEPT ![key] = None] /\ Answer(p, "OK", None)
        /\ Reply("OK", None, FALSE) \in Replies
    BY <1>1, <1>6, StoreCases DEF StoreDelete, OwnedWrites, Inserts
  <2>2. Contract!Remove(p) /\ rows'[key] = None
    BY <1>1, <1>2, <1>4, <2>1 DEF Contract!Remove, Tables
  <2>3. Contract!OkExplained(p, None)
    BY <1>2, <1>4, <2>1, <2>2 DEF Contract!OkExplained, Contract!Was
  <2>4. Contract!Effect(p) /\ Contract!Explained(p, Reply("OK", None, FALSE))
    BY <2>2, <2>3 DEF Contract!Effect, Contract!Explained, Reply
  <2> QED
    BY <1>1, <2>1, <2>4, FinishStep
<1> QED
  BY <1>3, <1>5, <1>6 DEF Store

LEMMA ContractStep ==
  ASSUME MemoryInv, [Next]_vars PROVE [Contract!Next]_(Contract!vars)
<1>1. CASE UNCHANGED vars
  BY <1>1 DEF vars, Contract!vars
<1>2. ASSUME NEW p \in Procs, Observe, Call(p) PROVE Contract!Next
  <2>1. req[p] = NoRequest /\ UNCHANGED <<rows, used, reply>>
    BY <1>2 DEF Call, MemoryInv, StateInv, HandlerFits
  <2>2. Contract!Call(p)
    BY <1>2, <2>1, WatchIsObserve, SameWords, SameSets DEF Call, Contract!Call
  <2> QED
    BY <2>2 DEF Contract!Next
<1>3. ASSUME NEW p \in Procs, Observe, Return(p) PROVE Contract!Next
  <2>1. req[p] # NoRequest
    BY <1>3, Busy, RequestFields DEF Return, MemoryInv
  <2>2. Contract!Return(p)
    BY <1>3, <2>1, WatchIsObserve, SameWords DEF Return, Contract!Return
  <2> QED
    BY <2>2 DEF Contract!Next
<1>4. ASSUME NEW p \in Procs, Observe, RLock(p) \/ Lock(p) \/ Drained(p) \/ Unlock(p)
      PROVE  UNCHANGED Contract!vars
  BY <1>4, NothingNew DEF RLock, Lock, Drained, Unlock
<1>5. CASE Next
  <2>1. PICK p \in Procs :
          /\ \/ Call(p) \/ RLock(p) \/ Lock(p) \/ Drained(p)
             \/ Look(p) \/ Store(p) \/ Unlock(p) \/ Return(p)
          /\ Observe
    BY <1>5, Zenon DEF Next, Run, Acquire
  <2> QED
    BY <1>2, <1>3, <1>4, <2>1, LookStep, StoreStep
<1> QED
  BY <1>1, <1>5

(* InMemoryStore implements the contract of the Store interface for any     *)
(* number of handlers, snippets and users.                                  *)
THEOREM MemoryContractHonoured == Spec => HonoursContract
<1>1. MemoryInv /\ [Next]_vars => [Contract!Next]_(Contract!vars)
  BY ContractStep
<1>2. Init => Contract!Init
  BY SameWords, SameSets DEF Init, Contract!Init
<1> QED
  BY <1>1, <1>2, MemoryInvariant, PTL DEF Spec, Contract!Spec, HonoursContract

-----------------------------------------------------------------------------
(* Pages *)

(* What a remainder leaves alone. *)
LEMMA ModOfSmall ==
  ASSUME NEW a \in Nat, NEW b \in Nat, a < b
  PROVE  a % b = a
  OBVIOUS

(* A quotient and a remainder are the only ones. *)
LEMMA DivModUnique ==
  ASSUME NEW q \in Int, NEW r \in Nat, NEW b \in Nat \ {0}, r < b
  PROVE  (q * b + r) % b = r
<1> DEFINE a == q * b + r
           s == a % b
           t == a \div b
<1>1. a \in Int /\ s \in 0 .. b - 1 /\ t \in Int /\ a = t * b + s
  <2>1. a \in Int
    OBVIOUS
  <2> HIDE DEF a
  <2> QED BY <2>1
<1>2. t = q
  <2>1. t * b + s = q * b + r
    BY <1>1
  <2> HIDE DEF a, s, t
  <2>2. (t < q) => t * b + b <= q * b
    <3> SUFFICES ASSUME t < q PROVE t * b + b <= q * b
      OBVIOUS
    <3>1. t + 1 <= q
      BY <1>1
    <3>2. (t + 1) * b <= q * b
      BY <1>1, <3>1
    <3> QED BY <1>1, <3>2
  <2>3. (q < t) => q * b + b <= t * b
    <3> SUFFICES ASSUME q < t PROVE q * b + b <= t * b
      OBVIOUS
    <3>1. q + 1 <= t
      BY <1>1
    <3>2. (q + 1) * b <= t * b
      BY <1>1, <3>1
    <3> QED BY <1>1, <3>2
  <2> QED BY <1>1, <2>1, <2>2, <2>3
<1>3. q * b + r = q * b + s
  BY <1>1, <1>2
<1> HIDE DEF s
<1> QED BY <1>1, <1>3 DEF s

(* Wrapping around leaves the bits that an int has room for: what they say  *)
(* when the sign bit is off, and a negative number when it is on.           *)
LEMMA WrapBits ==
  ASSUME NEW n \in Nat
  PROVE  LET bits == n % (2 * (MaxInt + 1))
         IN /\ bits \in 0 .. 2 * MaxInt + 1
            /\ bits <= MaxInt => Wrap(n) = bits
            /\ bits > MaxInt  => Wrap(n) < 0
<1> DEFINE h == MaxInt + 1
           b == 2 * h
           r == n % b
           q == n \div b
<1>1. h \in Nat \ {0} /\ b \in Nat \ {0} /\ b = h + h
  BY PagesAssumption
<1>2. q \in Int /\ r \in 0 .. b - 1 /\ n = q * b + r
  <2> HIDE DEF b
  <2> QED BY <1>1
<1>3. Wrap(n) = ((n + h) % b) - h
  BY PagesAssumption DEF Wrap
<1>4. CASE r < h
  <2>1. (n + h) % b = r + h
    <3> HIDE DEF h, b, q, r
    <3>1. n + h = q * b + (r + h) /\ r + h \in Nat /\ r + h < b
      BY <1>1, <1>2, <1>4
    <3> QED BY <1>1, <1>2, <3>1, DivModUnique
  <2>2. Wrap(n) = r
    <3> HIDE DEF h, b, q, r
    <3> QED BY <1>1, <1>2, <1>3, <2>1
  <2> QED BY <1>1, <1>2, <1>4, <2>2, PagesAssumption
<1>5. CASE r >= h
  <2>1. (n + h) % b = r - h
    <3> HIDE DEF h, b, q, r
    <3>1. n + h = (q + 1) * b + (r - h) /\ r - h \in Nat /\ r - h < b /\ q + 1 \in Int
      BY <1>1, <1>2, <1>5
    <3> QED BY <1>1, <3>1, DivModUnique
  <2>2. Wrap(n) = r - b /\ r - b < 0
    <3> HIDE DEF h, b, q, r
    <3> QED BY <1>1, <1>2, <1>3, <2>1
  <2> QED BY <1>1, <1>2, <1>5, <2>2, PagesAssumption
<1> QED
  BY <1>1, <1>2, <1>4, <1>5

(* No int is changed by wrapping around. *)
LEMMA WrapKeeps ==
  ASSUME NEW n \in 0 .. MaxInt
  PROVE  Wrap(n) = n
<1>1. n % (2 * (MaxInt + 1)) = n
  <2> DEFINE b == 2 * (MaxInt + 1)
  <2>1. n \in Nat /\ b \in Nat /\ n < b
    BY PagesAssumption
  <2> HIDE DEF b
  <2>2. n % b = n
    BY <2>1, ModOfSmall
  <2> QED BY <2>2 DEF b
<1> QED
  BY <1>1, WrapBits, PagesAssumption

(* Page k, counted from 0, has the matches from k * limit on. *)
LEMMA PageOfMatch ==
  ASSUME NEW i \in Nat, NEW limit \in Nat \ {0}, NEW k \in Nat
  PROVE  (i \div limit = k) <=> (k * limit <= i /\ i < k * limit + limit)
<1> DEFINE q == i \div limit
<1>1. q \in Int /\ q * limit <= i /\ i < q * limit + limit
  OBVIOUS
<1>2. ASSUME k * limit <= i, i < k * limit + limit PROVE q = k
  <2>1. (q < k) => q * limit + limit <= k * limit
    <3> HIDE DEF q
    <3> SUFFICES ASSUME q < k PROVE q * limit + limit <= k * limit
      OBVIOUS
    <3> QED BY <1>1
  <2>2. (k < q) => k * limit + limit <= q * limit
    <3> HIDE DEF q
    <3> SUFFICES ASSUME k < q PROVE k * limit + limit <= q * limit
      OBVIOUS
    <3> QED BY <1>1
  <2> HIDE DEF q
  <2> QED BY <1>1, <1>2, <2>1, <2>2
<1> QED BY <1>1, <1>2

(* The page arithmetic of one page, for ints of any width and limits of any *)
(* size: neither the end nor anything but the product wraps around.         *)
LEMMA EveryPageExact ==
  ASSUME NEW total \in Totals, NEW page \in 1 .. MaxInt, NEW limit \in 1 .. MaxLimit
  PROVE  CutAsWritten(page, limit, total)
<1> DEFINE k       == page - 1
           skipped == k * limit
           start   == skipped % (2 * (MaxInt + 1))
<1>1. k \in Nat /\ limit \in Nat \ {0} /\ limit <= MaxLimit
  BY PagesAssumption
<1>2. total \in Nat /\ total + MaxLimit <= MaxInt
  BY PagesAssumption DEF Totals
<1>3. skipped \in Nat
  <2> HIDE DEF k
  <2> QED BY <1>1
<1>4. /\ start \in 0 .. 2 * MaxInt + 1
      /\ start <= MaxInt => First(page, limit) = start
      /\ start > MaxInt  => First(page, limit) < 0
  <2>1. First(page, limit) = Wrap(skipped)
    BY DEF First
  <2> HIDE DEF skipped
  <2> QED BY <1>3, <2>1, WrapBits
<1>5. Skipped(page, limit) = skipped /\ SkippedBits(page, limit) = start
  BY DEF Skipped, SkippedBits
<1> HIDE DEF start
<1>6. ASSUME start < total
      PROVE  End(page, limit, total)
               = IF start + limit > total THEN total ELSE start + limit
  <2>1. start <= MaxInt /\ start + limit \in 0 .. MaxInt
    BY <1>1, <1>2, <1>4, <1>6, PagesAssumption
  <2>2. Wrap(start + limit) = start + limit
    BY <2>1, WrapKeeps
  <2> QED
    BY <1>4, <2>1, <2>2 DEF End
<1>7. OutOfRange(page, limit, total) <=> start > MaxInt
  <2>1. ASSUME start <= MaxInt PROVE ~OutOfRange(page, limit, total)
    BY <1>1, <1>2, <1>4, <1>6, <2>1 DEF OutOfRange
  <2>2. ASSUME start > MaxInt PROVE OutOfRange(page, limit, total)
    <3>1. First(page, limit) < 0 /\ First(page, limit) \in Int
      BY <1>4, <2>2, <1>1, <1>3, PagesAssumption DEF First, Wrap
    <3> QED
      BY <1>2, <3>1 DEF OutOfRange
  <2> QED
    BY <1>4, <2>1, <2>2, PagesAssumption
<1>8. ASSUME start <= MaxInt
      PROVE  OnPage(page, limit, total)
               = {i \in 0 .. total - 1 : start <= i /\ i < start + limit}
  BY <1>1, <1>2, <1>4, <1>6, <1>8 DEF OnPage
<1>9. ASSUME skipped <= MaxInt
      PROVE  /\ start = skipped
             /\ \A i \in 0 .. total - 1 :
                  i \div limit = k <=> (start <= i /\ i < start + limit)
  <2>1. start = skipped
    <3> DEFINE b == 2 * (MaxInt + 1)
    <3>1. b \in Nat /\ skipped < b
      <4> HIDE DEF skipped
      <4> QED BY <1>3, <1>9, PagesAssumption
    <3> HIDE DEF b, skipped
    <3>2. skipped % b = skipped
      BY <1>3, <3>1, ModOfSmall
    <3> QED BY <3>2 DEF b, start
  <2>2. \A i \in 0 .. total - 1 : i \div limit = k <=> (skipped <= i /\ i < skipped + limit)
    <3> HIDE DEF k
    <3> QED BY <1>1, PageOfMatch
  <2> QED
    BY <2>1, <2>2
<1>10. ASSUME skipped <= MaxInt
       PROVE  /\ ~OutOfRange(page, limit, total)
              /\ OnPage(page, limit, total) = {i \in 0 .. total - 1 : i \div limit = page - 1}
  <2>1. start <= MaxInt
    BY <1>9, <1>10
  <2>2. ~OutOfRange(page, limit, total)
    BY <1>3, <1>4, <1>7, <2>1, PagesAssumption
  <2>3. OnPage(page, limit, total)
          = {i \in 0 .. total - 1 : start <= i /\ i < start + limit}
    BY <1>8, <2>1
  <2> QED
    BY <1>9, <1>10, <2>2, <2>3
<1> QED
  BY <1>5, <1>7, <1>8, <1>10 DEF CutAsWritten

(* The page of a listing is the one its page and limit say, for ints of any *)
(* width, whatever a client writes: exactly when the slice is cut out of    *)
(* range, and what is on the page when it is not.                           *)
THEOREM PagesExactSafe == Spec => []PagesExact
<1>1. ASSUME NEW total \in Totals PROVE Exact(total)
  <2>1. \A p \in Written : Page(p) \in 1 .. MaxInt
    BY PagesAssumption DEF Page
  <2>2. \A l \in Written : Limit(l) \in 1 .. MaxLimit
    BY PagesAssumption DEF Limit
  <2> QED
    BY <1>1, <2>1, <2>2, EveryPageExact DEF Exact
<1>2. PagesExact
  BY <1>1 DEF PagesExact, ExactTotals
<1> QED
  BY <1>2, PTL
=============================================================================
