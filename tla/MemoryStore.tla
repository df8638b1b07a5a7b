----------------------------- MODULE MemoryStore -----------------------------
(***************************************************************************)
(* The snippet operations of InMemoryStore (service/store.go), the store   *)
(* main.go takes when DATABASE_URL is empty: one Go map behind one         *)
(* sync.RWMutex.  A request asks for the lock in the mode its operation    *)
(* names, looks the snippet up, stores the result, and unlocks on its way  *)
(* out (defer).  The lock is modelled as package sync documents it, so     *)
(* that mutual exclusion and progress are results and not assumptions.     *)
(*                                                                         *)
(* Nothing survives a restart of the process, so there is no crash here.   *)
(***************************************************************************)
EXTENDS Snippets, Pages

CONSTANT Procs  \* request handlers

ASSUME ProcsAssumption == None \notin Procs

VARIABLES
  rows,     \* map snippets
  used,     \* ids drawn so far by uuid.New()
  pc,       \* where each handler is
  req,      \* request each handler serves
  snap,     \* the local variable `sn` or `original`
  reply,    \* what the operation returned
  readers,  \* handlers that hold the lock for reading
  writer,   \* handler that holds it for writing, or is about to
  seen      \* history: values the request's key has had since it began

vars == <<rows, used, pc, req, snap, reply, readers, writer, seen>>
lockVars == <<readers, writer>>

Steps == {"idle", "lock", "wait", "drain", "look", "store", "unlock", "reply"}

(* NewStore seeds snippets that have no owner. *)
Init ==
  /\ rows \in Tables
  /\ \A id \in Stored(rows) : rows[id].owner = None
  /\ used = Stored(rows)
  /\ pc = [p \in Procs |-> "idle"]
  /\ req = [p \in Procs |-> NoRequest]
  /\ snap = [p \in Procs |-> None]
  /\ reply = [p \in Procs |-> NoReply]
  /\ readers = {}
  /\ writer = None
  /\ seen = [p \in Procs |-> {}]

(* Ids are finite here: an insert begins only while one is left for it. *)
IdLeft ==
  Cardinality(used) + Cardinality({p \in Procs : req[p].op \in Inserts})
    < Cardinality(Ids)

Call(p) ==
  /\ pc[p] = "idle"
  /\ \E r \in Requests :
       /\ r.op \in Inserts => IdLeft
       /\ req' = [req EXCEPT ![p] = r]
  /\ pc' = [pc EXCEPT ![p] = "lock"]
  /\ UNCHANGED <<rows, used, snap, reply, lockVars>>

-----------------------------------------------------------------------------
(* sync.RWMutex *)

(* Mutant of Locks: updates and deletes call RLock. *)
InsertsLock(p) == req[p].op \in Inserts

(* The operations that call Lock; the others call RLock. *)
Locks(p) == req[p].op \in Inserts \cup OwnedWrites

(* A reader waits for a writer that holds the lock or has asked for it. *)
RLock(p) ==
  /\ pc[p] = "lock"
  /\ ~Locks(p)
  /\ \/ /\ writer = None
        /\ readers' = readers \cup {p}
        /\ pc' = [pc EXCEPT ![p] = "look"]
     \/ /\ writer # None
        /\ pc' = [pc EXCEPT ![p] = "wait"]
        /\ UNCHANGED readers
  /\ UNCHANGED <<rows, used, req, snap, reply, writer>>

(* A writer first excludes the other writers and the readers to come, then  *)
(* waits for the readers there are.                                         *)
Lock(p) ==
  /\ pc[p] = "lock"
  /\ Locks(p)
  /\ writer = None
  /\ writer' = p
  /\ pc' = [pc EXCEPT ![p] = "drain"]
  /\ UNCHANGED <<rows, used, req, snap, reply, readers>>

Drained(p) ==
  /\ pc[p] = "drain"
  /\ readers = {}
  /\ pc' = [pc EXCEPT ![p] = "look"]
  /\ UNCHANGED <<rows, used, req, snap, reply, lockVars>>

(* Mutant of Admitted: the readers that wait are not woken up. *)
NobodyAdmitted(p) == {}

(* A writer that unlocks lets in the readers that wait. *)
Admitted(p) == {q \in Procs : writer = p /\ pc[q] = "wait"}

Unlock(p) ==
  /\ pc[p] = "unlock"
  /\ readers' = (readers \ {p}) \cup Admitted(p)
  /\ writer' = IF writer = p THEN None ELSE writer
  /\ pc' = [q \in Procs |-> IF q = p THEN "reply"
                            ELSE IF q \in Admitted(p) THEN "look" ELSE pc[q]]
  /\ UNCHANGED <<rows, used, req, snap, reply>>

-----------------------------------------------------------------------------
(* Inside the lock *)

(* Mutant of Answer: the unlock is not deferred but stands at the end of     *)
(* each operation, and an early return keeps the lock.                      *)
AnswerEarly(p, status, val) ==
  /\ reply' = [reply EXCEPT ![p] = Reply(status, val, FALSE)]
  /\ pc' = [pc EXCEPT ![p] = IF status = "OK" THEN "unlock" ELSE "reply"]

Answer(p, status, val) ==
  /\ reply' = [reply EXCEPT ![p] = Reply(status, val, FALSE)]
  /\ pc' = [pc EXCEPT ![p] = "unlock"]

Refused(p) ==
  req[p].op \in OwnedWrites /\ ~MayWrite(rows[req[p].key], req[p].user)

(* ListSnippets, SearchSnippets; one page holds every match. *)
LookAtAll(p) ==
  /\ req[p].op = "list"
  /\ Answer(p, "OK", Listing(Cardinality(Stored(rows)), rows))
  /\ UNCHANGED snap

(* GetSnippet, and what update, delete and fork do first. *)
LookUp(p) ==
  LET row == rows[req[p].key]
  IN /\ req[p].op \notin {"list", "create"}
     /\ \/ row = None /\ Answer(p, "NotFound", None) /\ UNCHANGED snap
        \/ /\ row # None /\ req[p].op = "get"
           /\ Answer(p, "OK", row)
           /\ UNCHANGED snap
        \/ /\ row # None /\ Refused(p)
           /\ Answer(p, "Forbidden", None)
           /\ UNCHANGED snap
        \/ /\ row # None /\ req[p].op # "get" /\ ~Refused(p)
           /\ snap' = [snap EXCEPT ![p] = row]
           /\ pc' = [pc EXCEPT ![p] = "store"]
           /\ UNCHANGED reply

Look(p) ==
  /\ pc[p] = "look"
  /\ \/ LookAtAll(p)
     \/ LookUp(p)
     \/ /\ req[p].op = "create"
        /\ pc' = [pc EXCEPT ![p] = "store"]
        /\ UNCHANGED <<snap, reply>>
  /\ UNCHANGED <<rows, used, req, lockVars>>

(* Mutant of NewText: a fork takes its text from the request. *)
RequestText(p) == req[p].text

NewText(p) == IF req[p].op = "fork" THEN snap[p].text ELSE req[p].text

(* CreateSnippet and ForkSnippet. *)
StoreNew(p) ==
  LET new == [owner |-> req[p].user, text |-> NewText(p)]
  IN /\ req[p].op \in Inserts
     /\ \E id \in Ids \ used :
          /\ rows' = [rows EXCEPT ![id] = new]
          /\ used' = used \cup {id}
     /\ Answer(p, "OK", new)

(* Mutant of Updated: the snippet passes to the user who updates it. *)
WithAuthor(p) == [owner |-> req[p].user, text |-> req[p].text]

Updated(p) == WithText(snap[p], req[p].text)

(* UpdateSnippet puts the changed copy back under its id. *)
StoreUpdate(p) ==
  /\ req[p].op = "update"
  /\ rows' = [rows EXCEPT ![req[p].key] = Updated(p)]
  /\ Answer(p, "OK", Updated(p))
  /\ UNCHANGED used

StoreDelete(p) ==
  /\ req[p].op = "delete"
  /\ rows' = [rows EXCEPT ![req[p].key] = None]
  /\ Answer(p, "OK", None)
  /\ UNCHANGED used

Store(p) ==
  /\ pc[p] = "store"
  /\ StoreNew(p) \/ StoreUpdate(p) \/ StoreDelete(p)
  /\ UNCHANGED <<req, snap, lockVars>>

(* The handler writes its response. *)
Return(p) ==
  /\ pc[p] = "reply"
  /\ pc' = [pc EXCEPT ![p] = "idle"]
  /\ req' = [req EXCEPT ![p] = NoRequest]
  /\ snap' = [snap EXCEPT ![p] = None]
  /\ reply' = [reply EXCEPT ![p] = NoReply]
  /\ UNCHANGED <<rows, used, lockVars>>

-----------------------------------------------------------------------------
(* What a request has seen after a step, as in SnippetContract. *)
Observe ==
  seen' = [p \in Procs |->
             IF req'[p].key = None THEN {}
                                   ELSE seen[p] \cup {View(req'[p].key, rows')}]

Run(p) ==
  /\ RLock(p) \/ Drained(p) \/ Look(p) \/ Store(p) \/ Unlock(p) \/ Return(p)
  /\ Observe

Acquire(p) == Lock(p) /\ Observe

Next == \E p \in Procs : (Call(p) /\ Observe) \/ Run(p) \/ Acquire(p)

Spec == Init /\ [][Next]_vars

(* The scheduler runs every goroutine, and a sync.Mutex serves the writers  *)
(* that queue for it (starvation mode); clients need not call.              *)
Fairness == \A p \in Procs : WF_vars(Run(p)) /\ SF_vars(Acquire(p))

FairSpec == Spec /\ Fairness

-----------------------------------------------------------------------------
(* Properties *)

(* Types: stored snippets and answers are well formed. *)
StateTypeOK ==
  /\ rows \in Tables
  /\ used \subseteq Ids
  /\ pc \in [Procs -> Steps]
  /\ req \in [Procs -> Requests \cup {NoRequest}]
  /\ snap \in [Procs -> Row \cup {None}]
  /\ reply \in [Procs -> Replies \cup {NoReply}]
  /\ readers \subseteq Procs
  /\ writer \in Procs \cup {None}

MemoryTypeOK ==
  /\ StateTypeOK
  /\ seen \in [Procs -> SUBSET (Row \cup {None} \cup Listings)]

(* A handler about to write the map is alone with it: a Go map must not be  *)
(* read and written, or written twice, at the same time.                    *)
WritesAlone ==
  \A p, q \in Procs :
    pc[p] = "store" /\ pc[q] \in {"look", "store"} => p = q

(* Inside the lock, or about to be: nothing is in the way of these.         *)
GoesOn(p) ==
  \/ pc[p] \in {"look", "store", "unlock"}
  \/ pc[p] = "drain" /\ readers = {}

HeldUp(p) ==
  \/ pc[p] = "wait"
  \/ pc[p] = "lock" /\ Locks(p) /\ writer # None
  \/ pc[p] = "drain" /\ readers # {}

(* Handlers never wait for each other in a circle, nor for a handler that   *)
(* has left: as long as the lock holds a request up, some request can go on *)
(* towards its unlock.  No way out of an operation keeps the lock, and no   *)
(* reader that waits is forgotten when the writer it waits for is done.     *)
NobodyStuck ==
  (\E p \in Procs : HeldUp(p)) => \E q \in Procs : GoesOn(q)

(* What page of a listing or of a search a client gets, whatever page and   *)
(* limit it writes.  As long as (page - 1) * limit is an int, page k has    *)
(* the k-th `limit` matches of the order made for it, so that these pages   *)
(* have every place once, and no slice is cut out of range.  A greater      *)
(* product wraps around: then the slice panics exactly when the product has *)
(* come out negative, and is otherwise the page where it has come out.      *)
(* A listing has every stored snippet, a search any number of them.         *)
PagesExact == (0 .. Cardinality(Stored(rows))) \cap Totals \subseteq ExactTotals

Contract == INSTANCE SnippetContract

(* InMemoryStore honours the contract of the Store interface, as            *)
(* PostgresStore does: main.go may use either.                              *)
HonoursContract == Contract!Spec

(* Every call of the store returns: no early return keeps the lock, and no  *)
(* stream of readers or writers holds a waiting request up for ever.        *)
EveryCallReturns == \A p \in Procs : pc[p] = "lock" ~> pc[p] = "reply"
=============================================================================
