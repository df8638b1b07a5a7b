-------------------------- MODULE Accounts_proofs --------------------------
(***************************************************************************)
(* Proofs about Accounts: types, one user per name, tokens that name users *)
(* and the refinement of Registry, from one inductive invariant.           *)
(***************************************************************************)
EXTENDS Accounts, TLAPS

(* Where a handler can be, and what it then holds: a request of the right   *)
(* kind and, when it compares, the user with that name.  The statements of  *)
(* PostgresStore and the locked steps of InMemoryStore are never mixed.  A  *)
(* name that is free now was free when the request began, and so was one    *)
(* that its COUNT has found free.                                           *)
Registering == {"count", "hash", "insert"}
LoggingIn == {"select", "compare"}

HandlersOK ==
  \A p \in Procs :
    /\ pc[p] = "idle" <=> req[p] = NoRequest
    /\ pc[p] = "reply" <=> reply[p] # NoReply
    /\ pc[p] \in Registering => backend = "postgres" /\ req[p].op = "register"
    /\ pc[p] \in LoggingIn => backend = "postgres" /\ req[p].op = "login"
    /\ pc[p] = "insert" => ~TooLong(p)
    /\ pc[p] = "compare" => found[p] \in Named(req[p].name)
    /\ pc[p] # "idle" /\ Named(req[p].name) = {} => p \in free
    /\ pc[p] \in {"hash", "insert"} => p \in free

IdsUsed == \A i \in Ids : users[i] # None => i \in used

AccountsInv ==
  AccountsTypeOK /\ OneUserPerName /\ TokensNameUsers /\ HandlersOK /\ IdsUsed

-----------------------------------------------------------------------------
(* The initial states satisfy the invariant. *)
LEMMA AccountsInit == Init => AccountsInv
  BY AccountsAssumption, Z3
  DEF Init, AccountsInv, AccountsTypeOK, OneUserPerName, TokensNameUsers, HandlersOK,
      IdsUsed, Steps, NoRequest, Request, NoReply, Reply, Registering, LoggingIn, User

(* A handler that has a request under way has one of the requests. *)
LEMMA BusyRequest ==
  ASSUME AccountsInv, NEW p \in Procs, pc[p] # "idle"
  PROVE  /\ req[p] \in Requests /\ req[p].name \in Names /\ req[p].pw \in Passwords
         /\ Head[req[p].pw] \in Passwords
  BY AccountsAssumption DEF AccountsInv, AccountsTypeOK, HandlersOK, Requests

(* A registration adds a user under a name nobody has, with a fresh id: the *)
(* facts about the table survive, and every user found so far is kept.      *)
LEMMA StoreKeeps ==
  ASSUME AccountsInv, NEW p \in Procs, pc[p] # "idle",
         NEW id \in Ids \ used, NameFree(req[p].name), Store(p, id)
  PROVE  /\ users' \in [Ids -> User \cup {None}]
         /\ used' \subseteq Ids
         /\ OneUserPerName'
         /\ \A i \in Ids : users'[i] # None => i \in used'
         /\ users'[id] = [name |-> req[p].name, hash |-> req[p].pw]
         /\ users'[id] # None
         /\ \A i \in Ids : users[i] # None => users'[i] = users[i]
<1>1. req[p].name \in Names /\ req[p].pw \in Passwords
  BY BusyRequest
<1>2. [name |-> req[p].name, hash |-> req[p].pw] \in User
  BY <1>1 DEF User
<1>3. users' \in [Ids -> User \cup {None}] /\ used' \subseteq Ids
  BY <1>2 DEF AccountsInv, AccountsTypeOK, Store
<1>4. users'[id] = [name |-> req[p].name, hash |-> req[p].pw]
  BY DEF AccountsInv, AccountsTypeOK, Store
<1>5. users'[id] # None
  BY <1>2, <1>4, AccountsAssumption DEF User
<1>6. \A i \in Ids : i # id => users'[i] = users[i]
  BY DEF AccountsInv, AccountsTypeOK, Store
<1>7. \A i \in Ids : users[i] # None => i # id
  BY DEF AccountsInv, IdsUsed
<1>8. \A i \in Ids : users[i] # None => users[i].name # req[p].name
  BY DEF NameFree, Named
<1>9. OneUserPerName'
  BY <1>4, <1>6, <1>8 DEF OneUserPerName, AccountsInv
<1>10. \A i \in Ids : users'[i] # None => i \in used'
  BY <1>6 DEF AccountsInv, IdsUsed, Store
<1>11. QED
  BY <1>3, <1>4, <1>5, <1>6, <1>7, <1>9, <1>10

(* What a step of one handler has to keep, when it leaves the others alone. *)
HandlerOK(p) ==
  /\ pc[p] = "idle" <=> req[p] = NoRequest
  /\ pc[p] = "reply" <=> reply[p] # NoReply
  /\ pc[p] \in Registering => backend = "postgres" /\ req[p].op = "register"
  /\ pc[p] \in LoggingIn => backend = "postgres" /\ req[p].op = "login"
  /\ pc[p] = "insert" => ~TooLong(p)
  /\ pc[p] = "compare" => found[p] \in Named(req[p].name)
  /\ pc[p] # "idle" /\ Named(req[p].name) = {} => p \in free
  /\ pc[p] \in {"hash", "insert"} => p \in free

(* Steps that leave the table and the tokens alone. *)
LEMMA OnlyHandler ==
  ASSUME AccountsInv, NEW p \in Procs, UNCHANGED <<backend, users, used, tokens>>,
         AccountsTypeOK', HandlerOK(p)',
         \A q \in Procs \ {p} : /\ pc'[q] = pc[q] /\ req'[q] = req[q]
                                /\ found'[q] = found[q] /\ reply'[q] = reply[q]
                                /\ q \in free' <=> q \in free
  PROVE  AccountsInv'
<1>1. ASSUME NEW q \in Procs PROVE HandlerOK(q)'
  BY <1>1 DEF AccountsInv, HandlersOK, HandlerOK, TooLong, Named
<1>2. HandlersOK'
  BY <1>1 DEF HandlersOK, HandlerOK
<1> QED
  BY <1>2 DEF AccountsInv, OneUserPerName, TokensNameUsers, IdsUsed

LEMMA CallInv == ASSUME AccountsInv, NEW p \in Procs, Call(p) PROVE AccountsInv'
<1> USE DEF AccountsInv, AccountsTypeOK
<1>1. PICK r \in Requests : /\ req' = [req EXCEPT ![p] = r]
                            /\ pc' = [pc EXCEPT ![p] = First(r.op)]
                            /\ free' = IF Named(r.name) = {} THEN free \cup {p}
                                                             ELSE free
  BY DEF Call
<1>2. /\ pc[p] = "idle"
      /\ UNCHANGED <<backend, users, used, tokens, found, reply, faults>>
  BY DEF Call
<1>3. r # NoRequest /\ r.op \in {"register", "login"}
  BY DEF Requests, NoRequest, Request
<1>4. /\ First(r.op) \in {"locked", "count", "select"}
      /\ First(r.op) = "count" => backend = "postgres" /\ r.op = "register"
      /\ First(r.op) = "select" => backend = "postgres" /\ r.op = "login"
  BY <1>3 DEF First
<1>5. AccountsTypeOK'
  BY <1>1, <1>2, <1>4 DEF Steps
<1>6. HandlerOK(p)'
  BY <1>1, <1>2, <1>3, <1>4 DEF HandlerOK, HandlersOK, Registering, LoggingIn, Named
<1> QED
  BY <1>1, <1>2, <1>5, <1>6, OnlyHandler

LEMMA CountInv == ASSUME AccountsInv, NEW p \in Procs, Count(p) PROVE AccountsInv'
<1> USE DEF AccountsInv, AccountsTypeOK, Count, Counted, Step
<1>1. AccountsTypeOK'
  BY DEF Steps
<1>2. HandlerOK(p)'
  BY DEF HandlerOK, HandlersOK, Registering, LoggingIn
<1> QED
  BY <1>1, <1>2, OnlyHandler

LEMMA HashInv == ASSUME AccountsInv, NEW p \in Procs, Hash(p) PROVE AccountsInv'
<1> USE DEF AccountsInv, AccountsTypeOK, Hash, Step
<1>1. AccountsTypeOK'
  BY DEF Steps
<1>2. HandlerOK(p)'
  BY DEF HandlerOK, HandlersOK, Registering, LoggingIn, TooLong
<1> QED
  BY <1>1, <1>2, OnlyHandler

LEMMA SelectInv == ASSUME AccountsInv, NEW p \in Procs, Select(p) PROVE AccountsInv'
<1> USE DEF AccountsInv, AccountsTypeOK, Step
<1>1. /\ pc[p] = "select" /\ pc' = [pc EXCEPT ![p] = "compare"]
      /\ UNCHANGED <<backend, users, used, tokens, req, reply, faults, free>>
  BY DEF Select
<1>2. PICK i \in Ids : i \in Named(req[p].name) /\ found' = [found EXCEPT ![p] = i]
  BY DEF Select, Known, Named
<1>3. i # None
  BY AccountsAssumption
<1>4. AccountsTypeOK'
  BY <1>1, <1>2, <1>3 DEF Steps
<1>5. HandlerOK(p)'
  BY <1>1, <1>2 DEF HandlerOK, HandlersOK, Registering, LoggingIn, Named
<1> QED
  BY <1>1, <1>2, <1>4, <1>5, OnlyHandler

(* The answers that leave the table alone: a refusal, or a token for a user *)
(* who is stored.                                                           *)
LEMMA AnswerInv ==
  ASSUME AccountsInv, NEW p \in Procs, pc[p] # "idle",
         NEW status \in Statuses, NEW id \in Ids \cup {None}, NEW failed \in BOOLEAN,
         Answer(p, status, id, failed), id # None => users[id] # None,
         UNCHANGED <<users, used, found>>, faults' \in 0 .. MaxFaults
  PROVE  AccountsInv'
<1> USE DEF AccountsInv, AccountsTypeOK
<1>1. /\ reply' = [reply EXCEPT ![p] = Reply(status, id, failed)]
      /\ pc' = [pc EXCEPT ![p] = "reply"]
      /\ tokens' = tokens \cup ({id} \ {None}) /\ UNCHANGED <<backend, req, free>>
  BY DEF Answer
<1>2. Reply(status, id, failed) \in Replies /\ Reply(status, id, failed) # NoReply
  BY DEF Reply, Replies, NoReply, Statuses
<1>3. AccountsTypeOK'
  BY <1>1, <1>2 DEF Steps
<1>4. HandlersOK'
  BY <1>1, <1>2 DEF HandlersOK, Registering, LoggingIn, TooLong, Named
<1>5. TokensNameUsers'
  BY <1>1 DEF TokensNameUsers
<1> QED
  BY <1>1, <1>3, <1>4, <1>5 DEF OneUserPerName, IdsUsed

LEMMA RefuseInv ==
  ASSUME AccountsInv, NEW p \in Procs, pc[p] # "idle", NEW status \in Statuses,
         Refuse(p, status)
  PROVE  AccountsInv'
<1>1. None \in Ids \cup {None} /\ FALSE \in BOOLEAN
  OBVIOUS
<1>2. /\ Answer(p, status, None, FALSE)
      /\ UNCHANGED <<users, used, found>> /\ faults' \in 0 .. MaxFaults
  BY DEF Refuse, AccountsInv, AccountsTypeOK
<1> QED
  BY <1>1, <1>2, AnswerInv

(* The answers that go with a new user. *)
LEMMA StoreInv ==
  ASSUME AccountsInv, NEW p \in Procs, pc[p] # "idle", NEW id \in Ids \ used,
         NameFree(req[p].name), Store(p, id), UNCHANGED found,
         NEW status \in Statuses, NEW given \in {id, None}, NEW failed \in BOOLEAN,
         Answer(p, status, given, failed), faults' \in 0 .. MaxFaults
  PROVE  AccountsInv'
<1> USE DEF AccountsInv, AccountsTypeOK
<1>1. /\ reply' = [reply EXCEPT ![p] = Reply(status, given, failed)]
      /\ pc' = [pc EXCEPT ![p] = "reply"]
      /\ tokens' = tokens \cup ({given} \ {None}) /\ UNCHANGED <<backend, req, free>>
  BY DEF Answer
<1>2. Reply(status, given, failed) \in Replies
      /\ Reply(status, given, failed) # NoReply
  BY DEF Reply, Replies, NoReply, Statuses
<1>3. /\ users' \in [Ids -> User \cup {None}]
      /\ used' \subseteq Ids
      /\ OneUserPerName'
      /\ \A i \in Ids : users'[i] # None => i \in used'
      /\ users'[id] # None
      /\ \A i \in Ids : users[i] # None => users'[i] = users[i]
  BY StoreKeeps
<1>4. AccountsTypeOK'
  BY <1>1, <1>2, <1>3 DEF Steps
<1>5. HandlersOK'
  BY <1>1, <1>2, <1>3 DEF HandlersOK, Registering, LoggingIn, TooLong, Named
<1>6. TokensNameUsers'
  BY <1>1, <1>3 DEF TokensNameUsers
<1> QED
  BY <1>3, <1>4, <1>5, <1>6 DEF IdsUsed

LEMMA InsertInv == ASSUME AccountsInv, NEW p \in Procs, Insert(p) PROVE AccountsInv'
<1>1. PICK id \in Ids \ used : Store(p, id) /\ Answer(p, "created", id, FALSE)
  BY DEF Insert
<1>2. /\ pc[p] # "idle" /\ NameFree(req[p].name) /\ UNCHANGED found
      /\ faults' \in 0 .. MaxFaults /\ "created" \in Statuses /\ FALSE \in BOOLEAN
  BY DEF Insert, AccountsInv, AccountsTypeOK, Statuses
<1> QED
  BY <1>1, <1>2, StoreInv

LEMMA InsertFailsInv ==
  ASSUME AccountsInv, NEW p \in Procs, InsertFails(p) PROVE AccountsInv'
<1>1. PICK id \in Ids \ used :
        /\ \/ NameFree(req[p].name) /\ Store(p, id)
           \/ UNCHANGED <<users, used>>
        /\ Answer(p, "error", None, TRUE)
  BY DEF InsertFails, OnError, Reply
<1>2. /\ pc[p] # "idle" /\ UNCHANGED found /\ faults' \in 0 .. MaxFaults
      /\ "error" \in Statuses /\ TRUE \in BOOLEAN /\ None \in Ids \cup {None}
  BY AccountsAssumption DEF InsertFails, Fault, AccountsInv, AccountsTypeOK, Statuses
<1>3. CASE NameFree(req[p].name) /\ Store(p, id)
  BY <1>1, <1>2, <1>3, StoreInv
<1>4. CASE UNCHANGED <<users, used>>
  BY <1>1, <1>2, <1>4, AnswerInv
<1> QED
  BY <1>1, <1>3, <1>4

LEMMA CompareInv == ASSUME AccountsInv, NEW p \in Procs, Compare(p) PROVE AccountsInv'
<1>1. /\ pc[p] # "idle" /\ UNCHANGED <<users, used, found>>
      /\ faults' \in 0 .. MaxFaults /\ "ok" \in Statuses /\ "unauthorized" \in Statuses
      /\ FALSE \in BOOLEAN /\ found[p] \in Ids /\ users[found[p]] # None
  BY DEF Compare, AccountsInv, AccountsTypeOK, HandlersOK, Named, Statuses
<1>2. CASE Answer(p, "ok", found[p], FALSE)
  BY <1>1, <1>2, AnswerInv
<1>3. CASE Answer(p, "unauthorized", None, FALSE)
  BY <1>1, <1>3, AnswerInv
<1> QED
  BY <1>2, <1>3 DEF Compare

LEMMA FaultCounted == ASSUME AccountsInv, Fault PROVE faults' \in 0 .. MaxFaults
BY AccountsAssumption DEF Fault, AccountsInv, AccountsTypeOK

LEMMA ReadFailsInv ==
  ASSUME AccountsInv, NEW p \in Procs, ReadFails(p) PROVE AccountsInv'
<1>1. /\ pc[p] # "idle" /\ UNCHANGED <<users, used, found>>
      /\ "error" \in Statuses /\ "unauthorized" \in Statuses
      /\ TRUE \in BOOLEAN /\ None \in Ids \cup {None}
  BY DEF ReadFails, Statuses
<1>4. faults' \in 0 .. MaxFaults
  BY FaultCounted DEF ReadFails
<1>2. CASE Answer(p, "error", None, TRUE)
  BY <1>1, <1>2, <1>4, AnswerInv
<1>3. CASE Answer(p, "unauthorized", None, TRUE)
  BY <1>1, <1>3, <1>4, AnswerInv
<1> QED
  BY <1>2, <1>3 DEF ReadFails

LEMMA RefusalsInv ==
  ASSUME AccountsInv, NEW p \in Procs,
         CountTaken(p) \/ HashFails(p) \/ InsertTaken(p) \/ SelectNothing(p)
  PROVE  AccountsInv'
<1>1. PICK status \in Statuses : pc[p] # "idle" /\ Refuse(p, status)
  BY DEF CountTaken, HashFails, InsertTaken, SelectNothing, Statuses
<1> QED
  BY <1>1, RefuseInv

LEMMA RegisterLockedInv ==
  ASSUME AccountsInv, NEW p \in Procs, RegisterLocked(p) PROVE AccountsInv'
<1>1. pc[p] # "idle" /\ {"taken", "error", "created"} \subseteq Statuses
  BY DEF RegisterLocked, Statuses
<1>2. ASSUME NEW status \in Statuses, Refuse(p, status) PROVE AccountsInv'
  BY <1>1, <1>2, RefuseInv
<1>3. ASSUME NEW id \in Ids \ used, Named(req[p].name) = {}, Store(p, id),
             Answer(p, "created", id, FALSE), UNCHANGED <<found, faults>>
      PROVE  AccountsInv'
  <2>1. NameFree(req[p].name) /\ FALSE \in BOOLEAN /\ faults' \in 0 .. MaxFaults
    BY <1>3 DEF NameFree, AccountsInv, AccountsTypeOK
  <2> QED
    BY <1>1, <1>3, <2>1, StoreInv
<1> QED
  BY <1>1, <1>2, <1>3 DEF RegisterLocked

LEMMA LoginLockedInv ==
  ASSUME AccountsInv, NEW p \in Procs, LoginLocked(p) PROVE AccountsInv'
<1>1. pc[p] # "idle" /\ {"ok", "unauthorized"} \subseteq Statuses /\ FALSE \in BOOLEAN
  BY DEF LoginLocked, Statuses
<1>2. CASE Refuse(p, "unauthorized")
  BY <1>1, <1>2, RefuseInv
<1>3. ASSUME NEW id \in Named(req[p].name), Answer(p, "ok", id, FALSE),
             UNCHANGED <<users, used, found, faults>>
      PROVE  AccountsInv'
  <2>1. id \in Ids /\ users[id] # None /\ faults' \in 0 .. MaxFaults
    BY <1>3 DEF Named, AccountsInv, AccountsTypeOK
  <2> QED
    BY <1>1, <1>3, <2>1, AnswerInv
<1> QED
  BY <1>2, <1>3 DEF LoginLocked

(* An answer that goes out, a replica that stops, and a process that starts *)
(* anew: only the last loses users, and no token of PostgresStore.          *)
LEMMA ResetInv ==
  ASSUME AccountsInv, NEW p \in Procs, Reset(p), faults' \in 0 .. MaxFaults
  PROVE  AccountsInv'
<1> USE DEF AccountsInv, AccountsTypeOK, Reset
<1>1. AccountsTypeOK'
  BY DEF Steps
<1>2. HandlerOK(p)'
  BY DEF HandlerOK, Registering, LoggingIn
<1> QED
  BY <1>1, <1>2, OnlyHandler

LEMMA RestartInv == ASSUME AccountsInv, Restart PROVE AccountsInv'
<1> USE DEF AccountsInv, AccountsTypeOK, Restart
<1>1. AccountsTypeOK'
  BY AccountsAssumption DEF Steps, Fault
<1>2. HandlersOK'
  BY DEF HandlersOK, Registering, LoggingIn
<1>3. OneUserPerName' /\ TokensNameUsers' /\ IdsUsed'
  BY DEF OneUserPerName, TokensNameUsers, IdsUsed
<1> QED
  BY <1>1, <1>2, <1>3

-----------------------------------------------------------------------------
LEMMA AccountsStep == AccountsInv /\ [Next]_vars => AccountsInv'
<1> SUFFICES ASSUME AccountsInv, [Next]_vars PROVE AccountsInv'
  OBVIOUS
<1>1. CASE UNCHANGED vars
  BY <1>1 DEF vars, handlerVars, AccountsInv, AccountsTypeOK, OneUserPerName,
              TokensNameUsers, HandlersOK, IdsUsed, TooLong, Named
<1>2. CASE Restart
  BY <1>2, RestartInv
<1>3. ASSUME NEW p \in Procs, Call(p) PROVE AccountsInv'
  BY <1>3, CallInv
<1>4. ASSUME NEW p \in Procs, Register(p) PROVE AccountsInv'
  BY <1>4, CountInv, RefusalsInv, HashInv, InsertInv, InsertFailsInv, RegisterLockedInv
  DEF Register
<1>5. ASSUME NEW p \in Procs, Login(p) PROVE AccountsInv'
  BY <1>5, SelectInv, RefusalsInv, CompareInv, LoginLockedInv DEF Login
<1>6. ASSUME NEW p \in Procs, ReadFails(p) PROVE AccountsInv'
  BY <1>6, ReadFailsInv
<1>7. ASSUME NEW p \in Procs, Return(p) \/ Stop(p) PROVE AccountsInv'
  <2>1. Reset(p) /\ faults' \in 0 .. MaxFaults
    BY <1>7, AccountsAssumption DEF Return, Stop, Fault, AccountsInv, AccountsTypeOK
  <2> QED
    BY <2>1, ResetInv
<1> QED
  BY <1>1, <1>2, <1>3, <1>4, <1>5, <1>6, <1>7 DEF Next

LEMMA AccountsInvariant == Spec => []AccountsInv
<1> QED
  BY AccountsInit, AccountsStep, PTL DEF Spec

(* The variables keep their types, and CompareHashAndPassword always has a  *)
(* user whose hash it compares.                                             *)
THEOREM AccountsTypeCorrect == Spec => []AccountsTypeOK
<1>1. AccountsInv => AccountsTypeOK
  BY DEF AccountsInv
<1> QED
  BY <1>1, AccountsInvariant, PTL

(* However registrations interleave between COUNT and INSERT, no name gets  *)
(* two users: what the test misses the constraint refuses.                  *)
THEOREM OneUserPerNameSafe == Spec => []OneUserPerName
<1>1. AccountsInv => OneUserPerName
  BY DEF AccountsInv
<1> QED
  BY <1>1, AccountsInvariant, PTL

(* With PostgresStore every token given out by Register or Login names a    *)
(* user in the table, whatever fails in between.                            *)
THEOREM TokensNameUsersSafe == Spec => []TokensNameUsers
<1>1. AccountsInv => TokensNameUsers
  BY DEF AccountsInv
<1> QED
  BY <1>1, AccountsInvariant, PTL

-----------------------------------------------------------------------------
(* The refinement: while the invariant holds, the user of a name is the one *)
(* account of that name, and registration and login act on it in one step.  *)

Accs == [n \in Names |-> AccountOf(n)]

LEMMA AccountIs ==
  ASSUME AccountsInv, NEW n \in Names, NEW i \in Named(n)
  PROVE  /\ Accs[n] = [id |-> i, hash |-> users[i].hash] /\ Accs[n] # None
         /\ Accs[n].id = i /\ Accs[n].hash = users[i].hash
<1>1. \A j \in Named(n) : j = i
  BY DEF AccountsInv, OneUserPerName, Named
<1>2. Accs[n] = [id |-> i, hash |-> users[i].hash]
  BY <1>1 DEF Accs, AccountOf
<1>3. i \in Ids /\ users[i].hash \in Passwords
  BY DEF Named, AccountsInv, AccountsTypeOK, User
<1>4. [id |-> i, hash |-> users[i].hash] \in [id : Ids, hash : Passwords]
  BY <1>3
<1> QED
  BY <1>2, <1>4, AccountsAssumption

LEMMA NoAccountIs ==
  ASSUME NEW n \in Names, Named(n) = {} PROVE Accs[n] = None
BY DEF Accs, AccountOf

LEMMA AccountsSame == ASSUME users' = users PROVE Accs' = Accs
BY DEF Accs, AccountOf, Named

(* The new user is the account of its name; the others stay as they are.    *)
LEMMA AccountTaken ==
  ASSUME AccountsInv, AccountsInv', NEW p \in Procs, pc[p] # "idle",
         NEW id \in Ids \ used, NameFree(req[p].name), Store(p, id)
  PROVE  /\ Accs' = [Accs EXCEPT ![req[p].name] = [id |-> id, hash |-> req[p].pw]]
         /\ Accs[req[p].name] = None
         /\ \A n \in Names : Accs[n] # None => Accs[n].id # id
<1>1. /\ users'[id] = [name |-> req[p].name, hash |-> req[p].pw]
      /\ users'[id] # None
      /\ \A i \in Ids : users[i] # None => users'[i] = users[i]
  BY StoreKeeps
<1>2. \A i \in Ids : i # id => users'[i] = users[i]
  BY DEF AccountsInv, AccountsTypeOK, Store
<1>3. req[p].name \in Names
  BY BusyRequest
<1>4. ASSUME NEW name \in Names, name = req[p].name
      PROVE  Accs'[name] = [id |-> id, hash |-> req[p].pw]
  <2>1. id \in Named(name)'
    BY <1>1, <1>4 DEF Named
  <2>2. \A j \in Named(name)' : j = id
    BY <2>1 DEF AccountsInv, OneUserPerName, Named
  <2> QED
    BY <1>1, <1>4, <2>1, <2>2 DEF Accs, AccountOf
<1>5. ASSUME NEW n \in Names, n # req[p].name PROVE Accs'[n] = Accs[n]
  <2>1. Named(n)' = Named(n)
    <3>1. id \notin Named(n)' /\ id \notin Named(n)
      BY <1>1, <1>5 DEF Named, AccountsInv, IdsUsed
    <3> QED
      BY <1>2, <3>1 DEF Named
  <2>2. \A i \in Named(n) : users'[i] = users[i]
    BY <1>1 DEF Named
  <2> QED
    <3>1. CASE Named(n) = {}
      BY <2>1, <3>1 DEF Accs, AccountOf
    <3>2. ASSUME NEW i \in Named(n) PROVE Accs'[n] = Accs[n]
      <4>1. Accs[n] = [id |-> i, hash |-> users[i].hash]
        BY AccountIs
      <4>2. \A j \in Named(n)' : j = i
        BY <2>1 DEF AccountsInv, OneUserPerName, Named
      <4>3. Accs'[n] = [id |-> i, hash |-> users'[i].hash]
        BY <2>1, <4>2 DEF Accs, AccountOf
      <4> QED
        BY <2>2, <4>1, <4>3
    <3> QED
      BY <3>1, <3>2
<1>6. Accs' = [Accs EXCEPT ![req[p].name] = [id |-> id, hash |-> req[p].pw]]
  BY <1>3, <1>4, <1>5 DEF Accs
<1>7. Accs[req[p].name] = None
  BY <1>3, NoAccountIs DEF NameFree
<1>8. ASSUME NEW n \in Names, Accs[n] # None PROVE Accs[n].id # id
  <2>1. PICK i \in Named(n) : TRUE
    BY <1>8, NoAccountIs
  <2>2. i \in used
    BY <2>1 DEF Named, AccountsInv, IdsUsed
  <2>3. Accs[n].id = i
    BY <2>1, AccountIs
  <2> QED
    BY <2>2, <2>3
<1> QED
  BY <1>6, <1>7, <1>8

LEMMA PromiseInit == Init => Promise!Init
BY DEF Init, Promise!Init, Promise!NoRequest, Promise!NoReply, NoRequest, Request,
       NoReply, Reply, AccountOf, Named

LEMMA PromiseSame ==
  ASSUME users' = users, UNCHANGED <<req, reply, tokens, free>> PROVE UNCHANGED Promise!vars
BY AccountsSame DEF Promise!vars, Accs

(* An answer that Registry allows at this moment is a step of Registry.     *)
LEMMA PromiseAnswer ==
  ASSUME AccountsInv, NEW p \in Procs, pc[p] \notin {"idle", "reply"},
         NEW status \in Statuses, NEW id \in Ids \cup {None}, NEW failed \in BOOLEAN,
         NEW r, r = Reply(status, id, failed), Answer(p, status, id, failed),
         \/ Promise!Created(p, r)
         \/ Promise!LoggedIn(p, r)
         \/ Promise!Taken(p, r)
         \/ Promise!Failed(p, r)
         \/ Promise!Denied(p, r)
  PROVE  Promise!Next
<1>1. req[p] # Promise!NoRequest /\ reply[p] = Promise!NoReply
  BY DEF AccountsInv, HandlersOK, NoRequest, NoReply, Request, Reply,
         Promise!NoRequest, Promise!NoReply
<1>2. r \in [status : {"created", "ok", "taken", "error", "unauthorized"},
            id : Ids \cup {None}, failed : BOOLEAN]
  BY DEF Reply, Statuses
<1>3. reply' = [reply EXCEPT ![p] = r] /\ UNCHANGED <<req, free>>
  BY DEF Answer
<1>4. Promise!Finish(p)
  BY <1>1, <1>2, <1>3, Zenon DEF Promise!Finish
<1> QED
  BY <1>4 DEF Promise!Next

(* The account of the name a handler asks for, and whether it matches.      *)
LEMMA AccountAsked ==
  ASSUME AccountsInv, NEW p \in Procs, pc[p] # "idle"
  PROVE  /\ Promise!Account(p) = Accs[req[p].name]
         /\ Promise!TooLong(p) = TooLong(p)
         /\ Named(req[p].name) = {} <=> Promise!Account(p) = None
         /\ \A i \in Named(req[p].name) :
              /\ Promise!Account(p).id = i
              /\ Promise!Matches(p) = Matches(p, i)
<1>1. Promise!Account(p) = Accs[req[p].name]
  BY DEF Promise!Account, Accs
<1>2. req[p].name \in Names
  BY BusyRequest
<1>3. Named(req[p].name) = {} => Promise!Account(p) = None
  BY <1>1, <1>2, NoAccountIs
<1>4. ASSUME NEW i \in Named(req[p].name)
      PROVE  /\ Promise!Account(p) # None /\ Promise!Account(p).id = i
             /\ Promise!Account(p).hash = users[i].hash
  <2>1. /\ Accs[req[p].name] # None /\ Accs[req[p].name].id = i
        /\ Accs[req[p].name].hash = users[i].hash
    BY <1>2, <1>4, AccountIs
  <2> QED
    BY <1>1, <2>1
<1> QED
  BY <1>1, <1>3, <1>4 DEF Promise!TooLong, TooLong, Promise!Matches, Matches

(* 409: the name is taken now. *)
LEMMA PromiseTaken ==
  ASSUME AccountsInv, NEW p \in Procs, pc[p] \notin {"idle", "reply"},
         Named(req[p].name) # {}, Refuse(p, "taken")
  PROVE  Promise!Next
<1> DEFINE r == Reply("taken", None, FALSE)
<1>1. UNCHANGED <<Accs, tokens>> /\ Answer(p, "taken", None, FALSE)
  BY AccountsSame DEF Refuse, Answer
<1>2. Promise!Taken(p, r)
  BY <1>1, AccountAsked DEF Promise!Taken, Accs, Reply
<1> QED
  BY <1>1, <1>2, PromiseAnswer DEF Statuses

(* 500: there was an error, or one of the two cases of Registry. *)
LEMMA PromiseRefused ==
  ASSUME AccountsInv, NEW p \in Procs, pc[p] \notin {"idle", "reply"},
         req[p].op = "register", users' = users, NEW failed \in BOOLEAN,
         Answer(p, "error", None, failed),
         failed \/ (p \in free /\ (TooLong(p) \/ Named(req[p].name) # {}))
  PROVE  Promise!Next
<1> DEFINE r == Reply("error", None, failed)
<1>1. UNCHANGED <<Accs, tokens>>
  BY AccountsSame DEF Answer
<1>2. Promise!Failed(p, r)
  BY <1>1, AccountAsked DEF Promise!Failed, Promise!Undocumented, Accs, Reply
<1> QED
  BY <1>2, PromiseAnswer DEF Statuses

(* 401: no such name with such a password, or an error. *)
LEMMA PromiseDenied ==
  ASSUME AccountsInv, NEW p \in Procs, pc[p] \notin {"idle", "reply"},
         req[p].op = "login", users' = users, NEW failed \in BOOLEAN,
         Answer(p, "unauthorized", None, failed),
         failed \/ \A i \in Named(req[p].name) : ~Matches(p, i)
  PROVE  Promise!Next
<1> DEFINE r == Reply("unauthorized", None, failed)
<1>1. UNCHANGED <<Accs, tokens>>
  BY AccountsSame DEF Answer
<1>2. failed \/ ~Promise!Matches(p)
  BY AccountAsked DEF Promise!Matches
<1>3. Promise!Denied(p, r)
  BY <1>1, <1>2 DEF Promise!Denied, Accs, Reply
<1> QED
  BY <1>3, PromiseAnswer DEF Statuses

(* 200: the token is for the account of that name and password. *)
LEMMA PromiseLogin ==
  ASSUME AccountsInv, NEW p \in Procs, pc[p] \notin {"idle", "reply"},
         req[p].op = "login", users' = users, NEW i \in Named(req[p].name),
         Matches(p, i), Answer(p, "ok", i, FALSE)
  PROVE  Promise!Next
<1> DEFINE r == Reply("ok", i, FALSE)
<1>1. i \in Ids /\ i # None /\ UNCHANGED Accs
  BY AccountsSame, AccountsAssumption DEF Named
<1>2. tokens' = tokens \cup {i}
  BY <1>1 DEF Answer
<1>3. Promise!Matches(p) /\ Promise!Account(p).id = i
  BY AccountAsked
<1>4. Promise!LoggedIn(p, r)
  BY <1>1, <1>2, <1>3 DEF Promise!LoggedIn, Accs, Reply
<1> QED
  BY <1>1, <1>4, PromiseAnswer DEF Statuses

(* The registration that stores the user takes the name. *)
LEMMA PromiseTake ==
  ASSUME AccountsInv, AccountsInv', NEW p \in Procs, pc[p] # "idle",
         req[p].op = "register", ~TooLong(p),
         NEW id \in Ids \ used, NameFree(req[p].name), Store(p, id)
  PROVE  Promise!Take(p, id)
<1>1. /\ Accs' = [Accs EXCEPT ![req[p].name] = [id |-> id, hash |-> req[p].pw]]
      /\ Accs[req[p].name] = None
      /\ \A n \in Names : Accs[n] # None => Accs[n].id # id
  BY AccountTaken
<1>2. Promise!Account(p) = None /\ ~Promise!TooLong(p)
  BY AccountAsked DEF NameFree
<1> QED
  BY <1>1, <1>2 DEF Promise!Take, Accs

LEMMA PromiseCreated ==
  ASSUME AccountsInv, AccountsInv', NEW p \in Procs, pc[p] \notin {"idle", "reply"},
         req[p].op = "register", ~TooLong(p),
         NEW id \in Ids \ used, NameFree(req[p].name), Store(p, id),
         Answer(p, "created", id, FALSE)
  PROVE  Promise!Next
<1> DEFINE r == Reply("created", id, FALSE)
<1>1. tokens' = tokens \cup {id}
  BY AccountsAssumption DEF Answer
<1>2. Promise!Take(p, r.id)
  BY PromiseTake DEF Reply
<1>3. Promise!Created(p, r)
  BY <1>1, <1>2 DEF Promise!Created, Reply
<1> QED
  BY <1>3, PromiseAnswer DEF Statuses

(* The row is stored and the answer is 500 all the same. *)
LEMMA PromiseDoubtful ==
  ASSUME AccountsInv, AccountsInv', NEW p \in Procs, pc[p] \notin {"idle", "reply"},
         req[p].op = "register", ~TooLong(p),
         NEW id \in Ids \ used, NameFree(req[p].name), Store(p, id),
         Answer(p, "error", None, TRUE)
  PROVE  Promise!Next
<1> DEFINE r == Reply("error", None, TRUE)
<1>1. Promise!Take(p, id)
  BY PromiseTake
<1>2. UNCHANGED tokens
  BY DEF Answer
<1>3. Promise!Failed(p, r)
  BY <1>1, <1>2 DEF Promise!Failed, Reply
<1> QED
  BY <1>3, PromiseAnswer DEF Statuses

(* Every step of the stores is a step of Registry, or none. *)
LEMMA PromiseStep ==
  ASSUME AccountsInv, AccountsInv', [Next]_vars PROVE [Promise!Next]_Promise!vars
<1>1. CASE UNCHANGED vars
  BY <1>1, PromiseSame DEF vars, handlerVars
<1>2. CASE Restart
  <2>1. Accs' = [n \in Names |-> None]
    BY <1>2 DEF Restart, Accs, AccountOf, Named
  <2>2. Promise!Lose
    BY <1>2, <2>1 DEF Restart, Promise!Lose, Accs, Promise!NoRequest, Promise!NoReply,
                      NoRequest, NoReply, Request, Reply
  <2> QED
    BY <2>2 DEF Promise!Next
<1>3. ASSUME NEW p \in Procs, Call(p) PROVE Promise!Next
  <2>1. req[p] = NoRequest /\ UNCHANGED Accs
    BY <1>3, AccountsSame DEF Call, AccountsInv, HandlersOK
  <2>2. PICK r \in Requests :
          /\ req' = [req EXCEPT ![p] = r]
          /\ free' = IF Named(r.name) = {} THEN free \cup {p} ELSE free
    BY <1>3 DEF Call
  <2>3. Named(r.name) = {} <=> Accs[r.name] = None
    <3>1. r.name \in Names
      BY DEF Requests
    <3>2. ASSUME NEW i \in Named(r.name) PROVE Accs[r.name] # None
      BY <3>1, AccountIs
    <3> QED
      BY <3>1, <3>2, NoAccountIs
  <2>4. Promise!Call(p)
    BY <1>3, <2>1, <2>2, <2>3 DEF Call, Promise!Call, Accs, Promise!Requests, Requests,
                                  Promise!NoRequest, NoRequest, Request
  <2> QED
    BY <2>4 DEF Promise!Next
<1>4. ASSUME NEW p \in Procs, Count(p) \/ Hash(p) \/ Select(p)
      PROVE  UNCHANGED Promise!vars
  BY <1>4, PromiseSame DEF Count, Hash, Select
<1>5. ASSUME NEW p \in Procs, CountTaken(p) \/ HashFails(p) \/ InsertTaken(p)
      PROVE  Promise!Next
  <2>1. CASE CountTaken(p)
    BY <2>1, PromiseTaken DEF CountTaken, Counted
  <2>2. ASSUME HashFails(p) \/ InsertTaken(p) PROVE Promise!Next
    <3>1. /\ pc[p] \notin {"idle", "reply"} /\ req[p].op = "register" /\ FALSE \in BOOLEAN
          /\ users' = users /\ Answer(p, "error", None, FALSE)
          /\ p \in free /\ (TooLong(p) \/ Named(req[p].name) # {})
      BY <2>2 DEF HashFails, InsertTaken, NameFree, Refuse, AccountsInv, HandlersOK,
                  Registering
    <3> QED
      BY <3>1, PromiseRefused
  <2> QED
    BY <1>5, <2>1, <2>2
<1>6. ASSUME NEW p \in Procs, Insert(p) \/ InsertFails(p) PROVE Promise!Next
  <2>1. /\ pc[p] \notin {"idle", "reply"} /\ req[p].op = "register" /\ ~TooLong(p)
    BY <1>6 DEF Insert, InsertFails, AccountsInv, HandlersOK, Registering
  <2>2. CASE Insert(p)
    BY <2>1, <2>2, PromiseCreated DEF Insert
  <2>3. ASSUME NEW id \in Ids \ used, NameFree(req[p].name), Store(p, id),
               Answer(p, "error", None, TRUE)
        PROVE  Promise!Next
    BY <2>1, <2>3, PromiseDoubtful
  <2>4. ASSUME users' = users, Answer(p, "error", None, TRUE) PROVE Promise!Next
    BY <2>1, <2>4, PromiseRefused
  <2>5. CASE InsertFails(p)
    BY <2>3, <2>4, <2>5 DEF InsertFails, OnError, Reply
  <2> QED
    BY <1>6, <2>2, <2>5
<1>7. ASSUME NEW p \in Procs, SelectNothing(p) \/ Compare(p) PROVE Promise!Next
  <2>1. /\ pc[p] \notin {"idle", "reply"} /\ req[p].op = "login" /\ users' = users
        /\ FALSE \in BOOLEAN
    BY <1>7 DEF SelectNothing, Compare, Refuse, AccountsInv, HandlersOK, LoggingIn
  <2>2. CASE SelectNothing(p)
    BY <2>1, <2>2, PromiseDenied DEF SelectNothing, Known, Refuse
  <2>3. CASE Compare(p)
    <3>1. found[p] \in Named(req[p].name)
      BY <2>3 DEF Compare, AccountsInv, HandlersOK
    <3>2. CASE Matches(p, found[p]) /\ Answer(p, "ok", found[p], FALSE)
      BY <2>1, <3>1, <3>2, PromiseLogin
    <3>3. CASE ~Matches(p, found[p]) /\ Answer(p, "unauthorized", None, FALSE)
      <4>1. \A i \in Named(req[p].name) : i = found[p]
        BY <3>1 DEF Named, AccountsInv, OneUserPerName
      <4> QED
        BY <2>1, <3>3, <4>1, PromiseDenied
    <3> QED
      BY <2>3, <3>2, <3>3 DEF Compare
  <2> QED
    BY <1>7, <2>2, <2>3
<1>8. ASSUME NEW p \in Procs, ReadFails(p) PROVE Promise!Next
  <2>1. CASE pc[p] = "count" /\ Answer(p, "error", None, TRUE)
    BY <1>8, <2>1, PromiseRefused DEF ReadFails, AccountsInv, HandlersOK, Registering
  <2>2. CASE pc[p] = "select" /\ Answer(p, "unauthorized", None, TRUE)
    BY <1>8, <2>2, PromiseDenied DEF ReadFails, AccountsInv, HandlersOK, LoggingIn
  <2> QED
    BY <1>8, <2>1, <2>2 DEF ReadFails
<1>9. ASSUME NEW p \in Procs, RegisterLocked(p) PROVE Promise!Next
  <2>1. pc[p] \notin {"idle", "reply"} /\ req[p].op = "register" /\ FALSE \in BOOLEAN
    BY <1>9 DEF RegisterLocked
  <2>2. CASE Named(req[p].name) # {} /\ Refuse(p, "taken")
    BY <2>1, <2>2, PromiseTaken
  <2>3. CASE Named(req[p].name) = {} /\ TooLong(p) /\ Refuse(p, "error")
    <3>1. p \in free
      BY <2>1, <2>3 DEF AccountsInv, HandlersOK
    <3> QED
      BY <2>1, <2>3, <3>1, PromiseRefused DEF Refuse
  <2>4. ASSUME NEW id \in Ids \ used, Named(req[p].name) = {}, ~TooLong(p),
               Store(p, id), Answer(p, "created", id, FALSE)
        PROVE  Promise!Next
    BY <2>1, <2>4, PromiseCreated DEF NameFree
  <2> QED
    BY <1>9, <2>2, <2>3, <2>4 DEF RegisterLocked
<1>10. ASSUME NEW p \in Procs, LoginLocked(p) PROVE Promise!Next
  <2>1. pc[p] \notin {"idle", "reply"} /\ req[p].op = "login" /\ FALSE \in BOOLEAN
    BY <1>10 DEF LoginLocked
  <2>2. ASSUME NEW i \in Named(req[p].name), Matches(p, i), Answer(p, "ok", i, FALSE),
               users' = users
        PROVE  Promise!Next
    BY <2>1, <2>2, PromiseLogin
  <2>3. ASSUME \A i \in Named(req[p].name) : ~Matches(p, i), Refuse(p, "unauthorized")
        PROVE  Promise!Next
    BY <2>1, <2>3, PromiseDenied DEF Refuse
  <2> QED
    BY <1>10, <2>2, <2>3 DEF LoginLocked
<1>11. ASSUME NEW p \in Procs, Return(p) \/ Stop(p) PROVE Promise!Next
  <2>1. Reset(p) /\ UNCHANGED Accs
    BY <1>11, AccountsSame DEF Return, Stop, Reset
  <2>2. Promise!Return(p)
    BY <2>1 DEF Reset, Promise!Return, Accs, Promise!NoRequest, Promise!NoReply,
                NoRequest, NoReply, Request, Reply
  <2> QED
    BY <2>2 DEF Promise!Next
<1> QED
  BY <1>1, <1>2, <1>3, <1>4, <1>5, <1>6, <1>7, <1>8, <1>9, <1>10, <1>11
  DEF Next, Register, Login

(* Register and Login act as Registry says, each in one step: 201 goes to   *)
(* the one registration that took the name, and 409, 500 and 401 have their *)
(* reason at the moment of the answer.                                      *)
THEOREM RegistryHonoured == Spec => HonoursRegistry
<1>1. AccountsInv /\ AccountsInv' /\ [Next]_vars => [Promise!Next]_Promise!vars
  BY PromiseStep
<1> QED
  BY <1>1, PromiseInit, AccountsInvariant, PTL DEF Spec, HonoursRegistry, Promise!Spec

=============================================================================
