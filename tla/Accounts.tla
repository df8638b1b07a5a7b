------------------------------ MODULE Accounts ------------------------------
(***************************************************************************)
(* Register and Login (handlers/auth.go) with CreateUser and               *)
(* AuthenticateUser of the two stores: statement by statement for          *)
(* PostgresStore, in one step under the lock for InMemoryStore.  The       *)
(* length checks of the handler (400) come before all of this.             *)
(***************************************************************************)
EXTENDS Integers, FiniteSets

CONSTANTS
  Names,      \* user names
  Passwords,  \* passwords of 8 to 100 bytes
  Head,       \* the first 72 bytes of each, all that bcrypt reads
  Ids,        \* user ids (UUIDs)
  Procs,      \* request handlers
  MaxFaults,  \* bound: errors, stops and restarts
  None

ASSUME AccountsAssumption ==
  /\ Head \in [Passwords -> Passwords]
  /\ \A pw \in Passwords : Head[Head[pw]] = Head[pw]
  /\ IsFiniteSet(Ids) /\ MaxFaults \in Nat
  /\ None \notin Ids \cup [name : Names, hash : Passwords]
                    \cup [id : Ids, hash : Passwords]

VARIABLES
  backend,  \* the store main.go has chosen
  users,    \* table users, or the two maps of InMemoryStore
  used,     \* ids drawn by uuid.New()
  tokens,   \* ids in the claim "sub" of the tokens given out
  pc,       \* where each handler is
  req,      \* its request
  found,    \* id of its local variable `user`
  reply,    \* its answer
  faults,
  free      \* history: requests whose name nobody had when they began

handlerVars == <<pc, req, found, reply, free>>
vars == <<backend, users, used, tokens, handlerVars, faults>>

Steps == {"idle", "locked", "count", "hash", "insert", "select", "compare", "reply"}

Request(op, name, pw) == [op |-> op, name |-> name, pw |-> pw]
NoRequest == Request("none", None, None)
Requests == [op : {"register", "login"}, name : Names, pw : Passwords]

Reply(status, id, failed) == [status |-> status, id |-> id, failed |-> failed]
NoReply == Reply("none", None, FALSE)
Statuses == {"created", "ok", "taken", "error", "unauthorized"}
Replies == [status : Statuses, id : Ids \cup {None}, failed : BOOLEAN]

Init ==
  /\ backend \in {"postgres", "memory"}
  /\ users = [i \in Ids |-> None]
  /\ used = {}
  /\ tokens = {}
  /\ pc = [p \in Procs |-> "idle"]
  /\ req = [p \in Procs |-> NoRequest]
  /\ found = [p \in Procs |-> None]
  /\ reply = [p \in Procs |-> NoReply]
  /\ faults = 0
  /\ free = {}

(* Ids are finite here: a registration begins only while one is left. *)
IdLeft ==
  Cardinality(used) + Cardinality({p \in Procs : req[p].op = "register"})
    < Cardinality(Ids)

First(op) == IF backend = "memory" THEN "locked"
             ELSE IF op = "register" THEN "count" ELSE "select"

Named(name) == {i \in Ids : users[i] # None /\ users[i].name = name}

Call(p) ==
  /\ pc[p] = "idle"
  /\ \E r \in Requests :
       /\ r.op = "register" => IdLeft
       /\ req' = [req EXCEPT ![p] = r]
       /\ pc' = [pc EXCEPT ![p] = First(r.op)]
       /\ free' = IF Named(r.name) = {} THEN free \cup {p} ELSE free
  /\ UNCHANGED <<backend, users, used, tokens, found, reply, faults>>

TooLong(p) == Head[req[p].pw] # req[p].pw
Matches(p, id) == users[id].hash = Head[req[p].pw]

(* An answer, with a token for a user or without one. *)
Answer(p, status, id, failed) ==
  /\ reply' = [reply EXCEPT ![p] = Reply(status, id, failed)]
  /\ pc' = [pc EXCEPT ![p] = "reply"]
  /\ tokens' = tokens \cup ({id} \ {None})
  /\ UNCHANGED <<backend, req, free>>

Refuse(p, status) ==
  /\ Answer(p, status, None, FALSE)
  /\ UNCHANGED <<users, used, found, faults>>

Fault ==
  /\ faults < MaxFaults
  /\ faults' = faults + 1

Step(p, here, next) == pc[p] = here /\ pc' = [pc EXCEPT ![p] = next]

-----------------------------------------------------------------------------
(* PostgresStore.CreateUser *)

(* Mutant of Counted: CreateUser leaves the test to the constraint. *)
NeverCounted(name) == FALSE

(* SELECT COUNT of the users with that name *)
Counted(name) == Named(name) # {}

Count(p) ==
  /\ Step(p, "count", "hash")
  /\ ~Counted(req[p].name)
  /\ UNCHANGED <<backend, users, used, tokens, req, found, reply, faults, free>>

(* ErrUsernameTaken: 409 *)
CountTaken(p) ==
  /\ pc[p] = "count"
  /\ Counted(req[p].name)
  /\ Refuse(p, "taken")

(* bcrypt.GenerateFromPassword *)
Hash(p) ==
  /\ Step(p, "hash", "insert")
  /\ ~TooLong(p)
  /\ UNCHANGED <<backend, users, used, tokens, req, found, reply, faults, free>>

(* ErrPasswordTooLong: 500 *)
HashFails(p) ==
  /\ pc[p] = "hash"
  /\ TooLong(p)
  /\ Refuse(p, "error")

(* Mutant of NameFree: the column username is not UNIQUE. *)
NoConstraint(name) == TRUE

(* username TEXT NOT NULL UNIQUE *)
NameFree(name) == Named(name) = {}

Store(p, id) ==
  /\ users' = [users EXCEPT ![id] = [name |-> req[p].name, hash |-> req[p].pw]]
  /\ used' = used \cup {id}

Insert(p) ==
  /\ pc[p] = "insert"
  /\ NameFree(req[p].name)
  /\ \E id \in Ids \ used : Store(p, id) /\ Answer(p, "created", id, FALSE)
  /\ UNCHANGED <<found, faults>>

(* Another registration of the name came between: the constraint refuses    *)
(* the row, and the answer is 500 and not 409.                              *)
InsertTaken(p) ==
  /\ pc[p] = "insert"
  /\ ~NameFree(req[p].name)
  /\ Refuse(p, "error")

(* Mutant of OnError: the error is logged only, as in CreateSnippet. *)
ErrorIgnored(id) == Reply("created", id, TRUE)

OnError(id) == Reply("error", None, TRUE)

(* The row may be stored although the INSERT reports an error. *)
InsertFails(p) ==
  /\ pc[p] = "insert"
  /\ \E id \in Ids \ used :
       /\ \/ NameFree(req[p].name) /\ Store(p, id)
          \/ UNCHANGED <<users, used>>
       /\ Answer(p, OnError(id).status, OnError(id).id, TRUE)
  /\ Fault
  /\ UNCHANGED found

-----------------------------------------------------------------------------
(* PostgresStore.AuthenticateUser *)

(* Mutant of Known: the case of no row is forgotten. *)
NeverUnknown(name) == TRUE

Known(name) == Named(name) # {}

Select(p) ==
  /\ Step(p, "select", "compare")
  /\ Known(req[p].name)
  /\ found' = [found EXCEPT ![p] = IF Named(req[p].name) = {} THEN None
                                   ELSE CHOOSE i \in Named(req[p].name) : TRUE]
  /\ UNCHANGED <<backend, users, used, tokens, req, reply, faults, free>>

SelectNothing(p) ==
  /\ pc[p] = "select"
  /\ ~Known(req[p].name)
  /\ Refuse(p, "unauthorized")

(* bcrypt.CompareHashAndPassword *)
Compare(p) ==
  /\ pc[p] = "compare"
  /\ IF Matches(p, found[p]) THEN Answer(p, "ok", found[p], FALSE)
                             ELSE Answer(p, "unauthorized", None, FALSE)
  /\ UNCHANGED <<users, used, found, faults>>

(* An error of the COUNT is answered 500, one of the SELECT 401. *)
ReadFails(p) ==
  /\ \/ pc[p] = "count" /\ Answer(p, "error", None, TRUE)
     \/ pc[p] = "select" /\ Answer(p, "unauthorized", None, TRUE)
  /\ Fault
  /\ UNCHANGED <<users, used, found>>

-----------------------------------------------------------------------------
(* InMemoryStore: all of it under the lock *)

RegisterLocked(p) ==
  LET name == req[p].name
  IN /\ pc[p] = "locked" /\ req[p].op = "register"
     /\ \/ Named(name) # {} /\ Refuse(p, "taken")
        \/ Named(name) = {} /\ TooLong(p) /\ Refuse(p, "error")
        \/ /\ Named(name) = {} /\ ~TooLong(p)
           /\ \E id \in Ids \ used : Store(p, id) /\ Answer(p, "created", id, FALSE)
           /\ UNCHANGED <<found, faults>>

LoginLocked(p) ==
  /\ pc[p] = "locked" /\ req[p].op = "login"
  /\ \/ /\ \E id \in Named(req[p].name) : Matches(p, id) /\ Answer(p, "ok", id, FALSE)
        /\ UNCHANGED <<users, used, found, faults>>
     \/ /\ ~\E id \in Named(req[p].name) : Matches(p, id)
        /\ Refuse(p, "unauthorized")

-----------------------------------------------------------------------------
Reset(p) ==
  /\ pc' = [pc EXCEPT ![p] = "idle"]
  /\ req' = [req EXCEPT ![p] = NoRequest]
  /\ found' = [found EXCEPT ![p] = None]
  /\ reply' = [reply EXCEPT ![p] = NoReply]
  /\ free' = free \ {p}
  /\ UNCHANGED <<backend, users, used, tokens>>

Return(p) == pc[p] = "reply" /\ Reset(p) /\ UNCHANGED faults

(* The replica stops; the database does not notice. *)
Stop(p) == pc[p] # "idle" /\ backend = "postgres" /\ Reset(p) /\ Fault

(* The process with the in-memory store starts anew.  JWT_SECRET is still   *)
(* the same, and so are the tokens.                                         *)
Restart ==
  /\ backend = "memory"
  /\ Fault
  /\ users' = [i \in Ids |-> None]
  /\ pc' = [p \in Procs |-> "idle"]
  /\ req' = [p \in Procs |-> NoRequest]
  /\ found' = [p \in Procs |-> None]
  /\ reply' = [p \in Procs |-> NoReply]
  /\ free' = {}
  /\ UNCHANGED <<backend, used, tokens>>

Register(p) ==
  \/ Count(p) \/ CountTaken(p) \/ Hash(p) \/ HashFails(p)
  \/ Insert(p) \/ InsertTaken(p) \/ InsertFails(p) \/ RegisterLocked(p)
Login(p) == Select(p) \/ SelectNothing(p) \/ Compare(p) \/ LoginLocked(p)

Next ==
  \/ \E p \in Procs :
       Call(p) \/ Register(p) \/ Login(p) \/ ReadFails(p) \/ Return(p) \/ Stop(p)
  \/ Restart

Spec == Init /\ [][Next]_vars

-----------------------------------------------------------------------------
(* Properties *)

User == [name : Names, hash : Passwords]

(* Types, and that a login that compares has a user to compare with. *)
AccountsTypeOK ==
  /\ backend \in {"postgres", "memory"}
  /\ users \in [Ids -> User \cup {None}]
  /\ used \subseteq Ids /\ tokens \subseteq Ids
  /\ pc \in [Procs -> Steps]
  /\ req \in [Procs -> Requests \cup {NoRequest}]
  /\ found \in [Procs -> Ids \cup {None}]
  /\ reply \in [Procs -> Replies \cup {NoReply}]
  /\ faults \in 0 .. MaxFaults
  /\ free \subseteq Procs
  /\ \A p \in Procs : pc[p] = "compare" => found[p] # None

(* A name belongs to one user, although CreateUser looks and inserts in two *)
(* statements.                                                              *)
OneUserPerName ==
  \A i, j \in Ids :
    /\ users[i] # None /\ users[j] # None
    /\ users[i].name = users[j].name
    => i = j

(* A token names a user that is stored: whoever the middleware lets through *)
(* may own snippets.  (Only a restart of the in-memory store breaks it.)    *)
TokensNameUsers == backend = "postgres" => \A id \in tokens : users[id] # None

AccountOf(name) ==
  IF Named(name) = {} THEN None
  ELSE LET id == CHOOSE i \in Named(name) : TRUE
       IN [id |-> id, hash |-> users[id].hash]

Promise == INSTANCE Registry WITH accounts <- [n \in Names |-> AccountOf(n)]

(* Both stores register and log in as if each were one step: 201 goes to    *)
(* the one registration that took the name, every 409, 500 or 401 has its   *)
(* reason at that moment.  A name that was taken before a registration      *)
(* began is answered 409 (or an error), however the statements interleave;  *)
(* 500 without an error is left to the two cases that Registry names.       *)
HonoursRegistry == Promise!Spec
=============================================================================
