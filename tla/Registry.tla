------------------------------ MODULE Registry ------------------------------
(***************************************************************************)
(* What registration and login promise, said without statements: a name is *)
(* taken by at most one registration, in one step, and only that           *)
(* registration and logins with its password are given a token for it.     *)
(* A registration for a name that somebody had before it began is answered *)
(* 409, or fails on an error of the database.                              *)
(*                                                                         *)
(* The API document promises more, in two cases that no client can tell    *)
(* from an error of the server: 409 for every name that is taken           *)
(* (openapi.yaml:139), though a registration that loses a race for it is   *)
(* answered 500; and passwords of up to 100 characters (openapi.yaml:606,  *)
(* as in auth.go:39), though one of more than 72 bytes is answered 500.    *)
(* These two are what Failed allows without an error, and all it allows.   *)
(***************************************************************************)
EXTENDS Integers

CONSTANTS Names, Passwords, Ids, Procs, Head, None

VARIABLES
  accounts,  \* per name: None, or the account with that name
  req,       \* registration or login under way, per handler
  reply,     \* its answer
  tokens,    \* ids of users for whom a token was given out
  free       \* history: requests whose name nobody had when they began

vars == <<accounts, req, reply, tokens, free>>

NoRequest == [op |-> "none", name |-> None, pw |-> None]
NoReply == [status |-> "none", id |-> None, failed |-> FALSE]
Requests == [op : {"register", "login"}, name : Names, pw : Passwords]

Init ==
  /\ accounts \in [Names -> {None}]
  /\ req = [p \in Procs |-> NoRequest]
  /\ reply = [p \in Procs |-> NoReply]
  /\ tokens = {}
  /\ free = {}

Account(p) == accounts[req[p].name]

(* bcrypt reads no more than the first 72 bytes, and refuses to hash more. *)
TooLong(p) == Head[req[p].pw] # req[p].pw
Matches(p) == Account(p) # None /\ Account(p).hash = Head[req[p].pw]

Call(p) ==
  /\ req[p] = NoRequest
  /\ \E r \in Requests :
       /\ req' = [req EXCEPT ![p] = r]
       /\ free' = IF accounts[r.name] = None THEN free \cup {p} ELSE free
  /\ UNCHANGED <<accounts, reply, tokens>>

Take(p, id) ==
  /\ req[p].op = "register"
  /\ Account(p) = None /\ ~TooLong(p)
  /\ \A n \in Names : accounts[n] # None => accounts[n].id # id
  /\ accounts' = [accounts EXCEPT ![req[p].name] = [id |-> id, hash |-> req[p].pw]]

(* 201 and 200: the token is for the account of that name. *)
Created(p, r) ==
  r.status = "created" /\ Take(p, r.id) /\ tokens' = tokens \cup {r.id}

LoggedIn(p, r) ==
  /\ r.status = "ok" /\ req[p].op = "login"
  /\ Matches(p) /\ r.id = Account(p).id
  /\ tokens' = tokens \cup {r.id}
  /\ UNCHANGED accounts

(* 409, 500 and 401.  500 means an error of the database, after which the   *)
(* name may or may not be taken.  Without one it means, for a name that was *)
(* free when the request began, that another registration has taken it, or  *)
(* that the password is too long.  Only an error makes a right password     *)
(* wrong.                                                                   *)
Taken(p, r) ==
  r.status = "taken" /\ Account(p) # None /\ UNCHANGED <<accounts, tokens>>

(* The two cases in which the API document promises another answer. *)
Undocumented(p) == p \in free /\ (TooLong(p) \/ Account(p) # None)

Failed(p, r) ==
  /\ r.status = "error" /\ req[p].op = "register"
  /\ \/ UNCHANGED accounts /\ (r.failed \/ Undocumented(p))
     \/ r.failed /\ \E id \in Ids : Take(p, id)
  /\ UNCHANGED tokens

Denied(p, r) ==
  /\ r.status = "unauthorized" /\ req[p].op = "login"
  /\ r.failed \/ ~Matches(p)
  /\ UNCHANGED <<accounts, tokens>>

Finish(p) ==
  /\ req[p] # NoRequest /\ reply[p] = NoReply
  /\ \E r \in [status : {"created", "ok", "taken", "error", "unauthorized"},
               id : Ids \cup {None}, failed : BOOLEAN] :
       /\ reply' = [reply EXCEPT ![p] = r]
       /\ Created(p, r) \/ LoggedIn(p, r) \/ Taken(p, r) \/ Failed(p, r) \/ Denied(p, r)
  /\ UNCHANGED <<req, free>>

(* The answer goes out, or the request is abandoned without one. *)
Return(p) ==
  /\ req' = [req EXCEPT ![p] = NoRequest]
  /\ reply' = [reply EXCEPT ![p] = NoReply]
  /\ free' = free \ {p}
  /\ UNCHANGED <<accounts, tokens>>

(* The store is lost, and the requests with it; the tokens are not. *)
Lose ==
  /\ accounts' = [n \in Names |-> None]
  /\ req' = [p \in Procs |-> NoRequest]
  /\ reply' = [p \in Procs |-> NoReply]
  /\ free' = {}
  /\ UNCHANGED tokens

Next == Lose \/ \E p \in Procs : Call(p) \/ Finish(p) \/ Return(p)

Spec == Init /\ [][Next]_vars
=============================================================================
