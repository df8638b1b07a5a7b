------------------------------- MODULE Shares -------------------------------
(***************************************************************************)
(* Shared code: a link that leads to its code for Life ticks (shareTTL).   *)
(* CreateShare and GetShare of the stores, the clean-up goroutine, and     *)
(* CachedStore in front, whose entries do not know when a share expires    *)
(* (ExpiresAt is not part of the JSON).                                    *)
(*                                                                         *)
(* The steps are PostgresStore's, one per statement.  InMemoryStore does   *)
(* the same under its lock, with nothing in between, so what it can do is  *)
(* among these behaviours, and a restart empties it.                       *)
(***************************************************************************)
EXTENDS Integers

CONSTANTS
  Tokens,    \* share tokens (UUIDs)
  Procs,     \* request handlers
  Life,      \* shareTTL
  TTL,       \* CACHE_TTL_DATA in ticks; 0 stands for every value <= 0
  MaxLag,    \* bound: ticks from the check of the expiry time to the SET
  MaxTime,   \* bound on the clock
  MaxFaults, \* bound: errors and stops
  None

ASSUME SharesAssumption ==
  /\ None \notin Tokens \cup Nat
  /\ Life \in Nat /\ TTL \in Nat /\ MaxLag \in Nat
  /\ MaxTime \in Nat \ {0} /\ MaxFaults \in Nat

VARIABLES
  now,      \* time.Now().Unix(), the same for all
  backend,  \* the inner store, which main.go chooses once
  table,    \* shared_codes: the expiry time of each stored share
  entry,    \* Redis: ticks each "share:" entry has left, None if there is none
  pc,       \* where each handler is
  tok,      \* the token it serves
  row,      \* ExpiresAt of its local variable `shared`
  lag,      \* ticks since it compared that with the clock
  cutoff,   \* argument of the clean-up's DELETE, while it is under way
  faults,   \* errors and stops so far
  told,     \* history: expiry times of the tokens that were given out
  doubt     \* history: tokens whose INSERT reported an error, or lost

handlerVars == <<pc, tok, row, lag>>
historyVars == <<told, doubt>>
vars == <<now, backend, table, entry, handlerVars, cutoff, faults, historyVars>>

Steps == {"idle", "insert", "hit", "select", "check", "set", "found", "missing", "error"}

(* The time 0 lies in the past; as an expiry time it means "never".         *)
Times == Nat \ {0}

Init ==
  /\ now = 1
  /\ backend \in {"postgres", "memory"}
  /\ table = [t \in Tokens |-> None]
  /\ entry = [t \in Tokens |-> None]
  /\ pc = [p \in Procs |-> "idle"]
  /\ tok = [p \in Procs |-> None]
  /\ row = [p \in Procs |-> None]
  /\ lag = [p \in Procs |-> 0]
  /\ cutoff = None
  /\ faults = 0
  /\ told = [t \in Tokens |-> None]
  /\ doubt = {}

Go(p, step) == pc' = [pc EXCEPT ![p] = step]

Fault ==
  /\ faults < MaxFaults
  /\ faults' = faults + 1

-----------------------------------------------------------------------------
(* CreateShare *)

Drawn == {t \in Tokens : told[t] # None} \cup {tok[p] : p \in Procs}

CreateShare(p) ==
  /\ pc[p] = "idle"
  /\ \E t \in Tokens \ Drawn : tok' = [tok EXCEPT ![p] = t]
  /\ row' = [row EXCEPT ![p] = now + Life]
  /\ Go(p, "insert")
  /\ UNCHANGED <<now, backend, table, entry, lag, cutoff, faults, historyVars>>

(* The handler answers 201 with the token, whatever became of the INSERT. *)
TokenGiven(p) ==
  /\ told' = [told EXCEPT ![tok[p]] = row[p]]
  /\ Go(p, "idle")
  /\ tok' = [tok EXCEPT ![p] = None]
  /\ row' = [row EXCEPT ![p] = None]
  /\ UNCHANGED <<now, backend, entry, lag, cutoff>>

Insert(p) ==
  /\ pc[p] = "insert"
  /\ table' = [table EXCEPT ![tok[p]] = row[p]]
  /\ TokenGiven(p)
  /\ UNCHANGED <<faults, doubt>>

InsertFails(p) ==
  /\ pc[p] = "insert"
  /\ backend = "postgres"
  /\ table' \in {table, [table EXCEPT ![tok[p]] = row[p]]}
  /\ doubt' = doubt \cup {tok[p]}
  /\ TokenGiven(p)
  /\ Fault

-----------------------------------------------------------------------------
(* GetShare, first of CachedStore, then of the inner store *)

(* A client asks with a token it was given, maybe long ago. *)
GetShare(p) ==
  /\ pc[p] = "idle"
  /\ \E t \in Tokens :
       /\ told[t] # None
       /\ tok' = [tok EXCEPT ![p] = t]
  /\ Go(p, "hit")
  /\ UNCHANGED <<now, backend, table, entry, row, lag, cutoff, faults, historyVars>>

Cached(t) == entry[t] # None

(* GET.  When it fails or times out it is a miss. *)
Hit(p) ==
  /\ pc[p] = "hit"
  /\ \/ Cached(tok[p]) /\ Go(p, "found")
     \/ Go(p, "select")
  /\ UNCHANGED <<now, backend, table, entry, tok, row, lag, cutoff, faults, historyVars>>

(* Mutant of Stored: the case of no row is forgotten. *)
AlwaysStored(t) == TRUE

Stored(t) == table[t] # None

Select(p) ==
  /\ pc[p] = "select"
  /\ IF Stored(tok[p])
     THEN /\ row' = [row EXCEPT ![p] = table[tok[p]]]
          /\ Go(p, "check")
     ELSE Go(p, "missing") /\ UNCHANGED row
  /\ UNCHANGED <<now, backend, table, entry, tok, lag, cutoff, faults, historyVars>>

(* An error is answered 404, too, like a token nobody knows. *)
SelectFails(p) ==
  /\ pc[p] = "select"
  /\ backend = "postgres"
  /\ Go(p, "error")
  /\ Fault
  /\ UNCHANGED <<now, backend, table, entry, tok, row, lag, cutoff, historyVars>>

(* Mutant of Expired: only the clean-up looks at the expiry time. *)
NeverExpired(p) == FALSE

Expired(p) == row[p] > 0 /\ now > row[p]

Check(p) ==
  /\ pc[p] = "check"
  /\ IF Expired(p) THEN Go(p, "missing") ELSE Go(p, "set")
  /\ UNCHANGED <<now, backend, table, entry, tok, row, lag, cutoff, faults, historyVars>>

(* Mutant of Kept: the cache keeps a share as long as the table does. *)
KeptForLife(p) == Life

Kept(p) == TTL

(* SET, which may fail unnoticed. *)
Set(p) ==
  /\ pc[p] = "set"
  /\ entry' \in {entry, [entry EXCEPT ![tok[p]] = Kept(p)]}
  /\ Go(p, "found")
  /\ UNCHANGED <<now, backend, table, tok, row, lag, cutoff, faults, historyVars>>

(* The response goes out, or the process stops and the request is gone. *)
Reset(p) ==
  /\ Go(p, "idle")
  /\ tok' = [tok EXCEPT ![p] = None]
  /\ row' = [row EXCEPT ![p] = None]
  /\ lag' = [lag EXCEPT ![p] = 0]
  /\ UNCHANGED <<now, backend, entry, cutoff, told>>

Return(p) ==
  /\ pc[p] \in {"found", "missing", "error"}
  /\ Reset(p)
  /\ UNCHANGED <<table, faults, doubt>>

Stop(p) ==
  /\ pc[p] # "idle"
  /\ backend = "postgres"
  /\ Reset(p)
  /\ Fault
  /\ UNCHANGED <<table, doubt>>

(* The process with the in-memory store starts anew; Redis has not noticed. *)
Restart ==
  /\ backend = "memory"
  /\ Fault
  /\ table' = [t \in Tokens |-> None]
  /\ doubt' = doubt \cup {t \in Tokens : told[t] # None}
  /\ pc' = [p \in Procs |-> "idle"]
  /\ tok' = [p \in Procs |-> None]
  /\ row' = [p \in Procs |-> None]
  /\ lag' = [p \in Procs |-> 0]
  /\ cutoff' = None
  /\ UNCHANGED <<now, backend, entry, told>>

-----------------------------------------------------------------------------
(* cleanupExpiredShares *)

(* The ticker fires, some time. *)
Sweep ==
  /\ cutoff = None
  /\ cutoff' = now
  /\ UNCHANGED <<now, backend, table, entry, handlerVars, faults, historyVars>>

(* Mutant of Overdue: shares are removed in their last second. *)
DueNow(t) == table[t] # None /\ table[t] > 0 /\ table[t] <= cutoff

Overdue(t) == table[t] # None /\ table[t] > 0 /\ table[t] < cutoff

Swept == [t \in Tokens |-> IF Overdue(t) THEN None ELSE table[t]]

Delete ==
  /\ cutoff # None
  /\ table' = Swept
  /\ cutoff' = None
  /\ UNCHANGED <<now, backend, entry, handlerVars, faults, historyVars>>

(* An error is logged, and the next tick tries again. *)
DeleteFails ==
  /\ cutoff # None
  /\ backend = "postgres"
  /\ table' \in {table, Swept}
  /\ cutoff' = None
  /\ Fault
  /\ UNCHANGED <<now, backend, entry, handlerVars, historyVars>>

-----------------------------------------------------------------------------
(* Redis drops an entry when its time is over; one that was SET with an     *)
(* expiration of 0 or less has none and stays.                              *)
Aged(left) ==
  CASE left = None -> None
    [] left # None /\ TTL = 0 -> left
    [] left # None /\ TTL > 0 -> IF left > 1 THEN left - 1 ELSE None

Tick ==
  /\ now < MaxTime
  /\ \A p \in Procs : pc[p] = "set" => lag[p] < MaxLag
  /\ now' = now + 1
  /\ entry' = [t \in Tokens |-> Aged(entry[t])]
  /\ lag' = [p \in Procs |-> IF pc[p] = "set" THEN lag[p] + 1 ELSE lag[p]]
  /\ UNCHANGED <<backend, table, pc, tok, row, cutoff, faults, historyVars>>

Create(p) == CreateShare(p) \/ Insert(p) \/ InsertFails(p)
Get(p) ==
  \/ GetShare(p) \/ Hit(p) \/ Select(p) \/ SelectFails(p) \/ Check(p) \/ Set(p)
  \/ Return(p)

Next ==
  \/ \E p \in Procs : Create(p) \/ Get(p) \/ Stop(p)
  \/ Restart
  \/ Sweep \/ Delete \/ DeleteFails
  \/ Tick

Spec == Init /\ [][Next]_vars

-----------------------------------------------------------------------------
(* Properties *)

(* Types, and that a handler that compares or stores a share has one. *)
SharesTypeOK ==
  /\ now \in 1 .. MaxTime
  /\ backend \in {"postgres", "memory"}
  /\ table \in [Tokens -> Times \cup {None}]
  /\ entry \in [Tokens -> Nat \cup {None}]
  /\ pc \in [Procs -> Steps]
  /\ tok \in [Procs -> Tokens \cup {None}]
  /\ row \in [Procs -> Times \cup {None}]
  /\ lag \in [Procs -> 0 .. MaxLag]
  /\ cutoff \in Times \cup {None}
  /\ faults \in 0 .. MaxFaults
  /\ told \in [Tokens -> Times \cup {None}]
  /\ doubt \subseteq Tokens
  /\ \A p \in Procs : pc[p] # "idle" => tok[p] # None
  /\ \A p \in Procs : pc[p] \in {"insert", "check", "set"} => row[p] # None

(* A link that was given out leads to its code until it expires: GetShare   *)
(* and the clean-up compare the times in their own ways, and agree.  (Not   *)
(* said of a token whose INSERT reported an error, nor of a SELECT that     *)
(* fails: the 404 of that one is the step "error".)                         *)
FoundUntilExpiry ==
  [][\A p \in Procs :
       pc[p] # "missing" /\ pc'[p] = "missing" =>
         tok[p] \in doubt \/ now > told[tok[p]]]_vars

(* And not for ever: the cache, which does not know the expiry time, serves *)
(* a share for less than TTL + MaxLag ticks longer, through a restart too - *)
(* unless CACHE_TTL_DATA is 0 or less, when entries have no end.            *)
ServedInTime ==
  [][TTL > 0 => \A p \in Procs :
       pc[p] # "found" /\ pc'[p] = "found" =>
         now < told[tok[p]] + TTL + MaxLag]_vars

(* The reason: an entry does not outlive its share by more than that. *)
CopiesExpire ==
  TTL > 0 => \A t \in Tokens : Cached(t) =>
    entry[t] > 0 /\ told[t] # None /\ now + entry[t] <= told[t] + TTL + MaxLag
=============================================================================
