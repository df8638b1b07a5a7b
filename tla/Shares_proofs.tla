---------------------------- MODULE Shares_proofs ----------------------------
(***************************************************************************)
(* For any number of tokens and handlers and any times: a link works until *)
(* it expires and, through the cache, only so much longer.                 *)
(***************************************************************************)
EXTENDS Shares, TLAPS

Getting == {"hit", "select", "check", "set", "found", "missing", "error"}

(* A handler that creates a share is alone with its token; one that gets a  *)
(* share has a token that was given out, and the expiry time it was given   *)
(* out with.                                                                *)
HandlerFits(p) ==
  /\ pc[p] = "insert" => told[tok[p]] = None
  /\ pc[p] \in Getting => told[tok[p]] # None
  /\ pc[p] \in {"check", "set"} => row[p] = told[tok[p]]
  /\ pc[p] = "set" => now <= row[p] + lag[p]

OwnToken == \A p, q \in Procs : pc[p] = "insert" /\ tok[q] = tok[p] => q = p

(* A stored share has the expiry time it was given out with, one that must  *)
(* be stored still is, and a copy does not outlive it for long.             *)
TokenFits(t) ==
  /\ table[t] # None => table[t] = told[t]
  /\ told[t] # None /\ t \notin doubt /\ now <= told[t] => table[t] = told[t]
  /\ Cached(t) =>
       /\ told[t] # None
       /\ TTL > 0 => entry[t] > 0 /\ now + entry[t] <= told[t] + TTL + MaxLag

SharesInv ==
  /\ SharesTypeOK
  /\ \A p \in Procs : HandlerFits(p)
  /\ OwnToken
  /\ \A t \in Tokens : TokenFits(t)
  /\ cutoff # None => cutoff <= now

LEMMA InitSharesInv == Init => SharesInv
BY SharesAssumption
DEF Init, SharesInv, SharesTypeOK, Times, Cached, Steps, HandlerFits, Getting, OwnToken, TokenFits

(* Steps that concern one handler's request and neither the time nor any    *)
(* stored share nor any copy.                                               *)
LEMMA OneHandler ==
  ASSUME SharesInv, NEW p \in Procs,
         UNCHANGED <<now, table, entry, told, doubt, cutoff>>,
         SharesTypeOK',
         \A q \in Procs \ {p} : /\ pc'[q] = pc[q] /\ tok'[q] = tok[q]
                                /\ row'[q] = row[q] /\ lag'[q] = lag[q],
         HandlerFits(p)',
         \/ pc'[p] # "insert" /\ tok'[p] \in {tok[p], None}
         \/ pc'[p] # "insert" /\ tok'[p] \in Tokens /\ told[tok'[p]] # None
         \/ \A q \in Procs : tok'[p] # tok[q]
  PROVE  SharesInv'
<1> USE DEF SharesInv
<1>1. ASSUME NEW q \in Procs PROVE HandlerFits(q)'
  BY <1>1 DEF HandlerFits
<1>2. ASSUME NEW t \in Tokens PROVE TokenFits(t)'
  BY DEF TokenFits, Cached
<1>3. ASSUME NEW r \in Procs, NEW q \in Procs, pc'[r] = "insert", tok'[q] = tok'[r]
      PROVE  q = r
  <2>1. tok'[r] # None
    BY <1>3 DEF SharesTypeOK
  <2>2. r # p => told[tok[r]] = None
    BY <1>3 DEF HandlerFits
  <2> QED
    BY <1>3, <2>1, <2>2 DEF OwnToken
<1> QED
  BY <1>1, <1>2, <1>3 DEF OwnToken

LEMMA CreateShareInv ==
  ASSUME SharesInv, NEW p \in Procs, CreateShare(p)
  PROVE  SharesInv'
<1> USE DEF SharesInv, SharesTypeOK, Times, historyVars
<1>1. PICK t \in Tokens \ Drawn : tok' = [tok EXCEPT ![p] = t]
  BY DEF CreateShare
<1>2. told[t] = None /\ \A q \in Procs : t # tok[q]
  BY DEF Drawn
<1>3. /\ pc' = [pc EXCEPT ![p] = "insert"] /\ row' = [row EXCEPT ![p] = now + Life]
      /\ UNCHANGED <<now, backend, table, entry, lag, cutoff, faults, told, doubt>>
  BY DEF CreateShare, Go
<1>4. SharesTypeOK'
  <2>1. now + Life \in Nat /\ now + Life # None
    BY SharesAssumption
  <2> QED
    BY <1>1, <1>3, <2>1, SharesAssumption DEF Steps
<1>5. HandlerFits(p)'
  BY <1>1, <1>2, <1>3 DEF HandlerFits, Getting
<1> QED
  BY <1>1, <1>2, <1>3, <1>4, <1>5, OneHandler

(* The token a create answers with becomes a link. *)
LEMMA TokenGivenInv ==
  ASSUME SharesInv, NEW p \in Procs, pc[p] = "insert", TokenGiven(p),
         \/ table' = [table EXCEPT ![tok[p]] = row[p]] /\ UNCHANGED <<faults, doubt>>
         \/ /\ table' \in {table, [table EXCEPT ![tok[p]] = row[p]]}
            /\ doubt' = doubt \cup {tok[p]} /\ Fault
  PROVE  SharesInv'
<1> USE DEF SharesInv, SharesTypeOK, Times
<1>1. /\ told' = [told EXCEPT ![tok[p]] = row[p]]
      /\ pc' = [pc EXCEPT ![p] = "idle"] /\ tok' = [tok EXCEPT ![p] = None]
      /\ row' = [row EXCEPT ![p] = None]
      /\ UNCHANGED <<now, backend, entry, lag, cutoff>>
  BY DEF TokenGiven, Go
<1>2. tok[p] \in Tokens /\ row[p] \in Times /\ told[tok[p]] = None /\ table[tok[p]] = None
      /\ row[p] # None
  BY SharesAssumption DEF HandlerFits, TokenFits
<1>3. SharesTypeOK'
  <2>1. faults' \in 0 .. MaxFaults /\ doubt' \subseteq Tokens
    BY <1>2, SharesAssumption DEF Fault
  <2>2. table' \in [Tokens -> Nat \cup {None}]
    BY <1>2
  <2> QED
    BY <1>1, <1>2, <2>1, <2>2 DEF Steps
<1>4. ASSUME NEW q \in Procs PROVE HandlerFits(q)'
  <2>1. q # p /\ pc[q] # "idle" => tok[q] \in Tokens \ {tok[p]}
    BY DEF OwnToken
  <2>2. q # p => /\ pc'[q] = pc[q] /\ tok'[q] = tok[q] /\ row'[q] = row[q]
                 /\ lag'[q] = lag[q]
    BY <1>1
  <2>3. CASE q = p
    BY <1>1, <2>3 DEF HandlerFits, Getting
  <2>4. CASE q # p /\ pc[q] = "idle"
    BY <2>2, <2>4 DEF HandlerFits, Getting
  <2>5. CASE q # p /\ pc[q] # "idle"
    BY <1>1, <2>1, <2>2, <2>5 DEF HandlerFits
  <2> QED
    BY <2>3, <2>4, <2>5
<1>5. OwnToken'
  BY <1>1, SharesAssumption DEF OwnToken
<1>6. ASSUME NEW t \in Tokens PROVE TokenFits(t)'
  <2>1. CASE t = tok[p]
    <3>1. ~Cached(t) /\ entry'[t] = entry[t]
      BY <1>1, <1>2, <2>1 DEF TokenFits, Cached
    <3>2. /\ told'[t] = row[p] /\ table'[t] \in {None, row[p]}
          /\ t \in doubt' \/ table'[t] = row[p]
      BY <1>1, <1>2, <2>1
    <3> QED
      BY <3>1, <3>2 DEF TokenFits, Cached
  <2>2. CASE t # tok[p]
    <3>1. told'[t] = told[t] /\ table'[t] = table[t] /\ (t \in doubt' <=> t \in doubt)
          /\ entry'[t] = entry[t] /\ now' = now
      BY <1>1, <1>2, <2>2
    <3> QED
      BY <3>1 DEF TokenFits, Cached
  <2> QED
    BY <2>1, <2>2
<1> QED
  BY <1>1, <1>3, <1>4, <1>5, <1>6

LEMMA CreateInv ==
  ASSUME SharesInv, NEW p \in Procs, Create(p)
  PROVE  SharesInv'
<1>1. CASE CreateShare(p)
  BY <1>1, CreateShareInv
<1>2. CASE Insert(p)
  BY <1>2, TokenGivenInv DEF Insert
<1>3. CASE InsertFails(p)
  BY <1>3, TokenGivenInv DEF InsertFails
<1> QED
  BY <1>1, <1>2, <1>3 DEF Create

(* A get does not change what is stored; only its SET changes a copy. *)
LEMMA GetInv ==
  ASSUME SharesInv, NEW p \in Procs, Get(p)
  PROVE  SharesInv'
<1> USE DEF SharesInv, SharesTypeOK, Times, Go, historyVars
<1>1. CASE GetShare(p)
  <2>1. PICK t \in Tokens : told[t] # None /\ tok' = [tok EXCEPT ![p] = t]
    BY <1>1 DEF GetShare
  <2>2. /\ pc' = [pc EXCEPT ![p] = "hit"]
        /\ UNCHANGED <<now, backend, table, entry, row, lag, cutoff, faults, told, doubt>>
    BY <1>1 DEF GetShare
  <2>3. SharesTypeOK'
    BY <2>1, <2>2, SharesAssumption DEF Steps
  <2>4. HandlerFits(p)'
    BY <2>1, <2>2 DEF HandlerFits
  <2> QED
    BY <2>1, <2>2, <2>3, <2>4, OneHandler
<1>2. CASE Hit(p) \/ Check(p)
  <2>1. /\ pc' \in {[pc EXCEPT ![p] = "found"], [pc EXCEPT ![p] = "select"],
                    [pc EXCEPT ![p] = "missing"], [pc EXCEPT ![p] = "set"]}
        /\ pc[p] \in {"hit", "check"}
        /\ pc'[p] = "set" => pc[p] = "check" /\ ~(now > row[p])
        /\ UNCHANGED <<now, backend, table, entry, tok, row, lag, cutoff, faults, told, doubt>>
    BY <1>2 DEF Hit, Check, Expired
  <2>2. SharesTypeOK'
    BY <2>1 DEF Steps
  <2>3. pc'[p] = "set" => row[p] \in Nat /\ lag[p] \in Nat /\ now \in Nat
    BY <2>1, SharesAssumption
  <2>4. pc'[p] = "set" => now <= row[p] + lag[p]
    BY <2>1, <2>3
  <2>5. HandlerFits(p)'
    BY <2>1, <2>4 DEF HandlerFits, Getting
  <2> QED
    BY <2>1, <2>2, <2>5, OneHandler
<1>3. CASE Select(p)
  <2>1. /\ pc[p] = "select"
        /\ UNCHANGED <<now, backend, table, entry, tok, lag, cutoff, faults, told, doubt>>
        /\ \/ /\ table[tok[p]] # None /\ pc' = [pc EXCEPT ![p] = "check"]
              /\ row' = [row EXCEPT ![p] = table[tok[p]]]
           \/ pc' = [pc EXCEPT ![p] = "missing"] /\ row' = row
    BY <1>3 DEF Select, Stored
  <2>2. tok[p] \in Tokens /\ table[tok[p]] \in Nat \cup {None}
        /\ table[tok[p]] # None => table[tok[p]] = told[tok[p]]
    BY <2>1 DEF TokenFits, Cached
  <2>3. SharesTypeOK'
    BY <2>1, <2>2 DEF Steps
  <2>4. HandlerFits(p)'
    BY <2>1, <2>2 DEF HandlerFits, Getting
  <2> QED
    BY <2>1, <2>3, <2>4, OneHandler
<1>4. CASE SelectFails(p)
  <2>1. /\ pc[p] = "select" /\ pc' = [pc EXCEPT ![p] = "error"]
        /\ UNCHANGED <<now, backend, table, entry, tok, row, lag, cutoff, told, doubt>>
        /\ faults' \in 0 .. MaxFaults
    BY <1>4, SharesAssumption DEF SelectFails, Fault
  <2>2. SharesTypeOK'
    BY <2>1 DEF Steps
  <2>3. HandlerFits(p)'
    BY <2>1 DEF HandlerFits, Getting
  <2> QED
    BY <2>1, <2>2, <2>3, OneHandler
<1>5. CASE Set(p)
  <2>1. /\ pc[p] = "set" /\ pc' = [pc EXCEPT ![p] = "found"]
        /\ entry' \in {entry, [entry EXCEPT ![tok[p]] = TTL]}
        /\ UNCHANGED <<now, backend, table, tok, row, lag, cutoff, faults, told, doubt>>
    BY <1>5 DEF Set, Kept
  <2>2. /\ tok[p] \in Tokens /\ told[tok[p]] \in Nat /\ told[tok[p]] # None
        /\ now <= told[tok[p]] + MaxLag
    <3>1. /\ row[p] = told[tok[p]] /\ told[tok[p]] # None /\ row[p] \in Nat
          /\ now <= row[p] + lag[p]
      BY <2>1 DEF HandlerFits, Getting
    <3> QED
      BY <2>1, <3>1, SharesAssumption
  <2>3. SharesTypeOK'
    BY <2>1, SharesAssumption DEF Steps
  <2>4. ASSUME NEW q \in Procs PROVE HandlerFits(q)'
    BY <2>1 DEF HandlerFits, Getting
  <2>5. OwnToken'
    BY <2>1 DEF OwnToken
  <2>6. ASSUME NEW t \in Tokens PROVE TokenFits(t)'
    <3>1. now + TTL <= told[tok[p]] + TTL + MaxLag
      BY <2>2, SharesAssumption
    <3>2. entry'[t] = entry[t] \/ (t = tok[p] /\ entry'[t] = TTL)
      BY <2>1
    <3> QED
      BY <2>1, <2>2, <3>1, <3>2 DEF TokenFits, Cached
  <2> QED
    BY <2>1, <2>3, <2>4, <2>5, <2>6
<1>6. CASE Return(p)
  <2>1. /\ pc' = [pc EXCEPT ![p] = "idle"] /\ tok' = [tok EXCEPT ![p] = None]
        /\ row' = [row EXCEPT ![p] = None] /\ lag' = [lag EXCEPT ![p] = 0]
        /\ UNCHANGED <<now, backend, table, entry, cutoff, faults, told, doubt>>
    BY <1>6 DEF Return, Reset
  <2>2. SharesTypeOK'
    BY <2>1, SharesAssumption DEF Steps
  <2>3. HandlerFits(p)'
    BY <2>1 DEF HandlerFits, Getting
  <2> QED
    BY <2>1, <2>2, <2>3, OneHandler
<1> QED
  BY <1>1, <1>2, <1>3, <1>4, <1>5, <1>6 DEF Get

LEMMA StopInv ==
  ASSUME SharesInv, NEW p \in Procs, Stop(p)
  PROVE  SharesInv'
<1> USE DEF SharesInv, SharesTypeOK, Times, Go
<1>1. /\ pc' = [pc EXCEPT ![p] = "idle"] /\ tok' = [tok EXCEPT ![p] = None]
      /\ row' = [row EXCEPT ![p] = None] /\ lag' = [lag EXCEPT ![p] = 0]
      /\ UNCHANGED <<now, backend, table, entry, cutoff, told, doubt>>
      /\ faults' \in 0 .. MaxFaults
  BY SharesAssumption DEF Stop, Reset, Fault
<1>2. SharesTypeOK'
  BY <1>1, SharesAssumption DEF Steps
<1>3. HandlerFits(p)'
  BY <1>1 DEF HandlerFits, Getting
<1> QED
  BY <1>1, <1>2, <1>3, OneHandler

LEMMA RestartInv ==
  ASSUME SharesInv, Restart
  PROVE  SharesInv'
<1> USE DEF SharesInv, SharesTypeOK, Times
<1>1. SharesTypeOK'
  BY SharesAssumption DEF Restart, Fault, Steps
<1>2. \A p \in Procs : HandlerFits(p)'
  BY DEF Restart, HandlerFits, Getting
<1>3. \A t \in Tokens : TokenFits(t)'
  BY DEF Restart, TokenFits, Cached
<1> QED
  BY <1>1, <1>2, <1>3 DEF OwnToken, Restart

(* The clean-up removes only what has expired. *)
LEMMA CleanupInv ==
  ASSUME SharesInv, Sweep \/ Delete \/ DeleteFails
  PROVE  SharesInv'
<1> USE DEF SharesInv, SharesTypeOK, Times, handlerVars, historyVars
<1>1. /\ UNCHANGED <<now, backend, entry, pc, tok, row, lag, told, doubt>>
      /\ table' = table \/ (cutoff # None /\ table' = Swept)
      /\ cutoff' = None \/ cutoff' = now
      /\ faults' \in 0 .. MaxFaults
  <2>1. CASE Sweep
    BY <2>1 DEF Sweep
  <2>2. CASE Delete
    BY <2>2 DEF Delete
  <2>3. CASE DeleteFails
    BY <2>3, SharesAssumption DEF DeleteFails, Fault
  <2> QED
    BY <2>1, <2>2, <2>3
<1>2. SharesTypeOK'
  BY <1>1, SharesAssumption DEF Swept
<1>3. \A p \in Procs : HandlerFits(p)'
  BY <1>1 DEF HandlerFits
<1>4. ASSUME NEW t \in Tokens PROVE TokenFits(t)'
  <2>1. CASE table'[t] = table[t]
    BY <1>1, <2>1 DEF TokenFits, Cached
  <2>2. CASE table'[t] # table[t]
    <3>1. table'[t] = None /\ table[t] # None /\ table[t] < cutoff /\ cutoff <= now
      BY <1>1, <2>2 DEF Swept, Overdue
    <3>2. table[t] = told[t] /\ table[t] \in Nat /\ cutoff \in Nat
      BY <1>1, <2>2, <3>1 DEF TokenFits, Cached
    <3>3. ~(now <= told[t])
      BY <3>1, <3>2
    <3> QED
      BY <1>1, <3>1, <3>3 DEF TokenFits, Cached
  <2> QED
    BY <2>1, <2>2
<1> QED
  BY <1>1, <1>2, <1>3, <1>4 DEF OwnToken

LEMMA TickInv ==
  ASSUME SharesInv, Tick
  PROVE  SharesInv'
<1> USE DEF SharesInv, SharesTypeOK, Times, historyVars
<1>1. /\ now < MaxTime /\ now' = now + 1
      /\ \A p \in Procs : pc[p] = "set" => lag[p] < MaxLag
      /\ entry' = [t \in Tokens |-> Aged(entry[t])]
      /\ lag' = [p \in Procs |-> IF pc[p] = "set" THEN lag[p] + 1 ELSE lag[p]]
      /\ UNCHANGED <<backend, table, pc, tok, row, cutoff, faults, told, doubt>>
  BY DEF Tick
<1>2. SharesTypeOK'
  BY <1>1, SharesAssumption DEF Aged
<1>3. ASSUME NEW p \in Procs PROVE HandlerFits(p)'
  <2>1. pc[p] = "set" => now' <= row[p] + lag'[p]
    BY <1>1, SharesAssumption DEF HandlerFits
  <2> QED
    BY <1>1, <2>1 DEF HandlerFits
<1>4. ASSUME NEW t \in Tokens PROVE TokenFits(t)'
  <2>1. Cached(t)' => Cached(t)
    BY <1>1 DEF Aged, Cached
  <2>3. TTL > 0 /\ Cached(t)' /\ entry[t] > 0 =>
          entry'[t] > 0 /\ now' + entry'[t] = now + entry[t]
    BY <1>1, <2>1, SharesAssumption DEF Aged, Cached
  <2>2. told[t] # None /\ now' <= told[t] => now <= told[t]
    BY <1>1
  <2> QED
    <3>1. table' = table /\ told' = told /\ doubt' = doubt
      BY <1>1
    <3> QED
      BY <3>1, <2>1, <2>2, <2>3 DEF TokenFits
<1>5. cutoff # None => cutoff <= now'
  BY <1>1
<1> QED
  BY <1>1, <1>2, <1>3, <1>4, <1>5 DEF OwnToken

LEMMA NextSharesInv == SharesInv /\ [Next]_vars => SharesInv'
<1> SUFFICES ASSUME SharesInv, [Next]_vars PROVE SharesInv'
  OBVIOUS
<1>1. CASE UNCHANGED vars
  BY <1>1 DEF vars, handlerVars, historyVars, SharesInv, SharesTypeOK, HandlerFits,
     OwnToken, TokenFits, Cached
<1>2. CASE Next
  BY <1>2, CreateInv, GetInv, StopInv, RestartInv, CleanupInv, TickInv DEF Next
<1> QED
  BY <1>1, <1>2

LEMMA SpecSharesInv == Spec => []SharesInv
BY InitSharesInv, NextSharesInv, PTL DEF Spec

(* Types, for any number of tokens and handlers. *)
THEOREM SharesTypeCorrect == Spec => []SharesTypeOK
<1>1. SharesInv => SharesTypeOK
  BY DEF SharesInv
<1> QED
  BY <1>1, SpecSharesInv, PTL

(* No entry of the cache outlives its share by TTL + MaxLag or more. *)
THEOREM CopiesExpireSafe == Spec => []CopiesExpire
<1>1. SharesInv => CopiesExpire
  BY DEF SharesInv, TokenFits, CopiesExpire, Cached
<1> QED
  BY <1>1, SpecSharesInv, PTL

(* Only SELECT and the comparison of times answer 404 for want of a share. *)
LEMMA MissingStep ==
  ASSUME SharesInv, [Next]_vars, NEW p \in Procs, pc[p] # "missing", pc'[p] = "missing"
  PROVE  tok[p] \in doubt \/ now > told[tok[p]]
<1> USE DEF SharesInv, SharesTypeOK, Times, Go
<1>1. (Select(p) /\ table[tok[p]] = None) \/ (Check(p) /\ now > row[p])
  <2>1. Next
    BY DEF vars, handlerVars
  <2>2. ~(Restart \/ Sweep \/ Delete \/ DeleteFails \/ Tick)
    BY DEF Restart, Sweep, Delete, DeleteFails, Tick, handlerVars
  <2>3. PICK q \in Procs : Create(q) \/ Get(q) \/ Stop(q)
    BY <2>1, <2>2 DEF Next
  <2>4. ~Create(q)
    BY DEF Create, CreateShare, Insert, InsertFails, TokenGiven
  <2>5. ~Stop(q)
    BY DEF Stop, Reset
  <2>6. CASE Get(q)
    BY <2>6 DEF Get, GetShare, Hit, Select, SelectFails, Check, Set, Return, Reset,
       Stored, Expired
  <2> QED
    BY <2>3, <2>4, <2>5, <2>6
<1>2. tok[p] \in Tokens /\ told[tok[p]] # None /\ told[tok[p]] \in Nat /\ now \in Nat
  BY <1>1, SharesAssumption DEF Select, Check, HandlerFits, Getting
<1>3. CASE Select(p) /\ table[tok[p]] = None
  BY <1>2, <1>3 DEF TokenFits, Cached
<1>4. CASE Check(p) /\ now > row[p]
  BY <1>4 DEF Check, HandlerFits
<1> QED
  BY <1>1, <1>3, <1>4

LEMMA FoundStep ==
  ASSUME SharesInv, [Next]_vars, NEW p \in Procs, pc[p] # "found", pc'[p] = "found",
         TTL > 0
  PROVE  now < told[tok[p]] + TTL + MaxLag
<1> USE DEF SharesInv, SharesTypeOK, Times, Go
<1>1. (Hit(p) /\ Cached(tok[p])) \/ Set(p)
  <2>1. Next
    BY DEF vars, handlerVars
  <2>2. ~(Restart \/ Sweep \/ Delete \/ DeleteFails \/ Tick)
    BY DEF Restart, Sweep, Delete, DeleteFails, Tick, handlerVars
  <2>3. PICK q \in Procs : Create(q) \/ Get(q) \/ Stop(q)
    BY <2>1, <2>2 DEF Next
  <2>4. ~Create(q)
    BY DEF Create, CreateShare, Insert, InsertFails, TokenGiven
  <2>5. ~Stop(q)
    BY DEF Stop, Reset
  <2>6. CASE Get(q)
    BY <2>6 DEF Get, GetShare, Hit, Select, SelectFails, Check, Set, Return, Reset
  <2> QED
    BY <2>3, <2>4, <2>5, <2>6
<1>2. /\ tok[p] \in Tokens /\ told[tok[p]] # None /\ told[tok[p]] \in Nat /\ now \in Nat
      /\ entry[tok[p]] \in Nat \cup {None} /\ TTL \in Nat /\ MaxLag \in Nat
  BY <1>1, SharesAssumption DEF Hit, Set, HandlerFits, Getting
<1>3. CASE Hit(p) /\ Cached(tok[p])
  BY <1>2, <1>3 DEF TokenFits, Cached
<1>4. CASE Set(p)
  <2>1. row[p] = told[tok[p]] /\ now <= row[p] + lag[p] /\ lag[p] \in 0 .. MaxLag
    BY <1>4 DEF Set, HandlerFits
  <2> QED
    BY <1>2, <2>1
<1> QED
  BY <1>1, <1>3, <1>4

(* A link leads to its code until it expires, clean-up or not. *)
THEOREM FoundUntilExpirySafe == Spec => FoundUntilExpiry
<1>1. SharesInv /\ [Next]_vars =>
        [\A p \in Procs :
           pc[p] # "missing" /\ pc'[p] = "missing" =>
             tok[p] \in doubt \/ now > told[tok[p]]]_vars
  BY MissingStep
<1> QED
  BY <1>1, SpecSharesInv, PTL DEF Spec, FoundUntilExpiry

(* And no longer than TTL + MaxLag after that. *)
THEOREM ServedInTimeSafe == Spec => ServedInTime
<1>1. SharesInv /\ [Next]_vars =>
        [TTL > 0 => \A p \in Procs :
           pc[p] # "found" /\ pc'[p] = "found" =>
             now < told[tok[p]] + TTL + MaxLag]_vars
  BY FoundStep
<1> QED
  BY <1>1, SpecSharesInv, PTL DEF Spec, ServedInTime
=============================================================================
