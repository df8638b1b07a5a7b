------------------------- MODULE CachedStore_proofs -------------------------
(***************************************************************************)
(* Proofs about CachedStore, for every TTL, every bound on the time a read *)
(* takes, and any number of handlers, snippets and failures.  The inner    *)
(* store keeps the invariant of PostgresStore_proofs; on it rest the bound *)
(* on staleness and the claim that invalidation misses nothing.  Then come *)
(* the theorems about CachedReplies: what clients are shown, and the       *)
(* contract behind the cache.                                              *)
(***************************************************************************)
EXTENDS CachedReplies, PostgresReplies_proofs

Writes == Inserts \cup OwnedWrites

(* Where a request of the cached store is, and where its inner one is. *)
CacheFits(p) ==
  /\ at[p] = "inner" => pc[p] # "idle"
  /\ at[p] \in {"scan", "unlink"} =>
       /\ pc[p] = "reply"
       /\ req[p].op \in Writes
       /\ key[p] \in ListKeys

CacheInv ==
  /\ Inv
  /\ CacheTypeOK
  /\ \A p \in Procs : CacheFits(p)

(* Only one handler moves in a step of the inner store. *)
LEMMA OthersStay ==
  ASSUME TypeInv, NEW p \in Procs, NEW q \in Procs, q # p,
         Call(p) \/ Statement(p) \/ Reset(p)
  PROVE  /\ pc'[q] = pc[q]
         /\ req'[q] = req[q]
         /\ reply'[q] = reply[q]
<1> USE DEF TypeInv, TypeOK
<1>1. CASE Call(p)
  BY <1>1 DEF Call, Begin, GetSnippet, ListSnippets, CreateSnippet,
     UpdateSnippet, DeleteSnippet, ForkSnippet
<1>2. CASE Reset(p)
  BY <1>2 DEF Reset
<1>3. CASE Query(p) \/ QueryFails(p)
  BY <1>3 DEF Query, QueryFails, Answer
<1>4. CASE Count(p) \/ CountFails(p) \/ Select(p) \/ SelectFails(p)
  BY <1>4 DEF Count, CountFails, Select, SelectFails, Answer
<1>5. CASE Insert(p) \/ InsertFails(p)
  BY <1>5 DEF Insert, InsertFails, Answer
<1>6. CASE Update(p) \/ Delete(p) \/ OwnedWriteFails(p)
  BY <1>6 DEF Update, Delete, OwnedWriteFails, Answer
<1> QED
  BY <1>1, <1>2, <1>3, <1>4, <1>5, <1>6 DEF Statement

(* A handler that takes a statement is not idle after it, and its request   *)
(* stays the same.                                                          *)
LEMMA StatementGoesOn ==
  ASSUME TypeInv, NEW p \in Procs, Statement(p)
  PROVE  pc'[p] # "idle" /\ req'[p] = req[p]
<1> USE DEF TypeInv, TypeOK
<1>1. CASE Query(p) \/ QueryFails(p)
  BY <1>1 DEF Query, QueryFails, Answer
<1>2. CASE Count(p) \/ CountFails(p) \/ Select(p) \/ SelectFails(p)
  BY <1>2 DEF Count, CountFails, Select, SelectFails, Answer
<1>3. CASE Insert(p) \/ InsertFails(p)
  BY <1>3 DEF Insert, InsertFails, Answer
<1>4. CASE Update(p) \/ Delete(p) \/ OwnedWriteFails(p)
  BY <1>4 DEF Update, Delete, OwnedWriteFails, Answer
<1> QED
  BY <1>1, <1>2, <1>3, <1>4 DEF Statement

LEMMA CallBegins ==
  ASSUME TypeInv, NEW p \in Procs, Call(p)
  PROVE  pc'[p] # "idle" /\ UNCHANGED rows
BY DEF TypeInv, TypeOK, Call, Begin, GetSnippet, ListSnippets, CreateSnippet,
   UpdateSnippet, DeleteSnippet, ForkSnippet

-----------------------------------------------------------------------------
(* The inner store *)

(* A failed Redis command counts as a failure and is nothing else to it. *)
OnlyFails == Fail /\ UNCHANGED innerVars

LEMMA FailingInv ==
  ASSUME Inv, OnlyFails
  PROVE  Inv'
<1>1. faults' \in 0..MaxFaults
  BY FailBound DEF Inv, TypeInv, OnlyFails
<1> QED
  BY <1>1 DEF OnlyFails, innerVars, Inv, TypeInv, TypeOK, StepFits,
     SnapshotInv, SnapshotHolds, Stored

LEMMA PrefixStep ==
  ASSUME NEW p \in Procs, NextPrefix(p)
  PROVE  UNCHANGED innerVars \/ Reset(p)
BY DEF NextPrefix, End

(* Every step of the cached store is a step of the inner one, or none. *)
LEMMA InnerStep ==
  ASSUME CacheInv, [CacheNext]_allVars
  PROVE  [Next]_vars \/ OnlyFails
<1> USE DEF CacheInv
<1>1. ASSUME NEW p \in Procs, Reset(p), pc[p] = "reply", UNCHANGED faults
      PROVE  Next
  BY <1>1 DEF Next, Return
<1>2. ASSUME NEW p \in Procs, Reset(p), pc[p] # "idle", Fail
      PROVE  Next
  BY <1>2 DEF Next, Crash
<1>3. CASE UNCHANGED allVars
  BY <1>3 DEF allVars
<1>4. CASE Tick
  BY <1>4 DEF Tick
<1>5. ASSUME NEW p \in Procs, Start(p) PROVE [Next]_vars
  BY <1>5 DEF Start, Hit, Read, Write, Next, Call
<1>6. ASSUME NEW p \in Procs, Inner(p) PROVE Next
  BY <1>6 DEF Inner, Next
<1>7. ASSUME NEW p \in Procs, Die(p) PROVE Next
  <2>1. pc[p] # "idle"
    BY <1>7 DEF Die, CacheFits
  <2> QED
    BY <1>2, <1>7, <2>1 DEF Die, End
<1>8. ASSUME NEW p \in Procs, Set(p) \/ SetFails(p) \/ Refuse(p) PROVE Next
  BY <1>1, <1>2, <1>8 DEF Set, SetFails, Refuse, Cacheable, End
<1>9. ASSUME NEW p \in Procs,
             AfterInsert(p) \/ Del(p) \/ DelFails(p) \/ HitReturn(p)
      PROVE  [Next]_vars \/ OnlyFails
  BY <1>9 DEF AfterInsert, Del, DelFails, HitReturn, OnlyFails
<1>10. ASSUME NEW p \in Procs,
             Scan(p) \/ ScanFails(p) \/ Unlink(p) \/ UnlinkFails(p)
      PROVE  [Next]_vars \/ OnlyFails
  <2>1. pc[p] = "reply"
    BY <1>10 DEF Scan, ScanFails, Unlink, UnlinkFails, CacheFits
  <2>2. UNCHANGED innerVars \/ Reset(p)
    BY <1>10, PrefixStep DEF Scan, ScanFails, Unlink, UnlinkFails
  <2>3. UNCHANGED faults \/ Fail
    BY <1>10 DEF Scan, ScanFails, Unlink, UnlinkFails
  <2>4. CASE Reset(p)
    BY <1>1, <1>2, <2>1, <2>3, <2>4
  <2>5. CASE UNCHANGED innerVars
    BY <2>3, <2>5 DEF OnlyFails, innerVars, vars
  <2> QED
    BY <2>2, <2>4, <2>5
<1> QED
  BY <1>3, <1>4, <1>5, <1>6, <1>7, <1>8, <1>9, <1>10
  DEF CacheNext, Redis, Tick

LEMMA InnerInv ==
  ASSUME CacheInv, [CacheNext]_allVars
  PROVE  Inv'
BY InnerStep, NextInv, FailingInv DEF CacheInv

-----------------------------------------------------------------------------
(* Types of the cache *)

LEMMA MissIsNoEntry == Miss \notin Entries
BY SnippetsAssumption DEF Miss, Entries

LEMMA EntryFields ==
  ASSUME NEW e \in Entries
  PROVE  /\ e # Miss
         /\ e.val \in Row \cup Listings
         /\ e.left \in 0..TTL
         /\ e.age \in Nat
         /\ e.clean \in BOOLEAN
BY MissIsNoEntry DEF Entries

LEMMA InKeys ==
  /\ ListKeys \subseteq Keys
  /\ "list" \in ListKeys
  /\ "search" \in ListKeys
BY CacheAssumption DEF Keys

(* A read that is being served has a key; a write to one snippet too. *)
LEMMA RequestKey ==
  ASSUME TypeInv, NEW p \in Procs, pc[p] = "reply"
  PROVE  /\ req[p].op \in Reads => req[p].key \in Keys
         /\ req[p].op \in OwnedWrites => req[p].key \in Ids
BY RequestFields DEF TypeInv, TypeOK, StepFits, Keys, Reads, OwnedWrites

LEMMA SetEntry ==
  ASSUME CacheInv, NEW p \in Procs, Cacheable(p)
  PROVE  /\ req[p].key \in Keys
         /\ [val |-> reply[p].val, left |-> Expiry,
             age |-> IF Stale(p) THEN life[p] ELSE 0,
             clean |-> ~Stale(p)] \in Entries
<1>1. reply[p].val \in Row \cup Listings
  BY DEF CacheInv, Inv, TypeInv, StepFits, Cacheable
<1>2. life[p] \in Nat /\ life[p] <= MaxLag /\ TTL \in Nat
  BY CacheAssumption DEF CacheInv, CacheTypeOK
<1>3. req[p].key \in Keys
  BY RequestKey DEF CacheInv, Inv, Cacheable
<1>4. (~Stale(p)) \in BOOLEAN
  BY DEF Stale
<1>5. (IF Stale(p) THEN life[p] ELSE 0) \in Nat
  BY <1>2
<1>6. Expiry \in 0..TTL
  BY <1>2 DEF Expiry
<1> QED
  BY <1>1, <1>3, <1>4, <1>5, <1>6 DEF Entries

LEMMA AgedEntry ==
  ASSUME CacheTypeOK, NEW k \in Keys
  PROVE  Aged(k) \in Entries \cup {Miss}
<1>1. CASE Cached(k) /\ cache[k].left # 1
  <2>1. cache[k] \in Entries
    BY <1>1 DEF CacheTypeOK, Cached
  <2>2. (IF cache[k].left = 0 THEN 0 ELSE cache[k].left - 1) \in 0..TTL
    BY <1>1, <2>1, EntryFields, CacheAssumption
  <2>3. (IF Agrees(k) THEN 0 ELSE cache[k].age + 1) \in Nat
    BY <2>1, EntryFields
  <2> QED
    BY <1>1, <2>1, <2>2, <2>3, EntryFields DEF Aged, Older, Entries
<1>2. CASE ~(Cached(k) /\ cache[k].left # 1)
  BY <1>2 DEF Aged, Older
<1> QED
  BY <1>1, <1>2

(* What each step does to Redis: one entry is set, one is dropped, all age, *)
(* or nothing happens.                                                      *)
LEMMA CacheStep ==
  ASSUME CacheInv, [CacheNext]_allVars
  PROVE  \/ UNCHANGED cache
         \/ \E p \in Procs : Set(p)
         \/ \E k \in Keys : Drop(k) /\ UNCHANGED rows
         \/ Tick
<1> USE DEF CacheInv
<1>1. ASSUME NEW p \in Procs, Del(p) \/ Unlink(p)
      PROVE  \E k \in Keys : Drop(k) /\ UNCHANGED rows
  <2>1. CASE Del(p)
    BY <2>1, RequestKey DEF Del, Wrote, Keys, Inv, vars
  <2>2. CASE Unlink(p)
    BY <2>2, InKeys, PrefixStep DEF Unlink, CacheFits, innerVars, Reset
  <2> QED
    BY <1>1, <2>1, <2>2
<1>2. ASSUME NEW p \in Procs, Start(p) \/ Inner(p) \/ Die(p)
      PROVE  UNCHANGED cache
  BY <1>2 DEF Start, Hit, Read, Write, Inner, Die, cacheVars
<1>3. ASSUME NEW p \in Procs, Redis(p), ~Del(p), ~Unlink(p), ~Set(p)
      PROVE  UNCHANGED cache
  BY <1>3 DEF Redis, SetFails, Refuse, AfterInsert, DelFails, Scan, ScanFails,
     UnlinkFails, HitReturn
<1> QED
  BY <1>1, <1>2, <1>3 DEF CacheNext, Redis, allVars, cacheVars

LEMMA CacheValueType ==
  ASSUME CacheInv, [CacheNext]_allVars
  PROVE  cache' \in [Keys -> Entries \cup {Miss}]
<1> USE DEF CacheInv
<1>1. CASE UNCHANGED cache
  BY <1>1 DEF CacheTypeOK
<1>2. ASSUME NEW p \in Procs, Set(p)
      PROVE  cache' \in [Keys -> Entries \cup {Miss}]
  BY <1>2, SetEntry DEF Set, CacheTypeOK
<1>3. ASSUME NEW k \in Keys, Drop(k)
      PROVE  cache' \in [Keys -> Entries \cup {Miss}]
  BY <1>3 DEF Drop, CacheTypeOK
<1>4. CASE Tick
  BY <1>4, AgedEntry DEF Tick
<1> QED
  BY <1>1, <1>2, <1>3, <1>4, CacheStep

(* The Redis command a handler is at. *)
LEMMA PlaceType ==
  ASSUME CacheInv, [CacheNext]_allVars
  PROVE  /\ at' \in [Procs -> {"free", "hit", "inner", "scan", "unlink"}]
         /\ key' \in [Procs -> Keys \cup {None}]
<1> USE InKeys DEF CacheInv, CacheTypeOK
<1>1. CASE UNCHANGED <<at, key>>
  BY <1>1
<1>2. ASSUME NEW p \in Procs, NEW k \in Keys \cup {None},
             NEW where \in {"free", "hit", "inner", "scan", "unlink"},
             Go(p, where, k)
      PROVE  /\ at' \in [Procs -> {"free", "hit", "inner", "scan", "unlink"}]
             /\ key' \in [Procs -> Keys \cup {None}]
  BY <1>2 DEF Go
<1>3. ASSUME NEW p \in Procs, Start(p)
      PROVE  \E k \in Keys \cup {None} : Go(p, "hit", k) \/ Go(p, "inner", k)
  BY <1>3 DEF Start, Hit, Read, Write
<1>4. ASSUME NEW p \in Procs, NextPrefix(p)
      PROVE  \E k \in Keys \cup {None} : Go(p, "scan", k) \/ Go(p, "free", k)
  BY <1>4 DEF NextPrefix, End
<1>5. ASSUME NEW p \in Procs, Redis(p)
      PROVE  \E k \in Keys \cup {None} :
               Go(p, "scan", k) \/ Go(p, "free", k) \/ Go(p, "unlink", k)
  BY <1>4, <1>5 DEF Redis, Set, SetFails, Refuse, AfterInsert, Del, DelFails,
     Scan, ScanFails, Unlink, UnlinkFails, HitReturn, End
<1>6. ASSUME NEW p \in Procs, Die(p)
      PROVE  Go(p, "free", None)
  BY <1>6 DEF Die, End
<1>7. ASSUME NEW p \in Procs, Inner(p)
      PROVE  UNCHANGED <<at, key>>
  BY <1>7 DEF Inner, cacheVars
<1>8. CASE Tick \/ UNCHANGED allVars
  BY <1>1, <1>8 DEF Tick, allVars, cacheVars
<1> QED
  BY <1>1, <1>2, <1>3, <1>5, <1>6, <1>7, <1>8 DEF CacheNext

LEMMA LifeType ==
  ASSUME CacheInv, [CacheNext]_allVars
  PROVE  life' \in [Procs -> 0..MaxLag]
<1> USE CacheAssumption DEF CacheInv, CacheTypeOK
<1>1. CASE UNCHANGED life
  BY <1>1
<1>2. CASE Tick
  BY <1>2 DEF Tick
<1>3. ASSUME NEW p \in Procs, End(p)
      PROVE  life' \in [Procs -> 0..MaxLag]
  BY <1>3 DEF End
<1>4. ASSUME NEW p \in Procs, Start(p) \/ Inner(p)
      PROVE  UNCHANGED life
  BY <1>4 DEF Start, Hit, Read, Write, Inner, cacheVars
<1>5. ASSUME NEW p \in Procs, Redis(p) \/ Die(p)
      PROVE  UNCHANGED life \/ End(p)
  BY <1>5 DEF Redis, Die, Set, SetFails, Refuse, AfterInsert, Del, DelFails,
     Scan, ScanFails, Unlink, UnlinkFails, HitReturn, NextPrefix
<1>6. CASE UNCHANGED allVars
  BY <1>1, <1>6 DEF allVars, cacheVars
<1> QED
  BY <1>1, <1>2, <1>3, <1>4, <1>5, <1>6 DEF CacheNext

(* A handler that does not move keeps its place. *)
LEMMA OthersFit ==
  ASSUME CacheInv, NEW q \in Procs,
         pc'[q] = pc[q], req'[q] = req[q], at'[q] = at[q], key'[q] = key[q]
  PROVE  CacheFits(q)'
BY DEF CacheInv, CacheFits

LEMMA FitsKept ==
  ASSUME CacheInv, [CacheNext]_allVars, NEW q \in Procs
  PROVE  CacheFits(q)'
<1> USE DEF CacheInv, CacheTypeOK, Inv
<1>1. CASE UNCHANGED allVars \/ Tick
  BY <1>1, OthersFit DEF allVars, vars, cacheVars, Tick
<1>2. ASSUME NEW p \in Procs, End(p)
      PROVE  CacheFits(q)'
  <2>1. CASE q = p
    BY <1>2, <2>1 DEF End, Go, CacheFits
  <2>2. CASE q # p
    BY <1>2, <2>2, OthersStay, OthersFit DEF End, Go
  <2> QED
    BY <2>1, <2>2
<1>3. ASSUME NEW p \in Procs, Start(p)
      PROVE  CacheFits(q)'
  <2>1. CASE Hit(p)
    <3>1. UNCHANGED <<pc, req>> /\ at'[p] = "hit"
      BY <2>1 DEF Hit, vars, Go
    <3>2. q # p => at'[q] = at[q] /\ key'[q] = key[q]
      BY <2>1 DEF Hit, Go
    <3> QED
      BY <3>1, <3>2, OthersFit DEF CacheFits
  <2>2. CASE Read(p) \/ Write(p)
    <3>1. Call(p) /\ Go(p, "inner", None)
      BY <2>2 DEF Read, Write, Call
    <3>2. pc'[p] # "idle" /\ at'[p] = "inner"
      BY <3>1, CallBegins DEF Go
    <3>3. CASE q # p
      BY <3>1, <3>3, OthersStay, OthersFit DEF Go
    <3> QED
      BY <3>2, <3>3 DEF CacheFits
  <2> QED
    BY <1>3, <2>1, <2>2 DEF Start
<1>4. ASSUME NEW p \in Procs, Inner(p)
      PROVE  CacheFits(q)'
  <2>1. Statement(p) /\ UNCHANGED <<at, key>> /\ at[p] = "inner"
    BY <1>4 DEF Inner, cacheVars
  <2>2. CASE q = p
    BY <2>1, <2>2, StatementGoesOn DEF CacheFits
  <2>3. CASE q # p
    BY <2>1, <2>3, OthersStay, OthersFit
  <2> QED
    BY <2>2, <2>3
<1>5. ASSUME NEW p \in Procs, UNCHANGED innerVars,
             NEW k, NEW where \in {"free", "scan", "unlink"},
             Go(p, where, k),
             where # "free" =>
               pc[p] = "reply" /\ req[p].op \in Writes /\ k \in ListKeys
      PROVE  CacheFits(q)'
  <2>1. CASE q = p
    BY <1>5, <2>1 DEF Go, innerVars, CacheFits
  <2>2. CASE q # p
    BY <1>5, <2>2, OthersFit DEF Go, innerVars
  <2> QED
    BY <2>1, <2>2
<1>6. ASSUME NEW p \in Procs, AfterInsert(p) \/ Del(p) \/ DelFails(p)
      PROVE  CacheFits(q)'
  <2>1. UNCHANGED innerVars /\ Go(p, "scan", "list")
    BY <1>6 DEF AfterInsert, Del, DelFails, vars, innerVars
  <2>2. pc[p] = "reply" /\ req[p].op \in Writes
    BY <1>6 DEF AfterInsert, Del, DelFails, Wrote, Writes
  <2> QED
    BY <1>5, <2>1, <2>2, InKeys
<1>7. ASSUME NEW p \in Procs, HitReturn(p)
      PROVE  CacheFits(q)'
  BY <1>5, <1>7 DEF HitReturn, vars, innerVars
<1>8. ASSUME NEW p \in Procs,
             Scan(p) \/ ScanFails(p) \/ Unlink(p) \/ UnlinkFails(p)
      PROVE  CacheFits(q)'
  <2>1. pc[p] = "reply" /\ req[p].op \in Writes /\ key[p] \in ListKeys
    BY <1>8 DEF Scan, ScanFails, Unlink, UnlinkFails, CacheFits
  <2>2. CASE End(p)
    BY <1>2, <2>2
  <2>3. CASE UNCHANGED innerVars /\ Go(p, "unlink", key[p])
    BY <1>5, <2>1, <2>3
  <2>4. CASE UNCHANGED innerVars /\ Go(p, "scan", "search")
    BY <1>5, <2>1, <2>4, InKeys
  <2> QED
    BY <1>8, <2>2, <2>3, <2>4
    DEF Scan, ScanFails, Unlink, UnlinkFails, NextPrefix
<1> QED
  BY <1>1, <1>2, <1>3, <1>4, <1>6, <1>7, <1>8
  DEF CacheNext, Redis, Die, Set, SetFails, Refuse

LEMMA CacheNextInv == CacheInv /\ [CacheNext]_allVars => CacheInv'
<1> SUFFICES ASSUME CacheInv, [CacheNext]_allVars PROVE CacheInv'
  OBVIOUS
<1>1. Inv'
  BY InnerInv
<1>2. CacheTypeOK'
  BY <1>1, CacheValueType, PlaceType, LifeType DEF CacheTypeOK, Inv, TypeInv
<1> QED
  BY <1>1, <1>2, FitsKept DEF CacheInv

LEMMA CacheSpecInv == CacheSpec => []CacheInv
<1>1. CacheInit => CacheInv
  <2> SUFFICES ASSUME CacheInit PROVE CacheInv
    OBVIOUS
  <2>1. Inv
    BY InitTypeInv DEF CacheInit, Inv, SnapshotInv, SnapshotHolds, Init
  <2>2. CacheTypeOK
    BY <2>1, CacheAssumption DEF CacheInit, CacheTypeOK, Inv, TypeInv
  <2> QED
    BY <2>1, <2>2 DEF CacheInv, CacheInit, CacheFits
<1>2. CacheInv /\ [CacheNext]_allVars => CacheInv'
  BY CacheNextInv
<1> QED
  BY <1>1, <1>2, PTL DEF CacheSpec

(* Types of the cached store, and of the inner store underneath it. *)
THEOREM CacheTypeCorrect == CacheSpec => []CacheTypeOK
<1>1. CacheInv => CacheTypeOK
  BY DEF CacheInv
<1> QED
  BY <1>1, CacheSpecInv, PTL

-----------------------------------------------------------------------------
(* Staleness *)

LEMMA SetStaleness ==
  ASSUME CacheInv, StalenessInv, TTL > 0, NEW p \in Procs, Set(p)
  PROVE  StalenessInv'
<1> USE CacheAssumption DEF CacheInv, CacheTypeOK
<1>1. life[p] \in 0..MaxLag /\ Cacheable(p)
  BY DEF Set
<1> DEFINE e == [val |-> reply[p].val, left |-> Expiry,
                 age |-> IF Stale(p) THEN life[p] ELSE 0,
                 clean |-> ~Stale(p)]
<1>2. e.left > 0 /\ e.age + e.left <= TTL + MaxLag
  BY <1>1 DEF Expiry
<1>3. cache' = [cache EXCEPT ![req[p].key] = e]
  BY DEF Set
<1>4. ASSUME NEW k \in Keys, Cached(k)'
      PROVE  /\ cache'[k].left > 0
             /\ cache'[k].age + cache'[k].left <= TTL + MaxLag
  <2>1. CASE k = req[p].key
    BY <1>2, <1>3, <2>1
  <2>2. CASE k # req[p].key
    BY <1>3, <1>4, <2>2 DEF StalenessInv, Cached
  <2> QED
    BY <2>1, <2>2
<1> QED
  BY <1>4 DEF StalenessInv

LEMMA TickStaleness ==
  ASSUME CacheInv, StalenessInv, TTL > 0, Tick
  PROVE  StalenessInv'
<1> USE CacheAssumption DEF CacheInv, CacheTypeOK
<1>1. ASSUME NEW k \in Keys, Cached(k)'
      PROVE  /\ cache'[k].left > 0
             /\ cache'[k].age + cache'[k].left <= TTL + MaxLag
  <2>1. cache'[k] = Aged(k)
    BY DEF Tick
  <2>2. Cached(k) /\ cache[k].left # 1
    BY <1>1, <2>1 DEF Aged, Older, Cached
  <2>3. cache[k] \in Entries
    BY <2>2 DEF Cached
  <2>4. /\ cache[k].left \in Nat
        /\ cache[k].age \in Nat
        /\ cache[k].left > 1
        /\ cache[k].age + cache[k].left <= TTL + MaxLag
    BY <2>2, <2>3, EntryFields DEF StalenessInv
  <2>5. /\ cache'[k].left = cache[k].left - 1
        /\ cache'[k].age \in {0, cache[k].age + 1}
    BY <2>1, <2>2, <2>4 DEF Aged, Older
  <2> QED
    BY <2>4, <2>5
<1> QED
  BY <1>1 DEF StalenessInv

LEMMA NextStaleness ==
  CacheInv /\ StalenessInv /\ [CacheNext]_allVars => StalenessInv'
<1> SUFFICES ASSUME CacheInv, StalenessInv, [CacheNext]_allVars
             PROVE  StalenessInv'
  OBVIOUS
<1>1. CASE ~(TTL > 0)
  BY <1>1 DEF StalenessInv
<1>2. CASE UNCHANGED cache
  BY <1>2 DEF StalenessInv, Cached
<1>3. ASSUME NEW k \in Keys, Drop(k) PROVE StalenessInv'
  BY <1>3 DEF Drop, StalenessInv, Cached, CacheInv, CacheTypeOK
<1> QED
  BY <1>1, <1>2, <1>3, SetStaleness, TickStaleness, CacheStep

(* An entry loses a tick of its life for each tick it is wrong, so the two  *)
(* together stay under what they were when it was stored.                   *)
THEOREM StalenessSafe == CacheSpec => []StalenessInv
<1>1. CacheInit => StalenessInv
  BY DEF CacheInit, StalenessInv, Cached
<1>2. CacheInv /\ StalenessInv /\ [CacheNext]_allVars => StalenessInv'
  BY NextStaleness
<1> QED
  BY <1>1, <1>2, CacheSpecInv, PTL DEF CacheSpec

(* Whatever is lost or reordered, no cached answer has been out of date for *)
(* TTL + MaxLag ticks.                                                      *)
THEOREM StalenessBound == CacheSpec => []BoundedStaleness
<1>1. CacheInv /\ StalenessInv => BoundedStaleness
  <2> SUFFICES ASSUME CacheInv, StalenessInv, TTL > 0,
                      NEW k \in Keys, Cached(k)
               PROVE  cache[k].age < TTL + MaxLag
    BY DEF BoundedStaleness
  <2>1. cache[k] \in Entries
    BY DEF CacheInv, CacheTypeOK, Cached
  <2>2. cache[k].age \in Nat /\ cache[k].left \in Nat
    BY <2>1, EntryFields
  <2>3. cache[k].left > 0 /\ cache[k].age + cache[k].left <= TTL + MaxLag
    BY DEF StalenessInv
  <2> QED
    BY <2>2, <2>3, CacheAssumption
<1> QED
  BY <1>1, CacheSpecInv, StalenessSafe, PTL

-----------------------------------------------------------------------------
(* Invalidation *)

LEMMA NoFailure ==
  ASSUME CacheInv, [CacheNext]_allVars, faults' = 0
  PROVE  ~Fail /\ faults = 0
<1>1. faults \in Nat
  BY PostgresAssumption DEF CacheInv, Inv, TypeInv, TypeOK
<1>2. ~Fail
  BY <1>1 DEF Fail
<1>3. UNCHANGED faults \/ Fail
  <2>1. ASSUME NEW p \in Procs, Call(p) \/ Statement(p) \/ Return(p) \/ Crash(p)
        PROVE  UNCHANGED faults \/ Fail
    BY <2>1 DEF Call, Begin, GetSnippet, ListSnippets, CreateSnippet,
       UpdateSnippet, DeleteSnippet, ForkSnippet, Return, Crash, Statement,
       Query, QueryFails, Count, CountFails, Select, SelectFails, Insert,
       InsertFails, Update, Delete, OwnedWriteFails
  <2> QED
    BY <2>1, InnerStep DEF Next, vars, OnlyFails
<1> QED
  BY <1>2, <1>3

(* A handler that does not move owes what it owed. *)
LEMMA OweStays ==
  ASSUME NEW q \in Procs, NEW k, Owes(q, k),
         pc'[q] = pc[q], req'[q] = req[q], reply'[q] = reply[q],
         at'[q] = at[q], key'[q] = key[q]
  PROVE  Owes(q, k)'
BY DEF Owes, Wrote

LEMMA OthersOwe ==
  ASSUME CacheInv, NEW p \in Procs, NEW q \in Procs, p # q,
         Start(p) \/ Inner(p) \/ Redis(p) \/ Die(p),
         NEW k, Owes(q, k)
  PROVE  Owes(q, k)'
<1> USE DEF CacheInv, CacheTypeOK
<1>1. CASE Start(p)
  <2>1. Call(p) \/ UNCHANGED vars
    BY <1>1 DEF Start, Hit, Read, Write, Call
  <2>2. at'[q] = at[q] /\ key'[q] = key[q]
    BY <1>1 DEF Start, Hit, Read, Write, Go
  <2> QED
    BY <2>1, <2>2, OthersStay, OweStays DEF Inv, vars
<1>2. CASE Inner(p)
  BY <1>2, OthersStay, OweStays DEF Inner, cacheVars, Inv
<1>3. CASE Redis(p) \/ Die(p)
  <2>1. Reset(p) \/ UNCHANGED innerVars
    BY <1>3, PrefixStep DEF Redis, Die, Set, SetFails, Refuse, AfterInsert, Del,
       DelFails, Scan, ScanFails, Unlink, UnlinkFails, HitReturn, End, vars,
       innerVars
  <2>2. at'[q] = at[q] /\ key'[q] = key[q]
    BY <1>3 DEF Redis, Die, Set, SetFails, Refuse, AfterInsert, Del,
       DelFails, Scan, ScanFails, Unlink, UnlinkFails, HitReturn, End,
       NextPrefix, Go
  <2> QED
    BY <2>1, <2>2, OthersStay, OweStays DEF Inv, innerVars
<1> QED
  BY <1>1, <1>2, <1>3

(* A handler that owes an invalidation pays it or still owes it. *)
LEMMA OweKept ==
  ASSUME CacheInv, [CacheNext]_allVars, faults' = 0,
         NEW q \in Procs, NEW k \in Keys, Owes(q, k)
  PROVE  Owes(q, k)' \/ ~Cached(k)'
<1> USE InKeys DEF CacheInv, CacheTypeOK
<1>1. CASE UNCHANGED allVars \/ Tick
  BY <1>1, OweStays DEF allVars, vars, cacheVars, Tick
<1>2. ASSUME NEW p \in Procs, p # q,
             Start(p) \/ Inner(p) \/ Redis(p) \/ Die(p)
      PROVE  Owes(q, k)'
  BY <1>2, OthersOwe
<1>3. at[q] \in {"inner", "scan", "unlink"} /\ pc[q] = "reply"
  BY DEF Owes, Wrote, CacheFits
<1>4. ~Start(q) /\ ~HitReturn(q)
  BY <1>3 DEF Start, Hit, Read, Write, HitReturn
<1>5. ~Inner(q)
  BY <1>3 DEF Inner, Statement, Query, QueryFails, Count, CountFails, Select,
     SelectFails, Insert, InsertFails, Update, Delete, OwnedWriteFails
<1>6. ~Die(q) /\ ~SetFails(q) /\ ~DelFails(q) /\ ~ScanFails(q) /\ ~UnlinkFails(q)
  BY NoFailure DEF Die, SetFails, DelFails, ScanFails, UnlinkFails
<1>7. ~Set(q) /\ ~Refuse(q)
  BY DEF Owes, Wrote, Set, Cacheable, Refuse, Reads, Inserts, OwnedWrites
<1>8. CASE AfterInsert(q)
  <2>1. at'[q] = "scan" /\ key'[q] = "list"
    BY <1>8 DEF AfterInsert, Go
  <2>2. k \in ListKeys
    BY <1>8 DEF AfterInsert, Owes, Wrote, Inserts, OwnedWrites
  <2> QED
    BY <2>1, <2>2 DEF Owes
<1>9. CASE Del(q)
  <2>1. at'[q] = "scan" /\ key'[q] = "list"
    BY <1>9 DEF Del, Go
  <2>2. CASE k \in ListKeys
    BY <2>1, <2>2 DEF Owes
  <2>3. CASE k \notin ListKeys
    <3>1. k = req[q].key
      BY <1>9, <2>3 DEF Del, Owes, Wrote
    <3> QED
      BY <1>9, <3>1 DEF Del, Drop, Cached
  <2> QED
    BY <2>2, <2>3
<1>10. ASSUME NextPrefix(q), at[q] \in {"scan", "unlink"}, cache'[key[q]] = Miss
       PROVE  Owes(q, k)' \/ ~Cached(k)'
  <2>1. k \in ListKeys /\ (key[q] = "search" => k = "search")
    BY <1>10 DEF Owes, Wrote
  <2>2. CASE key[q] = "list" /\ Go(q, "scan", "search")
    <3>1. at'[q] = "scan" /\ key'[q] = "search"
      BY <2>2 DEF Go
    <3>2. k \in {"list", "search"}
      BY <2>1, CacheAssumption
    <3> QED
      BY <1>10, <2>1, <2>2, <3>1, <3>2 DEF Owes, Cached
  <2>3. CASE key[q] = "search"
    BY <1>10, <2>1, <2>3 DEF Cached
  <2> QED
    BY <1>10, <2>2, <2>3 DEF NextPrefix
<1>11. CASE Scan(q)
  <2>1. CASE Go(q, "unlink", key[q])
    <3>1. at'[q] = "unlink" /\ key'[q] = key[q]
      BY <2>1 DEF Go
    <3> QED
      BY <1>11, <3>1 DEF Scan, Owes, Wrote
  <2>2. CASE ~Cached(key[q]) /\ NextPrefix(q)
    BY <1>10, <1>11, <2>2 DEF Scan, Cached
  <2> QED
    BY <1>11, <2>1, <2>2 DEF Scan
<1>12. CASE Unlink(q)
  <2>1. cache'[key[q]] = Miss
    BY <1>12 DEF Unlink, Drop, CacheFits
  <2> QED
    BY <1>10, <1>12, <2>1 DEF Unlink
<1> QED
  BY <1>1, <1>2, <1>4, <1>5, <1>6, <1>7, <1>8, <1>9, <1>11, <1>12
  DEF CacheNext, Redis

(* A statement that changes what a key shows is that of a write which then  *)
(* owes the key, or it stores the first row an id has ever had.             *)
LEMMA ChangeIsOwed ==
  ASSUME CacheInv, [CacheNext]_allVars, faults' = 0, NEW k \in Keys,
         View(k, rows') # View(k, rows)
  PROVE  k \in Ids \ used \/ \E p \in Procs : Owes(p, k)'
<1> USE DEF CacheInv, CacheTypeOK, Inv, TypeInv, TypeOK
<1>1. ~Fail /\ rows' # rows
  BY NoFailure
<1>2. ~Tick /\ ~UNCHANGED allVars
  BY <1>1 DEF Tick, allVars, vars
<1>3. ASSUME NEW p \in Procs, Start(p) \/ Redis(p) \/ Die(p)
      PROVE  FALSE
  <2>1. ~Start(p)
    BY <1>1, CallBegins DEF Start, Hit, Read, Write, vars, Call
  <2>2. Reset(p) \/ UNCHANGED innerVars
    BY <1>3, <2>1, PrefixStep DEF Redis, Die, Set, SetFails, Refuse, AfterInsert,
       Del, DelFails, Scan, ScanFails, Unlink, UnlinkFails, HitReturn, End,
       vars, innerVars
  <2> QED
    BY <1>1, <2>2 DEF Reset, innerVars
<1>4. PICK p \in Procs : Inner(p)
  BY <1>2, <1>3 DEF CacheNext
<1>5. at'[p] = "inner" /\ Statement(p)
  BY <1>4 DEF Inner, cacheVars
<1>6. Insert(p) \/ Update(p) \/ Delete(p)
  BY <1>1, <1>5 DEF Statement, Query, QueryFails, Count, CountFails, Select,
     SelectFails, InsertFails, OwnedWriteFails
<1>7. /\ pc[p] = "exec"
      /\ req'[p] = req[p]
      /\ req[p].op \in Writes
  BY <1>6 DEF Insert, Update, Delete, Answer, Writes, OwnedWrites
<1>8. pc'[p] = "reply" /\ reply'[p].status = "OK"
  <2>1. PICK val : Answer(p, Reply("OK", val, FALSE))
    BY <1>6 DEF Insert, Update, Delete
  <2> QED
    BY <2>1 DEF Answer, Reply
<1>9. CASE k \in ListKeys
  <2>1. Owes(p, k)'
    BY <1>5, <1>7, <1>8, <1>9 DEF Owes, Wrote, Writes
  <2> QED
    BY <2>1
<1>10. CASE k \in Ids
  <2>1. rows'[k] # rows[k]
    BY <1>10 DEF View
  <2>2. CASE Insert(p)
    BY <1>10, <2>1, <2>2 DEF Insert, Tables
  <2>3. CASE Update(p) \/ Delete(p)
    <3>1. req[p].op \in OwnedWrites
      BY <2>3 DEF Update, Delete, OwnedWrites
    <3>2. k = req[p].key
      BY <1>10, <2>1, <2>3
      DEF Update, Delete, Overwritten, Removed, Tables
    <3>3. Owes(p, k)'
      BY <1>5, <1>7, <1>8, <3>1, <3>2 DEF Owes, Wrote
    <3> QED
      BY <3>3
  <2> QED
    BY <1>6, <2>2, <2>3
<1> QED
  BY <1>9, <1>10 DEF Keys

(* An entry that was right when stored belongs to an id that is in use: an  *)
(* insert finds none.                                                       *)
CleanIds ==
  \A id \in Ids : Cached(id) /\ cache[id].clean => id \in used

(* A clean entry is one that was there before, or agrees now. *)
LEMMA CleanEntry ==
  ASSUME CacheInv, [CacheNext]_allVars, NEW k \in Keys,
         Cached(k)', cache'[k].clean
  PROVE  \/ Cached(k) /\ cache[k].clean /\ cache'[k].val = cache[k].val
         \/ /\ cache'[k].val = View(k, rows)
            /\ cache'[k].val \in Row \cup Listings
            /\ UNCHANGED rows
<1> USE DEF CacheInv, CacheTypeOK
<1>1. CASE UNCHANGED cache
  BY <1>1 DEF Cached
<1>2. ASSUME NEW j \in Keys, Drop(j)
      PROVE  Cached(k) /\ cache[k].clean /\ cache'[k].val = cache[k].val
  BY <1>2 DEF Drop, Cached
<1>3. CASE Tick
  <2>1. cache'[k] = Aged(k)
    BY <1>3 DEF Tick
  <2> QED
    BY <2>1 DEF Aged, Older, Cached
<1>4. ASSUME NEW p \in Procs, Set(p), req[p].key # k
      PROVE  Cached(k) /\ cache[k].clean /\ cache'[k].val = cache[k].val
  BY <1>4 DEF Set, Cached
<1>5. ASSUME NEW p \in Procs, Set(p), req[p].key = k
      PROVE  /\ cache'[k].val = View(k, rows)
             /\ cache'[k].val \in Row \cup Listings
             /\ UNCHANGED rows
  <2> DEFINE e == [val |-> reply[p].val, left |-> Expiry,
                   age |-> IF Stale(p) THEN life[p] ELSE 0,
                   clean |-> ~Stale(p)]
  <2>1. cache'[k] = e /\ Cacheable(p) /\ UNCHANGED rows
    BY <1>5 DEF Set, End, Reset
  <2>2. reply[p].val \in Row \cup Listings
    BY <2>1 DEF Cacheable, Inv, TypeInv, StepFits
  <2>3. ~Stale(p)
    <3>1. e.clean = ~Stale(p)
      BY Zenon
    <3>2. e.clean
      BY <2>1
    <3> QED
      BY <3>1, <3>2, Zenon
  <2> QED
    BY <1>5, <2>1, <2>2, <2>3 DEF Stale
<1> QED
  BY <1>1, <1>2, <1>3, <1>4, <1>5, CacheStep

LEMMA NextCleanIds == CacheInv /\ CleanIds /\ [CacheNext]_allVars => CleanIds'
<1> SUFFICES ASSUME CacheInv, CleanIds, [CacheNext]_allVars,
                    NEW id \in Ids, Cached(id)', cache'[id].clean
             PROVE  id \in used'
  BY DEF CleanIds
<1>1. used \subseteq used'
  BY InnerStep, StepKeepsOwners DEF CacheInv, OnlyFails, innerVars
<1>2. CASE Cached(id) /\ cache[id].clean
  BY <1>1, <1>2 DEF CleanIds
<1>3. CASE cache'[id].val = View(id, rows) /\ cache'[id].val \in Row \cup Listings
  <2>1. rows[id] # None
    BY <1>3, SnippetsAssumption DEF View
  <2> QED
    BY <1>1, <2>1 DEF CacheInv, Inv, SnapshotInv, Stored
<1> QED
  BY <1>2, <1>3, CleanEntry DEF Keys

LEMMA NextCovers ==
  CacheInv /\ CleanIds /\ InvalidationCovers /\ [CacheNext]_allVars
    => InvalidationCovers'
<1> SUFFICES ASSUME CacheInv, CleanIds, InvalidationCovers,
                    [CacheNext]_allVars, faults' = 0, NEW k \in Keys,
                    Cached(k)', cache'[k].clean, ~Agrees(k)'
             PROVE  \E p \in Procs : Owes(p, k)'
  BY DEF InvalidationCovers
<1>1. faults = 0
  BY NoFailure
<1>2. Cached(k) /\ cache[k].clean /\ cache'[k].val = cache[k].val
  BY CleanEntry DEF Agrees
<1>3. CASE Agrees(k)
  <2>1. View(k, rows') # View(k, rows)
    BY <1>2, <1>3 DEF Agrees
  <2>2. k \notin Ids \ used
    BY <1>2 DEF CleanIds
  <2> QED
    BY <2>1, <2>2, ChangeIsOwed
<1>4. CASE ~Agrees(k)
  <2>1. PICK q \in Procs : Owes(q, k)
    BY <1>1, <1>2, <1>4 DEF InvalidationCovers
  <2> QED
    BY <2>1, OweKept
<1> QED
  BY <1>3, <1>4

(* When nothing fails, a cached value that has become wrong has a writer    *)
(* that is going to remove it.                                              *)
THEOREM InvalidationSafe == CacheSpec => []InvalidationCovers
<1>1. CacheInit => CleanIds /\ InvalidationCovers
  BY DEF CacheInit, CleanIds, InvalidationCovers, Cached, Keys
<1>2. CacheInv /\ CleanIds /\ [CacheNext]_allVars => CleanIds'
  BY NextCleanIds
<1>3. CacheInv /\ CleanIds /\ InvalidationCovers /\ [CacheNext]_allVars
        => InvalidationCovers'
  BY NextCovers
<1> QED
  BY <1>1, <1>2, <1>3, CacheSpecInv, PTL DEF CacheSpec

(* The cache does not weaken the ownership of snippets: it is checked by    *)
(* the inner store, never on a cached copy.                                 *)
THEOREM CachedOwnershipSafe == CacheSpec => OnlyOwnerWrites
<1>1. CacheInv /\ [CacheNext]_allVars
        => [\A id \in Stored(rows) :
              rows'[id] # rows[id] => OwnerStep(id)]_vars
  BY InnerStep, ChangeIsOwners DEF CacheInv, OnlyFails, innerVars
<1> QED
  BY <1>1, CacheSpecInv, PTL DEF CacheSpec, OnlyOwnerWrites

(* Nor does it bring a snippet back: what SETs and DELs do to the entries   *)
(* never reaches the table.                                                 *)
THEOREM CachedGoneSafe == CacheSpec => GoneForGood
<1>1. CacheInv /\ [CacheNext]_allVars
        => [\A id \in used \ Stored(rows) : rows'[id] = None]_vars
  BY InnerStep, StepKeepsOwners
  DEF CacheInv, OnlyFails, innerVars, OwnersKept, Stored, Inv, TypeInv, TypeOK
<1> QED
  BY <1>1, CacheSpecInv, PTL DEF CacheSpec, GoneForGood

-----------------------------------------------------------------------------
(* What clients are shown *)

(* A row that is shown is one the snippet has been, `lag` ticks ago at most. *)
ShownWithin(k, val, lag) ==
  \A id \in Ids : Shown(k, val, id) # None =>
    /\ Shown(k, val, id) \in Row
    /\ ago[id][Shown(k, val, id)] <= lag

ReplyFits(p) == Cacheable(p) => ShownWithin(req[p].key, reply[p].val, life[p])

(* An entry gets a tick older and loses a tick of its life. *)
EntryFits(k) ==
  TTL > 0 /\ Cached(k) => ShownWithin(k, cache[k].val, Window - cache[k].left)

HistoryInv ==
  /\ ObsInv
  /\ CacheInv
  /\ StalenessInv
  /\ ago \in [Ids -> [Row -> 0..Window]]
  /\ \A p \in Procs : ReplyFits(p)
  /\ \A k \in Keys : EntryFits(k)

(* A step of one handler leaves where the others are alone. *)
LEMMA OthersRest ==
  ASSUME CacheInv, NEW p \in Procs, NEW q \in Procs, q # p,
         Start(p) \/ Inner(p) \/ Redis(p) \/ Die(p)
  PROVE  /\ pc'[q] = pc[q]
         /\ req'[q] = req[q]
         /\ reply'[q] = reply[q]
         /\ at'[q] = at[q]
         /\ life'[q] = life[q]
<1> USE DEF CacheInv, CacheTypeOK, Inv
<1>1. CASE Hit(p) \/ HitReturn(p)
  BY <1>1 DEF Hit, HitReturn, Go, vars
<1>2. CASE Read(p) \/ Write(p)
  <2>1. Call(p) /\ Go(p, "inner", None) /\ UNCHANGED life
    BY <1>2 DEF Read, Write, Call
  <2> QED
    BY <2>1, OthersStay DEF Go
<1>3. CASE Inner(p)
  BY <1>3, OthersStay DEF Inner, cacheVars
<1>4. CASE End(p)
  BY <1>4, OthersStay DEF End, Go
<1>5. CASE AfterInsert(p) \/ Del(p) \/ DelFails(p)
  BY <1>5 DEF AfterInsert, Del, DelFails, Go, vars, innerVars
<1>6. CASE Scan(p) \/ ScanFails(p) \/ Unlink(p) \/ UnlinkFails(p)
  BY <1>4, <1>6
  DEF Scan, ScanFails, Unlink, UnlinkFails, NextPrefix, Go, innerVars
<1> QED
  BY <1>1, <1>2, <1>3, <1>4, <1>5, <1>6
  DEF Start, Redis, Set, SetFails, Refuse, Die

(* Of the steps of a handler, only a statement makes it have an answer that *)
(* may be stored.                                                           *)
LEMMA OnlyStatementsAnswer ==
  ASSUME CacheInv, NEW p \in Procs,
         Start(p) \/ Inner(p) \/ Redis(p) \/ Die(p),
         Cacheable(p)'
  PROVE  Inner(p)
<1> USE DEF CacheInv, CacheTypeOK, Inv
<1>1. at'[p] = "inner" /\ pc'[p] = "reply"
  BY DEF Cacheable
<1>2. CASE Hit(p) \/ HitReturn(p)
  BY <1>1, <1>2 DEF Hit, HitReturn, Go
<1>3. CASE Read(p) \/ Write(p)
  BY <1>1, <1>3
  DEF Read, Write, GetSnippet, ListSnippets, CreateSnippet, UpdateSnippet,
      DeleteSnippet, ForkSnippet, Begin, TypeInv, TypeOK
<1>4. CASE End(p)
  BY <1>1, <1>4 DEF End, Go
<1>5. CASE AfterInsert(p) \/ Del(p) \/ DelFails(p)
  BY <1>1, <1>5 DEF AfterInsert, Del, DelFails, Go
<1>6. CASE Scan(p) \/ ScanFails(p) \/ Unlink(p) \/ UnlinkFails(p)
  <2>1. at[p] # "inner"
    BY <1>6 DEF Scan, ScanFails, Unlink, UnlinkFails
  <2> QED
    BY <1>1, <1>4, <1>6, <2>1
    DEF Scan, ScanFails, Unlink, UnlinkFails, NextPrefix, Go
<1> QED
  BY <1>2, <1>3, <1>4, <1>5, <1>6
  DEF Start, Redis, Set, SetFails, Refuse, Die

(* What a read has just found in the database is what is there, or a part   *)
(* of it.                                                                   *)
LEMMA ReadsTheTable ==
  ASSUME CacheInv, NEW p \in Procs, Inner(p), Cacheable(p)', NEW id \in Ids
  PROVE  /\ rows'[id] = rows[id]
         /\ Shown(req'[p].key, reply'[p].val, id) \in {None, rows[id]}
<1> USE DEF CacheInv, Inv, TypeInv, TypeOK
<1>1. Statement(p) /\ req'[p] = req[p] /\ req[p].op \in Reads
  BY StatementGoesOn DEF Inner, Cacheable
<1>2. req[p] \in Requests
  BY <1>1, StatementGoesOn DEF Reads, NoRequest, Request
<1>3. reply'[p].status = "OK" /\ pc'[p] = "reply"
  BY DEF Cacheable
<1>4. CASE Query(p)
  <2>1. req[p].op = "get"
    <3>1. StepFits(p) /\ pc[p] = "query"
      BY <1>4 DEF Query
    <3> QED
      BY <1>1, <3>1 DEF StepFits, Reads, OwnedWrites
  <2>2. req[p].key \in Ids
    BY <1>2, <2>1, RequestFields
  <2>3. ~Refused(p, rows[req[p].key])
    BY <2>1 DEF Refused, OwnedWrites
  <2>4. UNCHANGED rows /\ reply'[p] = Reply("OK", rows[req[p].key], FALSE)
    <3>1. /\ UNCHANGED rows
          /\ \/ Answer(p, Reply("NotFound", None, FALSE))
             \/ Answer(p, Reply("OK", rows[req[p].key], FALSE))
      BY <1>4, <2>1, <2>3 DEF Query
    <3>2. \A r : Answer(p, r) => reply'[p] = r
      BY DEF Answer
    <3> QED
      BY <1>3, <3>1, <3>2 DEF Reply
  <2> QED
    BY <1>1, <2>2, <2>4 DEF Shown, Reply
<1>5. CASE Count(p) \/ CountFails(p) \/ Select(p) \/ SelectFails(p)
  <2>1. req[p].key \notin Ids
    <3>1. req[p].op = "list"
      BY <1>5 DEF Count, CountFails, Select, SelectFails, StepFits
    <3> QED
      BY <1>2, <3>1, RequestFields, SnippetsAssumption
  <2>2. UNCHANGED rows /\ reply'[p].val.page[id] \in {None, rows[id]}
    BY <1>3, <1>5
    DEF Count, CountFails, Select, SelectFails, Answer, Reply, Listing,
        EmptyTable, Part
  <2> QED
    BY <1>1, <2>1, <2>2 DEF Shown
<1>6. CASE QueryFails(p)
  BY <1>3, <1>6 DEF QueryFails, Answer, Reply
<1>7. CASE Insert(p) \/ InsertFails(p) \/ Update(p) \/ Delete(p)
           \/ OwnedWriteFails(p)
  BY <1>1, <1>7
  DEF Insert, InsertFails, Update, Delete, OwnedWriteFails, Inserts,
      OwnedWrites, Reads
<1> QED
  BY <1>1, <1>4, <1>5, <1>6, <1>7 DEF Statement

(* How the history moves. *)
LEMMA RecallBound ==
  ASSUME HistoryInv, NEW passes \in BOOLEAN, Recall(passes),
         NEW id \in Ids, NEW row \in Row
  PROVE  /\ ago'[id][row] \in 0..Window
         /\ ago'[id][row] <= ago[id][row] + 1
         /\ ~passes => ago'[id][row] <= ago[id][row]
         /\ rows'[id] = row => ago'[id][row] = 0
<1>1. Window \in Nat /\ Window = TTL + MaxLag
  BY CacheAssumption DEF Window
<1>2. ago[id][row] \in 0..Window
  BY DEF HistoryInv
<1>3. ago'[id][row] = IF rows'[id] = row THEN 0
                      ELSE IF passes THEN Older(ago[id][row]) ELSE ago[id][row]
  BY DEF Recall
<1> QED
  BY <1>1, <1>2, <1>3 DEF Older

LEMMA ShownAges ==
  ASSUME HistoryInv, NEW passes \in BOOLEAN, Recall(passes),
         NEW k, NEW val, NEW lag \in Int, NEW more \in Int,
         ShownWithin(k, val, lag),
         more >= lag, passes => more >= lag + 1
  PROVE  \A id \in Ids : Shown(k, val, id) # None =>
           /\ Shown(k, val, id) \in Row
           /\ ago'[id][Shown(k, val, id)] <= more
<1> SUFFICES ASSUME NEW id \in Ids, Shown(k, val, id) # None
             PROVE  /\ Shown(k, val, id) \in Row
                    /\ ago'[id][Shown(k, val, id)] <= more
  OBVIOUS
<1> DEFINE row == Shown(k, val, id)
<1>1. row \in Row /\ ago[id][row] <= lag
  BY DEF ShownWithin
<1>2. /\ ago[id][row] \in 0..Window /\ ago'[id][row] \in 0..Window
      /\ ago'[id][row] <= ago[id][row] + 1
      /\ ~passes => ago'[id][row] <= ago[id][row]
  BY <1>1, RecallBound DEF HistoryInv
<1> HIDE DEF row
<1>3. Window \in Nat
  BY CacheAssumption DEF Window
<1>4. ago'[id][row] <= more
  BY <1>1, <1>2, <1>3
<1> QED
  BY <1>1, <1>4 DEF row

(* A step of the history is one of the cached store, and one of the inner   *)
(* store that watches its requests, or a failure of Redis.                  *)
LEMMA HistoryStep ==
  ASSUME HistoryInv, [HistoryNext]_historyVars
  PROVE  /\ [CacheNext]_allVars
         /\ [ObsNext]_obsVars \/ (OnlyFails /\ Observe)
<1>1. CASE UNCHANGED historyVars
  BY <1>1 DEF historyVars, allVars, vars, obsVars
<1>2. CASE HistoryNext
  <2>1. CacheNext /\ Observe
    BY <1>2 DEF HistoryNext, CacheNext
  <2>2. [Next]_vars \/ OnlyFails
    BY <2>1, InnerStep DEF HistoryInv
  <2>3. CASE UNCHANGED vars
    <3>1. UNCHANGED Contract!vars
      BY <2>1, <2>3, NothingNew DEF HistoryInv, vars
    <3> QED
      BY <2>1, <2>3, <3>1 DEF Contract!vars, vars, obsVars
  <2>4. CASE Next
    BY <2>1, <2>4 DEF ObsNext
  <2> QED
    BY <2>1, <2>2, <2>3, <2>4
<1> QED
  BY <1>1, <1>2

LEMMA ObsKept ==
  ASSUME HistoryInv, [HistoryNext]_historyVars
  PROVE  ObsInv'
<1>1. CASE [ObsNext]_obsVars
  BY <1>1, NextObsInv DEF HistoryInv
<1>2. CASE OnlyFails /\ Observe
  <2>1. Inv'
    BY <1>2, FailingInv DEF HistoryInv, ObsInv
  <2>2. UNCHANGED Contract!vars
    BY <1>2, NothingNew DEF HistoryInv, OnlyFails, innerVars
  <2>3. UNCHANGED <<rows, pc, req, snap, count, seen>>
    BY <1>2, <2>2 DEF Contract!vars, OnlyFails, innerVars
  <2>4. \A p \in Procs : SeenFits(p)'
    BY <2>3 DEF HistoryInv, ObsInv, SeenFits
  <2> QED
    BY <2>1, <2>3, <2>4 DEF HistoryInv, ObsInv
<1> QED
  BY <1>1, <1>2, HistoryStep

LEMMA AgoType ==
  ASSUME HistoryInv, [HistoryNext]_historyVars
  PROVE  ago' \in [Ids -> [Row -> 0..Window]]
<1>1. CASE UNCHANGED historyVars
  BY <1>1 DEF historyVars, HistoryInv
<1>2. CASE HistoryNext
  <2>1. PICK passes \in BOOLEAN : Recall(passes)
    BY <1>2 DEF HistoryNext
  <2>2. \A id \in Ids, row \in Row : ago'[id][row] \in 0..Window
    BY <2>1, RecallBound
  <2> QED
    BY <2>1, <2>2 DEF Recall
<1> QED
  BY <1>1, <1>2

(* An answer gets a tick older with the read it belongs to.                 *)
LEMMA ReplyFitsKept ==
  ASSUME HistoryInv, CacheInv', HistoryNext, NEW q \in Procs
  PROVE  ReplyFits(q)'
<1> SUFFICES ASSUME Cacheable(q)'
             PROVE  ShownWithin(req[q].key, reply[q].val, life[q])'
  BY DEF ReplyFits
<1>1. life[q] \in Int /\ life'[q] \in Nat
  BY DEF HistoryInv, CacheInv, CacheTypeOK
<1>2. PICK passes \in BOOLEAN : Recall(passes) /\ (passes => Tick)
  BY DEF HistoryNext
<1>3. ASSUME Cacheable(q), req'[q] = req[q], reply'[q] = reply[q],
             life'[q] >= life[q], passes => life'[q] >= life[q] + 1
      PROVE  ShownWithin(req[q].key, reply[q].val, life[q])'
  <2>1. ShownWithin(req[q].key, reply[q].val, life[q])
    BY <1>3 DEF ReplyFits, HistoryInv
  <2>2. \A id \in Ids : Shown(req[q].key, reply[q].val, id) # None =>
          /\ Shown(req[q].key, reply[q].val, id) \in Row
          /\ ago'[id][Shown(req[q].key, reply[q].val, id)] <= life'[q]
    BY <1>1, <1>2, <1>3, <2>1, ShownAges
  <2> QED
    BY <1>3, <2>2 DEF ShownWithin
<1>4. CASE Tick
  <2>1. Cacheable(q) /\ req'[q] = req[q] /\ reply'[q] = reply[q]
    BY <1>4 DEF Tick, vars, Cacheable
  <2>2. life'[q] = life[q] + 1
    BY <1>4, <2>1 DEF Tick, Cacheable, Reading
  <2>3. life'[q] >= life[q] /\ life'[q] >= life[q] + 1
    BY <1>1, <2>2
  <2> QED
    BY <1>3, <2>1, <2>3
<1>5. ASSUME ~Tick,
             NEW p \in Procs, Start(p) \/ Inner(p) \/ Redis(p) \/ Die(p)
      PROVE  ShownWithin(req[q].key, reply[q].val, life[q])'
  <2>1. CASE p # q
    <3>1. /\ pc'[q] = pc[q] /\ req'[q] = req[q] /\ reply'[q] = reply[q]
          /\ at'[q] = at[q] /\ life'[q] = life[q]
      BY <1>5, <2>1, OthersRest DEF HistoryInv
    <3>2. Cacheable(q)
      BY <3>1 DEF Cacheable
    <3>3. life'[q] >= life[q]
      BY <1>1, <3>1
    <3> QED
      BY <1>2, <1>3, <1>5, <3>1, <3>2, <3>3
  <2>2. CASE p = q
    <3>1. Inner(q)
      BY <1>5, <2>2, OnlyStatementsAnswer DEF HistoryInv
    <3> SUFFICES ASSUME NEW id \in Ids,
                        Shown(req'[q].key, reply'[q].val, id) # None
                 PROVE  LET row == Shown(req'[q].key, reply'[q].val, id)
                        IN row \in Row /\ ago'[id][row] <= life'[q]
      BY DEF ShownWithin
    <3>2. /\ rows'[id] = rows[id]
          /\ Shown(req'[q].key, reply'[q].val, id) = rows[id]
      BY <3>1, ReadsTheTable DEF HistoryInv
    <3>3. rows[id] \in Row
      BY <3>2 DEF HistoryInv, CacheInv, Inv, TypeInv, TypeOK, Tables
    <3>4. ago'[id][rows[id]] = 0
      BY <1>2, <3>2, <3>3, RecallBound
    <3> QED
      BY <1>1, <3>2, <3>3, <3>4
  <2> QED
    BY <2>1, <2>2
<1> QED
  BY <1>4, <1>5 DEF HistoryNext

(* Life is bounded by MaxLag, so an entry of a full TTL shows nothing older *)
(* than that; then each tick takes as much of its life as it adds to its    *)
(* age.                                                                     *)
LEMMA EntryFitsKept ==
  ASSUME HistoryInv, HistoryNext, NEW k \in Keys
  PROVE  EntryFits(k)'
<1> SUFFICES ASSUME TTL > 0, Cached(k)'
             PROVE  ShownWithin(k, cache[k].val, Window - cache[k].left)'
  BY DEF EntryFits
<1>1. Window \in Nat /\ Window = TTL + MaxLag /\ TTL \in Nat /\ MaxLag \in Nat
  BY CacheAssumption DEF Window
<1>2. PICK passes \in BOOLEAN : Recall(passes) /\ (passes => Tick)
  BY DEF HistoryNext
<1>3. ASSUME NEW val, NEW lag \in Int, ShownWithin(k, val, lag),
             cache'[k].val = val, cache'[k].left \in Int,
             Window - cache'[k].left >= lag,
             passes => Window - cache'[k].left >= lag + 1
      PROVE  ShownWithin(k, cache[k].val, Window - cache[k].left)'
  <2>1. Window - cache'[k].left \in Int
    BY <1>1, <1>3
  <2>2. \A id \in Ids : Shown(k, val, id) # None =>
          /\ Shown(k, val, id) \in Row
          /\ ago'[id][Shown(k, val, id)] <= Window - cache'[k].left
    BY <1>2, <1>3, <2>1, ShownAges
  <2> QED
    BY <1>3, <2>2 DEF ShownWithin, Window
<1>4. Cached(k) => /\ cache[k] \in Entries
                   /\ cache[k].left \in Nat \ {0}
                   /\ ShownWithin(k, cache[k].val, Window - cache[k].left)
  BY EntryFields
  DEF HistoryInv, EntryFits, StalenessInv, CacheInv, CacheTypeOK, Cached
<1>5. CASE Tick
  <2>1. cache'[k] = Aged(k)
    BY <1>5 DEF Tick
  <2>2. Cached(k) /\ cache[k].left # 1
    BY <2>1 DEF Aged, Cached
  <2>3. /\ cache'[k].val = cache[k].val
        /\ cache'[k].left = cache[k].left - 1
    BY <1>4, <2>1, <2>2 DEF Aged
  <2>4. /\ Window - cache[k].left \in Int
        /\ cache'[k].left \in Int
        /\ Window - cache'[k].left >= Window - cache[k].left
        /\ Window - cache'[k].left >= (Window - cache[k].left) + 1
    BY <1>1, <1>4, <2>2, <2>3
  <2> QED
    BY <1>3, <1>4, <2>2, <2>3, <2>4
<1>6. CASE ~Tick /\ cache'[k] = cache[k]
  <2>1. Cached(k) /\ ~passes
    BY <1>2, <1>6 DEF Cached
  <2>2. /\ Window - cache[k].left \in Int
        /\ cache'[k].left \in Int
        /\ Window - cache'[k].left >= Window - cache[k].left
    BY <1>1, <1>4, <1>6, <2>1
  <2> QED
    BY <1>3, <1>4, <1>6, <2>1, <2>2
<1>7. ASSUME NEW p \in Procs, Set(p), k = req[p].key, ~Tick
      PROVE  ShownWithin(k, cache[k].val, Window - cache[k].left)'
  <2>1. /\ cache'[k].val = reply[p].val
        /\ cache'[k].left = TTL
    BY <1>7 DEF Set, Expiry, HistoryInv, CacheInv, CacheTypeOK
  <2>2. ShownWithin(k, reply[p].val, life[p])
    BY <1>7 DEF Set, ReplyFits, HistoryInv
  <2>3. life[p] \in 0..MaxLag
    BY DEF HistoryInv, CacheInv, CacheTypeOK
  <2>4. life[p] \in Int /\ Window - TTL >= life[p] /\ TTL \in Int /\ ~passes
    BY <1>1, <1>2, <1>7, <2>3
  <2> QED
    BY <1>1, <1>3, <2>1, <2>2, <2>4
<1>8. ASSUME NEW p \in Procs, Set(p), k # req[p].key
      PROVE  cache'[k] = cache[k]
  BY <1>8 DEF Set, HistoryInv, CacheInv, CacheTypeOK
<1>9. ASSUME NEW other \in Keys, Drop(other)
      PROVE  cache'[k] = cache[k]
  BY <1>9 DEF Drop, Cached, HistoryInv, CacheInv, CacheTypeOK
<1>10. CacheNext
  BY DEF HistoryNext, CacheNext
<1> QED
  BY <1>5, <1>6, <1>7, <1>8, <1>9, <1>10, CacheStep DEF HistoryInv

LEMMA HistoryNextInv ==
  HistoryInv /\ [HistoryNext]_historyVars => HistoryInv'
<1> SUFFICES ASSUME HistoryInv, [HistoryNext]_historyVars
             PROVE  HistoryInv'
  OBVIOUS
<1>1. CacheInv' /\ StalenessInv'
  BY HistoryStep, CacheNextInv, NextStaleness DEF HistoryInv
<1>2. ObsInv' /\ (ago \in [Ids -> [Row -> 0..Window]])'
  BY ObsKept, AgoType
<1>3. ASSUME UNCHANGED historyVars
      PROVE  /\ \A p \in Procs : ReplyFits(p)'
             /\ \A k \in Keys : EntryFits(k)'
  BY <1>3 DEF historyVars, allVars, vars, cacheVars, HistoryInv, ReplyFits,
     EntryFits, ShownWithin, Cacheable, Cached
<1>4. ASSUME HistoryNext
      PROVE  /\ \A p \in Procs : ReplyFits(p)'
             /\ \A k \in Keys : EntryFits(k)'
  BY <1>1, <1>4, ReplyFitsKept, EntryFitsKept
<1> QED
  BY <1>1, <1>2, <1>3, <1>4 DEF HistoryInv

LEMMA HistorySpecInv == HistorySpec => []HistoryInv
<1>1. HistoryInit => HistoryInv
  <2> SUFFICES ASSUME HistoryInit PROVE HistoryInv
    OBVIOUS
  <2>1. CacheInv
    <3>1. Inv
      BY InitTypeInv
      DEF HistoryInit, CacheInit, Inv, SnapshotInv, SnapshotHolds, Init
    <3>2. CacheTypeOK
      BY <3>1, CacheAssumption
      DEF HistoryInit, CacheInit, CacheTypeOK, Inv, TypeInv
    <3> QED
      BY <3>1, <3>2 DEF CacheInv, HistoryInit, CacheInit, CacheFits
  <2>2. ObsInv
    BY <2>1
    DEF HistoryInit, CacheInit, Init, ObsInv, CacheInv, SeenFits, NoRequest,
        Request
  <2>3. ago \in [Ids -> [Row -> 0..Window]]
    BY CacheAssumption DEF HistoryInit, Window
  <2>4. /\ \A p \in Procs : ReplyFits(p)
        /\ \A k \in Keys : EntryFits(k)
        /\ StalenessInv
    BY DEF HistoryInit, CacheInit, ReplyFits, EntryFits, Cacheable, Cached,
       StalenessInv
  <2> QED
    BY <2>1, <2>2, <2>3, <2>4 DEF HistoryInv
<1>2. HistoryInv /\ [HistoryNext]_historyVars => HistoryInv'
  BY HistoryNextInv
<1> QED
  BY <1>1, <1>2, PTL DEF HistorySpec

(* Types of the histories. *)
THEOREM HistoryTypeCorrect == HistorySpec => []HistoryTypeOK
<1>1. HistoryInv => HistoryTypeOK
  BY DEF HistoryInv, ObsInv, HistoryTypeOK
<1> QED
  BY <1>1, HistorySpecInv, PTL

(* Whatever is lost, reordered or stopped, no client is shown a version of  *)
(* a snippet that was replaced or removed TTL + MaxLag ticks ago or longer. *)
THEOREM ShownRecentlySafe == HistorySpec => []ShownRecently
<1>1. HistoryInv => ShownRecently
  <2> SUFFICES ASSUME HistoryInv, TTL > 0
               PROVE  /\ \A k \in Keys : Cached(k) => Recent(k, cache[k].val)
                      /\ \A p \in Procs :
                           Cacheable(p) => Recent(req[p].key, reply[p].val)
    BY DEF ShownRecently
  <2>1. Window \in Nat /\ Window = TTL + MaxLag /\ TTL \in Nat /\ MaxLag \in Nat
    BY CacheAssumption DEF Window
  <2>2. ASSUME NEW k, NEW val, NEW lag \in Int, lag < Window,
               ShownWithin(k, val, lag)
        PROVE  Recent(k, val)
    <3> SUFFICES ASSUME NEW id \in Ids, Shown(k, val, id) # None
                 PROVE  ago[id][Shown(k, val, id)] < Window
      BY DEF Recent
    <3> DEFINE row == Shown(k, val, id)
    <3>1. row \in Row /\ ago[id][row] <= lag
      BY <2>2 DEF ShownWithin
    <3>2. ago[id][row] \in 0..Window
      BY <3>1 DEF HistoryInv
    <3> HIDE DEF row
    <3>3. ago[id][row] < Window
      BY <2>1, <2>2, <3>1, <3>2
    <3> QED
      BY <3>3 DEF row
  <2>3. ASSUME NEW k \in Keys, Cached(k)
        PROVE  Recent(k, cache[k].val)
    <3>1. cache[k].left \in Nat \ {0}
      BY <2>3, EntryFields
      DEF HistoryInv, StalenessInv, CacheInv, CacheTypeOK, Cached
    <3>2. ShownWithin(k, cache[k].val, Window - cache[k].left)
      BY <2>3 DEF HistoryInv, EntryFits
    <3>3. Window - cache[k].left \in Int /\ Window - cache[k].left < Window
      BY <2>1, <3>1
    <3> QED
      BY <2>2, <3>2, <3>3
  <2>4. ASSUME NEW p \in Procs, Cacheable(p)
        PROVE  Recent(req[p].key, reply[p].val)
    <3>1. life[p] \in 0..MaxLag
      BY DEF HistoryInv, CacheInv, CacheTypeOK
    <3>2. life[p] \in Int /\ life[p] < Window
      BY <2>1, <3>1
    <3>3. ShownWithin(req[p].key, reply[p].val, life[p])
      BY <2>4 DEF HistoryInv, ReplyFits
    <3> QED
      BY <2>2, <3>2, <3>3
  <2> QED
    BY <2>3, <2>4
<1> QED
  BY <1>1, HistorySpecInv, PTL

(* Behind the cache the inner store still honours the contract of the Store *)
(* interface: a hit never reaches it, a miss is a request like any other,   *)
(* and a failure of Redis is none of its steps.                             *)
THEOREM CachedContractHonoured == HistorySpec => HonoursContract
<1>1. HistoryInit => Contract!Init
  BY InitSimulation DEF HistoryInit, CacheInit, ObsInit
<1>2. HistoryInv /\ [HistoryNext]_historyVars
        => [Contract!Next]_(Contract!vars)
  <2> SUFFICES ASSUME HistoryInv, [HistoryNext]_historyVars
               PROVE  [Contract!Next]_(Contract!vars)
    OBVIOUS
  <2>1. CASE [ObsNext]_obsVars
    BY <2>1, StepSimulation DEF HistoryInv
  <2>2. CASE OnlyFails /\ Observe
    BY <2>2, NothingNew DEF HistoryInv, OnlyFails, innerVars
  <2> QED
    BY <2>1, <2>2, HistoryStep
<1> QED
  BY <1>1, <1>2, HistorySpecInv, PTL
  DEF HistorySpec, Contract!Spec, HonoursContract
=============================================================================
