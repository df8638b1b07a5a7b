----------------------------- MODULE CachedStore -----------------------------
(***************************************************************************)
(* service/cached_store.go and service/cache.go: the read-through cache in *)
(* Redis in front of PostgresStore, and the invalidation that writes do.   *)
(* A request of the cached store is a request of the inner one with Redis  *)
(* commands before and after it; each command is one atomic step at Redis, *)
(* and between any two the other handlers and replicas run.                *)
(*                                                                         *)
(* The entries carry history: whether a value agreed with the table when   *)
(* it was stored, and for how long it has not.                             *)
(***************************************************************************)
EXTENDS PostgresStore

CONSTANTS
  TTL,    \* CACHE_TTL_DATA in ticks; 0 stands for every value <= 0
  MaxLag  \* bound: ticks from the start of an uncached read to its SET

ASSUME CacheAssumption ==
  /\ TTL \in Nat
  /\ MaxLag \in Nat
  /\ ListKeys = {"list", "search"}

VARIABLES
  cache,  \* Redis: what each key holds
  at,     \* where each request of the cached store is
  key,    \* key, or prefix, of its Redis command
  life    \* ticks since its uncached read began

innerVars == <<rows, used, pc, req, snap, count, reply>>
cacheVars == <<cache, at, key, life>>
allVars == <<vars, cacheVars>>

Miss == [val |-> None, left |-> 0, age |-> 0, clean |-> TRUE]

(* left  : ticks before Redis drops the entry; 0 is "no expiry"             *)
(* age   : ticks for which val has differed from the table                  *)
(* clean : val agreed with the table when it was stored                     *)
Entries == [val : Row \cup Listings, left : 0..TTL, age : Nat, clean : BOOLEAN]

Cached(k) == cache[k] # Miss
Agrees(k) == cache[k].val = View(k, rows)

CacheInit ==
  /\ Init
  /\ cache = [k \in Keys |-> Miss]
  /\ at = [p \in Procs |-> "free"]
  /\ key = [p \in Procs |-> None]
  /\ life = [p \in Procs |-> 0]

Go(p, where, k) ==
  /\ at' = [at EXCEPT ![p] = where]
  /\ key' = [key EXCEPT ![p] = k]

End(p) ==
  /\ Reset(p)
  /\ Go(p, "free", None)
  /\ life' = [life EXCEPT ![p] = 0]

-----------------------------------------------------------------------------
(* Reads *)

(* A hit is answered from Redis alone. *)
Hit(p) ==
  /\ at[p] = "free"
  /\ \E k \in Keys :
       /\ Cached(k)
       /\ Go(p, "hit", k)
  /\ UNCHANGED <<vars, cache, life>>

HitReturn(p) ==
  /\ at[p] = "hit"
  /\ Go(p, "free", None)
  /\ UNCHANGED <<vars, cache, life>>

(* The inner store is read when Redis has no entry, and also when GET       *)
(* fails, times out or returns what does not decode: whatever the entry is. *)
Read(p) ==
  /\ at[p] = "free"
  /\ GetSnippet(p) \/ ListSnippets(p)
  /\ Go(p, "inner", None)
  /\ UNCHANGED <<cache, life>>

Inner(p) ==
  /\ at[p] = "inner"
  /\ Statement(p)
  /\ UNCHANGED cacheVars

(* Mutant of Expiry: SET without a TTL. *)
NoExpiry == 0

Expiry == TTL

(* Mutant of Cacheable: `ok` is not looked at. *)
CacheAnyRead(p) ==
  /\ at[p] = "inner"
  /\ pc[p] = "reply"
  /\ req[p].op \in Reads

(* Set stores a snippet that was found, and every listing: also the empty   *)
(* one that stands for a database error.                                    *)
Cacheable(p) ==
  /\ at[p] = "inner"
  /\ pc[p] = "reply"
  /\ req[p].op \in Reads
  /\ reply[p].status = "OK"

Stale(p) == reply[p].val # View(req[p].key, rows)

Set(p) ==
  /\ Cacheable(p)
  /\ cache' = [cache EXCEPT ![req[p].key] =
                 [val |-> reply[p].val,
                  left |-> Expiry,
                  age |-> IF Stale(p) THEN life[p] ELSE 0,
                  clean |-> ~Stale(p)]]
  /\ End(p)
  /\ UNCHANGED faults

SetFails(p) ==
  /\ Cacheable(p)
  /\ Fail
  /\ End(p)
  /\ UNCHANGED cache

-----------------------------------------------------------------------------
(* Writes *)

Write(p) ==
  /\ at[p] = "free"
  /\ \/ CreateSnippet(p)
     \/ UpdateSnippet(p)
     \/ DeleteSnippet(p)
     \/ ForkSnippet(p)
  /\ Go(p, "inner", None)
  /\ UNCHANGED <<cache, life>>

Wrote(p, ops) ==
  /\ at[p] = "inner"
  /\ pc[p] = "reply"
  /\ req[p].op \in ops
  /\ reply[p].status = "OK"

(* A snippet that was not found is not cached, and a write that was not      *)
(* answered with success invalidates nothing.                                *)
Refuse(p) ==
  /\ at[p] = "inner"
  /\ pc[p] = "reply"
  /\ reply[p].status # "OK"
  /\ End(p)
  /\ UNCHANGED <<cache, faults>>

Drop(k) == cache' = [cache EXCEPT ![k] = Miss]

(* An insert starts with the listings: no entry of its id exists yet. *)
AfterInsert(p) ==
  /\ Wrote(p, Inserts)
  /\ Go(p, "scan", "list")
  /\ UNCHANGED <<vars, cache, life>>

Del(p) ==
  /\ Wrote(p, OwnedWrites)
  /\ Drop(req[p].key)
  /\ Go(p, "scan", "list")
  /\ UNCHANGED <<vars, life>>

DelFails(p) ==
  /\ Wrote(p, OwnedWrites)
  /\ Fail
  /\ Go(p, "scan", "list")
  /\ UNCHANGED <<innerVars, cache, life>>

(* Mutant of NextPrefix: the searches are not invalidated. *)
OnlyTheList(p) == End(p)

(* DeleteByPrefix: SCAN for the keys, then one DEL of those it returned.    *)
(* First the pages of the list, then those of the searches.                 *)
NextPrefix(p) ==
  \/ /\ key[p] = "list"
     /\ Go(p, "scan", "search")
     /\ UNCHANGED <<innerVars, life>>
  \/ /\ key[p] = "search"
     /\ End(p)

Scan(p) ==
  /\ at[p] = "scan"
  /\ \/ /\ Cached(key[p])
        /\ Go(p, "unlink", key[p])
        /\ UNCHANGED <<innerVars, life>>
     \/ /\ ~Cached(key[p])
        /\ NextPrefix(p)
  /\ UNCHANGED <<cache, faults>>

(* The iterator ends early on an error, and nothing looks at it. *)
ScanFails(p) ==
  /\ at[p] = "scan"
  /\ Fail
  /\ NextPrefix(p)
  /\ UNCHANGED cache

Unlink(p) ==
  /\ at[p] = "unlink"
  /\ Drop(key[p])
  /\ NextPrefix(p)
  /\ UNCHANGED faults

UnlinkFails(p) ==
  /\ at[p] = "unlink"
  /\ Fail
  /\ NextPrefix(p)
  /\ UNCHANGED cache

-----------------------------------------------------------------------------
(* A replica stops in the middle of a request. *)
Die(p) ==
  /\ at[p] \in {"inner", "scan", "unlink"}
  /\ Fail
  /\ End(p)
  /\ UNCHANGED cache

Reading(p) == at[p] = "inner" /\ req[p].op \in Reads

(* The ages that matter are counted, no others. *)
Older(age) == IF age < TTL + MaxLag THEN age + 1 ELSE age

Aged(k) ==
  LET entry == cache[k]
  IN IF ~Cached(k) \/ entry.left = 1
       THEN Miss
       ELSE [val |-> entry.val,
             left |-> IF entry.left = 0 THEN 0 ELSE entry.left - 1,
             age |-> IF Agrees(k) THEN 0 ELSE Older(entry.age),
             clean |-> entry.clean]

(* Time passes: Redis drops what expires. *)
Tick ==
  /\ \A p \in Procs : Reading(p) => life[p] < MaxLag
  /\ cache' = [k \in Keys |-> Aged(k)]
  /\ life' = [p \in Procs |-> IF Reading(p) THEN life[p] + 1 ELSE life[p]]
  /\ UNCHANGED <<vars, at, key>>

-----------------------------------------------------------------------------
Redis(p) ==
  \/ Set(p)
  \/ SetFails(p)
  \/ Refuse(p)
  \/ AfterInsert(p)
  \/ Del(p)
  \/ DelFails(p)
  \/ Scan(p)
  \/ ScanFails(p)
  \/ Unlink(p)
  \/ UnlinkFails(p)
  \/ HitReturn(p)

Start(p) == Hit(p) \/ Read(p) \/ Write(p)

CacheNext ==
  \/ Tick
  \/ \E p \in Procs : Start(p) \/ Inner(p) \/ Redis(p) \/ Die(p)

CacheSpec == CacheInit /\ [][CacheNext]_allVars

(* Handlers go on with their requests and time passes; no client is obliged *)
(* to send anything.                                                        *)
Fairness ==
  /\ WF_allVars(Tick)
  /\ \A p \in Procs : WF_allVars(Inner(p)) /\ WF_allVars(Redis(p))

FairCacheSpec == CacheSpec /\ Fairness

-----------------------------------------------------------------------------
(* Properties *)

(* Types; an entry is a snippet or a listing, never the answer "not found". *)
CacheTypeOK ==
  /\ TypeOK
  /\ cache \in [Keys -> Entries \cup {Miss}]
  /\ at \in [Procs -> {"free", "hit", "inner", "scan", "unlink"}]
  /\ key \in [Procs -> Keys \cup {None}]
  /\ life \in [Procs -> 0..MaxLag]

(* No answer from the cache has been wrong for longer than the TTL plus the *)
(* time the read that stored it took, whatever is lost on the way: races,   *)
(* failed commands, stopped replicas, failed queries.                       *)
BoundedStaleness ==
  TTL > 0 => \A k \in Keys : Cached(k) => cache[k].age < TTL + MaxLag

(* The strengthening that is inductive: what an entry has been wrong for    *)
(* and what it has left to live.                                            *)
StalenessInv ==
  TTL > 0 => \A k \in Keys : Cached(k) =>
    /\ cache[k].left > 0
    /\ cache[k].age + cache[k].left <= TTL + MaxLag

(* Writer p may have changed what `k` shows and will still remove the entry *)
(* of k.                                                                    *)
Owes(p, k) ==
  \/ /\ Wrote(p, Inserts \cup OwnedWrites)
     /\ k \in ListKeys \/ (req[p].op \in OwnedWrites /\ k = req[p].key)
  \/ /\ at[p] \in {"scan", "unlink"}
     /\ k \in ListKeys
     /\ key[p] = "search" => k = "search"

(* When nothing fails, an entry that was right when it was stored and no    *)
(* longer is has a writer that is going to remove it: CachedStore           *)
(* invalidates every key a write touches, and no SCAN misses it.  (Entries  *)
(* stored after the table had moved on are the subject of                   *)
(* DeletedNotServed.)                                                       *)
InvalidationCovers ==
  faults = 0 => \A k \in Keys :
    Cached(k) /\ cache[k].clean /\ ~Agrees(k) => \E p \in Procs : Owes(p, k)

(* Once no client writes any more, the cache comes to agree with the table  *)
(* and stays so, whatever was lost or reordered before.                     *)
Writing == \E p \in Procs : req[p].op \in Inserts \cup OwnedWrites
AllAgree == \A k \in Keys : Cached(k) => Agrees(k)
EventuallyFresh == <>[]~Writing => <>[]AllAgree

(* A deleted snippet is not found: cached_store_test.go and                 *)
(* handlers_test.go get a snippet after deleting it and expect that.  No    *)
(* hit returns a snippet that is gone once its delete has been answered.    *)
DeletedNotServed ==
  [][\A p \in Procs : at[p] = "free" /\ at'[p] = "hit" /\ key'[p] \in Ids =>
       \/ rows[key'[p]] # None
       \/ \E q \in Procs : req[q].op = "delete" /\ req[q].key = key'[p]]_allVars

(* With a TTL of 0 every read goes to the database (.env.example). *)
ZeroTtlReadsStore == TTL = 0 => \A p \in Procs : at[p] # "hit"
=============================================================================
