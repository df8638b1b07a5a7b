----------------------------- MODULE RateLimiter -----------------------------
(***************************************************************************)
(* middleware/ratelimit.go: a map of token buckets by client address.      *)
(* getLimiter finds or makes a bucket under the mutex, Allow takes a token *)
(* after the mutex is released, and a goroutine drops, every Period ticks, *)
(* the buckets that nobody has asked for in more than Idle ticks.  A       *)
(* dropped address starts again with a full bucket.                        *)
(*                                                                         *)
(* Times are kept as ages.  A bucket (x/time/rate) is the tokens it has    *)
(* now; the library computes them from the time of the last request.       *)
(***************************************************************************)
EXTENDS Integers

CONSTANTS
  Addrs,      \* client addresses (ClientIP)
  Procs,      \* request handlers
  Buckets,    \* *rate.Limiter values; bound: as many as can be reached at once
  Burst,      \* burst: 60 in main.go
  Rate,       \* rate per tick: 1 a second in main.go
  Idle,       \* 10 minutes
  Period,     \* 5 minutes
  MaxDelay,   \* bound: ticks from a handler's getLimiter to its Allow
  MaxWindow,  \* bound: ticks over which passed requests are counted
  None

(* Whoever has been idle for so long that its bucket is dropped has a full  *)
(* bucket, unless the scheduler keeps a handler waiting for very long: with *)
(* the values of the code, for 541 seconds.                                 *)
ASSUME LimiterAssumption ==
  /\ None \notin Addrs \cup Buckets
  /\ Burst \in Nat /\ Rate \in Nat /\ Idle \in Nat /\ Period \in Nat
  /\ MaxDelay \in Nat /\ MaxWindow \in Nat
  /\ MaxDelay <= Idle
  /\ Rate * (Idle + 1 - MaxDelay) >= Burst

VARIABLES
  clients,  \* map clients: the bucket of an address
  idle,     \* ticks since its lastSeen
  level,    \* tokens in each bucket
  due,      \* ticks until the ticker of cleanup fires
  status,   \* whether each handler's request has been let through
  addr,     \* its local variables ip ...
  lim,      \* ... and limiter
  delay,    \* ticks since its getLimiter
  granted,  \* history: requests that passed since the window opened
  elapsed   \* history: ticks since then

handlerVars == <<status, addr, lim, delay>>
windowVars == <<granted, elapsed>>
vars == <<clients, idle, level, due, handlerVars, windowVars>>

Init ==
  /\ clients = [a \in Addrs |-> None]
  /\ idle = [a \in Addrs |-> 0]
  /\ level = [b \in Buckets |-> Burst]
  /\ due = Period
  /\ status = [p \in Procs |-> "idle"]
  /\ addr = [p \in Procs |-> None]
  /\ lim = [p \in Procs |-> None]
  /\ delay = [p \in Procs |-> 0]
  /\ granted = [a \in Addrs |-> 0]
  /\ elapsed = 0

Waiting(p) == status[p] = "arrived"

Reachable == {clients[a] : a \in Addrs} \cup {lim[p] : p \in Procs}

(* Mutant of Seen: lastSeen is set when the bucket is made, and not again. *)
SeenOnce(a) == IF clients[a] = None THEN [idle EXCEPT ![a] = 0] ELSE idle

(* lastSeen = time.Now() *)
Seen(a) == [idle EXCEPT ![a] = 0]

GetLimiter(p, a) ==
  /\ ~Waiting(p)
  /\ status' = [status EXCEPT ![p] = "arrived"]
  /\ addr' = [addr EXCEPT ![p] = a]
  /\ delay' = [delay EXCEPT ![p] = 0]
  /\ idle' = Seen(a)
  /\ \/ /\ clients[a] # None
        /\ lim' = [lim EXCEPT ![p] = clients[a]]
        /\ UNCHANGED <<clients, level>>
     \/ /\ clients[a] = None
        /\ \E b \in Buckets \ Reachable :
             /\ clients' = [clients EXCEPT ![a] = b]
             /\ level' = [level EXCEPT ![b] = Burst]
             /\ lim' = [lim EXCEPT ![p] = b]
  /\ UNCHANGED <<due, windowVars>>

(* Mutant of HasToken: a bucket may be overdrawn by one. *)
HadToken(b) == level[b] + 1 > 0

HasToken(b) == level[b] > 0

Allowed(p) ==
  /\ HasToken(lim[p])
  /\ level' = [level EXCEPT ![lim[p]] = @ - 1]
  /\ granted' = [granted EXCEPT ![addr[p]] = @ + 1]
  /\ status' = [status EXCEPT ![p] = "passed"]

(* 429 *)
Refused(p) ==
  /\ ~HasToken(lim[p])
  /\ status' = [status EXCEPT ![p] = "refused"]
  /\ UNCHANGED <<level, granted>>

Allow(p) ==
  /\ Waiting(p)
  /\ Allowed(p) \/ Refused(p)
  /\ addr' = [addr EXCEPT ![p] = None]
  /\ lim' = [lim EXCEPT ![p] = None]
  /\ delay' = [delay EXCEPT ![p] = 0]
  /\ UNCHANGED <<clients, idle, due, elapsed>>

(* Mutant of Expired: an address is dropped a sweep too late. *)
LongExpired(a) == idle[a] > Idle + Period

Expired(a) == idle[a] > Idle

(* One run of the loop over the map, under the mutex. *)
Cleanup ==
  /\ due = 0
  /\ due' = Period
  /\ clients' = [a \in Addrs |-> IF Expired(a) THEN None ELSE clients[a]]
  /\ UNCHANGED <<idle, level, handlerVars, windowVars>>

(* Mutant of Refilled: the tokens saved up have no limit. *)
Saved(n) == n + Rate

Refilled(n) == IF n + Rate < Burst THEN n + Rate ELSE Burst

(* Ages stop one past the oldest that any property tells apart. *)
Older(n) == IF n > Idle + Period THEN n ELSE n + 1

(* A tick passes.  The goroutine of cleanup is not a tick late. *)
Tick ==
  /\ due > 0
  /\ \A p \in Procs : Waiting(p) => delay[p] < MaxDelay
  /\ elapsed < MaxWindow
  /\ due' = due - 1
  /\ level' = [b \in Buckets |-> Refilled(level[b])]
  /\ idle' = [a \in Addrs |-> IF clients[a] = None THEN idle[a]
                                                   ELSE Older(idle[a])]
  /\ delay' = [p \in Procs |-> IF Waiting(p) THEN delay[p] + 1 ELSE delay[p]]
  /\ elapsed' = elapsed + 1
  /\ UNCHANGED <<clients, status, addr, lim, granted>>

(* Counting starts again at any moment. *)
OpenWindow ==
  /\ granted' = [a \in Addrs |-> 0]
  /\ elapsed' = 0
  /\ UNCHANGED <<clients, idle, level, due, handlerVars>>

Next ==
  \/ \E p \in Procs : Allow(p) \/ \E a \in Addrs : GetLimiter(p, a)
  \/ Cleanup
  \/ Tick
  \/ OpenWindow

Spec == Init /\ [][Next]_vars

-----------------------------------------------------------------------------
(* Properties *)

(* Types: levels stay between empty and Burst. *)
LimiterTypeOK ==
  /\ clients \in [Addrs -> Buckets \cup {None}]
  /\ idle \in [Addrs -> 0 .. Idle + Period + 1]
  /\ level \in [Buckets -> 0 .. Burst]
  /\ due \in 0 .. Period
  /\ status \in [Procs -> {"idle", "arrived", "passed", "refused"}]
  /\ addr \in [Procs -> Addrs \cup {None}]
  /\ lim \in [Procs -> Buckets \cup {None}]
  /\ delay \in [Procs -> 0 .. MaxDelay]
  /\ granted \in [Addrs -> Nat]
  /\ elapsed \in 0 .. MaxWindow

(* Tokens an address can use: a new one would get a full bucket. *)
Avail(a) == IF clients[a] = None THEN Burst ELSE level[clients[a]]

Bucket == INSTANCE TokenBucket WITH avail <- [a \in Addrs |-> Avail(a)]

(* Nobody can tell that buckets are dropped and made again, or that Allow   *)
(* runs outside the mutex: a request passes or is refused as it would with  *)
(* one bucket per address that is kept for ever.                            *)
HonoursBuckets == Bucket!Spec

(* In any window no address gets more requests through than a full bucket   *)
(* and what flows into it meanwhile.                                        *)
FairShare == \A a \in Addrs : granted[a] <= Burst + Rate * elapsed

(* The map does not grow with the addresses ever seen: an entry is dropped  *)
(* at the latest Idle + Period ticks after its last request.                *)
EntriesExpire == \A a \in Addrs : clients[a] # None => idle[a] <= Idle + Period
=============================================================================
