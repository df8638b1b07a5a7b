-------------------------- MODULE RateLimiter_proofs --------------------------
(***************************************************************************)
(* RateLimiter implements TokenBucket, for any numbers of addresses and    *)
(* handlers, any burst, rate and limits that satisfy LimiterAssumption.    *)
(***************************************************************************)
EXTENDS RateLimiter, TLAPS

(* A handler that waits holds the bucket of its address, and that address   *)
(* has not been idle for longer than the handler has waited.                *)
HolderFits(p) ==
  IF Waiting(p)
  THEN /\ addr[p] \in Addrs
       /\ clients[addr[p]] # None
       /\ lim[p] = clients[addr[p]]
       /\ idle[addr[p]] <= delay[p]
  ELSE addr[p] = None /\ lim[p] = None

(* The bucket of an address has refilled while the address was idle. *)
LevelFits(a) ==
  clients[a] # None =>
    \/ level[clients[a]] = Burst
    \/ level[clients[a]] >= Rate * (idle[a] - MaxDelay)

(* No bucket serves two addresses. *)
NoSharing == \A a, b \in Addrs : clients[a] # None /\ clients[a] = clients[b] => a = b

AgeFits(a) == clients[a] # None => idle[a] + due <= Idle + Period

WindowFits(a) == granted[a] + Avail(a) <= Burst + Rate * elapsed

LimiterInv ==
  /\ LimiterTypeOK
  /\ NoSharing
  /\ \A p \in Procs : HolderFits(p)
  /\ \A a \in Addrs : LevelFits(a) /\ AgeFits(a) /\ WindowFits(a)

(* What the rate gives. *)
LEMMA RateType == ASSUME NEW n \in Int PROVE Rate * n \in Int
BY LimiterAssumption

LEMMA RateNext == ASSUME NEW n \in Int PROVE Rate * (n + 1) = Rate * n + Rate
BY LimiterAssumption

LEMMA RateMonotone ==
  ASSUME NEW m \in Int, NEW n \in Int, m <= n
  PROVE  Rate * m <= Rate * n
BY LimiterAssumption

LEMMA RateOfNone == Rate * 0 = 0
BY LimiterAssumption

(* An address about to be dropped has a full bucket ... *)
LEMMA ExpiredIsFull ==
  ASSUME LimiterInv, NEW a \in Addrs, clients[a] # None, Expired(a)
  PROVE  level[clients[a]] = Burst
<1>1. /\ idle[a] \in Nat /\ level[clients[a]] \in 0 .. Burst
      /\ Burst \in Nat /\ Idle \in Nat /\ MaxDelay \in Nat
  BY LimiterAssumption DEF LimiterInv, LimiterTypeOK
<1>2. Idle + 1 - MaxDelay <= idle[a] - MaxDelay
  BY <1>1 DEF Expired
<1>3. Idle + 1 - MaxDelay \in Int /\ idle[a] - MaxDelay \in Int
  BY <1>1
<1>4. /\ Rate * (Idle + 1 - MaxDelay) <= Rate * (idle[a] - MaxDelay)
      /\ Rate * (Idle + 1 - MaxDelay) \in Int
      /\ Rate * (idle[a] - MaxDelay) \in Int
  BY <1>2, <1>3, RateMonotone, RateType
<1> DEFINE low == Rate * (Idle + 1 - MaxDelay)
           now == Rate * (idle[a] - MaxDelay)
<1>5. Burst <= low /\ low <= now /\ low \in Int /\ now \in Int
  BY <1>4, LimiterAssumption
<1>6. level[clients[a]] = Burst \/ level[clients[a]] >= now
  BY DEF LimiterInv, LevelFits
<1> HIDE DEF low, now
<1> QED
  BY <1>1, <1>5, <1>6

(* ... and no handler waits with it. *)
LEMMA ExpiredIsFree ==
  ASSUME LimiterInv, NEW p \in Procs, Waiting(p)
  PROVE  ~Expired(addr[p])
<1>1. /\ idle[addr[p]] <= delay[p] /\ delay[p] <= MaxDelay
      /\ idle[addr[p]] \in Nat /\ delay[p] \in Nat
  BY LimiterAssumption DEF LimiterInv, LimiterTypeOK, HolderFits
<1> QED
  BY <1>1, LimiterAssumption DEF Expired

(* Tokens an address can use, as a number. *)
LEMMA AvailType ==
  ASSUME LimiterTypeOK, NEW a \in Addrs
  PROVE  Avail(a) \in 0 .. Burst
BY LimiterAssumption DEF LimiterTypeOK, Avail

LEMMA InitLimiterInv == Init => LimiterInv
<1> SUFFICES ASSUME Init PROVE LimiterInv
  OBVIOUS
<1>1. LimiterTypeOK
  BY LimiterAssumption DEF Init, LimiterTypeOK
<1>2. \A a \in Addrs : clients[a] = None /\ granted[a] = 0 /\ elapsed = 0
  BY DEF Init
<1>4. ASSUME NEW a \in Addrs PROVE WindowFits(a)
  <2>1. Avail(a) = Burst /\ granted[a] = 0
    BY <1>2 DEF Avail
  <2>2. Rate * elapsed = 0
    BY <1>2, RateOfNone
  <2> QED
    BY <2>1, <2>2, LimiterAssumption DEF WindowFits
<1>5. \A p \in Procs : HolderFits(p)
  BY DEF Init, HolderFits, Waiting
<1> QED
  BY <1>1, <1>2, <1>4, <1>5 DEF LimiterInv, NoSharing, LevelFits, AgeFits

LEMMA GetLimiterInv ==
  ASSUME LimiterInv, NEW p \in Procs, NEW a \in Addrs, GetLimiter(p, a)
  PROVE  LimiterInv' /\ \A c \in Addrs : Avail(c)' = Avail(c)
<1> USE DEF LimiterInv, LimiterTypeOK
<1>1. /\ ~Waiting(p) /\ UNCHANGED <<due, granted, elapsed>>
      /\ status' = [status EXCEPT ![p] = "arrived"]
      /\ addr' = [addr EXCEPT ![p] = a]
      /\ delay' = [delay EXCEPT ![p] = 0]
      /\ idle' = [idle EXCEPT ![a] = 0]
  BY DEF GetLimiter, windowVars, Seen
<1>2. PICK b \in Buckets :
        /\ lim' = [lim EXCEPT ![p] = b]
        /\ \/ b = clients[a] /\ UNCHANGED <<clients, level>>
           \/ /\ clients[a] = None /\ b \notin Reachable
              /\ clients' = [clients EXCEPT ![a] = b]
              /\ level' = [level EXCEPT ![b] = Burst]
  BY DEF GetLimiter
<1>3. b # None /\ clients'[a] = b
  BY <1>2, LimiterAssumption
<1>5. \A c \in Addrs : clients[c] # None =>
        clients'[c] = clients[c] /\ level'[clients[c]] = level[clients[c]]
  <2> SUFFICES ASSUME NEW c \in Addrs, clients[c] # None
               PROVE  clients'[c] = clients[c] /\ level'[clients[c]] = level[clients[c]]
    OBVIOUS
  <2>1. CASE UNCHANGED <<clients, level>>
    BY <2>1
  <2>2. CASE clients[a] = None /\ b \notin Reachable
             /\ clients' = [clients EXCEPT ![a] = b]
             /\ level' = [level EXCEPT ![b] = Burst]
    <3>1. c # a /\ clients[c] # b
      BY <2>2 DEF Reachable
    <3> QED
      BY <2>2, <3>1
  <2> QED
    BY <1>2, <2>1, <2>2
<1>6. \A c \in Addrs : clients[c] = None =>
        \/ clients'[c] = None
        \/ c = a /\ clients'[c] = b /\ level'[b] = Burst
  BY <1>2, <1>3
<1>7. LimiterTypeOK'
  BY <1>1, <1>2, LimiterAssumption
<1>8. NoSharing'
  <2>1. CASE UNCHANGED clients
    BY <2>1 DEF NoSharing
  <2>2. CASE clients[a] = None /\ b \notin Reachable
             /\ clients' = [clients EXCEPT ![a] = b]
    BY <2>2 DEF NoSharing, Reachable
  <2> QED
    BY <1>2, <2>1, <2>2
<1>9. ASSUME NEW q \in Procs PROVE HolderFits(q)'
  <2>1. CASE q = p
    <3>1. Waiting(p)' /\ addr'[p] = a /\ lim'[p] = b /\ idle'[a] = 0 /\ delay'[p] = 0
      BY <1>1, <1>2 DEF Waiting
    <3> QED
      BY <2>1, <3>1, <1>3 DEF HolderFits
  <2>2. CASE q # p
    <3>1. /\ status'[q] = status[q] /\ addr'[q] = addr[q] /\ lim'[q] = lim[q]
          /\ delay'[q] = delay[q]
      BY <1>1, <1>2, <2>2
    <3>2. CASE Waiting(q)
      <4>1. idle'[addr[q]] \in {0, idle[addr[q]]} /\ delay[q] \in 0 .. MaxDelay
        BY <1>1, <3>2 DEF HolderFits
      <4>2. idle'[addr[q]] <= delay[q]
        BY <3>2, <4>1, LimiterAssumption DEF HolderFits
      <4> QED
        BY <1>5, <3>1, <3>2, <4>2 DEF HolderFits, Waiting
    <3>3. CASE ~Waiting(q)
      BY <3>1, <3>3 DEF HolderFits, Waiting
    <3> QED
      BY <3>2, <3>3
  <2> QED
    BY <2>1, <2>2
<1>10. ASSUME NEW c \in Addrs PROVE Avail(c)' = Avail(c)
  BY <1>5, <1>6, LimiterAssumption DEF Avail
<1>11. ASSUME NEW c \in Addrs PROVE WindowFits(c)'
  BY <1>1, <1>10 DEF WindowFits
<1>12. ASSUME NEW c \in Addrs PROVE AgeFits(c)'
  <2>1. idle'[c] = 0 \/ (c # a /\ idle'[c] = idle[c] /\ clients'[c] = clients[c])
    BY <1>1, <1>2
  <2> QED
    BY <1>1, <2>1, LimiterAssumption DEF AgeFits
<1>13. ASSUME NEW c \in Addrs PROVE LevelFits(c)'
  <2>1. CASE c = a
    <3>1. idle'[a] = 0 /\ level'[b] \in 0 .. Burst
      BY <1>1, <1>7
    <3>2. 0 - MaxDelay \in Int /\ 0 - MaxDelay <= 0
      BY LimiterAssumption
    <3>3. Rate * (0 - MaxDelay) <= 0 /\ Rate * (0 - MaxDelay) \in Int
      BY <3>2, RateMonotone, RateType, RateOfNone
    <3> DEFINE low == Rate * (0 - MaxDelay)
    <3>4. low <= 0 /\ low \in Int /\ low = Rate * (idle'[a] - MaxDelay)
      BY <3>1, <3>3
    <3> HIDE DEF low
    <3>5. level'[b] >= low
      BY <3>1, <3>4, LimiterAssumption
    <3> QED
      BY <2>1, <3>4, <3>5, <1>3 DEF LevelFits
  <2>2. CASE c # a
    BY <1>1, <1>5, <1>6, <2>2 DEF LevelFits
  <2> QED
    BY <2>1, <2>2
<1> QED
  BY <1>7, <1>8, <1>9, <1>10, <1>11, <1>12, <1>13

(* Only the tokens of the handler's address change. *)
LEMMA AllowTakes ==
  ASSUME LimiterInv, NEW p \in Procs, NEW a \in Addrs, a = addr[p],
         Allow(p)
  PROVE  /\ \A c \in Addrs \ {a} :
              Avail(c)' = Avail(c) /\ granted'[c] = granted[c]
         /\ \/ /\ Avail(a) > 0
               /\ Avail(a)' = Avail(a) - 1
               /\ granted' = [granted EXCEPT ![a] = @ + 1]
               /\ status' = [status EXCEPT ![p] = "passed"]
            \/ /\ Avail(a) = 0 /\ Avail(a)' = Avail(a)
               /\ UNCHANGED <<level, granted>>
               /\ status' = [status EXCEPT ![p] = "refused"]
<1> USE DEF LimiterInv, LimiterTypeOK
<1>1. /\ clients[a] = lim[p] /\ lim[p] \in Buckets
      /\ lim[p] # None /\ UNCHANGED clients
  BY LimiterAssumption DEF Allow, HolderFits
<1>2. Avail(a) = level[lim[p]] /\ level[lim[p]] \in 0 .. Burst
  BY <1>1 DEF Avail
<1>3. CASE Allowed(p)
  <2>1. /\ level' = [level EXCEPT ![lim[p]] = @ - 1] /\ level[lim[p]] > 0
        /\ granted' = [granted EXCEPT ![a] = @ + 1]
        /\ status' = [status EXCEPT ![p] = "passed"]
    BY <1>3 DEF Allowed, HasToken
  <2>2. Avail(a)' = level[lim[p]] - 1
    BY <1>1, <2>1 DEF Avail
  <2>3. ASSUME NEW c \in Addrs \ {a}
        PROVE  Avail(c)' = Avail(c) /\ granted'[c] = granted[c]
    <3>1. clients[c] # lim[p]
      BY <1>1 DEF NoSharing
    <3> QED
      BY <1>1, <2>1, <3>1 DEF Avail
  <2> QED
    BY <1>1, <1>2, <2>1, <2>2, <2>3
<1>4. CASE Refused(p)
  <2>1. /\ UNCHANGED <<level, granted>> /\ ~(level[lim[p]] > 0)
        /\ status' = [status EXCEPT ![p] = "refused"]
    BY <1>4 DEF Refused, HasToken
  <2>2. Burst \in Nat
    BY LimiterAssumption
  <2>3. level[lim[p]] = 0
    BY <1>2, <2>1, <2>2
  <2>4. \A c \in Addrs : Avail(c)' = Avail(c)
    BY <1>1, <2>1 DEF Avail
  <2> QED
    BY <1>1, <1>2, <2>1, <2>3, <2>4
<1> QED
  BY <1>3, <1>4 DEF Allow

LEMMA AllowInv ==
  ASSUME LimiterInv, NEW p \in Procs, Allow(p)
  PROVE  LimiterInv'
<1> USE DEF LimiterInv, LimiterTypeOK
<1>1. /\ Waiting(p) /\ UNCHANGED <<clients, idle, due, elapsed>>
      /\ addr' = [addr EXCEPT ![p] = None]
      /\ lim' = [lim EXCEPT ![p] = None]
      /\ delay' = [delay EXCEPT ![p] = 0]
      /\ status'[p] \in {"passed", "refused"}
      /\ \A q \in Procs \ {p} : status'[q] = status[q]
      /\ status' \in [Procs -> {"idle", "arrived", "passed", "refused"}]
  BY DEF Allow, Allowed, Refused
<1>2. /\ addr[p] \in Addrs /\ clients[addr[p]] = lim[p] /\ lim[p] \in Buckets
      /\ idle[addr[p]] <= MaxDelay
  <2>1. /\ addr[p] \in Addrs /\ clients[addr[p]] = lim[p] /\ lim[p] \in Buckets
        /\ idle[addr[p]] <= delay[p] /\ delay[p] \in 0 .. MaxDelay
    BY <1>1 DEF HolderFits
  <2>2. idle[addr[p]] \in 0 .. Idle + Period + 1
    BY <2>1
  <2> QED
    BY <2>1, <2>2, LimiterAssumption
<1>3. /\ \A c \in Addrs : granted'[c] \in Nat
      /\ \A b \in Buckets : level'[b] \in 0 .. Burst
      /\ \A b \in Buckets \ {lim[p]} : level'[b] = level[b]
      /\ granted' \in [Addrs -> Nat] /\ level' \in [Buckets -> 0 .. Burst]
  <2>1. CASE Allowed(p)
    <3>1. level[lim[p]] - 1 \in 0 .. Burst
      BY <1>2, <2>1, LimiterAssumption DEF Allowed, HasToken
    <3> QED
      BY <1>2, <2>1, <3>1 DEF Allowed
  <2>2. CASE Refused(p)
    BY <2>2 DEF Refused
  <2> QED
    BY <2>1, <2>2 DEF Allow
<1>4. LimiterTypeOK'
  BY <1>1, <1>3, LimiterAssumption
<1>5. NoSharing'
  BY <1>1 DEF NoSharing
<1>6. ASSUME NEW q \in Procs PROVE HolderFits(q)'
  BY <1>1 DEF HolderFits, Waiting
<1>7. ASSUME NEW c \in Addrs PROVE AgeFits(c)'
  BY <1>1 DEF AgeFits
<1>8. ASSUME NEW c \in Addrs PROVE WindowFits(c)'
  <2>1. /\ Avail(c) \in 0 .. Burst /\ granted[c] \in Nat
        /\ Rate * elapsed \in Int /\ Burst \in Nat
        /\ granted[c] + Avail(c) <= Burst + Rate * elapsed
    <3>1. elapsed \in Int
      BY LimiterAssumption
    <3> QED
      BY <3>1, AvailType, RateType, LimiterAssumption DEF WindowFits
  <2>2. \/ Avail(c)' = Avail(c) /\ granted'[c] = granted[c]
        \/ Avail(c)' = Avail(c) - 1 /\ granted'[c] = granted[c] + 1
    <3>1. CASE c = addr[p]
      <4>1. \/ /\ Avail(c)' = Avail(c) - 1
               /\ granted' = [granted EXCEPT ![c] = @ + 1]
            \/ Avail(c)' = Avail(c) /\ UNCHANGED granted
        BY <3>1, AllowTakes
      <4> QED
        BY <4>1
    <3>2. CASE c # addr[p]
      BY <1>2, <3>2, AllowTakes
    <3> QED
      BY <3>1, <3>2
  <2>3. granted'[c] + Avail(c)' = granted[c] + Avail(c)
    BY <2>1, <2>2, LimiterAssumption
  <2> QED
    BY <1>1, <2>1, <2>3 DEF WindowFits
<1>9. ASSUME NEW c \in Addrs PROVE LevelFits(c)'
  <2>1. CASE c = addr[p]
    <3>1. /\ idle[c] - MaxDelay \in Int /\ idle[c] - MaxDelay <= 0
          /\ level'[clients[c]] \in 0 .. Burst
      BY <1>2, <1>3, <2>1, LimiterAssumption
    <3>2. /\ Rate * (idle[c] - MaxDelay) <= 0
          /\ Rate * (idle[c] - MaxDelay) \in Int
      BY <3>1, RateMonotone, RateType, RateOfNone
    <3> DEFINE low == Rate * (idle[c] - MaxDelay)
    <3>3. low <= 0 /\ low \in Int
      BY <3>2
    <3> HIDE DEF low
    <3>4. level'[clients[c]] >= low
      BY <3>1, <3>3, LimiterAssumption
    <3> QED
      BY <1>1, <3>4 DEF LevelFits, low
  <2>2. CASE c # addr[p]
    <3>1. clients[c] # None => clients[c] # lim[p] /\ clients[c] \in Buckets
      BY <1>2, <2>2 DEF NoSharing
    <3> QED
      BY <1>1, <1>3, <3>1 DEF LevelFits
  <2> QED
    BY <2>1, <2>2
<1> QED
  BY <1>4, <1>5, <1>6, <1>7, <1>8, <1>9

LEMMA CleanupInv ==
  ASSUME LimiterInv, Cleanup
  PROVE  LimiterInv' /\ \A c \in Addrs : Avail(c)' = Avail(c)
<1> USE DEF LimiterInv, LimiterTypeOK
<1>1. /\ due = 0 /\ due' = Period
      /\ clients' = [a \in Addrs |-> IF Expired(a) THEN None ELSE clients[a]]
      /\ UNCHANGED <<idle, level, status, addr, lim, delay, granted, elapsed>>
  BY DEF Cleanup, handlerVars, windowVars
<1>2. LimiterTypeOK'
  BY <1>1, LimiterAssumption
<1>3. ASSUME NEW c \in Addrs PROVE Avail(c)' = Avail(c)
  BY <1>1, ExpiredIsFull DEF Avail
<1>4. NoSharing'
  BY <1>1 DEF NoSharing
<1>5. ASSUME NEW q \in Procs PROVE HolderFits(q)'
  BY <1>1, ExpiredIsFree DEF HolderFits, Waiting
<1>6. ASSUME NEW c \in Addrs PROVE LevelFits(c)'
  BY <1>1 DEF LevelFits
<1>7. ASSUME NEW c \in Addrs PROVE WindowFits(c)'
  BY <1>1, <1>3 DEF WindowFits
<1>8. ASSUME NEW c \in Addrs PROVE AgeFits(c)'
  <2>1. idle[c] \in Int /\ ~Expired(c) => idle[c] + Period <= Idle + Period
    BY LimiterAssumption DEF Expired
  <2> QED
    BY <1>1, <2>1, LimiterAssumption DEF AgeFits
<1> QED
  BY <1>2, <1>3, <1>4, <1>5, <1>6, <1>7, <1>8

LEMMA TickInv ==
  ASSUME LimiterInv, Tick
  PROVE  LimiterInv' /\ \A c \in Addrs : Avail(c)' = Refilled(Avail(c))
<1> USE DEF LimiterInv, LimiterTypeOK
<1>1. /\ due > 0 /\ due' = due - 1
      /\ \A p \in Procs : Waiting(p) => delay[p] < MaxDelay
      /\ elapsed < MaxWindow /\ elapsed' = elapsed + 1
      /\ level' = [b \in Buckets |-> Refilled(level[b])]
      /\ idle' = [a \in Addrs |-> IF clients[a] = None THEN idle[a]
                                                       ELSE Older(idle[a])]
      /\ delay' = [p \in Procs |-> IF Waiting(p) THEN delay[p] + 1 ELSE delay[p]]
      /\ UNCHANGED <<clients, status, addr, lim, granted>>
  BY DEF Tick
<1>2. \A n \in 0 .. Burst : /\ Refilled(n) \in 0 .. Burst
                            /\ Refilled(n) <= n + Rate
                            /\ Refilled(n) = Burst \/ Refilled(n) = n + Rate
  BY LimiterAssumption DEF Refilled
<1>3. \A n \in 0 .. Idle + Period + 1 :
        Older(n) \in 0 .. Idle + Period + 1 /\ Older(n) <= n + 1
  BY LimiterAssumption DEF Older
<1>4. LimiterTypeOK'
  BY <1>1, <1>2, <1>3, LimiterAssumption
<1>5. ASSUME NEW c \in Addrs PROVE Avail(c)' = Refilled(Avail(c))
  BY <1>1, LimiterAssumption DEF Avail, Refilled
<1>6. NoSharing'
  BY <1>1 DEF NoSharing
<1>7. ASSUME NEW q \in Procs PROVE HolderFits(q)'
  <2>1. CASE Waiting(q)
    <3>1. /\ addr[q] \in Addrs /\ clients[addr[q]] # None
          /\ lim[q] = clients[addr[q]] /\ idle[addr[q]] <= delay[q]
          /\ delay'[q] = delay[q] + 1 /\ idle'[addr[q]] = Older(idle[addr[q]])
      BY <1>1, <2>1 DEF HolderFits
    <3>2. idle'[addr[q]] <= delay'[q]
      BY <1>3, <1>4, <3>1, LimiterAssumption
    <3> QED
      BY <1>1, <3>1, <3>2 DEF HolderFits, Waiting
  <2>2. CASE ~Waiting(q)
    BY <1>1, <2>2 DEF HolderFits, Waiting
  <2> QED
    BY <2>1, <2>2
<1>8. ASSUME NEW c \in Addrs PROVE AgeFits(c)'
  <2>1. clients[c] # None => idle'[c] <= idle[c] + 1
    BY <1>1, <1>3
  <2> QED
    BY <1>1, <1>4, <2>1, LimiterAssumption DEF AgeFits
<1>9. ASSUME NEW c \in Addrs PROVE WindowFits(c)'
  <2>1. Avail(c) \in 0 .. Burst /\ Avail(c)' <= Avail(c) + Rate /\ Avail(c)' \in 0 .. Burst
    BY <1>2, <1>5, AvailType
  <2>2. elapsed \in Int /\ Rate \in Nat /\ Burst \in Nat
    BY LimiterAssumption
  <2>3. Rate * elapsed \in Int /\ Rate * (elapsed + 1) = Rate * elapsed + Rate
    BY <2>2, RateType, RateNext
  <2> DEFINE flow == Rate * elapsed
  <2>4. /\ flow \in Int /\ granted[c] + Avail(c) <= Burst + flow
        /\ Rate * elapsed' = flow + Rate
    BY <1>1, <2>3 DEF WindowFits
  <2> HIDE DEF flow
  <2>5. granted[c] + Avail(c)' <= Burst + (flow + Rate)
    BY <2>1, <2>2, <2>4
  <2> QED
    BY <1>1, <2>4, <2>5 DEF WindowFits
<1>10. ASSUME NEW c \in Addrs PROVE LevelFits(c)'
  <2>1. CASE clients[c] = None
    BY <1>1, <2>1 DEF LevelFits
  <2>2. CASE clients[c] # None
    <3> DEFINE b == clients[c]
               old == idle[c] - MaxDelay
               new == Older(idle[c]) - MaxDelay
    <3>1. b \in Buckets /\ level[b] \in 0 .. Burst /\ level'[b] = Refilled(level[b])
      BY <1>1, <2>2
    <3>2. old \in Int /\ new \in Int /\ new <= old + 1 /\ old + 1 \in Int
      BY <1>3, LimiterAssumption
    <3>3. /\ Rate * new <= Rate * (old + 1) /\ Rate * (old + 1) = Rate * old + Rate
          /\ Rate * old \in Int /\ Rate * new \in Int
      <4> HIDE DEF old, new
      <4> QED
        BY <3>2, RateMonotone, RateNext, RateType
    <3>4. level[b] = Burst \/ level[b] >= Rate * old
      BY <2>2 DEF LevelFits
    <3> DEFINE low == Rate * old
               high == Rate * new
    <3>5. low \in Int /\ high \in Int /\ high <= low + Rate
      BY <3>3
    <3>6. level[b] = Burst \/ level[b] >= low
      BY <3>4
    <3> HIDE DEF low, high, old, new, b
    <3>7. level'[b] = Burst \/ level'[b] >= high
      BY <1>2, <3>1, <3>5, <3>6, LimiterAssumption
    <3>8. idle'[c] = Older(idle[c]) /\ clients'[c] = clients[c]
      BY <1>1, <2>2
    <3> QED
      BY <3>7, <3>8 DEF LevelFits, high, new, b
  <2> QED
    BY <2>1, <2>2
<1> QED
  BY <1>4, <1>5, <1>6, <1>7, <1>8, <1>9, <1>10

LEMMA OpenWindowInv ==
  ASSUME LimiterInv, OpenWindow
  PROVE  LimiterInv' /\ \A c \in Addrs : Avail(c)' = Avail(c)
<1> USE DEF LimiterInv, LimiterTypeOK
<1>1. /\ granted' = [a \in Addrs |-> 0] /\ elapsed' = 0
      /\ UNCHANGED <<clients, idle, level, due, status, addr, lim, delay>>
  BY DEF OpenWindow, handlerVars
<1>2. LimiterTypeOK'
  BY <1>1, LimiterAssumption
<1>3. \A c \in Addrs : Avail(c)' = Avail(c)
  BY <1>1 DEF Avail
<1>4. ASSUME NEW c \in Addrs PROVE WindowFits(c)'
  <2>1. Avail(c)' \in 0 .. Burst /\ granted'[c] = 0 /\ Rate * elapsed' = 0
    BY <1>1, <1>3, AvailType, RateOfNone
  <2> QED
    BY <2>1, LimiterAssumption DEF WindowFits
<1>5. NoSharing' /\ \A q \in Procs : HolderFits(q)'
  BY <1>1 DEF NoSharing, HolderFits, Waiting
<1>6. \A c \in Addrs : LevelFits(c)' /\ AgeFits(c)'
  BY <1>1 DEF LevelFits, AgeFits
<1> QED
  BY <1>2, <1>3, <1>4, <1>5, <1>6

LEMMA NextLimiterInv == LimiterInv /\ [Next]_vars => LimiterInv'
<1> SUFFICES ASSUME LimiterInv, [Next]_vars PROVE LimiterInv'
  OBVIOUS
<1>1. CASE UNCHANGED vars
  BY <1>1 DEF vars, handlerVars, windowVars, LimiterInv, LimiterTypeOK, NoSharing,
     HolderFits, Waiting, LevelFits, AgeFits, WindowFits, Avail
<1>2. CASE Next
  BY <1>2, GetLimiterInv, AllowInv, CleanupInv, TickInv, OpenWindowInv DEF Next
<1> QED
  BY <1>1, <1>2

LEMMA SpecLimiterInv == Spec => []LimiterInv
BY InitLimiterInv, NextLimiterInv, PTL DEF Spec

-----------------------------------------------------------------------------
(* Step simulation *)

(* Every step of the limiter is a step of the buckets that are kept for     *)
(* ever; a clean-up is none at all.                                         *)
LEMMA StepSimulation ==
  LimiterInv /\ [Next]_vars => [Bucket!Next]_(Bucket!vars)
<1> SUFFICES ASSUME LimiterInv, [Next]_vars
             PROVE  [Bucket!Next]_(Bucket!vars)
  OBVIOUS
<1> DEFINE avail == [a \in Addrs |-> Avail(a)]
<1>1. CASE UNCHANGED vars
  BY <1>1 DEF vars, handlerVars, windowVars, Bucket!vars, Avail
<1>2. ASSUME NEW p \in Procs, NEW a \in Addrs, GetLimiter(p, a)
      PROVE  Bucket!Next
  <2>1. avail' = avail
    BY <1>2, GetLimiterInv
  <2>2. Bucket!Arrive(p, a)
    BY <1>2, <2>1 DEF GetLimiter, Waiting, windowVars, Bucket!Arrive
  <2> QED
    BY <2>2 DEF Bucket!Next
<1>3. ASSUME NEW p \in Procs, Allow(p)
      PROVE  Bucket!Next
  <2>1. PICK a \in Addrs : a = addr[p]
    BY <1>3 DEF LimiterInv, HolderFits, Allow
  <2>2. /\ \A c \in Addrs \ {a} : Avail(c)' = Avail(c)
        /\ \/ /\ Avail(a) > 0
              /\ Avail(a)' = Avail(a) - 1
              /\ granted' = [granted EXCEPT ![a] = @ + 1]
              /\ status' = [status EXCEPT ![p] = "passed"]
           \/ /\ Avail(a) = 0 /\ Avail(a)' = Avail(a)
              /\ UNCHANGED granted
              /\ status' = [status EXCEPT ![p] = "refused"]
    BY <1>3, <2>1, AllowTakes
  <2>3. Bucket!Pass(p) \/ Bucket!TooMany(p)
    <3>1. CASE Avail(a)' = Avail(a) - 1 /\ Avail(a) > 0
               /\ granted' = [granted EXCEPT ![a] = @ + 1]
               /\ status' = [status EXCEPT ![p] = "passed"]
      <4>1. avail' = [avail EXCEPT ![a] = @ - 1]
        BY <2>2, <3>1
      <4> QED
        BY <2>1, <3>1, <4>1 DEF Bucket!Pass
    <3>2. CASE Avail(a) = 0 /\ Avail(a)' = Avail(a) /\ UNCHANGED granted
               /\ status' = [status EXCEPT ![p] = "refused"]
      <4>1. avail' = avail
        BY <2>2, <3>2
      <4> QED
        BY <2>1, <3>2, <4>1 DEF Bucket!TooMany
    <3> QED
      BY <2>2, <3>1, <3>2
  <2>4. Bucket!Decide(p)
    BY <1>3, <2>3 DEF Allow, Waiting, Bucket!Decide
  <2> QED
    BY <2>4 DEF Bucket!Next
<1>4. CASE Cleanup
  <2>1. avail' = avail
    BY <1>4, CleanupInv
  <2> QED
    BY <1>4, <2>1 DEF Cleanup, handlerVars, windowVars, Bucket!vars
<1>5. CASE Tick
  <2>1. avail' = [a \in Addrs |-> Bucket!Refilled(avail[a])]
    BY <1>5, TickInv DEF Refilled, Bucket!Refilled
  <2>2. Bucket!Tick
    BY <1>5, <2>1 DEF Tick, Bucket!Tick
  <2> QED
    BY <2>2 DEF Bucket!Next
<1>6. CASE OpenWindow
  <2>1. avail' = avail
    BY <1>6, OpenWindowInv
  <2>2. Bucket!OpenWindow
    BY <1>6, <2>1 DEF OpenWindow, handlerVars, Bucket!OpenWindow
  <2> QED
    BY <2>2 DEF Bucket!Next
<1> QED
  BY <1>1, <1>2, <1>3, <1>4, <1>5, <1>6 DEF Next

LEMMA InitSimulation == Init => Bucket!Init
BY DEF Init, Bucket!Init, Avail

(* Types, for any number of addresses and handlers. *)
THEOREM LimiterTypeCorrect == Spec => []LimiterTypeOK
<1>1. LimiterInv => LimiterTypeOK
  BY DEF LimiterInv
<1> QED
  BY <1>1, SpecLimiterInv, PTL

(* No address gets more through, in any window, than a full bucket and what *)
(* flows into it.                                                           *)
THEOREM FairShareSafe == Spec => []FairShare
<1>1. LimiterInv => FairShare
  <2> SUFFICES ASSUME LimiterInv, NEW a \in Addrs
               PROVE  granted[a] <= Burst + Rate * elapsed
    BY DEF FairShare
  <2>1. /\ Avail(a) \in 0 .. Burst /\ granted[a] \in Nat /\ Burst \in Nat
        /\ Rate * elapsed \in Int
    <3>1. elapsed \in Int
      BY LimiterAssumption DEF LimiterInv, LimiterTypeOK
    <3> QED
      BY <3>1, AvailType, RateType, LimiterAssumption DEF LimiterInv, LimiterTypeOK
  <2> QED
    BY <2>1 DEF LimiterInv, WindowFits
<1> QED
  BY <1>1, SpecLimiterInv, PTL

(* An entry of the map does not outlive its last request for long. *)
THEOREM EntriesExpireSafe == Spec => []EntriesExpire
<1>1. LimiterInv => EntriesExpire
  <2> SUFFICES ASSUME LimiterInv, NEW a \in Addrs, clients[a] # None
               PROVE  idle[a] <= Idle + Period
    BY DEF EntriesExpire
  <2>1. idle[a] + due <= Idle + Period /\ due \in 0 .. Period
        /\ idle[a] \in 0 .. Idle + Period + 1
    BY DEF LimiterInv, LimiterTypeOK, AgeFits
  <2> QED
    BY <2>1, LimiterAssumption
<1> QED
  BY <1>1, SpecLimiterInv, PTL

(* The limiter with its map, its mutex and its clean-up decides as if every *)
(* address had one bucket for ever.                                         *)
THEOREM BucketsHonoured == Spec => HonoursBuckets
BY InitSimulation, StepSimulation, SpecLimiterInv, PTL
DEF Spec, Bucket!Spec, HonoursBuckets
=============================================================================
