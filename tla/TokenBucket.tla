----------------------------- MODULE TokenBucket -----------------------------
(***************************************************************************)
(* What the rate limiter promises: every address has one token bucket, for *)
(* ever.  It begins full, gains Rate tokens a tick up to Burst, and a      *)
(* request passes exactly when it finds a token to take.                   *)
(***************************************************************************)
EXTENDS Integers

CONSTANTS
  Addrs,      \* client addresses
  Procs,      \* request handlers
  Burst,      \* tokens a bucket holds
  Rate,       \* tokens it gains per tick
  MaxWindow,  \* bound: ticks over which passed requests are counted
  None

VARIABLES
  avail,    \* tokens of each address
  status,   \* whether each handler's request has been let through
  addr,     \* address of the request that waits for its verdict
  granted,  \* requests of each address that passed since the window opened
  elapsed   \* ticks since then

vars == <<avail, status, addr, granted, elapsed>>

Init ==
  /\ avail = [a \in Addrs |-> Burst]
  /\ status = [p \in Procs |-> "idle"]
  /\ addr = [p \in Procs |-> None]
  /\ granted = [a \in Addrs |-> 0]
  /\ elapsed = 0

Arrive(p, a) ==
  /\ status[p] # "arrived"
  /\ status' = [status EXCEPT ![p] = "arrived"]
  /\ addr' = [addr EXCEPT ![p] = a]
  /\ UNCHANGED <<avail, granted, elapsed>>

Pass(p) ==
  /\ avail[addr[p]] > 0
  /\ avail' = [avail EXCEPT ![addr[p]] = @ - 1]
  /\ granted' = [granted EXCEPT ![addr[p]] = @ + 1]
  /\ status' = [status EXCEPT ![p] = "passed"]

TooMany(p) ==
  /\ avail[addr[p]] = 0
  /\ status' = [status EXCEPT ![p] = "refused"]
  /\ UNCHANGED <<avail, granted>>

Decide(p) ==
  /\ status[p] = "arrived"
  /\ Pass(p) \/ TooMany(p)
  /\ addr' = [addr EXCEPT ![p] = None]
  /\ UNCHANGED elapsed

Refilled(n) == IF n + Rate < Burst THEN n + Rate ELSE Burst

Tick ==
  /\ elapsed < MaxWindow
  /\ avail' = [a \in Addrs |-> Refilled(avail[a])]
  /\ elapsed' = elapsed + 1
  /\ UNCHANGED <<status, addr, granted>>

(* Counting starts again at any moment. *)
OpenWindow ==
  /\ granted' = [a \in Addrs |-> 0]
  /\ elapsed' = 0
  /\ UNCHANGED <<avail, status, addr>>

Next ==
  \/ \E p \in Procs : Decide(p) \/ \E a \in Addrs : Arrive(p, a)
  \/ Tick
  \/ OpenWindow

Spec == Init /\ [][Next]_vars
=============================================================================
