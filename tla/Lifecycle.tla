------------------------------ MODULE Lifecycle ------------------------------
(***************************************************************************)
(* The life of the server process (main.go), from the choice of the store  *)
(* to its exit, for several replicas that share one database: migrations   *)
(* while others serve, requests, the clean-up goroutine, the signal and    *)
(* the order in which main closes what the handlers use.                   *)
(***************************************************************************)
EXTENDS Migrations

CONSTANTS
  Handlers,   \* requests one replica serves at a time
  MaxBoots,   \* bound: starts, of all replicas together
  MaxFaults   \* bound: errors, kills and commands of the operators

ASSUME LifecycleAssumption == MaxBoots \in Nat /\ MaxFaults \in Nat

VARIABLES
  main,       \* where func main is
  backend,    \* the store it has chosen
  signal,     \* rootCtx is cancelled: SIGINT or SIGTERM has come
  listening,  \* the server accepts requests
  busy,       \* handlers at work
  cleaner,    \* goroutine cleanupExpiredShares
  pool,       \* its connection pool is open
  gaveUp,     \* Shutdown returned although handlers were busy
  boots, faults

replicaVars == <<main, backend, signal, listening, busy, cleaner, pool, gaveUp>>
vars == <<migrationVars, replicaVars, boots, faults>>

MainSteps == {"off", "ping", "migrate", "serve", "shutdown", "cache", "cancel",
              "wait", "return"}

Init ==
  /\ MigrationsInit
  /\ main = [r \in Replicas |-> "off"]
  /\ backend = [r \in Replicas |-> "postgres"]
  /\ signal = [r \in Replicas |-> FALSE]
  /\ listening = [r \in Replicas |-> FALSE]
  /\ busy = [r \in Replicas |-> {}]
  /\ cleaner = [r \in Replicas |-> "none"]
  /\ pool = [r \in Replicas |-> FALSE]
  /\ gaveUp = [r \in Replicas |-> FALSE]
  /\ boots = 0 /\ faults = 0

To(r, here, next) == main[r] = here /\ main' = [main EXCEPT ![r] = next]
Fault == faults < MaxFaults /\ faults' = faults + 1
NoFault == UNCHANGED <<boots, faults>>

(* The end of the process takes its goroutines, its connections and its     *)
(* session with them.                                                       *)
Exit(r) ==
  /\ main' = [main EXCEPT ![r] = "off"]
  /\ signal' = [signal EXCEPT ![r] = FALSE]
  /\ listening' = [listening EXCEPT ![r] = FALSE]
  /\ busy' = [busy EXCEPT ![r] = {}]
  /\ cleaner' = [cleaner EXCEPT ![r] = "none"]
  /\ pool' = [pool EXCEPT ![r] = FALSE]
  /\ gaveUp' = [gaveUp EXCEPT ![r] = FALSE]
  /\ End(r, "idle")
  /\ UNCHANGED <<schemaVars, byHand, backend, boots>>

-----------------------------------------------------------------------------
(* Start *)

Serving(r) ==
  /\ main' = [main EXCEPT ![r] = "serve"]
  /\ listening' = [listening EXCEPT ![r] = TRUE]
  /\ cleaner' = [cleaner EXCEPT ![r] = "sleep"]
  /\ UNCHANGED <<signal, busy, pool, gaveUp, boots, faults>>

Boot(r) ==
  /\ main[r] = "off" /\ boots < MaxBoots
  /\ main' = [main EXCEPT ![r] = "ping"]
  /\ \E b \in {"postgres", "memory"} : backend' = [backend EXCEPT ![r] = b]
  /\ boots' = boots + 1
  /\ UNCHANGED <<migrationVars, signal, listening, busy, cleaner, pool, gaveUp, faults>>

(* NewStore, which cannot fail. *)
StartMemory(r) ==
  /\ main[r] = "ping" /\ backend[r] = "memory"
  /\ Serving(r)
  /\ UNCHANGED <<migrationVars, backend>>

(* PingContext(rootCtx), then RunMigrations, which knows of no context.     *)
Ping(r) ==
  /\ backend[r] = "postgres" /\ ~signal[r]
  /\ To(r, "ping", "migrate")
  /\ pool' = [pool EXCEPT ![r] = TRUE]
  /\ Ask(r, NoJob)
  /\ UNCHANGED <<backend, signal, listening, busy, cleaner, gaveUp>> /\ NoFault

PingFails(r) ==
  /\ main[r] = "ping" /\ backend[r] = "postgres"
  /\ \/ signal[r] /\ UNCHANGED faults
     \/ Fault
  /\ Exit(r)

(* Mutant of Migrated: the error of RunMigrations is logged only. *)
Ended(r) == step[r] \in {"done", "failed"}

Migrated(r) == step[r] = "done"

(* The migrations have ended well.  What main does from here to the server  *)
(* is left out: NewCache takes 5 s at most, heeds no signal, and leaves a   *)
(* cache or none, and either is closed in the same place.                   *)
StartPostgres(r) ==
  /\ main[r] = "migrate" /\ Migrated(r)
  /\ Serving(r)
  /\ UNCHANGED <<migrationVars, backend>>

(* os.Exit(1) *)
StartFails(r) ==
  /\ main[r] = "migrate" /\ step[r] = "failed" /\ ~Migrated(r)
  /\ Exit(r) /\ UNCHANGED faults

-----------------------------------------------------------------------------
(* Service *)

Accept(r) ==
  /\ listening[r]
  /\ \E h \in Handlers \ busy[r] : busy' = [busy EXCEPT ![r] = @ \cup {h}]
  /\ UNCHANGED <<migrationVars, main, backend, signal, listening, cleaner, pool, gaveUp>>
  /\ NoFault

(* A handler ends in its own time: no store operation heeds a context.      *)
Respond(r) ==
  /\ \E h \in busy[r] : busy' = [busy EXCEPT ![r] = @ \ {h}]
  /\ UNCHANGED <<migrationVars, main, backend, signal, listening, cleaner, pool, gaveUp>>
  /\ NoFault

(* Mutant of Cancelled: Close of the in-memory store does not close the     *)
(* channel `done`.                                                          *)
RootCancelled(r) == backend[r] = "postgres" /\ signal[r]

Cancelled(r) == \/ backend[r] = "postgres" /\ signal[r]
                \/ main[r] \in {"wait", "return"}

Cleaner(r, here, next) ==
  /\ cleaner[r] = here
  /\ cleaner' = [cleaner EXCEPT ![r] = next]
  /\ UNCHANGED <<migrationVars, main, backend, signal, listening, busy, pool, gaveUp>>
  /\ NoFault

(* The select picks either when the ticker and the context are both ready.  *)
Tick(r) == Cleaner(r, "sleep", "sweep")
Quit(r) == Cancelled(r) /\ Cleaner(r, "sleep", "gone")

(* The DELETE returns at once when the context is cancelled; the sweep of   *)
(* the maps always comes to its end.                                        *)
Swept(r) ==
  Cleaner(r, "sweep", IF backend[r] = "postgres" /\ Cancelled(r) THEN "gone" ELSE "sleep")

-----------------------------------------------------------------------------
(* Shutdown *)

Signal(r) ==
  /\ main[r] # "off" /\ ~signal[r]
  /\ signal' = [signal EXCEPT ![r] = TRUE]
  /\ UNCHANGED <<migrationVars, main, backend, listening, busy, cleaner, pool, gaveUp>>
  /\ NoFault

(* ListenAndServe returns an error: the port is taken, say. *)
ServerFails(r) ==
  /\ main[r] = "serve" /\ listening[r]
  /\ Fault
  /\ listening' = [listening EXCEPT ![r] = FALSE]
  /\ UNCHANGED <<migrationVars, main, backend, signal, busy, cleaner, pool, gaveUp, boots>>

(* Mutant of StillListening: Shutdown leaves the listener open. *)
AsBefore(r) == listening[r]

StillListening(r) == FALSE

(* stopSignals cancels rootCtx, too, when the server has failed.  Then      *)
(* srv.Shutdown closes the listener before it waits for the handlers.       *)
Shutdown(r) ==
  /\ signal[r] \/ ~listening[r]
  /\ To(r, "serve", "shutdown")
  /\ signal' = [signal EXCEPT ![r] = TRUE]
  /\ listening' = [listening EXCEPT ![r] = StillListening(r)]
  /\ UNCHANGED <<migrationVars, backend, busy, cleaner, pool, gaveUp>> /\ NoFault

(* All handlers are idle, or 10 seconds are over.  The Redis client is      *)
(* closed next.                                                             *)
ShutdownReturns(r) ==
  /\ To(r, "shutdown", "cache")
  /\ gaveUp' = [gaveUp EXCEPT ![r] = busy[r] # {}]
  /\ UNCHANGED <<migrationVars, backend, signal, listening, busy, cleaner, pool>> /\ NoFault

CloseCache(r) ==
  /\ To(r, "cache", "cancel")
  /\ UNCHANGED <<migrationVars, backend, signal, listening, busy, cleaner, pool, gaveUp>>
  /\ NoFault

(* s.cancel(), or close(s.done) *)
Cancel(r) ==
  /\ To(r, "cancel", "wait")
  /\ UNCHANGED <<migrationVars, backend, signal, listening, busy, cleaner, pool, gaveUp>>
  /\ NoFault

(* Mutant of CleanerDone: Close does not wait for the goroutine. *)
NotAwaited(r) == TRUE

CleanerDone(r) == cleaner[r] = "gone"

(* wg.Wait(), then db.Close() *)
ClosePool(r) ==
  /\ CleanerDone(r)
  /\ To(r, "wait", "return")
  /\ pool' = [pool EXCEPT ![r] = FALSE]
  /\ UNCHANGED <<migrationVars, backend, signal, listening, busy, cleaner, gaveUp>>
  /\ NoFault

Return(r) == main[r] = "return" /\ Exit(r) /\ UNCHANGED faults

(* SIGKILL, a panic, or a second Ctrl-C after stopSignals. *)
Kill(r) == main[r] # "off" /\ Fault /\ Exit(r)

-----------------------------------------------------------------------------
Main(r) ==
  \/ StartMemory(r) \/ Ping(r) \/ PingFails(r) \/ StartPostgres(r) \/ StartFails(r)
  \/ Shutdown(r) \/ ShutdownReturns(r) \/ CloseCache(r) \/ Cancel(r)
  \/ ClosePool(r) \/ Return(r)

Operate(s) == Fault /\ (\E j \in Jobs : Ask(s, j)) /\ UNCHANGED boots
Lose(s) == Fault /\ Break(s) /\ UNCHANGED boots
Waited(s) == Wait(s) /\ NoFault
Worked(s) == Work(s) /\ NoFault

Session(s) == Lose(s) \/ Waited(s) \/ Worked(s)

Next ==
  \/ \E r \in Replicas :
       \/ Boot(r) \/ Main(r) \/ Accept(r) \/ Respond(r)
       \/ Tick(r) \/ Quit(r) \/ Swept(r)
       \/ Signal(r) \/ ServerFails(r) \/ Kill(r)
  \/ \E s \in Sessions : Session(s) /\ UNCHANGED replicaVars
  \/ \E s \in Operators : Operate(s) /\ UNCHANGED replicaVars

Spec == Init /\ [][Next]_vars

(* The scheduler runs main and the goroutine, PostgreSQL serves those who   *)
(* wait for the lock in turn, and a select that is offered both does not    *)
(* take the ticker for ever.  No handler has to end, no signal to come.     *)
Fairness ==
  /\ \A r \in Replicas : WF_vars(Main(r)) /\ WF_vars(Swept(r)) /\ SF_vars(Quit(r))
  /\ \A s \in Sessions :
       /\ WF_vars(Worked(s) /\ UNCHANGED replicaVars)
       /\ SF_vars(Waited(s) /\ UNCHANGED replicaVars)

FairSpec == Spec /\ Fairness

-----------------------------------------------------------------------------
(* Properties *)

(* Types of the processes and of the schema they share. *)
LifecycleTypeOK ==
  /\ MigrationsTypeOK
  /\ main \in [Replicas -> MainSteps]
  /\ backend \in [Replicas -> {"postgres", "memory"}]
  /\ signal \in [Replicas -> BOOLEAN] /\ gaveUp \in [Replicas -> BOOLEAN]
  /\ listening \in [Replicas -> BOOLEAN]
  /\ busy \in [Replicas -> SUBSET Handlers]
  /\ cleaner \in [Replicas -> {"none", "sleep", "sweep", "gone"}]
  /\ pool \in [Replicas -> BOOLEAN]
  /\ boots \in 0 .. MaxBoots /\ faults \in 0 .. MaxFaults

(* Handlers never see a schema that lacks a migration of their binary, even *)
(* while other replicas start or break off, unless an operator takes one    *)
(* back or forces a version that is not there.                              *)
WholeSchemaServed ==
  \A r \in Replicas :
    /\ backend[r] = "postgres" /\ main[r] \notin {"off", "ping", "migrate"}
    /\ byHand \subseteq {"underclaim"}
    => 1 .. Latest[r] \subseteq applied

(* Neither the Redis client nor the pool is closed under a handler, however *)
(* signals, errors of the server and requests meet, unless Shutdown has     *)
(* given up waiting for it.                                                 *)
OpenWhileBusy ==
  \A r \in Replicas :
    /\ main[r] \in {"cancel", "wait", "return"}
    /\ busy[r] # {}
    => gaveUp[r]

(* The goroutine never sweeps with a pool that is closed. *)
SweepsOpenPool ==
  \A r \in Replicas :
    backend[r] = "postgres" /\ cleaner[r] \in {"sleep", "sweep"} => pool[r]

(* A process that is told to stop, or whose server fails, stops, wherever   *)
(* it is: no signal is lost during the start, no handler and no goroutine   *)
(* holds it up for ever.                                                    *)
StopsWhenTold ==
  \A r \in Replicas :
    signal[r] \/ (main[r] = "serve" /\ ~listening[r]) ~> main[r] = "off"

(* No replica waits for the lock for ever: it comes to serve or exits.      *)
StartEnds ==
  \A r \in Replicas : main[r] = "migrate" ~> main[r] \in {"serve", "off"}
=============================================================================
