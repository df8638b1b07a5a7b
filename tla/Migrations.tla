----------------------------- MODULE Migrations -----------------------------
(***************************************************************************)
(* How the schema gets from version to version: RunMigrations at the start *)
(* of every replica (service/migrate.go) and the commands of cmd/migrate,  *)
(* both by golang-migrate over one session with PostgreSQL that holds an   *)
(* advisory lock.  Each file is one multi-statement query, so its SQL has  *)
(* effect as a whole or not at all; the version row before and after it is *)
(* written in transactions of its own.                                     *)
(***************************************************************************)
EXTENDS Integers, FiniteSets

CONSTANTS
  Replicas,  \* server processes
  Operators, \* people with the command line
  Latest,    \* newest migration embedded in the binary of each
  Newest,    \* newest migration there is
  None

Sessions == Replicas \cup Operators

ASSUME MigrationsAssumption ==
  /\ Replicas \cap Operators = {}
  /\ Newest \in Nat \ {0}
  /\ Latest \in [Sessions -> 1 .. Newest]
  /\ None \notin Sessions

VARIABLES
  version,  \* table schema_migrations, 0 when it is empty
  dirty,
  applied,  \* migrations whose SQL is in effect
  lock,     \* session that holds the advisory lock
  step,     \* where each session is
  job,      \* what it was asked to do
  at,       \* version it is taking the schema to
  byHand    \* history: what operators have done to the schema

schemaVars == <<version, dirty, applied>>
migrationVars == <<schemaVars, lock, step, job, at, byHand>>

(* A version of 0 is an empty table: what `force -1` leaves. *)
Versions == 0 .. Newest
Job(cmd, n) == [cmd |-> cmd, n |-> n]
NoJob == Job("up", 0)
Jobs == {NoJob} \cup {Job("down", n) : n \in 1 .. Newest}
                \cup {Job("force", v) : v \in Versions}

Critical == {"version", "mark", "run", "clean"}
SessionSteps == {"idle", "connect", "lock", "done", "failed"} \cup Critical

MigrationsInit ==
  /\ version = 0 /\ dirty = FALSE /\ applied = {}
  /\ lock = None
  /\ step = [s \in Sessions |-> "idle"]
  /\ job = [s \in Sessions |-> NoJob]
  /\ at = [s \in Sessions |-> 0]
  /\ byHand = {}

Go(s, here, next) == step[s] = here /\ step' = [step EXCEPT ![s] = next]

(* WithInstance makes the version table under the lock.  This time it waits *)
(* for the lock as long as it takes.                                        *)
Connect(s) ==
  /\ lock = None
  /\ Go(s, "connect", "lock")
  /\ UNCHANGED <<schemaVars, lock, job, at, byHand>>

Acquire(s) ==
  /\ lock = None
  /\ lock' = s
  /\ Go(s, "lock", "version")
  /\ UNCHANGED <<schemaVars, job, at, byHand>>

(* Mutants of Freed: the lock is kept on the way out, or freed whoever has  *)
(* it.                                                                      *)
Kept(s) == lock
FreedAnyhow(s) == None

Freed(s) == IF lock = s THEN None ELSE lock

(* The command exits; a replica goes by what has come of it. *)
End(s, how) ==
  /\ lock' = Freed(s)
  /\ step' = [step EXCEPT ![s] = IF s \in Operators THEN "idle" ELSE how]
  /\ job' = [job EXCEPT ![s] = NoJob]
  /\ at' = [at EXCEPT ![s] = 0]

(* ErrLockTimeout after 15 seconds. *)
GiveUp(s) ==
  /\ step[s] = "lock" /\ lock # None
  /\ End(s, "failed") /\ UNCHANGED <<schemaVars, byHand>>

-----------------------------------------------------------------------------
(* Mutant of Refused: a dirty version is taken for a clean one. *)
UnknownOnly(s) == version > Latest[s]

(* ErrDirty, and a version that the binary does not know, because a newer   *)
(* one has been there.                                                      *)
Refused(s) == dirty \/ version > Latest[s]

(* Up applies every migration that the binary has. *)
UpTo(s) == Latest[s]

(* The version after `v`, for a session that goes on. *)
Beyond(s, v) == IF job[s].cmd = "up" THEN v + 1 ELSE v - 1
HasNext(s, v) == IF job[s].cmd = "up" THEN v < UpTo(s) ELSE v > 0

(* Version, and the first of the migrations to make.  A `down` that has     *)
(* nothing to take back is an error, an `up` with nothing to do is not.     *)
ReadVersion(s) ==
  /\ step[s] = "version" /\ job[s].cmd # "force"
  /\ \/ Refused(s) /\ End(s, "failed")
     \/ /\ ~Refused(s) /\ ~HasNext(s, version)
        /\ End(s, IF job[s].cmd = "up" THEN "done" ELSE "failed")
     \/ /\ ~Refused(s) /\ HasNext(s, version)
        /\ at' = [at EXCEPT ![s] = Beyond(s, version)]
        /\ Go(s, "version", "mark")
        /\ UNCHANGED <<lock, job>>
  /\ UNCHANGED <<schemaVars, byHand>>

(* SetVersion(v, true) *)
Mark(s) ==
  /\ version' = at[s] /\ dirty' = TRUE
  /\ Go(s, "mark", "run")
  /\ UNCHANGED <<applied, lock, job, at, byHand>>

(* Each file builds on the ones before it: 000002 indexes a table that      *)
(* 000001 creates, and cannot do without it.  What it creates it creates IF *)
(* NOT EXISTS.                                                              *)
Builds(s) == 1 .. at[s] - 1 \subseteq applied

RunUp(s) ==
  /\ job[s].cmd = "up"
  /\ \/ /\ Builds(s)
        /\ applied' = applied \cup {at[s]}
        /\ Go(s, "run", "clean")
        /\ UNCHANGED <<lock, job, at>>
     \/ /\ ~Builds(s)
        /\ step[s] = "run" /\ End(s, "failed")
        /\ UNCHANGED applied

(* What builds on a migration goes with it: indexes with their table. *)
RunDown(s) ==
  /\ job[s].cmd = "down"
  /\ applied' = applied \ (at[s] + 1 .. Newest)
  /\ Go(s, "run", "clean")
  /\ UNCHANGED <<lock, job, at>>

Run(s) == (RunUp(s) \/ RunDown(s)) /\ UNCHANGED <<version, dirty, byHand>>

(* SetVersion(v, false), and the next migration, if there is one.           *)
Clean(s) ==
  /\ step[s] = "clean"
  /\ version' = at[s] /\ dirty' = FALSE
  /\ IF HasNext(s, at[s]) /\ (job[s].cmd = "up" \/ job[s].n > 1)
     THEN /\ at' = [at EXCEPT ![s] = Beyond(s, at[s])]
          /\ job' = [job EXCEPT ![s].n = IF @ > 0 THEN @ - 1 ELSE 0]
          /\ Go(s, "clean", "mark")
          /\ UNCHANGED lock
     ELSE End(s, "done")
  /\ UNCHANGED <<applied, byHand>>

(* What `force v` makes the version say of the schema. *)
Claim(v) ==
  CASE ~(1 .. v \subseteq applied) -> {"overclaim"}
    [] applied = 1 .. v            -> {}
    [] OTHER                       -> {"underclaim"}

(* migrate force: the row is written whatever it says, and no SQL is run.   *)
ForceVersion(s) ==
  /\ step[s] = "version" /\ job[s].cmd = "force"
  /\ version' = job[s].n /\ dirty' = FALSE
  /\ End(s, "done")
  /\ byHand' = byHand \cup Claim(job[s].n)
  /\ UNCHANGED applied

(* An error of the database, or the end of the process: PostgreSQL frees    *)
(* the lock with the session, and the version stays as it is.               *)
Break(s) ==
  /\ step[s] \in Critical \cup {"connect", "lock"}
  /\ End(s, "failed")
  /\ UNCHANGED <<schemaVars, byHand>>

(* RunMigrations, and cmd/migrate: up, down N, force V. *)
Ask(s, j) ==
  /\ step[s] = "idle"
  /\ step' = [step EXCEPT ![s] = "connect"]
  /\ job' = [job EXCEPT ![s] = j]
  /\ byHand' = byHand \cup ({j.cmd} \cap {"down"})
  /\ UNCHANGED <<schemaVars, lock, at>>

Wait(s) == Connect(s) \/ Acquire(s)
Work(s) == GiveUp(s) \/ ReadVersion(s) \/ Mark(s) \/ Run(s) \/ Clean(s) \/ ForceVersion(s)

-----------------------------------------------------------------------------
(* Properties *)

(* Types, and that whoever works on the schema holds the lock and whoever   *)
(* has ended has let it go.                                                 *)
MigrationsTypeOK ==
  /\ version \in Versions /\ dirty \in BOOLEAN /\ applied \subseteq 1 .. Newest
  /\ lock \in Sessions \cup {None}
  /\ step \in [Sessions -> SessionSteps]
  /\ job \in [Sessions -> Jobs]
  /\ at \in [Sessions -> Versions]
  /\ byHand \subseteq {"down", "overclaim", "underclaim"}
  /\ \A s \in Sessions : lock = s <=> step[s] \in Critical

(* A version that is not dirty is kept: every migration up to it has had    *)
(* its SQL run, and no other, whoever broke off where.  `force` can make it *)
(* say more than that, or less; if it has only ever made it say less, the   *)
(* version still promises nothing that is not there.                        *)
CleanMeansComplete ==
  ~dirty =>
    /\ "overclaim" \notin byHand => 1 .. version \subseteq applied
    /\ byHand \subseteq {"down"} => applied = 1 .. version

(* A dirty version V has everything before it, wherever a migration up or   *)
(* down broke off: `force V-1` is never a promise too much, and gets the    *)
(* servers that refuse to start going again.  (`force V` may be.)           *)
DirtyLacksOne ==
  dirty /\ "overclaim" \notin byHand => 1 .. version - 1 \subseteq applied
=============================================================================
