-------------------------- MODULE Lifecycle_proofs --------------------------
(***************************************************************************)
(* Proofs about Lifecycle and Migrations for any number of replicas,       *)
(* operators and migrations, and whichever binary has which of them.       *)
(***************************************************************************)
EXTENDS Lifecycle, TLAPS

Under == {"mark", "run", "clean"}

(* What a session with a migration under way was asked, and how far it is.  *)
JobFits(s) ==
  /\ job[s].cmd = "down" => "down" \in byHand
  /\ job[s].cmd # "up" => s \in Operators
  /\ step[s] \in Under =>
       /\ job[s].cmd \in {"up", "down"}
       /\ job[s].cmd = "up" => at[s] \in 1 .. Latest[s]
       /\ job[s].cmd = "down" => at[s] \in 0 .. Newest - 1

(* The version has said nothing that was not there, nothing but the truth.  *)
Honest == "overclaim" \notin byHand
Exact == byHand \subseteq {"down"}

(* What is there before the SQL of a session has run. *)
Before(s) == IF job[s].cmd = "up" THEN at[s] - 1 ELSE at[s] + 1

SchemaFits(s) ==
  /\ step[s] = "mark" => ~dirty /\ at[s] = Beyond(s, version)
  /\ step[s] \in {"run", "clean"} => dirty /\ version = at[s]
  /\ step[s] = "run" =>
       /\ Honest => 1 .. Before(s) \subseteq applied
       /\ Exact => applied = 1 .. Before(s)
  /\ step[s] = "clean" =>
       /\ Honest => 1 .. at[s] \subseteq applied
       /\ Exact => applied = 1 .. at[s]

(* A replica that is through has every migration of its binary. *)
DoneFits(s) ==
  byHand \subseteq {"underclaim"} /\ step[s] = "done" => 1 .. Latest[s] \subseteq applied

(* What the version says of the schema, dirty or not. *)
VersionFits == CleanMeansComplete /\ DirtyLacksOne

MigrationsInv ==
  /\ MigrationsTypeOK
  /\ VersionFits
  /\ \A s \in Sessions : JobFits(s) /\ SchemaFits(s) /\ DoneFits(s)

(* How far main is, and what it has started and closed by then. *)
Started == {"serve", "shutdown", "cache", "cancel", "wait", "return"}

ReplicaFits(r) ==
  /\ backend[r] = "postgres" /\ main[r] \in Started => step[r] = "done"
  /\ backend[r] = "postgres" /\ main[r] \in (Started \cup {"migrate"}) \ {"return"} => pool[r]
  /\ cleaner[r] = "none" <=> main[r] \notin Started
  /\ main[r] = "return" => cleaner[r] = "gone"
  /\ listening[r] => main[r] = "serve"
  /\ main[r] \in {"cache", "cancel", "wait", "return"} => busy[r] = {} \/ gaveUp[r]
  /\ main[r] = "migrate" => backend[r] = "postgres"

LifecycleInv ==
  /\ MigrationsInv
  /\ LifecycleTypeOK
  /\ \A r \in Replicas : ReplicaFits(r)

-----------------------------------------------------------------------------
(* Migrations *)

LEMMA VersionFitsAs ==
  VersionFits <=>
    /\ Honest => 1 .. (IF dirty THEN version - 1 ELSE version) \subseteq applied
    /\ Exact /\ ~dirty => applied = 1 .. version
BY DEF VersionFits, CleanMeansComplete, DirtyLacksOne, Honest, Exact

LEMMA JobFields ==
  /\ NoJob \in Jobs /\ NoJob.cmd = "up" /\ NoJob.n = 0
  /\ \A j \in Jobs : /\ j.cmd \in {"up", "down", "force"} /\ j.n \in Versions
                     /\ j = [cmd |-> j.cmd, n |-> j.n]
                     /\ j.cmd = "up" => j.n = 0
BY MigrationsAssumption DEF NoJob, Jobs, Job, Versions

(* A session that ends, with the schema as it is or as it has just made it. *)
LEMMA EndMigrations ==
  ASSUME MigrationsInv, NEW s \in Sessions, NEW how \in {"idle", "done", "failed"},
         End(s, how), version' \in Versions, dirty' \in BOOLEAN, UNCHANGED applied,
         VersionFits', byHand \subseteq byHand',
         byHand' \subseteq {"down", "overclaim", "underclaim"},
         UNCHANGED schemaVars \/ step[s] \in Critical,
         how = "done" /\ byHand' \subseteq {"underclaim"}
           => 1 .. Latest[s] \subseteq applied \/ s \in Operators
  PROVE  MigrationsInv'
<1> USE DEF MigrationsInv, MigrationsTypeOK, schemaVars
<1>1. MigrationsTypeOK'
  BY MigrationsAssumption, JobFields
  DEF End, Freed, SessionSteps, Critical, Versions
<1>2. ASSUME NEW t \in Sessions PROVE JobFits(t)' /\ SchemaFits(t)' /\ DoneFits(t)'
  <2>1. CASE t = s
    BY <2>1, JobFields DEF End, JobFits, SchemaFits, DoneFits, Under
  <2>2. CASE t # s
    <3>1. /\ step'[t] = step[t] /\ job'[t] = job[t] /\ at'[t] = at[t]
          /\ UNCHANGED applied
      BY <2>2 DEF End
    <3>2. UNCHANGED schemaVars \/ step[t] \notin Critical
      BY <2>2
    <3>3. (Honest' => Honest) /\ (Exact' => Exact)
      BY DEF Honest, Exact
    <3>4. JobFits(t)' /\ DoneFits(t)'
      BY <3>1 DEF JobFits, DoneFits, Under
    <3>5. SchemaFits(t)'
      BY <3>1, <3>2, <3>3 DEF SchemaFits, Before, Beyond, Critical
    <3> QED
      BY <3>4, <3>5
  <2> QED
    BY <2>1, <2>2
<1> QED
  BY <1>1, <1>2

(* A session that goes on, alone with the schema when it changes it. *)
LEMMA GoMigrations ==
  ASSUME MigrationsInv, NEW s \in Sessions,
         version' \in Versions, dirty' \in BOOLEAN, applied' \subseteq 1 .. Newest,
         VersionFits', step' = [step EXCEPT ![s] = step'[s]],
         step'[s] \in SessionSteps \ {"done"},
         lock' \in Sessions \cup {None}, UNCHANGED byHand,
         job' \in [Sessions -> Jobs], at' \in [Sessions -> Versions],
         \A t \in Sessions \ {s} : job'[t] = job[t] /\ at'[t] = at[t],
         \A t \in Sessions : lock' = t <=> step'[t] \in Critical,
         \/ UNCHANGED schemaVars
         \/ /\ step[s] \in Critical
            /\ byHand \subseteq {"underclaim"} => applied \subseteq applied',
         JobFits(s)', SchemaFits(s)'
  PROVE  MigrationsInv'
<1> USE DEF MigrationsInv, MigrationsTypeOK, schemaVars
<1>1. MigrationsTypeOK'
  OBVIOUS
<1>2. ASSUME NEW t \in Sessions, t # s PROVE JobFits(t)' /\ SchemaFits(t)'
  <2>1. step'[t] = step[t] /\ job'[t] = job[t] /\ at'[t] = at[t]
    BY <1>2
  <2>2. UNCHANGED schemaVars \/ step[t] \notin Critical
    BY <1>2
  <2> QED
    BY <2>1, <2>2
    DEF JobFits, SchemaFits, Under, Before, Beyond, Critical, Honest, Exact
<1>3. ASSUME NEW t \in Sessions PROVE DoneFits(t)'
  <2>1. step'[t] = "done" => step[t] = "done"
    BY DEF SessionSteps
  <2>2. byHand \subseteq {"underclaim"} => applied \subseteq applied'
    OBVIOUS
  <2> QED
    BY <2>1, <2>2 DEF DoneFits
<1> QED
  BY <1>1, <1>2, <1>3

LEMMA InitMigrations == MigrationsInit => MigrationsInv
<1> SUFFICES ASSUME MigrationsInit PROVE MigrationsInv
  OBVIOUS
<1> USE DEF MigrationsInit
<1>1. MigrationsTypeOK
  BY MigrationsAssumption, JobFields DEF MigrationsTypeOK, Versions, SessionSteps, Critical
<1>2. VersionFits
  BY DEF VersionFits, CleanMeansComplete, DirtyLacksOne
<1>3. ASSUME NEW s \in Sessions PROVE JobFits(s) /\ SchemaFits(s) /\ DoneFits(s)
  BY JobFields DEF JobFits, SchemaFits, DoneFits, Under
<1> QED
  BY <1>1, <1>2, <1>3 DEF MigrationsInv

LEMMA SameVersion ==
  ASSUME VersionFits, UNCHANGED <<version, dirty, applied, byHand>>
  PROVE  VersionFits'
BY DEF VersionFits, CleanMeansComplete, DirtyLacksOne

LEMMA ConnectAcquire ==
  ASSUME MigrationsInv, NEW s \in Sessions, Connect(s) \/ Acquire(s)
  PROVE  MigrationsInv'
<1> USE DEF MigrationsInv, MigrationsTypeOK
<1>1. /\ step' = [step EXCEPT ![s] = step'[s]] /\ step'[s] \in {"lock", "version"}
      /\ UNCHANGED <<version, dirty, applied, job, at, byHand>>
  BY DEF Connect, Acquire, Go, schemaVars
<1>2. /\ lock' \in Sessions \cup {None}
      /\ \A t \in Sessions : lock' = t <=> step'[t] \in Critical
  BY MigrationsAssumption DEF Connect, Acquire, Go, Critical
<1>3. JobFits(s)' /\ SchemaFits(s)'
  BY <1>1 DEF JobFits, SchemaFits, Under
<1>4. VersionFits'
  BY <1>1, SameVersion
<1> QED
  BY <1>1, <1>2, <1>3, <1>4, GoMigrations DEF schemaVars, SessionSteps, Critical

LEMMA StopEarly ==
  ASSUME MigrationsInv, NEW s \in Sessions, GiveUp(s) \/ Break(s)
  PROVE  MigrationsInv'
<1>1. End(s, "failed") /\ UNCHANGED schemaVars /\ UNCHANGED byHand
  BY DEF GiveUp, Break
<1>2. VersionFits' /\ version' \in Versions /\ dirty' \in BOOLEAN /\ UNCHANGED applied
  BY <1>1, SameVersion DEF MigrationsInv, MigrationsTypeOK, schemaVars
<1> QED
  BY <1>1, <1>2, EndMigrations DEF MigrationsInv, MigrationsTypeOK

LEMMA ReadVersionFits ==
  ASSUME MigrationsInv, NEW s \in Sessions, ReadVersion(s)
  PROVE  MigrationsInv'
<1> USE DEF MigrationsInv, MigrationsTypeOK
<1>0. /\ UNCHANGED <<version, dirty, applied>> /\ step[s] = "version"
      /\ job[s].cmd \in {"up", "down"} /\ Latest[s] \in 1 .. Newest /\ UNCHANGED byHand
  BY MigrationsAssumption, JobFields DEF ReadVersion, schemaVars
<1>1. VersionFits'
  BY <1>0, SameVersion
<1>2. CASE Refused(s) /\ End(s, "failed")
  BY <1>0, <1>1, <1>2, EndMigrations DEF schemaVars
<1>3. CASE ~Refused(s) /\ ~HasNext(s, version) /\ End(s, IF job[s].cmd = "up" THEN "done" ELSE "failed")
  <2> DEFINE how == IF job[s].cmd = "up" THEN "done" ELSE "failed"
  <2>1. how = "done" /\ byHand \subseteq {"underclaim"}
          => 1 .. Latest[s] \subseteq applied
    <3> SUFFICES ASSUME how = "done", byHand \subseteq {"underclaim"}
                 PROVE  1 .. Latest[s] \subseteq applied
      OBVIOUS
    <3>1. version = Latest[s]
      BY <1>0, <1>3 DEF Refused, HasNext, UpTo, Versions
    <3>2. 1 .. version \subseteq applied
      BY <1>3 DEF Refused, VersionFits, CleanMeansComplete
    <3> QED
      BY <3>1, <3>2
  <2>2. how \in {"done", "failed"} /\ End(s, how)
    BY <1>3
  <2> HIDE DEF how
  <2> QED
    BY <1>0, <1>1, <2>1, <2>2, EndMigrations DEF schemaVars
<1>4. CASE /\ ~Refused(s) /\ HasNext(s, version)
           /\ at' = [at EXCEPT ![s] = Beyond(s, version)]
           /\ Go(s, "version", "mark")
           /\ UNCHANGED <<lock, job>>
  <2>1. at'[s] = Beyond(s, version) /\ step'[s] = "mark"
    BY <1>4 DEF Go
  <2>2. /\ job[s].cmd = "up" => at'[s] \in 1 .. Latest[s]
        /\ job[s].cmd = "down" => at'[s] \in 0 .. Newest - 1
    BY <1>0, <1>4, <2>1, MigrationsAssumption DEF HasNext, Beyond, UpTo, Versions
  <2>3. at'[s] \in Versions
    BY <1>0, <2>2, MigrationsAssumption DEF Versions
  <2>4. JobFits(s)' /\ SchemaFits(s)'
    BY <1>0, <1>4, <2>1, <2>2 DEF JobFits, SchemaFits, Under, Refused, Beyond
  <2>5. /\ step' = [step EXCEPT ![s] = step'[s]] /\ at' \in [Sessions -> Versions]
        /\ \A t \in Sessions \ {s} : at'[t] = at[t]
        /\ \A t \in Sessions : lock' = t <=> step'[t] \in Critical
    BY <1>4, <2>3, <2>1 DEF Go, Critical
  <2> QED
    BY <1>0, <1>1, <1>4, <2>1, <2>4, <2>5, GoMigrations DEF schemaVars, SessionSteps, Critical
<1> QED
  BY <1>2, <1>3, <1>4 DEF ReadVersion

LEMMA MarkFits ==
  ASSUME MigrationsInv, NEW s \in Sessions, Mark(s)
  PROVE  MigrationsInv'
<1> USE DEF MigrationsInv, MigrationsTypeOK
<1>1. /\ version' = at[s] /\ dirty' = TRUE /\ step[s] = "mark" /\ step'[s] = "run"
      /\ step' = [step EXCEPT ![s] = step'[s]]
      /\ UNCHANGED <<applied, lock, job, at, byHand>>
  BY DEF Mark, Go
<1>2. JobFits(s)'
  BY <1>1 DEF JobFits, Under
<1>3. ~dirty /\ at[s] = Beyond(s, version) /\ version \in Int /\ at[s] \in Int
  BY <1>1 DEF SchemaFits, Versions
<1>4. version = Before(s) /\ at[s] - 1 <= version
  BY <1>3 DEF Beyond, Before
<1>5. (Honest => 1 .. version \subseteq applied) /\ (Exact => applied = 1 .. version)
  BY <1>3, VersionFitsAs
<1>6. SchemaFits(s)'
  BY <1>1, <1>4, <1>5 DEF SchemaFits, Honest, Exact, Before
<1>7. VersionFits'
  <2>1. Honest => 1 .. at[s] - 1 \subseteq applied
    BY <1>3, <1>4, <1>5
  <2> QED
    BY <1>1, <2>1 DEF VersionFits, CleanMeansComplete, DirtyLacksOne, Honest
<1>8. \A t \in Sessions : lock' = t <=> step'[t] \in Critical
  BY <1>1 DEF Critical
<1> QED
  BY <1>1, <1>2, <1>6, <1>7, <1>8, GoMigrations DEF SessionSteps, Critical

LEMMA RunFits ==
  ASSUME MigrationsInv, NEW s \in Sessions, Run(s)
  PROVE  MigrationsInv'
<1> USE DEF MigrationsInv, MigrationsTypeOK
<1>1. step[s] = "run" /\ UNCHANGED <<version, dirty, byHand>>
  BY DEF Run, RunUp, RunDown, Go
<1>2. /\ dirty /\ version = at[s] /\ at[s] \in Int
      /\ Honest => 1 .. Before(s) \subseteq applied
      /\ Exact => applied = 1 .. Before(s)
  BY <1>1 DEF SchemaFits, Versions
<1>3. /\ job[s].cmd = "up" => at[s] \in 1 .. Newest
      /\ job[s].cmd = "down" => at[s] \in 0 .. Newest - 1
  BY <1>1, MigrationsAssumption DEF JobFits, Under
<1>4. CASE RunUp(s) /\ ~Builds(s)
  <2>1. End(s, "failed") /\ UNCHANGED <<version, dirty, applied, byHand>>
    BY <1>1, <1>4 DEF RunUp
  <2> QED
    BY <1>1, <2>1, SameVersion, EndMigrations DEF schemaVars
<1>5. ASSUME applied' \subseteq 1 .. Newest,
             byHand \subseteq {"underclaim"} => applied \subseteq applied',
             Honest => 1 .. at[s] \subseteq applied',
             Exact => applied' = 1 .. at[s],
             Go(s, "run", "clean"), UNCHANGED <<lock, job, at>>
      PROVE  MigrationsInv'
  <2>1. /\ step'[s] = "clean" /\ step' = [step EXCEPT ![s] = step'[s]]
        /\ \A t \in Sessions : lock' = t <=> step'[t] \in Critical
    BY <1>5 DEF Go, Critical
  <2>2. JobFits(s)' /\ SchemaFits(s)'
    BY <1>1, <1>2, <1>5, <2>1 DEF JobFits, SchemaFits, Under, Honest, Exact
  <2>3. VersionFits'
    <3>1. Honest => 1 .. at[s] - 1 \subseteq applied'
      BY <1>2, <1>5
    <3> QED
      BY <1>1, <1>2, <3>1 DEF VersionFits, CleanMeansComplete, DirtyLacksOne, Honest
  <2> QED
    BY <1>1, <1>5, <2>1, <2>2, <2>3, GoMigrations DEF SessionSteps, Critical
<1>6. CASE RunUp(s) /\ Builds(s)
  <2>1. /\ job[s].cmd = "up" /\ applied' = applied \cup {at[s]}
        /\ 1 .. at[s] - 1 \subseteq applied
        /\ Go(s, "run", "clean") /\ UNCHANGED <<lock, job, at>>
    BY <1>6 DEF RunUp, Builds
  <2>2. Exact => applied' = 1 .. at[s]
    BY <1>2, <1>3, <2>1 DEF Before
  <2>3. at[s] \in 1 .. Newest /\ Newest \in Nat
    BY <1>3, <2>1, MigrationsAssumption
  <2>4. 1 .. at[s] = (1 .. at[s] - 1) \cup {at[s]}
    BY <2>3
  <2>5. 1 .. at[s] \subseteq applied'
    BY <2>1, <2>4
  <2>6. applied' \subseteq 1 .. Newest
    BY <2>1, <2>3
  <2> QED
    BY <1>5, <2>1, <2>2, <2>5, <2>6
<1>7. CASE RunDown(s)
  <2>1. /\ job[s].cmd = "down" /\ applied' = applied \ (at[s] + 1 .. Newest)
        /\ Go(s, "run", "clean") /\ UNCHANGED <<lock, job, at>>
    BY <1>7 DEF RunDown
  <2>2. "down" \in byHand
    BY <2>1 DEF JobFits
  <2>3. Before(s) = at[s] + 1 /\ at[s] + 1 <= Newest /\ Newest \in Nat
    BY <1>3, <2>1, MigrationsAssumption DEF Before
  <2>4. Honest => 1 .. at[s] \subseteq applied'
    BY <1>2, <2>1, <2>3
  <2>5. Exact => applied' = 1 .. at[s]
    BY <1>2, <2>1, <2>3
  <2> QED
    BY <1>5, <2>1, <2>2, <2>4, <2>5
<1> QED
  BY <1>4, <1>6, <1>7 DEF Run, RunUp

LEMMA CleanFits ==
  ASSUME MigrationsInv, NEW s \in Sessions, Clean(s)
  PROVE  MigrationsInv'
<1> USE DEF MigrationsInv, MigrationsTypeOK
<1>1. /\ version' = at[s] /\ dirty' = FALSE /\ step[s] = "clean"
      /\ UNCHANGED <<applied, byHand>> /\ at[s] \in Versions /\ at[s] \in Int
      /\ job[s].cmd \in {"up", "down"} /\ Latest[s] \in 1 .. Newest
  BY MigrationsAssumption DEF Clean, Versions, JobFits, Under
<1>2. VersionFits'
  BY <1>1 DEF VersionFits, CleanMeansComplete, DirtyLacksOne, SchemaFits, Honest, Exact
<1>3. CASE HasNext(s, at[s]) /\ (job[s].cmd = "up" \/ job[s].n > 1)
  <2>1. /\ at' = [at EXCEPT ![s] = Beyond(s, at[s])]
        /\ job' = [job EXCEPT ![s].n = IF job[s].n > 0 THEN job[s].n - 1 ELSE 0]
        /\ step' = [step EXCEPT ![s] = "mark"] /\ UNCHANGED lock
    BY <1>3 DEF Clean, Go
  <2>2. job'[s] \in Jobs /\ job'[s].cmd = job[s].cmd
    <3>1. job[s] \in Jobs
      OBVIOUS
    <3>2. job'[s].cmd = job[s].cmd
      BY <2>1, <3>1, JobFields
    <3>3. job'[s].n = IF job[s].n > 0 THEN job[s].n - 1 ELSE 0
      BY <2>1, <3>1, JobFields
    <3>4. job'[s] = [cmd |-> job[s].cmd, n |-> job'[s].n]
      BY <2>1, <3>1, <3>3, JobFields
    <3>5. CASE job[s].cmd = "up"
      <4>1. job'[s].n = 0
        BY <3>1, <3>3, <3>5, JobFields
      <4> QED
        BY <3>4, <3>5, <4>1 DEF Jobs, NoJob, Job
    <3>6. CASE job[s].cmd = "down"
      <4>1. job[s].n \in Versions /\ job[s].n > 1
        BY <1>3, <3>1, <3>6, JobFields
      <4>2. job'[s].n \in 1 .. Newest
        BY <3>3, <4>1, MigrationsAssumption DEF Versions
      <4> QED
        BY <3>4, <3>6, <3>2, <4>2 DEF Jobs, Job
    <3> QED
      BY <1>1, <3>2, <3>5, <3>6
  <2>3. at'[s] = Beyond(s, at[s]) /\ step'[s] = "mark"
    BY <2>1
  <2>4. /\ job[s].cmd = "up" => at'[s] \in 1 .. Latest[s]
        /\ job[s].cmd = "down" => at'[s] \in 0 .. Newest - 1
    BY <1>1, <1>3, <2>3, MigrationsAssumption DEF HasNext, Beyond, UpTo, Versions
  <2>5. at'[s] \in Versions
    BY <1>1, <2>4, MigrationsAssumption DEF Versions
  <2>6. JobFits(s)'
    BY <1>1, <2>2, <2>3, <2>4 DEF JobFits, Under
  <2>7. SchemaFits(s)'
    <3>1. Beyond(s, at[s]) = IF job'[s].cmd = "up" THEN at[s] + 1 ELSE at[s] - 1
      BY <2>2 DEF Beyond
    <3> QED
      BY <1>1, <2>3, <3>1 DEF SchemaFits, Beyond
  <2>8. /\ step' = [step EXCEPT ![s] = step'[s]] /\ at' \in [Sessions -> Versions]
        /\ job' \in [Sessions -> Jobs]
        /\ \A t \in Sessions \ {s} : at'[t] = at[t] /\ job'[t] = job[t]
        /\ \A t \in Sessions : lock' = t <=> step'[t] \in Critical
    <3>1. job' = [job EXCEPT ![s] = job'[s]]
      BY <2>1
    <3> QED
      BY <1>1, <2>1, <2>2, <2>5, <3>1 DEF Critical
  <2> QED
    BY <1>1, <1>2, <2>3, <2>6, <2>7, <2>8, GoMigrations DEF SessionSteps, Critical
<1>4. CASE ~(HasNext(s, at[s]) /\ (job[s].cmd = "up" \/ job[s].n > 1))
  <2>1. End(s, "done")
    BY <1>4 DEF Clean
  <2>2. byHand \subseteq {"underclaim"} => 1 .. Latest[s] \subseteq applied
    <3> SUFFICES ASSUME byHand \subseteq {"underclaim"}
                 PROVE  1 .. Latest[s] \subseteq applied
      OBVIOUS
    <3>1. job[s].cmd = "up" /\ at[s] \in 1 .. Latest[s]
      BY <1>1 DEF JobFits, Under
    <3>2. at[s] = Latest[s]
      BY <1>1, <1>4, <3>1 DEF HasNext, UpTo
    <3> QED
      BY <1>1, <3>2 DEF SchemaFits, Honest
  <2> QED
    BY <1>1, <1>2, <2>1, <2>2, EndMigrations DEF Critical
<1> QED
  BY <1>3, <1>4

LEMMA ForceFits ==
  ASSUME MigrationsInv, NEW s \in Sessions, ForceVersion(s)
  PROVE  MigrationsInv'
<1> USE DEF MigrationsInv, MigrationsTypeOK
<1>1. /\ End(s, "done") /\ UNCHANGED applied /\ dirty' = FALSE
      /\ version' = job[s].n /\ step[s] = "version" /\ job[s].cmd = "force"
      /\ byHand' = byHand \cup Claim(job[s].n)
  BY DEF ForceVersion
<1>2. version' \in Versions /\ s \in Operators
  BY <1>1, JobFields DEF JobFits
<1>3. Claim(job[s].n) \subseteq {"overclaim", "underclaim"}
  BY DEF Claim
<1>4. VersionFits'
  <2>1. Honest' => 1 .. version' \subseteq applied
    BY <1>1 DEF Claim, Honest
  <2>2. Exact' => applied = 1 .. version'
    BY <1>1 DEF Claim, Exact
  <2> QED
    BY <1>1, <2>1, <2>2
    DEF VersionFits, CleanMeansComplete, DirtyLacksOne, Honest, Exact
<1> QED
  BY <1>1, <1>2, <1>3, <1>4, EndMigrations DEF Critical

LEMMA AskFits ==
  ASSUME MigrationsInv, NEW s \in Sessions, NEW j \in Jobs, Ask(s, j),
         s \in Operators \/ j = NoJob
  PROVE  MigrationsInv'
<1> USE DEF MigrationsInv, MigrationsTypeOK
<1>1. /\ step[s] = "idle" /\ step' = [step EXCEPT ![s] = "connect"]
      /\ job' = [job EXCEPT ![s] = j] /\ byHand' = byHand \cup ({j.cmd} \cap {"down"})
      /\ UNCHANGED <<version, dirty, applied, lock, at>>
  BY DEF Ask, schemaVars
<1>2. /\ byHand \subseteq byHand' /\ byHand' \subseteq {"down", "overclaim", "underclaim"}
      /\ byHand' \subseteq byHand \cup {"down"}
  BY <1>1
<1>3. (Honest' <=> Honest) /\ (Exact' <=> Exact)
  BY <1>2 DEF Honest, Exact
<1>4. MigrationsTypeOK'
  <2>1. \A t \in Sessions : lock' = t <=> step'[t] \in Critical
    BY <1>1 DEF Critical
  <2> QED
    BY <1>1, <1>2, <2>1 DEF SessionSteps
<1>5. VersionFits'
  BY <1>1, <1>3
  DEF VersionFits, CleanMeansComplete, DirtyLacksOne, Honest, Exact
<1>6. ASSUME NEW t \in Sessions PROVE JobFits(t)' /\ SchemaFits(t)' /\ DoneFits(t)'
  <2>1. CASE t = s
    BY <1>1, <2>1, JobFields DEF JobFits, SchemaFits, DoneFits, Under
  <2>2. CASE t # s
    <3>1. step'[t] = step[t] /\ job'[t] = job[t] /\ at'[t] = at[t]
      BY <1>1, <2>2
    <3>2. UNCHANGED <<version, dirty, applied>>
      BY <1>1
    <3>3. JobFits(t)'
      BY <1>2, <3>1 DEF JobFits, Under
    <3>4. SchemaFits(t)'
      BY <1>3, <3>1, <3>2 DEF SchemaFits, Before, Beyond
    <3>5. DoneFits(t)'
      BY <1>2, <3>1, <3>2 DEF DoneFits
    <3> QED
      BY <3>3, <3>4, <3>5
  <2> QED
    BY <2>1, <2>2
<1> QED
  BY <1>4, <1>5, <1>6

LEMMA MigrationsStutter == MigrationsInv /\ UNCHANGED migrationVars => MigrationsInv'
<1> SUFFICES ASSUME MigrationsInv, UNCHANGED migrationVars PROVE MigrationsInv'
  OBVIOUS
<1>1. UNCHANGED <<version, dirty, applied, lock, step, job, at, byHand>>
  BY DEF migrationVars, schemaVars
<1> QED
  BY <1>1
  DEF MigrationsInv, MigrationsTypeOK, VersionFits, CleanMeansComplete, DirtyLacksOne,
      JobFits, SchemaFits, DoneFits, Before, Beyond, Honest, Exact

LEMMA SessionMigrations ==
  ASSUME MigrationsInv, NEW s \in Sessions, Session(s)
  PROVE  MigrationsInv'
BY ConnectAcquire, StopEarly, ReadVersionFits, MarkFits, RunFits, CleanFits, ForceFits
DEF Session, Lose, Waited, Worked, Wait, Work

(* A session that has ended takes no step, so that what a replica has       *)
(* started with stays.                                                      *)
LEMMA SessionSpares ==
  ASSUME MigrationsInv, NEW s \in Sessions, Session(s)
  PROVE  /\ step[s] # "done"
         /\ \A t \in Sessions \ {s} : step'[t] = step[t]
<1>1. step[s] # "done"
  BY DEF Session, Lose, Waited, Worked, Wait, Work, Connect, Acquire, GiveUp, ReadVersion,
         Mark, Run, RunUp, RunDown, Clean, ForceVersion, Break, Go, Critical
<1>2. \E x : step' = [step EXCEPT ![s] = x]
  BY DEF Session, Lose, Waited, Worked, Wait, Work, Connect, Acquire, GiveUp, ReadVersion,
         Mark, Run, RunUp, RunDown, Clean, ForceVersion, Break, Go, End
<1> QED
  BY <1>1, <1>2 DEF MigrationsInv, MigrationsTypeOK

-----------------------------------------------------------------------------
(* Processes *)

LEMMA ReplicasAreSessions == Replicas \subseteq Sessions /\ Replicas \cap Operators = {}
BY MigrationsAssumption DEF Sessions

LEMMA InitInv == Init => LifecycleInv
<1> SUFFICES ASSUME Init PROVE LifecycleInv
  OBVIOUS
<1> USE DEF Init
<1>1. MigrationsInv
  BY InitMigrations
<1>2. LifecycleTypeOK
  BY <1>1, LifecycleAssumption DEF LifecycleTypeOK, MigrationsInv, MainSteps
<1>3. ASSUME NEW r \in Replicas PROVE ReplicaFits(r)
  BY DEF ReplicaFits, Started
<1> QED
  BY <1>1, <1>2, <1>3 DEF LifecycleInv

LEMMA FaultCounted == LifecycleInv /\ Fault => faults' \in 0 .. MaxFaults
BY LifecycleAssumption DEF LifecycleInv, LifecycleTypeOK, Fault

(* The other replicas are as they were. *)
Spared(r) ==
  \A q \in Replicas \ {r} :
    /\ main'[q] = main[q] /\ backend'[q] = backend[q] /\ listening'[q] = listening[q]
    /\ busy'[q] = busy[q] /\ cleaner'[q] = cleaner[q] /\ pool'[q] = pool[q]
    /\ gaveUp'[q] = gaveUp[q] /\ step'[q] = step[q]

LEMMA StepInv ==
  ASSUME LifecycleInv, NEW r \in Replicas, MigrationsInv', LifecycleTypeOK',
         Spared(r), ReplicaFits(r)'
  PROVE  LifecycleInv'
<1>1. ASSUME NEW q \in Replicas, q # r PROVE ReplicaFits(q)'
  <2>1. ReplicaFits(q)
    BY DEF LifecycleInv
  <2> QED
    BY <1>1, <2>1 DEF ReplicaFits, Spared
<1> QED
  BY <1>1 DEF LifecycleInv

LEMMA ExitInv ==
  ASSUME LifecycleInv, NEW r \in Replicas, Exit(r), faults' \in 0 .. MaxFaults
  PROVE  LifecycleInv'
<1> USE ReplicasAreSessions
<1>1. MigrationsInv'
  <2>1. /\ End(r, "idle") /\ UNCHANGED schemaVars /\ UNCHANGED <<version, dirty, applied, byHand>>
    BY DEF Exit, schemaVars
  <2>2. VersionFits' /\ version' \in Versions /\ dirty' \in BOOLEAN /\ MigrationsInv
    BY <2>1, SameVersion DEF LifecycleInv, MigrationsInv, MigrationsTypeOK
  <2>3. byHand' \subseteq {"down", "overclaim", "underclaim"}
    BY <2>1 DEF LifecycleInv, MigrationsInv, MigrationsTypeOK
  <2> QED
    BY <2>1, <2>2, <2>3, EndMigrations
<1>2. LifecycleTypeOK'
  BY <1>1 DEF LifecycleInv, LifecycleTypeOK, MigrationsInv, Exit, MainSteps
<1>3. Spared(r) /\ ReplicaFits(r)'
  BY DEF LifecycleInv, LifecycleTypeOK, MigrationsTypeOK, Exit, End, Spared, ReplicaFits, Started
<1> QED
  BY <1>1, <1>2, <1>3, StepInv

(* A step of a process alone, the schema and the sessions apart. *)
ProcessStep(r) ==
  \/ Boot(r) \/ StartMemory(r) \/ StartPostgres(r) \/ Accept(r) \/ Respond(r)
  \/ Tick(r) \/ Quit(r) \/ Swept(r) \/ Signal(r) \/ ServerFails(r)
  \/ Shutdown(r) \/ ShutdownReturns(r) \/ CloseCache(r) \/ Cancel(r) \/ ClosePool(r)

LEMMA ProcessInv ==
  ASSUME LifecycleInv, NEW r \in Replicas, ProcessStep(r)
  PROVE  LifecycleInv'
<1> USE LifecycleAssumption, ReplicasAreSessions
    DEF LifecycleTypeOK, MainSteps, NoFault, Started, ReplicaFits, Spared
<1>1. UNCHANGED migrationVars /\ UNCHANGED step
  BY DEF ProcessStep, Boot, StartMemory, StartPostgres, Accept, Respond, Tick, Quit, Swept, Cleaner,
         Signal, ServerFails, Shutdown, ShutdownReturns, CloseCache, Cancel, ClosePool, migrationVars
<1>2. MigrationsInv' /\ MigrationsTypeOK'
  BY <1>1, MigrationsStutter DEF LifecycleInv, MigrationsInv
<1>3. LifecycleTypeOK /\ ReplicaFits(r)
  BY DEF LifecycleInv
<1>4. SUFFICES LifecycleTypeOK' /\ Spared(r) /\ ReplicaFits(r)'
  BY <1>2, StepInv
<1>5. CASE Boot(r)
  <2>1. LifecycleTypeOK'
    BY <1>1, <1>2, <1>3, <1>5 DEF Boot
  <2>2. Spared(r) /\ ReplicaFits(r)'
    BY <1>1, <1>3, <1>5 DEF Boot
  <2> QED
    BY <2>1, <2>2
<1>6. CASE StartMemory(r)
  <2>1. LifecycleTypeOK'
    BY <1>1, <1>2, <1>3, <1>6 DEF StartMemory, Serving
  <2>2. Spared(r) /\ ReplicaFits(r)'
    BY <1>1, <1>3, <1>6 DEF StartMemory, Serving
  <2> QED
    BY <2>1, <2>2
<1>7. CASE StartPostgres(r)
  <2>1. LifecycleTypeOK'
    BY <1>1, <1>2, <1>3, <1>7 DEF StartPostgres, Serving, Migrated
  <2>2. Spared(r) /\ ReplicaFits(r)'
    BY <1>1, <1>3, <1>7 DEF StartPostgres, Serving, Migrated
  <2> QED
    BY <2>1, <2>2
<1>8. CASE Accept(r)
  <2>1. LifecycleTypeOK'
    BY <1>1, <1>2, <1>3, <1>8 DEF Accept
  <2>2. Spared(r) /\ ReplicaFits(r)'
    BY <1>1, <1>3, <1>8 DEF Accept
  <2> QED
    BY <2>1, <2>2
<1>9. CASE Respond(r)
  <2>1. LifecycleTypeOK'
    BY <1>1, <1>2, <1>3, <1>9 DEF Respond
  <2>2. Spared(r) /\ ReplicaFits(r)'
    BY <1>1, <1>3, <1>9 DEF Respond
  <2> QED
    BY <2>1, <2>2
<1>10. CASE Signal(r)
  <2>1. LifecycleTypeOK'
    BY <1>1, <1>2, <1>3, <1>10 DEF Signal
  <2>2. Spared(r) /\ ReplicaFits(r)'
    BY <1>1, <1>3, <1>10 DEF Signal
  <2> QED
    BY <2>1, <2>2
<1>11. CASE ServerFails(r)
  <2>1. LifecycleTypeOK'
    BY <1>1, <1>2, <1>3, <1>11 DEF ServerFails, Fault
  <2>2. Spared(r) /\ ReplicaFits(r)'
    BY <1>1, <1>3, <1>11 DEF ServerFails, Fault
  <2> QED
    BY <2>1, <2>2
<1>12. CASE Shutdown(r)
  <2>1. LifecycleTypeOK'
    BY <1>1, <1>2, <1>3, <1>12 DEF Shutdown, To, StillListening
  <2>2. Spared(r) /\ ReplicaFits(r)'
    BY <1>1, <1>3, <1>12 DEF Shutdown, To, StillListening
  <2> QED
    BY <2>1, <2>2
<1>13. CASE ShutdownReturns(r)
  <2>1. LifecycleTypeOK'
    BY <1>1, <1>2, <1>3, <1>13 DEF ShutdownReturns, To
  <2>2. Spared(r) /\ ReplicaFits(r)'
    BY <1>1, <1>3, <1>13 DEF ShutdownReturns, To
  <2> QED
    BY <2>1, <2>2
<1>14. CASE CloseCache(r)
  <2>1. LifecycleTypeOK'
    BY <1>1, <1>2, <1>3, <1>14 DEF CloseCache, To
  <2>2. Spared(r) /\ ReplicaFits(r)'
    BY <1>1, <1>3, <1>14 DEF CloseCache, To
  <2> QED
    BY <2>1, <2>2
<1>15. CASE Cancel(r)
  <2>1. LifecycleTypeOK'
    BY <1>1, <1>2, <1>3, <1>15 DEF Cancel, To
  <2>2. Spared(r) /\ ReplicaFits(r)'
    BY <1>1, <1>3, <1>15 DEF Cancel, To
  <2> QED
    BY <2>1, <2>2
<1>16. CASE ClosePool(r)
  <2>1. LifecycleTypeOK'
    BY <1>1, <1>2, <1>3, <1>16 DEF ClosePool, To, CleanerDone
  <2>2. Spared(r) /\ ReplicaFits(r)'
    BY <1>1, <1>3, <1>16 DEF ClosePool, To, CleanerDone
  <2> QED
    BY <2>1, <2>2
<1>17. CASE Tick(r) \/ Quit(r) \/ Swept(r)
  <2>1. PICK next \in {"sleep", "sweep", "gone"} :
          /\ cleaner[r] \in {"sleep", "sweep"}
          /\ cleaner' = [cleaner EXCEPT ![r] = next]
          /\ UNCHANGED <<main, backend, signal, listening, busy, pool, gaveUp, boots, faults>>
    BY <1>17 DEF Tick, Quit, Swept, Cleaner
  <2>2. LifecycleTypeOK'
    BY <1>1, <1>2, <1>3, <2>1
  <2>3. Spared(r) /\ ReplicaFits(r)'
    BY <1>1, <1>3, <2>1
  <2> QED
    BY <2>2, <2>3
<1> QED
  BY <1>5, <1>6, <1>7, <1>8, <1>9, <1>10, <1>11, <1>12, <1>13, <1>14, <1>15, <1>16, <1>17 DEF ProcessStep

LEMMA PingInv ==
  ASSUME LifecycleInv, NEW r \in Replicas, Ping(r)
  PROVE  LifecycleInv'
<1> USE ReplicasAreSessions
    DEF LifecycleTypeOK, MainSteps, NoFault, Started, ReplicaFits, Spared, Ping, To
<1>1. LifecycleTypeOK /\ ReplicaFits(r) /\ MigrationsInv
  BY DEF LifecycleInv
<1>2. MigrationsInv' /\ MigrationsTypeOK'
  BY <1>1, AskFits, JobFields DEF MigrationsInv
<1>3. LifecycleTypeOK'
  BY <1>1, <1>2
<1>4. Spared(r)
  BY <1>1 DEF Ask, MigrationsTypeOK
<1>5. ReplicaFits(r)'
  BY <1>1
<1> QED
  BY <1>2, <1>3, <1>4, <1>5, StepInv

LEMMA MainInv ==
  ASSUME LifecycleInv, NEW r \in Replicas, Main(r) \/ Kill(r)
  PROVE  LifecycleInv'
<1>1. CASE PingFails(r) \/ StartFails(r) \/ Return(r) \/ Kill(r)
  <2>1. Exit(r)
    BY <1>1 DEF PingFails, StartFails, Return, Kill
  <2>2. UNCHANGED faults \/ Fault
    BY <1>1 DEF PingFails, StartFails, Return, Kill
  <2>3. faults' \in 0 .. MaxFaults
    BY <2>2, FaultCounted DEF LifecycleInv, LifecycleTypeOK
  <2> QED
    BY <2>1, <2>3, ExitInv
<1>2. CASE Ping(r)
  BY <1>2, PingInv
<1>3. CASE ProcessStep(r)
  BY <1>3, ProcessInv
<1> QED
  BY <1>1, <1>2, <1>3 DEF Main, ProcessStep

(* Whoever works on the schema leaves the processes alone. *)
LEMMA SchemaInv ==
  ASSUME LifecycleInv, NEW s \in Sessions, UNCHANGED replicaVars, UNCHANGED boots,
         Session(s) \/ (s \in Operators /\ Operate(s))
  PROVE  LifecycleInv'
<1> USE ReplicasAreSessions
<1>1. MigrationsInv /\ LifecycleTypeOK
  BY DEF LifecycleInv
<1>2. MigrationsInv'
  BY <1>1, SessionMigrations, AskFits DEF Operate
<1>3. faults' \in 0 .. MaxFaults
  <2>1. Fault \/ UNCHANGED faults
    BY DEF Session, Lose, Waited, Worked, NoFault, Operate
  <2> QED
    BY <1>1, <2>1, FaultCounted DEF LifecycleTypeOK
<1>4. UNCHANGED <<main, backend, signal, listening, busy, cleaner, pool, gaveUp>>
  BY DEF replicaVars
<1>5. LifecycleTypeOK'
  BY <1>1, <1>2, <1>3, <1>4 DEF LifecycleTypeOK, MigrationsInv
<1>6. ASSUME NEW r \in Replicas, step[r] = "done" PROVE step'[r] = "done"
  <2>1. CASE Session(s)
    BY <1>1, <1>6, <2>1, SessionSpares
  <2>2. CASE s \in Operators /\ Operate(s)
    <3>1. s # r /\ step' = [step EXCEPT ![s] = "connect"]
      BY <2>2 DEF Operate, Ask
    <3> QED
      BY <1>6, <3>1
  <2> QED
    BY <2>1, <2>2
<1>7. ASSUME NEW r \in Replicas PROVE ReplicaFits(r)'
  <2>1. ReplicaFits(r)
    BY DEF LifecycleInv
  <2> QED
    BY <1>4, <1>6, <2>1 DEF ReplicaFits
<1> QED
  BY <1>2, <1>5, <1>7 DEF LifecycleInv

LEMMA NextInv == LifecycleInv /\ [Next]_vars => LifecycleInv'
<1> SUFFICES ASSUME LifecycleInv, [Next]_vars PROVE LifecycleInv'
  OBVIOUS
<1>1. ASSUME NEW r \in Replicas,
             Boot(r) \/ Main(r) \/ Accept(r) \/ Respond(r) \/ Tick(r) \/ Quit(r) \/ Swept(r)
               \/ Signal(r) \/ ServerFails(r) \/ Kill(r)
      PROVE  LifecycleInv'
  BY <1>1, MainInv, ProcessInv DEF ProcessStep
<1>2. ASSUME NEW s \in Sessions, Session(s) /\ UNCHANGED replicaVars
      PROVE  LifecycleInv'
  <2>1. UNCHANGED boots
    BY <1>2 DEF Session, Lose, Waited, Worked, NoFault
  <2> QED
    BY <1>2, <2>1, SchemaInv
<1>3. ASSUME NEW s \in Operators, Operate(s) /\ UNCHANGED replicaVars
      PROVE  LifecycleInv'
  <2>1. UNCHANGED boots /\ s \in Sessions
    BY <1>3 DEF Operate, Sessions
  <2> QED
    BY <1>3, <2>1, SchemaInv
<1>4. CASE UNCHANGED vars
  <2>1. /\ UNCHANGED migrationVars /\ UNCHANGED step
        /\ UNCHANGED <<main, backend, signal, listening, busy, cleaner, pool, gaveUp, boots, faults>>
    BY <1>4 DEF vars, replicaVars, migrationVars
  <2>2. MigrationsInv'
    BY <2>1, MigrationsStutter DEF LifecycleInv
  <2>3. LifecycleTypeOK'
    BY <2>1, <2>2 DEF LifecycleInv, LifecycleTypeOK, MigrationsInv
  <2>4. \A r \in Replicas : ReplicaFits(r)'
    BY <2>1 DEF LifecycleInv, ReplicaFits
  <2> QED
    BY <2>2, <2>3, <2>4 DEF LifecycleInv
<1> QED
  BY <1>1, <1>2, <1>3, <1>4 DEF Next

LEMMA InvAlways == Spec => []LifecycleInv
BY InitInv, NextInv, PTL DEF Spec

-----------------------------------------------------------------------------
(* Theorems *)

(* The types of processes, sessions and schema: whoever works on the schema *)
(* holds the advisory lock, and nobody who has ended does.                  *)
THEOREM LifecycleTypeCorrect == Spec => []LifecycleTypeOK
<1>1. LifecycleInv => LifecycleTypeOK
  BY DEF LifecycleInv
<1> QED
  BY <1>1, InvAlways, PTL

(* RunMigrations and cmd/migrate, broken off anywhere, never leave a clean  *)
(* version that says less or more than what has been applied.               *)
THEOREM CleanMeansCompleteSafe == Spec => []CleanMeansComplete
<1>1. LifecycleInv => CleanMeansComplete
  BY DEF LifecycleInv, MigrationsInv, VersionFits
<1> QED
  BY <1>1, InvAlways, PTL

(* A migration that broke off, up or down, has left everything below its    *)
(* version: whoever forces the version below it does not lie.               *)
THEOREM DirtyLacksOneSafe == Spec => []DirtyLacksOne
<1>1. LifecycleInv => DirtyLacksOne
  BY DEF LifecycleInv, MigrationsInv, VersionFits
<1> QED
  BY <1>1, InvAlways, PTL

(* Every handler of every replica finds the schema its binary was built for. *)
THEOREM WholeSchemaServedSafe == Spec => []WholeSchemaServed
<1>1. LifecycleInv => WholeSchemaServed
  <2> SUFFICES ASSUME LifecycleInv, NEW r \in Replicas, backend[r] = "postgres",
                      main[r] \notin {"off", "ping", "migrate"},
                      byHand \subseteq {"underclaim"}
               PROVE  1 .. Latest[r] \subseteq applied
    BY DEF WholeSchemaServed
  <2>1. main[r] \in Started
    BY DEF LifecycleInv, LifecycleTypeOK, MainSteps, Started
  <2>2. step[r] = "done"
    BY <2>1 DEF LifecycleInv, ReplicaFits
  <2> QED
    BY <2>2, ReplicasAreSessions DEF LifecycleInv, MigrationsInv, DoneFits
<1> QED
  BY <1>1, InvAlways, PTL

(* main closes what the handlers use after them, or after Shutdown gave up. *)
THEOREM OpenWhileBusySafe == Spec => []OpenWhileBusy
<1>1. LifecycleInv => OpenWhileBusy
  BY DEF LifecycleInv, ReplicaFits, OpenWhileBusy
<1> QED
  BY <1>1, InvAlways, PTL

(* Close waits for the clean-up goroutine before it closes the pool. *)
THEOREM SweepsOpenPoolSafe == Spec => []SweepsOpenPool
<1>1. LifecycleInv => SweepsOpenPool
  <2> SUFFICES ASSUME LifecycleInv, NEW r \in Replicas, backend[r] = "postgres",
                      cleaner[r] \in {"sleep", "sweep"}
               PROVE  pool[r]
    BY DEF SweepsOpenPool
  <2>1. ReplicaFits(r)
    BY DEF LifecycleInv
  <2> QED
    BY <2>1 DEF ReplicaFits, Started
<1> QED
  BY <1>1, InvAlways, PTL
=============================================================================
