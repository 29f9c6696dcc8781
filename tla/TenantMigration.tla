---------------------------- MODULE TenantMigration ----------------------------
(***************************************************************************)
(* The migration of an active Tenant to the schema of a new image: a fixed *)
(* list of steps behind a recovery gate, each done on the host and then    *)
(* recorded in the Control Store, by memoryctl processes that nothing      *)
(* keeps apart. Around it are what depends on the schema: the services,    *)
(* which check it when they start, the backups, which suspend the Tenant   *)
(* and name the schema in their manifests, and restore drills.             *)
(*                                                                         *)
(* Two revisions stand for the heads that the two images are built for; a  *)
(* recovery point is published with its receipt or not at all.             *)
(***************************************************************************)
EXTENDS Naturals, Sequences

CONSTANTS
    Runners,     \* memoryctl migration processes
    Services,    \* gateways and workers
    MaxBackups,  \* bound: backups taken
    MaxDays,     \* bound: times at which all recovery points grow too old
    MaxFaults    \* bound: failing steps and backups, crashes

ASSUME MigrationAssumption == MaxBackups \in Nat /\ MaxDays \in Nat /\ MaxFaults \in Nat

\* ACTIVE_MIGRATION_STEPS
Steps == <<"verify_recovery_point", "migrate_postgres", "migrate_neo4j",
           "verify_neo4j_health", "verify_routing", "verify_isolation">>
Last == Len(Steps)

Old == 1
New == 2
Revisions == {Old, New}
Point == [schema : Revisions, label : Revisions, fresh : BOOLEAN]

VARIABLES
    image,      \* the revision the installed image requires
    pg, graph,  \* the revisions of the Tenant's databases
    active,     \* control.tenants.active, and a healthy route
    mig,        \* the row of control.active_tenant_migrations
    pc, have,   \* each runner: next call, the steps its state lists
    service,    \* each service: "down", or how it started
    backup, dump,  \* the backup in progress and what it has dumped
    points,     \* published recovery points
    drill,      \* the recovery points that drills have loaded into a target
    taken, days, faults

stores   == <<image, pg, graph, active>>
runners  == <<pc, have>>
recovery == <<backup, dump, points, drill, taken, days>>
vars     == <<stores, mig, runners, service, recovery, faults>>

TypeOK ==
    /\ {image, pg, graph} \subseteq Revisions /\ active \in BOOLEAN
    /\ mig \in [status : {"none", "applying", "failed", "completed"}, done : 0..Last]
    /\ pc \in [Runners -> {"idle", "start", "resume", "route", "run", "mark", "fail"}]
    /\ have \in [Runners -> 0..Last]
    /\ service \in [Services -> {"down", "verified", "unverified"}]
    /\ backup \in {"idle", "suspended", "dumped"} /\ dump \in Revisions
    /\ points \subseteq Point /\ drill \subseteq Point
    /\ taken \in 0..MaxBackups /\ days \in 0..MaxDays /\ faults \in 0..MaxFaults

Init ==
    /\ image = Old /\ pg = Old /\ graph = Old /\ active = TRUE
    /\ mig = [status |-> "none", done |-> 0]
    /\ pc = [r \in Runners |-> "idle"] /\ have = [r \in Runners |-> 0]
    /\ service = [s \in Services |-> "down"]
    /\ backup = "idle" /\ dump = Old /\ points = {} /\ drill = {}
    /\ taken = 0 /\ days = 0 /\ faults = 0

Fault == faults < MaxFaults /\ faults' = faults + 1

-----------------------------------------------------------------------------
(* The migration *)

Goto(r, next) == pc' = [pc EXCEPT ![r] = next]

\* The command ends, with or without an exception.
End(r) == Goto(r, "idle") /\ have' = [have EXCEPT ![r] = 0]

\* apply: a healthy route and no row of this migration; a completed one is returned,
\* any other is a conflict.
BeginApply(r) ==
    /\ pc[r] = "idle" /\ image = New /\ active /\ mig.status = "none"
    /\ Goto(r, "start")
    /\ UNCHANGED <<stores, mig, have, service, recovery, faults>>

\* start inserts the row of an active Tenant; a row that came first is a conflict.
Start(r) ==
    /\ pc[r] = "start"
    /\ IF active /\ mig.status = "none"
       THEN mig' = [status |-> "applying", done |-> 0] /\ Goto(r, "route") /\ UNCHANGED have
       ELSE End(r) /\ UNCHANGED mig
    /\ UNCHANGED <<stores, service, recovery, faults>>

BeginResume(r) ==
    /\ pc[r] = "idle" /\ active /\ mig.status \in {"applying", "failed"}
    /\ Goto(r, "resume")
    /\ UNCHANGED <<stores, mig, have, service, recovery, faults>>

\* resume, under a lock of the row. Nothing tells a runner that died from one that
\* is at work.
Resume(r) ==
    /\ pc[r] = "resume"
    /\ IF mig.status \in {"applying", "failed"}
       THEN /\ mig' = [mig EXCEPT !.status = "applying"]
            /\ have' = [have EXCEPT ![r] = mig.done] /\ Goto(r, "route")
       ELSE End(r) /\ UNCHANGED mig
    /\ UNCHANGED <<stores, service, recovery, faults>>

\* _run resolves the route once; a Tenant that was suspended ends the command and
\* leaves the row applying.
Route(r) ==
    /\ pc[r] = "route"
    /\ IF active THEN Goto(r, "run") /\ UNCHANGED have ELSE End(r)
    /\ UNCHANGED <<stores, mig, service, recovery, faults>>

\* Mutant: the gate accepts an empty evidence directory.
GateAlwaysOpen == TRUE

\* FilesystemMigrationRecoveryGate: a complete backup of this Tenant within the RPO.
GateOpen == \E p \in points : p.fresh

Ready(step) ==
    CASE step = "verify_recovery_point" -> GateOpen
      [] step = "verify_routing"        -> active
      [] OTHER                          -> TRUE

StepOf(r) == Steps[have[r] + 1]

\* The adapter's call; the migrations are idempotent and take no lock that a backup
\* would see.
ExecuteStep(r) ==
    /\ pc[r] = "run" /\ have[r] < Last
    /\ \/ /\ Ready(StepOf(r)) /\ Goto(r, "mark")
          /\ pg' = (IF StepOf(r) = "migrate_postgres" THEN image ELSE pg)
          /\ graph' = (IF StepOf(r) = "migrate_neo4j" THEN image ELSE graph)
          /\ UNCHANGED faults
       \/ ~Ready(StepOf(r)) /\ Goto(r, "fail") /\ UNCHANGED <<pg, graph, faults>>
       \/ Fault /\ Goto(r, "fail") /\ UNCHANGED <<pg, graph>>
    /\ UNCHANGED <<image, active, mig, have, service, recovery>>

\* _require_applying, and the step must be the row's next one.
Current(r) == mig.status = "applying" /\ mig.done = have[r]

\* mark_completed; its conflict ends the command.
MarkCompleted(r) ==
    /\ pc[r] = "mark"
    /\ IF Current(r)
       THEN /\ mig' = [mig EXCEPT !.done = @ + 1]
            /\ have' = [have EXCEPT ![r] = mig.done + 1] /\ Goto(r, "run")
       ELSE End(r) /\ UNCHANGED mig
    /\ UNCHANGED <<stores, service, recovery, faults>>

MarkFailed(r) ==
    /\ pc[r] = "fail"
    /\ mig' = IF Current(r) THEN [mig EXCEPT !.status = "failed"] ELSE mig
    /\ End(r)
    /\ UNCHANGED <<stores, service, recovery, faults>>

\* Mutant: a row with all its steps is left applying.
CompleteForgotten(r) ==
    /\ pc[r] = "run" /\ have[r] = Last
    /\ End(r) /\ UNCHANGED <<stores, mig, service, recovery, faults>>

\* complete
Complete(r) ==
    /\ pc[r] = "run" /\ have[r] = Last
    /\ mig' = IF Current(r) THEN [mig EXCEPT !.status = "completed"] ELSE mig
    /\ End(r)
    /\ UNCHANGED <<stores, service, recovery, faults>>

Crash(r) ==
    /\ pc[r] # "idle" /\ Fault
    /\ End(r)
    /\ UNCHANGED <<stores, mig, service, recovery>>

-----------------------------------------------------------------------------
(* Services *)

\* The operator installs the new image, for memoryctl and for every service at once
\* (deploy/README.md, "Upgrade the application image ... first").
Upgrade ==
    /\ image = Old /\ image' = New
    /\ service' = [s \in Services |-> "down"]
    /\ UNCHANGED <<pg, graph, active, mig, runners, recovery, faults>>

\* Mutant: a service that finds another schema starts all the same.
StartServiceAnyway(s) ==
    /\ service[s] = "down"
    /\ service' = [service EXCEPT ![s] = IF active THEN "verified" ELSE "unverified"]
    /\ UNCHANGED <<stores, mig, runners, recovery, faults>>

\* _require_platform_schemas: every Tenant with a route has exactly the image's
\* revision, or the process exits. A suspended Tenant has no route.
StartService(s) ==
    /\ service[s] = "down"
    /\ active => pg = image
    /\ service' = [service EXCEPT ![s] = IF active THEN "verified" ELSE "unverified"]
    /\ UNCHANGED <<stores, mig, runners, recovery, faults>>

StopService(s) ==
    /\ service[s] # "down" /\ service' = [service EXCEPT ![s] = "down"]
    /\ UNCHANGED <<stores, mig, runners, recovery, faults>>

-----------------------------------------------------------------------------
(* Recovery points *)

BackupEnter ==
    /\ backup = "idle" /\ active /\ taken < MaxBackups
    /\ backup' = "suspended" /\ active' = FALSE /\ taken' = taken + 1
    /\ UNCHANGED <<image, pg, graph, mig, runners, service, dump, points, drill, days, faults>>

BackupDump ==
    /\ backup = "suspended"
    /\ backup' = "dumped" /\ dump' = pg
    /\ UNCHANGED <<stores, mig, runners, service, points, drill, taken, days, faults>>

\* The Tenant is resumed whatever happened. The manifest's schema_version is the
\* installed image's constant, not what the dump holds.
BackupExit ==
    /\ \/ /\ backup = "dumped"
          /\ points' = points \cup {[schema |-> dump, label |-> image, fresh |-> TRUE]}
          /\ UNCHANGED faults
       \/ backup # "idle" /\ Fault /\ UNCHANGED points
    /\ backup' = "idle" /\ active' = TRUE
    /\ UNCHANGED <<image, pg, graph, mig, runners, service, dump, drill, taken, days>>

\* 24 hours pass.
Day ==
    /\ days < MaxDays /\ days' = days + 1
    /\ points' = {[p EXCEPT !.fresh = FALSE] : p \in points}
    /\ UNCHANGED <<stores, mig, runners, service, backup, dump, drill, taken, faults>>

\* HostRestoreOrchestrator._validate_request compares the manifest's versions with
\* those of the installed image, and the drill's resources are created and loaded.
StartDrill(p) ==
    /\ p \in points /\ p.label = image
    /\ drill' = drill \cup {p}
    /\ UNCHANGED <<stores, mig, runners, service, backup, dump, points, taken, days, faults>>

-----------------------------------------------------------------------------
Continue(r) ==
    \/ Start(r) \/ Resume(r) \/ Route(r) \/ ExecuteStep(r) \/ MarkCompleted(r) \/ MarkFailed(r)
    \/ Complete(r)

Next ==
    \/ \E r \in Runners : BeginApply(r) \/ BeginResume(r) \/ Continue(r) \/ Crash(r)
    \/ Upgrade \/ \E s \in Services : StartService(s) \/ StopService(s)
    \/ BackupEnter \/ BackupDump \/ BackupExit \/ Day
    \/ \E p \in Point : StartDrill(p)

Spec == Init /\ [][Next]_vars

\* A command and a backup that run go on; the operator takes backups and resumes.
FairSpec ==
    /\ Spec
    /\ \A r \in Runners : WF_vars(Continue(r))
    /\ WF_vars(\E r \in Runners : BeginResume(r))
    /\ WF_vars(BackupEnter) /\ WF_vars(BackupDump \/ BackupExit)

-----------------------------------------------------------------------------
(* Properties *)

\* What the row lists as done is in place, whichever of several runners did it.
RecordedIsMigrated ==
    /\ mig.done >= 2 => pg = New
    /\ mig.done >= 3 => graph = New
    /\ mig.status = "completed" => mig.done = Last

\* No database is changed before a recovery point of its old schema was published,
\* whoever resumes what another runner has begun.
MigratedIsRecoverable ==
    (pg = New \/ graph = New) => \E p \in points : p.schema = Old

\* A service that has seen the Tenant's schema never meets another one.
VerifiedIsServed ==
    \A s \in Services : service[s] = "verified" => pg = image

NoPointLeft == taken = MaxBackups /\ backup = "idle" /\ ~GateOpen /\ mig.done = 0

\* A migration that has begun completes, although steps fail, runners die or run at
\* once and backups suspend the Tenant, as long as recovery points can be taken.
MigrationCompletes ==
    mig.status \in {"applying", "failed"} ~> mig.status = "completed" \/ NoPointLeft

\* "supported store/schema versions ... are validated before Docker resources are
\* created": what a drill has loaded has the schema that was validated, which is also
\* the one its probe requires. It does not hold: README.md, "Known differences".
SupportedIsLoaded == \A p \in drill : p.schema = p.label
================================================================================
