-------------------------- MODULE TenantProvisioning --------------------------
(***************************************************************************)
(* Provisioning of one Tenant. Operators queue Provisioning Jobs; workers  *)
(* of the Operator Service claim them and run TenantProvisioner.apply;     *)
(* memoryctl runs apply without a job. Every apply works through the same  *)
(* list of steps, does each one on the host and records it in the Control  *)
(* Store, and nothing keeps two of them from running at once.              *)
(*                                                                         *)
(* The effect of a step is the step's name in `world`. The Tenant's row,   *)
(* route and Memberships are created and activated in one transaction each *)
(* and are one variable. Audit records, names and credentials are left out.*)
(***************************************************************************)
EXTENDS ProvisioningRecord

CONSTANTS
    Workers,    \* processes of the Operator Service
    Shells,     \* memoryctl processes: apply without a job
    Operators,  \* requests of Operators on the admin API
    Manifests,  \* fingerprints of Tenant Manifests
    MaxEdits,   \* bound: cancel, retry and cleanup requests
    MaxFaults,  \* bound: failing steps, failing stores and crashes
    Nobody, NoManifest

Appliers == Workers \cup Shells

ASSUME ProvisioningAssumption ==
    /\ MaxJobs \in Nat /\ MaxEdits \in Nat /\ MaxFaults \in Nat
    /\ Workers \cap Shells = {} /\ Nobody \notin Appliers
    /\ NoManifest \notin Manifests

JobStates == {"none", "queued", "running", "succeeded", "failed",
              "cancel_requested", "cleanup_requested"}

VARIABLES
    pc, man, have, out, jobOf,  \* each apply: next call, manifest, the steps its
                                \* state lists, its outcome, the worker's job
    ask, target,  \* each operator's request that was admitted, and its job
    edits, faults

host     == <<world, secret>>
local    == <<pc, man, have, out, jobOf>>
requests == <<ask, target, edits>>
vars     == <<tenant, prov, host, local, job, requests, faults>>

TypeOK ==
    /\ tenant \in {"absent", "inactive", "active"}
    /\ prov \in [status : {"none", "provisioning", "failed", "active"},
                 done : 0..AllSteps, manifest : Manifests \cup {NoManifest}]
    /\ world \subseteq {PROVISIONING_STEPS[i] : i \in 1..AllSteps}
    /\ secret \in {"absent", "empty", "written"}
    /\ pc \in [Appliers -> {"idle", "plan", "start", "execute", "write", "mark", "fail", "report"}]
    /\ man \in [Appliers -> Manifests \cup {NoManifest}]
    /\ have \in [Appliers -> 0..AllSteps]
    /\ out \in [Appliers -> {"none", "active", "failed"}]
    /\ jobOf \in [Appliers -> Jobs \cup {0}]
    /\ job \in [Jobs -> [state : JobStates, by : Appliers \cup {Nobody},
                         manifest : Manifests \cup {NoManifest}]]
    /\ ask \in [Operators -> {"none", "cancel", "retry", "cleanup"}]
    /\ target \in [Operators -> Jobs \cup {0}]
    /\ edits \in 0..MaxEdits /\ faults \in 0..MaxFaults

Init ==
    /\ tenant = "absent"
    /\ prov = [status |-> "none", done |-> 0, manifest |-> NoManifest]
    /\ world = {} /\ secret = "absent"
    /\ pc = [a \in Appliers |-> "idle"] /\ man = [a \in Appliers |-> NoManifest]
    /\ have = [a \in Appliers |-> 0] /\ out = [a \in Appliers |-> "none"]
    /\ jobOf = [a \in Appliers |-> 0]
    /\ job = [j \in Jobs |-> [state |-> "none", by |-> Nobody, manifest |-> NoManifest]]
    /\ ask = [o \in Operators |-> "none"] /\ target = [o \in Operators |-> 0]
    /\ edits = 0 /\ faults = 0

Fault == faults < MaxFaults /\ faults' = faults + 1

-----------------------------------------------------------------------------
(* Provisioning Jobs *)

Open == {"queued", "running", "failed", "cancel_requested", "cleanup_requested"}

\* create_provisioning_job: at most one open job for a manifest (unique index); a
\* repeated key, or a second job, gets the one that exists.
CreateJob(j, m) ==
    /\ job[j].state = "none" /\ \A i \in 1..(j - 1) : job[i].state # "none"
    /\ \A i \in Jobs : job[i].manifest = m => job[i].state \notin Open
    /\ job' = [job EXCEPT ![j] = [state |-> "queued", by |-> Nobody, manifest |-> m]]
    /\ UNCHANGED <<tenant, prov, host, local, requests, faults>>

Begin(a, m, j) ==
    /\ pc' = [pc EXCEPT ![a] = "plan"]
    /\ man' = [man EXCEPT ![a] = m]
    /\ have' = [have EXCEPT ![a] = 0]
    /\ out' = [out EXCEPT ![a] = "none"]
    /\ jobOf' = [jobOf EXCEPT ![a] = j]

\* claim_next_provisioning_job takes a queued job (a row that is locked by a
\* concurrent edit is skipped); nothing ever takes a running one.
ClaimJob(w, j) ==
    /\ pc[w] = "idle" /\ job[j].state = "queued"
    /\ job' = [job EXCEPT ![j].state = "running", ![j].by = w]
    /\ Begin(w, job[j].manifest, j)
    /\ UNCHANGED <<tenant, prov, host, requests, faults>>

\* memoryctl tenant apply
RunShell(s, m) ==
    /\ pc[s] = "idle" /\ out[s] = "none"
    /\ Begin(s, m, 0)
    /\ UNCHANGED <<tenant, prov, host, job, requests, faults>>

\* The process ends, or the worker polls again.
Forget(a, outcome) ==
    /\ pc' = [pc EXCEPT ![a] = "idle"] /\ jobOf' = [jobOf EXCEPT ![a] = 0]
    /\ man' = [man EXCEPT ![a] = NoManifest] /\ have' = [have EXCEPT ![a] = 0]
    /\ out' = [out EXCEPT ![a] = IF a \in Workers THEN "none" ELSE outcome]

\* Mutant: only a success is reported.
JobOutcomeKept(a) == IF out[a] = "active" THEN "succeeded" ELSE "running"

JobOutcome(a) == IF out[a] = "active" THEN "succeeded" ELSE "failed"

\* Mutant: a worker that has lost its claim reports all the same.
ReportJobAnyway(a) ==
    /\ pc[a] = "report"
    /\ job' = IF a \in Workers
              THEN [job EXCEPT ![jobOf[a]].state = "succeeded"]
              ELSE job
    /\ Forget(a, out[a])
    /\ UNCHANGED <<tenant, prov, host, requests, faults>>

\* complete_provisioning_job and fail_provisioning_job, or the end of memoryctl. A
\* job that this worker no longer runs raises out of run_once: the service exits
\* and is started again.
ReportJob(a) ==
    /\ pc[a] = "report"
    /\ LET j == jobOf[a] IN
       job' = IF a \in Workers /\ job[j].state = "running" /\ job[j].by = a
              THEN [job EXCEPT ![j].state = JobOutcome(a)]
              ELSE job
    /\ Forget(a, out[a])
    /\ UNCHANGED <<tenant, prov, host, requests, faults>>

-----------------------------------------------------------------------------
(* Operators: the job is read and checked, and updated by its identifier later *)

Admissible(op, j) ==
    CASE op = "cancel"  -> job[j].state \in {"queued", "running"}
      [] op = "retry"   -> job[j].state \in {"failed", "cancel_requested"}
      [] op = "cleanup" -> job[j].state \in {"failed", "cancel_requested"} /\ tenant # "active"

AdmitEdit(o, op, j) ==
    /\ ask[o] = "none" /\ edits < MaxEdits
    /\ Admissible(op, j)
    /\ ask' = [ask EXCEPT ![o] = op] /\ target' = [target EXCEPT ![o] = j]
    /\ edits' = edits + 1
    /\ UNCHANGED <<tenant, prov, host, local, job, faults>>

\* update_provisioning_job_state: UPDATE ... WHERE job_id = ...
CommitEdit(o) ==
    /\ ask[o] # "none"
    /\ job' = [job EXCEPT ![target[o]] =
                 CASE ask[o] = "cancel"  -> [@ EXCEPT !.state = "cancel_requested"]
                   [] ask[o] = "retry"   -> [@ EXCEPT !.state = "queued", !.by = Nobody]
                   [] ask[o] = "cleanup" -> [@ EXCEPT !.state = "cleanup_requested"]]
    /\ ask' = [ask EXCEPT ![o] = "none"] /\ target' = [target EXCEPT ![o] = 0]
    /\ UNCHANGED <<tenant, prov, host, local, edits, faults>>

-----------------------------------------------------------------------------
(* TenantProvisioner.apply *)

Goto(a, next) == pc' = [pc EXCEPT ![a] = next]

Return(a, outcome) ==
    /\ Goto(a, "report")
    /\ out' = [out EXCEPT ![a] = outcome]

OtherManifest(a) == prov.status # "none" /\ prov.manifest # man[a]

\* plan, and the early return of a plan with nothing to do.
PlanApply(a) ==
    /\ pc[a] = "plan"
    /\ \/ OtherManifest(a) /\ Return(a, "failed")
       \/ ~OtherManifest(a) /\ prov.done = AllSteps /\ Return(a, "active")
       \/ ~OtherManifest(a) /\ prov.done < AllSteps /\ Goto(a, "start") /\ UNCHANGED out
    /\ UNCHANGED <<tenant, prov, host, man, have, jobOf, job, requests, faults>>

Reopened == [prov EXCEPT !.status = "provisioning"]

\* start, one transaction under the Tenant's advisory lock: the first apply records
\* the manifest, a later one reopens the row. A row that has become active since
\* the plan leaves apply without a step to do, which it reports as a conflict.
StartApply(a) ==
    /\ pc[a] = "start"
    /\ \/ /\ prov.status = "none"
          /\ prov' = [status |-> "provisioning", done |-> 1, manifest |-> man[a]]
          /\ tenant' = "inactive" /\ world' = world \cup {PROVISIONING_STEPS[1]}
          /\ have' = [have EXCEPT ![a] = 1]
          /\ Goto(a, "execute") /\ UNCHANGED out
       \/ /\ prov.status \in {"provisioning", "failed"} /\ ~OtherManifest(a)
          /\ prov' = Reopened
          /\ have' = [have EXCEPT ![a] = prov.done]
          /\ Goto(a, "execute") /\ UNCHANGED <<tenant, world, out>>
       \/ /\ prov.status = "active" \/ OtherManifest(a)
          /\ Return(a, "failed") /\ UNCHANGED <<tenant, prov, world, have>>
    /\ UNCHANGED <<secret, man, jobOf, job, requests, faults>>

\* What each host adapter needs in order to succeed.
SecretsThere == secret = "written"
ComposeReady == SecretsThere
DatabaseReady == SecretsThere
PostgresReady == SecretsThere /\ "create_tenant_database" \in world
GraphReady == "start_neo4j" \in world
RouteExact == tenant = "inactive" /\ prov.manifest # NoManifest
RoleIsolated == SecretsThere /\ "create_tenant_database" \in world

Ready(step) ==
    CASE step = "start_neo4j"            -> ComposeReady
      [] step = "create_tenant_database" -> DatabaseReady
      [] step = "migrate_postgres"       -> PostgresReady
      [] step = "migrate_neo4j"          -> GraphReady
      [] step = "verify_neo4j_health"    -> GraphReady
      [] step = "verify_routing"         -> RouteExact
      [] step = "verify_isolation"       -> RoleIsolated

StepOf(a) == PROVISIONING_STEPS[have[a] + 1]

\* _execute of a step other than the secrets; every one is idempotent.
ExecuteStep(a) ==
    /\ pc[a] = "execute" /\ StepOf(a) \notin {"write_secrets", "activate"}
    /\ \/ Ready(StepOf(a)) /\ world' = world \cup {StepOf(a)} /\ Goto(a, "mark") /\ UNCHANGED faults
       \/ ~Ready(StepOf(a)) /\ Goto(a, "fail") /\ UNCHANGED <<world, faults>>
       \/ Fault /\ Goto(a, "fail") /\ UNCHANGED world
    /\ UNCHANGED <<tenant, prov, secret, man, have, out, jobOf, job, requests>>

\* ensure_secret creates the file exclusively; one that exists must not be empty,
\* whether another apply is writing it or has died before it could.
OpenSecret(a) ==
    /\ pc[a] = "execute" /\ StepOf(a) = "write_secrets"
    /\ \/ secret = "absent" /\ secret' = "empty" /\ Goto(a, "write") /\ UNCHANGED world
       \/ secret = "empty" /\ Goto(a, "fail") /\ UNCHANGED <<secret, world>>
       \/ /\ secret = "written" /\ world' = world \cup {"write_secrets"}
          /\ Goto(a, "mark") /\ UNCHANGED secret
    /\ UNCHANGED <<tenant, prov, man, have, out, jobOf, job, requests, faults>>

\* ... and writes it; an exception removes the file again.
WriteSecret(a) ==
    /\ pc[a] = "write"
    /\ \/ /\ secret' = "written" /\ world' = world \cup {"write_secrets"}
          /\ Goto(a, "mark") /\ UNCHANGED faults
       \/ Fault /\ secret' = "absent" /\ Goto(a, "fail") /\ UNCHANGED world
    /\ UNCHANGED <<tenant, prov, man, have, out, jobOf, job, requests>>

\* Mutant: a step may complete whatever the row lists.
CurrentLax(a) == prov.status = "provisioning"

\* _require_provisioning, and the step must be the row's next one.
Current(a) == prov.status = "provisioning" /\ prov.done = have[a]

\* mark_completed
MarkCompleted(a) ==
    /\ pc[a] = "mark"
    /\ \/ /\ Current(a)
          /\ prov' = [prov EXCEPT !.done = @ + 1]
          /\ have' = [have EXCEPT ![a] = prov'.done]
          /\ Goto(a, "execute") /\ UNCHANGED faults
       \/ ~Current(a) /\ Goto(a, "fail") /\ UNCHANGED <<prov, have, faults>>
       \/ Fault /\ Goto(a, "fail") /\ UNCHANGED <<prov, have>>
    /\ UNCHANGED <<tenant, host, man, out, jobOf, job, requests>>

\* activate: Tenant, Memberships, route and row in one transaction.
Activate(a) ==
    /\ pc[a] = "execute" /\ StepOf(a) = "activate"
    /\ \/ /\ Current(a) /\ tenant = "inactive"
          /\ tenant' = "active" /\ world' = world \cup {"activate"}
          /\ prov' = [prov EXCEPT !.status = "active", !.done = AllSteps]
          /\ have' = [have EXCEPT ![a] = AllSteps] /\ Return(a, "active")
       \/ /\ ~(Current(a) /\ tenant = "inactive")
          /\ Goto(a, "fail") /\ UNCHANGED <<tenant, prov, world, have, out>>
    /\ UNCHANGED <<secret, man, jobOf, job, requests, faults>>

\* mark_failed fails the row only if the step is still its next one; the conflict
\* it raises otherwise leaves apply in place of the step's failure.
MarkFailed(a) ==
    /\ pc[a] = "fail"
    /\ prov' = IF Current(a) THEN [prov EXCEPT !.status = "failed"] ELSE prov
    /\ Return(a, "failed")
    /\ UNCHANGED <<tenant, host, man, have, jobOf, job, requests, faults>>

\* The process dies between two calls; a secret file may stay behind empty, and a
\* worker's job stays running.
Crash(a) ==
    /\ pc[a] # "idle" /\ Fault /\ Forget(a, "none")
    /\ UNCHANGED <<tenant, prov, host, job, requests>>

-----------------------------------------------------------------------------
Apply(a) ==
    \/ PlanApply(a) \/ StartApply(a) \/ ExecuteStep(a) \/ OpenSecret(a) \/ WriteSecret(a)
    \/ MarkCompleted(a) \/ Activate(a) \/ MarkFailed(a) \/ ReportJob(a)

Next ==
    \/ \E j \in Jobs, m \in Manifests : CreateJob(j, m)
    \/ \E w \in Workers, j \in Jobs : ClaimJob(w, j)
    \/ \E s \in Shells, m \in Manifests : RunShell(s, m)
    \/ \E o \in Operators :
         \/ \E op \in {"cancel", "retry", "cleanup"}, j \in Jobs : AdmitEdit(o, op, j)
         \/ CommitEdit(o)
    \/ \E a \in Appliers : Apply(a) \/ Crash(a)

Spec == Init /\ [][Next]_vars

\* The service polls, and a process that runs takes its next step.
FairSpec ==
    /\ Spec
    /\ \A a \in Appliers : WF_vars(Apply(a))
    /\ \A j \in Jobs : WF_vars(\E w \in Workers : ClaimJob(w, j))
    /\ \A o \in Operators : WF_vars(CommitEdit(o))

-----------------------------------------------------------------------------
(* Properties; RecordedIsDone and SucceededIsActive are in ProvisioningRecord *)

\* A crash leaves a running job that no worker runs.
Orphaned(j) ==
    job[j].state = "running" /\ faults > 0 /\ \A w \in Workers : jobOf[w] # j \/ pc[w] = "idle"

\* A queued job ends, is cancelled, or was abandoned by a worker that died.
QueuedJobsEnd ==
    \A j \in Jobs : job[j].state = "queued" ~> job[j].state \notin {"queued", "running"} \/ Orphaned(j)

\* Stated by the documents; it does not hold of the code, see README.md ("Known
\* differences"): "Provisioning Cleanup is available for never-active Tenants only".
CleanupIsForNeverActive ==
    \A j \in Jobs : job[j].state = "cleanup_requested" => tenant # "active"
=============================================================================
