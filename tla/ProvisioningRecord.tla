-------------------------- MODULE ProvisioningRecord --------------------------
(***************************************************************************)
(* What the provisioning of one Tenant keeps: the rows of the Control      *)
(* Store and what is on the host, and what must hold between the two. The  *)
(* processes that read and write it are in TenantProvisioning.             *)
(***************************************************************************)
EXTENDS Naturals, Sequences

CONSTANT MaxJobs  \* bound: jobs created

Jobs == 1..MaxJobs

PROVISIONING_STEPS ==
    <<"record_control_state", "write_secrets", "start_neo4j",
      "create_tenant_database", "migrate_postgres", "migrate_neo4j",
      "verify_neo4j_health", "verify_routing", "verify_isolation", "activate">>
AllSteps == Len(PROVISIONING_STEPS)

VARIABLES
    tenant,  \* "absent", "inactive" or "active"; its route is healthy iff active
    prov,    \* the row of control.provisioning; done: how many steps it lists
    world,   \* steps whose effect is in place on the host
    secret,  \* the secret files: "absent", "empty" or "written"
    job      \* rows of control.provisioning_jobs

\* What the Control Store lists as completed is in place on the host, whoever did
\* it, and a Tenant is active exactly when every step is: no apply that was
\* overtaken, failed over or resumed lets one be skipped.
RecordedIsDone ==
    /\ \A i \in 1..prov.done : PROVISIONING_STEPS[i] \in world
    /\ prov.done >= 2 => secret = "written"
    /\ tenant = "active" <=> prov.status = "active"
    /\ prov.status = "active" <=> prov.done = AllSteps

\* A job that has succeeded built the Tenant from its own manifest.
SucceededIsActive ==
    \A j \in Jobs : job[j].state = "succeeded" =>
        tenant = "active" /\ prov.manifest = job[j].manifest
=============================================================================
