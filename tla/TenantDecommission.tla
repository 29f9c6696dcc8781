-------------------------- MODULE TenantDecommission --------------------------
(***************************************************************************)
(* The decommission of one Tenant under one request: suspension, a second  *)
(* operator's confirmation against a recovery artifact, a grace period in  *)
(* which it may be cancelled, and the destruction of the Tenant's          *)
(* resources. Each memoryctl command is a process that works on the record *)
(* it has read and saves it against the record's revision. Beside them run *)
(* backups, which use the Tenant's active flag too, and backup retention.  *)
(*                                                                         *)
(* Timestamps come from the operators' documents: whether one lies within  *)
(* the grace period is open. One recovery artifact stands for the evidence.*)
(***************************************************************************)
EXTENDS Naturals, Sequences, FiniteSets

CONSTANTS
    Processes,  \* memoryctl decommission commands at one time
    Operators,
    MaxFaults,  \* bound: failing actions and crashes
    Nobody

ASSUME DecommissionAssumption == MaxFaults \in Nat /\ Nobody \notin Operators

\* _DESTRUCTION_ORDER
Resources == <<"compose_project", "neo4j_volume", "database_and_role", "route",
               "secret_files", "domain_records">>
Last == Len(Resources)
All == {Resources[i] : i \in 1..Last}

\* One row of control.decommission_requests: susp and dest count its completed steps.
Records == [state : {"none", "suspending", "suspended", "grace", "finalizing", "cancelled"},
            susp : 0..3, dest : 0..Last, by : Operators \cup {Nobody},
            second : Operators \cup {Nobody}, evidence : {"none", "backup", "export"}]
NoRecord == [state |-> "none", susp |-> 0, dest |-> 0, by |-> Nobody, second |-> Nobody,
             evidence |-> "none"]

VARIABLES
    active,    \* control.tenants.active
    tokens,    \* whether unrevoked access tokens of the Tenant exist
    barrier,   \* whether a backup holds the Tenant
    gone,      \* resources that were removed
    rec, tomb, pin,  \* the request, its tombstone, the recovery pin
    artifact,  \* whether the backup named by the evidence, and its receipt, exist
    retain,    \* retention of that backup: "idle", "planned", "unpinned"
    pc, my, fresh,   \* each command: next call, its record, whether the revision matches
    faults

tenantFlags == <<active, tokens, barrier>>
artifacts == <<artifact, retain>>
durable == <<rec, tomb, pin>>
process == <<pc, my, fresh>>
vars == <<tenantFlags, gone, durable, artifacts, process, faults>>

TypeOK ==
    /\ active \in BOOLEAN /\ tokens \in BOOLEAN /\ barrier \in BOOLEAN
    /\ tomb \in BOOLEAN /\ pin \in BOOLEAN /\ artifact \in BOOLEAN
    /\ gone \subseteq All /\ rec \in Records
    /\ retain \in {"idle", "planned", "unpinned"}
    /\ pc \in [Processes -> {"idle", "insert", "suspend", "save", "fail", "cancel", "reactivate",
                             "destroy", "bury"}]
    /\ my \in [Processes -> Records] /\ fresh \in [Processes -> BOOLEAN]
    /\ faults \in 0..MaxFaults

Init ==
    /\ active = TRUE /\ tokens = TRUE /\ barrier = FALSE /\ gone = {}
    /\ rec = NoRecord /\ tomb = FALSE /\ pin = FALSE
    /\ artifact = TRUE /\ retain = "idle"
    /\ pc = [p \in Processes |-> "idle"] /\ my = [p \in Processes |-> NoRecord]
    /\ fresh = [p \in Processes |-> FALSE] /\ faults = 0

Fault == faults < MaxFaults /\ faults' = faults + 1

-----------------------------------------------------------------------------
(* The record *)

Goto(p, next) == pc' = [pc EXCEPT ![p] = next]

End(p) ==
    /\ Goto(p, "idle") /\ my' = [my EXCEPT ![p] = NoRecord]
    /\ fresh' = [fresh EXCEPT ![p] = FALSE]

Work(p, next, r) ==
    /\ Goto(p, next) /\ my' = [my EXCEPT ![p] = r]
    /\ fresh' = [fresh EXCEPT ![p] = TRUE]

\* Go on to save r over the record that was read.
Saving(p, r) == Goto(p, "save") /\ my' = [my EXCEPT ![p] = r] /\ UNCHANGED fresh

\* What follows a save that was accepted; "idle" is a command that has returned.
After(r) ==
    CASE r.state = "suspending" -> IF r.susp < 3 THEN "suspend" ELSE "save"
      [] r.state = "finalizing" -> IF r.dest < Last THEN "destroy" ELSE "bury"
      [] OTHER                  -> "idle"

\* ... all suspension steps are followed by a save of their own.
Closing(r) == IF r.state = "suspending" /\ r.susp = 3 THEN [r EXCEPT !.state = "suspended"] ELSE r

\* Mutant: a save does not look at the revision.
MatchesAnyway(p) == rec.state # "none"

\* UPDATE ... WHERE revision = ...: every accepted save outdates the other copies.
Matches(p) == rec.state # "none" /\ fresh[p]

Save(p) ==
    /\ pc[p] = "save"
    /\ IF Matches(p)
       THEN /\ rec' = my[p]
            /\ Goto(p, After(my[p]))
            /\ my' = [my EXCEPT ![p] = IF After(my[p]) = "idle" THEN NoRecord ELSE Closing(my[p])]
            /\ fresh' = [q \in Processes |-> q = p /\ After(my[p]) # "idle"]
       ELSE End(p) /\ UNCHANGED rec
    /\ UNCHANGED <<tenantFlags, gone, tomb, pin, artifacts, faults>>

\* A failed action is saved as the last failed one, and raised.
SaveFailure(p) ==
    /\ pc[p] = "fail"
    /\ IF Matches(p)
       THEN Goto(p, "idle") /\ my' = [my EXCEPT ![p] = NoRecord] /\ fresh' = [q \in Processes |-> FALSE]
       ELSE End(p)
    /\ UNCHANGED <<tenantFlags, gone, durable, artifacts, faults>>

Failing(p) == Goto(p, "fail") /\ UNCHANGED <<my, fresh>>

-----------------------------------------------------------------------------
(* request *)

elsewhere == <<tenantFlags, gone, durable, artifacts>>

\* A new request, or the exact repetition of one that is being suspended. An open
\* request is found by a query, a second one by the unique index of the insert.
BeginRequest(p, o) ==
    /\ pc[p] = "idle"
    /\ \/ rec.state = "none" /\ ~tomb
          /\ Work(p, "insert", [NoRecord EXCEPT !.state = "suspending", !.by = o])
       \/ rec.state = "suspending" /\ rec.by = o
          /\ Work(p, IF rec.susp < 3 THEN "suspend" ELSE "save", Closing(rec))
    /\ UNCHANGED <<elsewhere, faults>>

Insert(p) ==
    /\ pc[p] = "insert"
    /\ IF rec.state = "none"
       THEN rec' = my[p] /\ Goto(p, "suspend") /\ UNCHANGED <<my, fresh>>
       ELSE End(p) /\ UNCHANGED rec
    /\ UNCHANGED <<tenantFlags, gone, tomb, pin, artifacts, faults>>

RouteExact == "route" \notin gone

\* suspend_sessions, block_token_issuance and revoke_active_credentials, each under a
\* lock of the Tenant's rows.
Suspend(p) ==
    /\ pc[p] = "suspend"
    /\ LET step == my[p].susp + 1
           done == [my[p] EXCEPT !.susp = step] IN
       \/ /\ RouteExact /\ step = 1 /\ ~barrier
          /\ active' = FALSE /\ Saving(p, done) /\ UNCHANGED <<tokens, faults>>
       \/ /\ RouteExact /\ step = 2 /\ ~active
          /\ Saving(p, done) /\ UNCHANGED <<active, tokens, faults>>
       \/ /\ RouteExact /\ step = 3 /\ ~active
          /\ tokens' = FALSE /\ Saving(p, done) /\ UNCHANGED <<active, faults>>
       \/ /\ ~RouteExact \/ (step = 1 /\ barrier) \/ (step > 1 /\ active)
          /\ Failing(p) /\ UNCHANGED <<active, tokens, faults>>
       \/ Fault /\ Failing(p) /\ UNCHANGED <<active, tokens>>
    /\ UNCHANGED <<barrier, gone, durable, artifacts>>

-----------------------------------------------------------------------------
(* confirm and cancel *)

MayConfirm(o) == o # rec.by

Confirmed(o, kind) == [rec EXCEPT !.state = "grace", !.second = o, !.evidence = kind]

\* Another operator, and evidence whose receipt and manifest are there.
BeginConfirm(p, o, kind) ==
    /\ pc[p] = "idle" /\ rec.state = "suspended" /\ MayConfirm(o)
    /\ kind = "backup" => artifact
    /\ Work(p, "save", Confirmed(o, kind))
    /\ UNCHANGED <<elsewhere, faults>>

\* cancelled_at lies within the grace period.
BeginCancel(p) ==
    /\ pc[p] = "idle" /\ rec.state = "grace"
    /\ Work(p, "cancel", rec)
    /\ UNCHANGED <<elsewhere, faults>>

\* The route is there and suspended; schema, isolation, credentials and health need
\* what a destruction would have removed.
ReadyToServe == ~active /\ gone = {}

CheckReadiness(p) ==
    /\ pc[p] = "cancel"
    /\ \/ ReadyToServe /\ Goto(p, "reactivate") /\ UNCHANGED <<my, fresh, faults>>
       \/ ~ReadyToServe /\ Failing(p) /\ UNCHANGED faults
       \/ Fault /\ Failing(p)
    /\ UNCHANGED elsewhere

\* reactivate_without_issuing_tokens comes before the save.
Reactivate(p) ==
    /\ pc[p] = "reactivate"
    /\ \/ /\ RouteExact /\ active' = TRUE
          /\ Saving(p, [my[p] EXCEPT !.state = "cancelled"]) /\ UNCHANGED faults
       \/ ~RouteExact /\ Failing(p) /\ UNCHANGED <<active, faults>>
       \/ Fault /\ Failing(p) /\ UNCHANGED active
    /\ UNCHANGED <<tokens, barrier, gone, durable, artifacts>>

-----------------------------------------------------------------------------
(* finalize *)

\* A tombstone, or a finalized_at within the grace period, ends the command at once.
BeginFinalize(p) ==
    /\ pc[p] = "idle" /\ ~tomb
    /\ \/ rec.state = "grace" /\ Work(p, "save", [rec EXCEPT !.state = "finalizing"])
       \/ rec.state = "finalizing" /\ Work(p, After(rec), rec)
    /\ UNCHANGED <<elsewhere, faults>>

\* Mutant: a step that is removed is not recorded as such.
RecordedLater(r) == r

Recorded(r) == [r EXCEPT !.dest = @ + 1]

\* Every removal succeeds on what is gone already; the records need the route gone.
\* With them go the Tenant's row and its tokens.
Destroy(p) ==
    /\ pc[p] = "destroy"
    /\ LET r == Resources[my[p].dest + 1] IN
       \/ /\ r = "domain_records" => ~RouteExact
          /\ gone' = gone \cup {r}
          /\ active' = (active /\ r # "domain_records")
          /\ tokens' = (tokens /\ r # "domain_records")
          /\ Saving(p, Recorded(my[p])) /\ UNCHANGED faults
       \/ r = "domain_records" /\ RouteExact /\ Failing(p) /\ UNCHANGED <<gone, active, tokens, faults>>
       \/ Fault /\ Failing(p) /\ UNCHANGED <<gone, active, tokens>>
    /\ UNCHANGED <<barrier, durable, artifacts>>

\* replace_with_tombstone: one transaction, with the pin of the backup.
Bury(p) ==
    /\ pc[p] = "bury"
    /\ IF Matches(p)
       THEN /\ rec' = NoRecord /\ tomb' = TRUE /\ pin' = (my[p].evidence = "backup")
            /\ pc' = [pc EXCEPT ![p] = "idle"] /\ my' = [my EXCEPT ![p] = NoRecord]
            /\ fresh' = [q \in Processes |-> FALSE]
       ELSE End(p) /\ UNCHANGED durable
    /\ UNCHANGED <<tenantFlags, gone, artifacts, faults>>

\* The command dies between two calls.
Crash(p) ==
    /\ pc[p] # "idle" /\ Fault
    /\ End(p)
    /\ UNCHANGED elsewhere

-----------------------------------------------------------------------------
(* Backups, tokens, retention *)

rest == <<gone, durable, process, faults>>

\* The barrier of a backup: an active Tenant with a route.
BackupEnter ==
    /\ active /\ RouteExact /\ ~barrier
    /\ barrier' = TRUE /\ active' = FALSE
    /\ UNCHANGED <<tokens, artifacts, rest>>

BackupExit ==
    /\ barrier /\ ~active
    /\ barrier' = FALSE /\ active' = TRUE
    /\ UNCHANGED <<tokens, artifacts, rest>>

\* Tokens are issued to active Tenants.
IssueToken ==
    /\ active /\ ~tokens /\ tokens' = TRUE
    /\ UNCHANGED <<active, barrier, artifacts, rest>>

\* PostgresDecommissionRetentionAdapter.pins_for_tenant
Pinned == pin \/ (rec.state \in {"suspended", "grace", "finalizing"} /\ rec.evidence = "backup")

\* A newer recovery point exists, and no pin: the backup is planned for deletion ...
RetentionPlan ==
    /\ retain = "idle" /\ artifact /\ ~Pinned /\ retain' = "planned"
    /\ UNCHANGED <<tenantFlags, artifact, rest>>

\* ... the pins are read again ...
RetentionCheck ==
    /\ retain = "planned" /\ retain' = (IF Pinned THEN "idle" ELSE "unpinned")
    /\ UNCHANGED <<tenantFlags, artifact, rest>>

\* ... and its files and receipt are deleted.
RetentionDelete ==
    /\ retain = "unpinned" /\ retain' = "idle" /\ artifact' = FALSE
    /\ UNCHANGED <<tenantFlags, rest>>

\* protected_until passes.
PinExpires ==
    /\ pin /\ pin' = FALSE
    /\ UNCHANGED <<tenantFlags, gone, rec, tomb, artifacts, process, faults>>

-----------------------------------------------------------------------------
Begin(p) ==
    \/ \E o \in Operators : BeginRequest(p, o) \/ \E k \in {"backup", "export"} : BeginConfirm(p, o, k)
    \/ BeginCancel(p) \/ BeginFinalize(p)

Continue(p) ==
    \/ Save(p) \/ SaveFailure(p) \/ Insert(p) \/ Suspend(p) \/ CheckReadiness(p) \/ Reactivate(p)
    \/ Destroy(p) \/ Bury(p)

Next ==
    \/ \E p \in Processes : Begin(p) \/ Continue(p) \/ Crash(p)
    \/ BackupEnter \/ BackupExit \/ IssueToken
    \/ RetentionPlan \/ RetentionCheck \/ RetentionDelete \/ PinExpires

Spec == Init /\ [][Next]_vars

\* A command that runs goes on, and a destruction that was begun is retried.
FairSpec ==
    /\ Spec
    /\ \A p \in Processes : WF_vars(Continue(p))
    /\ WF_vars(\E p \in Processes : rec.state = "finalizing" /\ BeginFinalize(p))

-----------------------------------------------------------------------------
(* Properties *)

\* Nothing of the Tenant is removed unless its request has left the grace period for
\* good: a cancellation and a destruction that race each other never both happen. And
\* what is recorded as removed is gone, all of it when the tombstone is there.
DestructionIsCommitted ==
    /\ gone # {} => tomb \/ rec.state = "finalizing"
    /\ \A i \in 1..rec.dest : Resources[i] \in gone
    /\ tomb => gone = All

\* A request that is finalizing ends in its tombstone, although commands fail, die
\* and overtake one another.
FinalizationCompletes == rec.state = "finalizing" ~> tomb

\* The next two state what the documents say and do not hold of the code; README.md
\* ("Known differences") gives the behaviours.

\* "Cancellation is allowed only before `grace_ends_at` and before finalization": no
\* Tenant is served whose resources are being destroyed.
FinalizingIsSuspended == rec.state = "finalizing" => ~active

\* "A backup referenced by a suspended, grace-period, or finalizing request ... cannot
\* be deleted while that request is open".
PinnedIsKept == Pinned => artifact
================================================================================
