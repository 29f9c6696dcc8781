------------------------------- MODULE BackupCut -------------------------------
(***************************************************************************)
(* The recovery points of one Tenant. A backup suspends the Tenant behind  *)
(* a durable barrier row, takes the exclusive advisory lock, refuses a     *)
(* Tenant that is not quiescent, copies three stores one after the other,  *)
(* resumes the Tenant and publishes; a drill restores what was published   *)
(* into a target of its own and compares it with what the backup expected. *)
(*                                                                         *)
(* A Memory Item stands for everything that is authoritative in the        *)
(* Tenant's PostgreSQL database and projected elsewhere: Private Memory    *)
(* and Tenant Knowledge in Neo4j, Agent Run snapshots in ActiveGraph.      *)
(* Ciphertexts are the contents they decrypt to.                           *)
(***************************************************************************)
EXTENDS Naturals, FiniteSets

CONSTANTS
    Items,      \* what clients retain and erase
    Clients,    \* requests that mutate the Tenant
    MaxBackups, \* bound: runs of memoryctl backup create, numbered as they start
    Targets,    \* restore drill targets
    MaxDrops,   \* bound: mutators whose connection breaks
    MaxFaults,  \* bound: failing commands, crashes of backups, damaged artifacts
    Worker, NoOne

Backups == 1..MaxBackups
NoBackup == 0

ASSUME BackupAssumption ==
    /\ MaxBackups \in Nat /\ MaxDrops \in Nat /\ MaxFaults \in Nat
    /\ Worker \notin Clients /\ NoOne \notin Items

Mutators == Clients \cup {Worker}
States == {"none", "retaining", "applied", "erasing", "erased"}
Empty == [i \in Items |-> "none"]
Nothing == [pg |-> Empty, graph |-> {}, routed |-> FALSE]

VARIABLES
    active, barrier,  \* control.tenants.active; the holder of the backup_barriers row
    lock,             \* who holds the exclusive advisory lock
    pg, graph, neo4j, \* the Tenant's PostgreSQL, its graph, whether Neo4j runs
    at, item,         \* each mutator: where it is, and on which item
    pc, expect, dump, ok,  \* each backup: next call, expectations, plaintexts, no exception
    store,            \* the artifact directory: per backup, what it exposes
    proved,           \* the barrier whose lock recover has found free
    drill, target, result,  \* each restore target: its phase, contents, RestoreDrillRecord
    drops, faults

tenantStores == <<pg, graph>>
mutators == <<at, item, drops>>
backup   == <<pc, expect, dump, ok>>
drills   == <<drill, target, result>>
vars == <<active, barrier, lock, tenantStores, neo4j, mutators, backup, store, proved, drills, faults>>

Capturing == {"locked", "quiet", "expected", "control", "tenant", "stopped", "copied"}

TypeOK ==
    /\ active \in BOOLEAN /\ neo4j \in BOOLEAN
    /\ {barrier, lock, proved} \subseteq Backups \cup {NoBackup}
    /\ pg \in [Items -> States] /\ graph \subseteq Items
    /\ at \in [Mutators -> {"idle", "routed", "written"}]
    /\ item \in [Mutators -> Items \cup {NoOne}]
    /\ pc \in [Backups -> Capturing \cup {"idle", "locking", "exit", "resuming", "encrypt",
                                          "encrypted", "publish", "evidence", "done", "dead"}]
    /\ expect \in [Backups -> [Items -> States]] /\ ok \in [Backups -> BOOLEAN]
    /\ dump \in [Backups -> [pg : [Items -> States], graph : SUBSET Items, routed : BOOLEAN]]
    /\ store \in [Backups -> [artifacts : BOOLEAN, intact : BOOLEAN,
                              manifest : BOOLEAN, receipt : BOOLEAN]]
    /\ drill \in [Targets -> {"none", "workspace", "decrypted", "created", "graph", "postgres",
                              "databases", "restored", "verified", "preserved", "removed"}]
    /\ target \in [Targets -> [of : Backups \cup {NoBackup}, data : [pg : [Items -> States],
                                graph : SUBSET Items, routed : BOOLEAN]]]
    /\ result \in [Targets -> {"none", "passed", "failed"}]
    /\ drops \in 0..MaxDrops /\ faults \in 0..MaxFaults

Init ==
    /\ active = TRUE /\ barrier = NoBackup /\ lock = NoBackup
    /\ pg = Empty /\ graph = {} /\ neo4j = TRUE
    /\ at = [p \in Mutators |-> "idle"] /\ item = [p \in Mutators |-> NoOne]
    /\ pc = [b \in Backups |-> "idle"] /\ expect = [b \in Backups |-> Empty]
    /\ dump = [b \in Backups |-> Nothing] /\ ok = [b \in Backups |-> FALSE]
    /\ store = [b \in Backups |-> [artifacts |-> FALSE, intact |-> TRUE,
                                   manifest |-> FALSE, receipt |-> FALSE]]
    /\ proved = NoBackup
    /\ drill = [t \in Targets |-> "none"] /\ result = [t \in Targets |-> "none"]
    /\ target = [t \in Targets |-> [of |-> NoBackup, data |-> Nothing]]
    /\ drops = 0 /\ faults = 0

Fault == faults < MaxFaults /\ faults' = faults + 1

-----------------------------------------------------------------------------
(* Mutations: routed through the Control Store, committed under the shared lock *)

\* Mutant: the phase and the item are exchanged.
PutSwapped(p, phase, i) == at' = [at EXCEPT ![p] = i] /\ item' = [item EXCEPT ![p] = phase]

Put(p, phase, i) == at' = [at EXCEPT ![p] = phase] /\ item' = [item EXCEPT ![p] = i]

\* A request resolves the Tenant's route: only an active Tenant has one.
RouteRequest(c, i) ==
    /\ active /\ at[c] = "idle" /\ pg[i] \in {"none", "applied"}
    /\ Put(c, "routed", i)
    /\ UNCHANGED <<active, barrier, lock, tenantStores, neo4j, drops, backup, store, proved, drills, faults>>

\* The worker is handed the outbox message of a command that is not applied yet.
RouteDelivery(i) ==
    /\ active /\ at[Worker] = "idle" /\ pg[i] \in {"retaining", "erasing"}
    /\ Put(Worker, "routed", i)
    /\ UNCHANGED <<active, barrier, lock, tenantStores, neo4j, drops, backup, store, proved, drills, faults>>

\* ... and projects it, which takes no lock. A Neo4j that is down returns the message.
WriteGraph ==
    /\ at[Worker] = "routed"
    /\ LET i == item[Worker] IN
       \/ /\ neo4j
          /\ graph' = IF pg[i] = "retaining" THEN graph \cup {i} ELSE graph \ {i}
          /\ Put(Worker, "written", i)
       \/ ~neo4j /\ graph' = graph /\ Put(Worker, "idle", NoOne)
    /\ UNCHANGED <<active, barrier, lock, pg, neo4j, drops, backup, store, proved, drills, faults>>

\* Mutant: the transaction does not take the lock.
SharedLockIgnored(p) == TRUE

\* pg_advisory_xact_lock_shared: waits behind a holder of the exclusive lock, and
\* behind one that is waiting for it.
SharedLockFree(p) == lock = NoBackup /\ \A b \in Backups : pc[b] # "locking"

\* What the transaction leaves; a command that is no longer due changes nothing.
Committed(s, p) ==
    CASE p # Worker /\ s = "none"       -> "retaining"
      [] p # Worker /\ s = "applied"    -> "erasing"
      [] p = Worker /\ s = "retaining"  -> "applied"
      [] p = Worker /\ s = "erasing"    -> "erased"
      [] OTHER                          -> s

\* One transaction, whose first statement takes the shared lock: until it commits the
\* exclusive lock cannot be taken, so it is one step.
CommitTx(p) ==
    /\ at[p] = (IF p = Worker THEN "written" ELSE "routed") /\ SharedLockFree(p)
    /\ pg' = [pg EXCEPT ![item[p]] = Committed(@, p)]
    /\ Put(p, "idle", NoOne)
    /\ UNCHANGED <<active, barrier, lock, graph, neo4j, drops, backup, store, proved, drills, faults>>

\* A connection breaks: the transaction is rolled back.
DropMutator(p) ==
    /\ at[p] # "idle" /\ drops < MaxDrops /\ drops' = drops + 1
    /\ Put(p, "idle", NoOne)
    /\ UNCHANGED <<active, barrier, lock, tenantStores, neo4j, backup, store, proved, drills, faults>>

-----------------------------------------------------------------------------
(* The barrier and the capture *)

Goto(b, next) == pc' = [pc EXCEPT ![b] = next]
tenantSide == <<tenantStores, mutators, store, proved, drills>>

\* enter: _suspend_tenant, one transaction on the Control Store.
Suspend(b) ==
    /\ pc[b] = "idle" /\ \A a \in 1..(b - 1) : pc[a] # "idle"
    /\ active /\ barrier = NoBackup
    /\ active' = FALSE /\ barrier' = b
    /\ Goto(b, "locking")
    /\ UNCHANGED <<lock, neo4j, expect, dump, ok, tenantSide, faults>>

LockFree == lock = NoBackup

\* ... and pg_advisory_lock; an exception resumes the Tenant.
Lock(b) ==
    /\ pc[b] = "locking"
    /\ \/ LockFree /\ lock' = b /\ ok' = [ok EXCEPT ![b] = TRUE] /\ Goto(b, "locked") /\ UNCHANGED faults
       \/ Fault /\ Goto(b, "resuming") /\ UNCHANGED <<lock, ok>>
    /\ UNCHANGED <<active, barrier, neo4j, expect, dump, tenantSide>>

\* verify_quiescent: no accepted command, publication, outbox row or run ahead of its
\* projection.
Quiescent == \A i \in Items : pg[i] \notin {"retaining", "erasing"}

Applied(s) == {i \in Items : s[i] = "applied"}

\* An exception leaves the capture for the finally clauses.
Abort(b) == ok' = [ok EXCEPT ![b] = FALSE] /\ Goto(b, "exit")

VerifyQuiescent(b) ==
    /\ pc[b] = "locked"
    /\ \/ Quiescent /\ Goto(b, "quiet") /\ UNCHANGED <<ok, faults>>
       \/ ~Quiescent /\ Abort(b) /\ UNCHANGED faults
       \/ Fault /\ Abort(b)
    /\ UNCHANGED <<active, barrier, lock, neo4j, expect, dump, tenantSide>>

\* collect: the expectations are read from PostgreSQL, and an empty Tenant is refused.
Collect(b) ==
    /\ pc[b] = "quiet"
    /\ \/ /\ Applied(pg) # {}
          /\ expect' = [expect EXCEPT ![b] = pg] /\ Goto(b, "expected") /\ UNCHANGED <<ok, faults>>
       \/ Applied(pg) = {} /\ Abort(b) /\ UNCHANGED <<expect, faults>>
       \/ Fault /\ Abort(b) /\ UNCHANGED expect
    /\ UNCHANGED <<active, barrier, lock, neo4j, dump, tenantSide>>

\* _create_plaintext for the control and the Tenant's PostgreSQL databases.
CopyControl(b) ==
    /\ pc[b] = "expected"
    /\ \/ /\ dump' = [dump EXCEPT ![b].routed = active /\ barrier = NoBackup]
          /\ Goto(b, "control") /\ UNCHANGED <<ok, faults>>
       \/ Fault /\ Abort(b) /\ UNCHANGED dump
    /\ UNCHANGED <<active, barrier, lock, neo4j, expect, tenantSide>>

CopyTenant(b) ==
    /\ pc[b] = "control"
    /\ \/ dump' = [dump EXCEPT ![b].pg = pg] /\ Goto(b, "tenant") /\ UNCHANGED <<ok, faults>>
       \/ Fault /\ Abort(b) /\ UNCHANGED dump
    /\ UNCHANGED <<active, barrier, lock, neo4j, expect, tenantSide>>

\* _archive_neo4j: stop, dump, start again whatever the dump did.
StopGraph(b) ==
    /\ pc[b] = "tenant"
    /\ \/ neo4j' = FALSE /\ Goto(b, "stopped") /\ UNCHANGED <<ok, faults>>
       \/ Fault /\ Abort(b) /\ UNCHANGED neo4j
    /\ UNCHANGED <<active, barrier, lock, expect, dump, tenantSide>>

CopyGraph(b) ==
    /\ pc[b] = "stopped"
    /\ \/ dump' = [dump EXCEPT ![b].graph = graph] /\ UNCHANGED <<ok, faults>>
       \/ Fault /\ ok' = [ok EXCEPT ![b] = FALSE] /\ UNCHANGED dump
    /\ Goto(b, "copied")
    /\ UNCHANGED <<active, barrier, lock, neo4j, expect, tenantSide>>

StartGraph(b) ==
    /\ pc[b] = "copied"
    /\ \/ neo4j' = TRUE /\ Goto(b, "exit") /\ UNCHANGED <<ok, faults>>
       \/ Fault /\ Abort(b) /\ UNCHANGED neo4j
    /\ UNCHANGED <<active, barrier, lock, expect, dump, tenantSide>>

\* The last finally clause removes what was copied; nobody reads what a dead process
\* leaves in the staging directory.
Forget(b) ==
    /\ expect' = [expect EXCEPT ![b] = Empty] /\ dump' = [dump EXCEPT ![b] = Nothing]
    /\ ok' = [ok EXCEPT ![b] = FALSE]

\* Mutant: the barrier is left only when the capture has succeeded.
UnlockOnSuccess(b) ==
    /\ pc[b] = "exit" /\ ok[b]
    /\ lock' = NoBackup /\ Goto(b, "resuming")
    /\ UNCHANGED <<active, barrier, neo4j, expect, dump, ok, tenantSide, faults>>

\* exit: unlock first ...
Unlock(b) ==
    /\ pc[b] = "exit"
    /\ lock' = NoBackup /\ Goto(b, "resuming")
    /\ UNCHANGED <<active, barrier, neo4j, expect, dump, ok, tenantSide, faults>>

\* _resume_tenant deletes the exact row and activates a Tenant that is inactive.
Resumable(b) == barrier = b /\ ~active

\* ... then resume; a row that is gone raises, and nothing is published.
Resume(b) ==
    /\ pc[b] = "resuming"
    /\ IF Resumable(b) THEN active' = TRUE /\ barrier' = NoBackup ELSE UNCHANGED <<active, barrier>>
    /\ IF Resumable(b) /\ ok[b]
       THEN Goto(b, "encrypt") /\ UNCHANGED <<expect, dump, ok>>
       ELSE Goto(b, "done") /\ Forget(b)
    /\ UNCHANGED <<lock, neo4j, tenantSide, faults>>

live == <<active, barrier, lock, tenantStores, neo4j, mutators, proved, drills>>

\* age encrypts each plaintext once the Tenant is served again, and verify_ciphertext
\* reads the result back.
Encrypt(b) ==
    /\ pc[b] = "encrypt"
    /\ \/ Goto(b, "encrypted") /\ UNCHANGED <<expect, dump, ok, faults>>
       \/ Fault /\ Goto(b, "done") /\ Forget(b)
    /\ UNCHANGED <<live, store>>

\* publish up to the manifest: the directory without one is ignored.
PublishArtifacts(b) ==
    /\ pc[b] = "encrypted"
    /\ \/ /\ store' = [store EXCEPT ![b].artifacts = TRUE] /\ Goto(b, "publish")
          /\ UNCHANGED <<expect, dump, ok, faults>>
       \/ Fault /\ Goto(b, "done") /\ Forget(b) /\ UNCHANGED store
    /\ UNCHANGED live

PublishManifest(b) ==
    /\ pc[b] = "publish"
    /\ \/ /\ store' = [store EXCEPT ![b].manifest = TRUE] /\ Goto(b, "evidence")
          /\ UNCHANGED <<expect, dump, ok, faults>>
       \/ Fault /\ Goto(b, "done") /\ Forget(b) /\ UNCHANGED store
    /\ UNCHANGED live

PublishEvidence(b) ==
    /\ pc[b] = "evidence"
    /\ \/ store' = [store EXCEPT ![b].receipt = TRUE] /\ UNCHANGED faults
       \/ Fault /\ UNCHANGED store
    /\ Goto(b, "done") /\ UNCHANGED <<live, expect, dump, ok>>

\* The process dies: PostgreSQL drops its lock; the row and a stopped Neo4j stay.
Crash(b) ==
    /\ pc[b] \notin {"idle", "done", "dead"} /\ Fault
    /\ lock' = IF lock = b THEN NoBackup ELSE lock
    /\ Goto(b, "dead")
    /\ IF store[b].manifest THEN UNCHANGED <<expect, dump, ok>> ELSE Forget(b)
    /\ UNCHANGED <<active, barrier, neo4j, tenantSide>>

\* recover: the exact row, and the lock can be taken and released ...
RecoverProve(b) ==
    /\ proved = NoBackup /\ Resumable(b) /\ LockFree
    /\ proved' = b
    /\ UNCHANGED <<active, barrier, lock, neo4j, tenantStores, mutators, backup, store, drills, faults>>

\* ... then resume.
RecoverResume(b) ==
    /\ proved = b /\ proved' = NoBackup
    /\ IF Resumable(b) THEN active' = TRUE /\ barrier' = NoBackup ELSE UNCHANGED <<active, barrier>>
    /\ UNCHANGED <<lock, neo4j, tenantStores, mutators, backup, store, drills, faults>>

-----------------------------------------------------------------------------
(* Restore drills *)

outside == <<active, barrier, lock, tenantStores, neo4j, mutators, backup, proved>>

\* A stored ciphertext is damaged or lost.
Damage(b) ==
    /\ store[b].artifacts /\ store[b].intact /\ Fault
    /\ store' = [store EXCEPT ![b].intact = FALSE]
    /\ UNCHANGED <<outside, drills>>

\* verify, and _validate_request: a complete manifest whose checksums match.
Restorable(b) == store[b].manifest /\ store[b].intact

Phase(t, next) == drill' = [drill EXCEPT ![t] = next]

StartDrill(t, b) ==
    /\ drill[t] \in {"none", "removed"} /\ result[t] = "none" /\ Restorable(b)
    /\ Phase(t, "workspace") /\ target' = [target EXCEPT ![t].of = b]
    /\ UNCHANGED <<outside, store, result, faults>>

\* A step of HostRestoreDrillExecutor.execute. An exception ends the drill and leaves
\* what is there.
RestoreStep(t, here, next, possible, loaded) ==
    /\ drill[t] = here
    /\ \/ /\ possible /\ Phase(t, next)
          /\ target' = [target EXCEPT ![t].data = loaded] /\ UNCHANGED faults
       \/ ~possible /\ Phase(t, "preserved") /\ UNCHANGED <<target, faults>>
       \/ Fault /\ Phase(t, "preserved") /\ UNCHANGED target
    /\ UNCHANGED <<outside, store, result>>

Source(t) == dump[target[t].of]
Loaded(t) == target[t].data

\* Decryption fails on a ciphertext that was damaged since the request was validated.
DecryptArtifacts(t) ==
    RestoreStep(t, "workspace", "decrypted", store[target[t].of].intact, Loaded(t))

CreateResources(t) == RestoreStep(t, "decrypted", "created", TRUE, Loaded(t))

\* neo4j-admin load into the target's volume, before any server runs on it.
RestoreGraphOffline(t) ==
    RestoreStep(t, "created", "graph", TRUE, [Loaded(t) EXCEPT !.graph = Source(t).graph])

StartPostgres(t) == RestoreStep(t, "graph", "postgres", TRUE, Loaded(t))

\* Mutant: the restored Control Store keeps the barrier of the cut.
KeepBarrier(data) == data

\* sanitize-control.sql: no barrier, and the source Tenant alone is routed.
Sanitized(data) == [data EXCEPT !.routed = TRUE]

RestorePostgres(t) ==
    RestoreStep(t, "postgres", "databases", TRUE,
                Sanitized([Source(t) EXCEPT !.graph = Loaded(t).graph]))

StartGraphServer(t) == RestoreStep(t, "databases", "restored", TRUE, Loaded(t))

\* The checks of the probe. Recall goes through the restored routes ...
RecallPasses(t) == Loaded(t).routed
\* ... what PostgreSQL holds is what the backup expected ...
LedgerMatches(t) == Loaded(t).pg = expect[target[t].of]
\* ... and the graph shows what PostgreSQL holds.
GraphMatches(t) == Loaded(t).graph = Applied(Loaded(t).pg)

ChecksPass(t) == RecallPasses(t) /\ LedgerMatches(t) /\ GraphMatches(t)

Verify(t) ==
    /\ drill[t] = "restored"
    /\ result' = [result EXCEPT ![t] = IF ChecksPass(t) THEN "passed" ELSE "failed"]
    /\ Phase(t, IF ChecksPass(t) THEN "verified" ELSE "preserved")
    /\ UNCHANGED <<outside, store, target, faults>>

\* _cleanup of a passed drill, or by command; the workspace goes last.
Cleanup(t) ==
    /\ drill[t] \in {"verified", "preserved"}
    /\ \/ /\ Phase(t, "removed") /\ target' = [target EXCEPT ![t] = [of |-> NoBackup, data |-> Nothing]]
          /\ UNCHANGED faults
       \/ Fault /\ Phase(t, "preserved") /\ UNCHANGED target
    /\ UNCHANGED <<outside, store, result>>

-----------------------------------------------------------------------------
Mutate ==
    \/ \E c \in Clients, i \in Items : RouteRequest(c, i)
    \/ \E i \in Items : RouteDelivery(i)
    \/ \E p \in Mutators : DropMutator(p)

Advance(p) == CommitTx(p) \/ (p = Worker /\ WriteGraph)

Run(b) ==
    \/ Lock(b) \/ VerifyQuiescent(b) \/ Collect(b) \/ CopyControl(b) \/ CopyTenant(b)
    \/ StopGraph(b) \/ CopyGraph(b) \/ StartGraph(b) \/ Unlock(b) \/ Resume(b)
    \/ Encrypt(b) \/ PublishArtifacts(b)
    \/ PublishManifest(b) \/ PublishEvidence(b)

Drill(t) ==
    \/ \E b \in Backups : StartDrill(t, b)
    \/ DecryptArtifacts(t) \/ CreateResources(t) \/ RestoreGraphOffline(t)
    \/ StartPostgres(t) \/ RestorePostgres(t) \/ StartGraphServer(t)
    \/ Verify(t) \/ Cleanup(t)

Next ==
    \/ Mutate
    \/ \E p \in Mutators : Advance(p)
    \/ \E b \in Backups : Suspend(b) \/ Run(b) \/ Crash(b) \/ RecoverProve(b) \/ RecoverResume(b)
    \/ \E b \in Backups : Damage(b)
    \/ \E t \in Targets : Drill(t)

Spec == Init /\ [][Next]_vars

\* A running backup and a running transaction go on; nobody is obliged to recover.
FairSpec ==
    /\ Spec
    /\ \A p \in Mutators : WF_vars(Advance(p))
    /\ \A b \in Backups : WF_vars(Run(b))

-----------------------------------------------------------------------------
(* Properties *)

\* A published manifest denotes one quiescent cut: what was copied from PostgreSQL is
\* what the expectations were taken from, nothing in it awaits its projection, and
\* the graph copied later holds exactly its applied items, although Neo4j is written
\* without the lock and the Tenant may have been resumed under the capture.
CutIsCoherent ==
    \A b \in Backups : store[b].manifest =>
        /\ dump[b].pg = expect[b]
        /\ dump[b].graph = Applied(expect[b]) /\ dump[b].graph # {}
        /\ \A i \in Items : expect[b][i] \notin {"retaining", "erasing"}

\* A complete recovery point restores: a drill that got as far as its checks passes
\* them, although the copied Control Store shows a suspended Tenant.
CompleteIsRestorable == \A t \in Targets : result[t] # "failed"

GraphLost == ~neo4j /\ \A b \in Backups : pc[b] \notin {"stopped", "copied"}

\* A Tenant that a backup has suspended, or whose Neo4j it has stopped, is served
\* again, however the capture ends, unless the process died or Neo4j did not start.
TenantComesBack ==
    ~(active /\ neo4j) ~> (active /\ (neo4j \/ GraphLost)) \/ \E b \in Backups : pc[b] = "dead"

\* "Recovery first proves it can acquire the exclusive Tenant database lock; therefore
\* it refuses a live backup": a backup that captures still has its barrier.
\* It does not hold: README.md, "Known differences".
RecoveryRefusesLiveBackup ==
    \A b \in Backups : pc[b] \in Capturing => barrier = b /\ ~active
================================================================================
