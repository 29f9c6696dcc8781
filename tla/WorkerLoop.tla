----------------------------- MODULE WorkerLoop -----------------------------
(***************************************************************************)
(* The loop of one memory-worker process (serve): in every cycle it relays *)
(* due outbox rows, taking the Tenants in turn, then goes through the      *)
(* Tenants that have a route and, for each, runs a batch of Agent Runs and *)
(* completes one approved erasure. What a row, a run or an erasure does is *)
(* in OutboxDelivery, AgentRun and PrivateMemory; here they are work that  *)
(* is done, or that raises and ends its Tenant's part of the cycle.        *)
(***************************************************************************)
EXTENDS Naturals, FiniteSets, SequencesExt

CONSTANTS
    MaxTenants,   \* Tenants are numbered in the order of list_tenant_routes
    Broken,       \* Tenants whose database does not answer
    RelayLimit,   \* relay_once(limit=100)
    BatchSize,    \* _AGENT_RUN_BATCH_SIZE
    LeaseCycles,  \* cycles that a lease of _AGENT_RUN_LEASE_SECONDS outlasts
    MaxRuns,      \* bound: open runs, of all Tenants
    MaxPoison,    \* bound: open runs that raise whenever they run
    MaxFaults     \* bound: failed calls, restarts and suspensions

Tenants == 1..MaxTenants
None == 0

\* The runs that raise every time must fit into the lease of the first of them.
ASSUME WorkerAssumption ==
    /\ MaxTenants \in Nat \ {0} /\ Broken \subseteq Tenants
    /\ {RelayLimit, BatchSize, MaxRuns} \subseteq Nat \ {0}
    /\ MaxPoison \in Nat /\ MaxFaults \in Nat
    /\ LeaseCycles \in Nat /\ LeaseCycles > MaxPoison

VARIABLES
    active,    \* control.tenants.active: the Tenants that have a route
    outbox,    \* whether a Tenant has a due outbox row
    runs,      \* the open Agent Runs of a Tenant, oldest first
    erasure,   \* whether a Tenant has an approved erasure for erase_next
    pc,        \* "relay", "publish", "list", "tenant", "run", "erase", "wait"
    offset,    \* RoutedOutboxSource._offset
    sent,      \* events dispatched by this relay_once
    held,      \* the Tenant of the claimed row
    listed, pos,    \* routes read for this cycle, and the one that is worked on
    batch, current, \* runs done for it, and the index of the run that is claimed
    faults

work == <<active, outbox, runs, erasure>>
relay == <<offset, sent, held>>
cycle == <<listed, pos, batch, current>>
vars == <<work, pc, relay, cycle, faults>>

TypeOK ==
    /\ active \subseteq Tenants
    /\ outbox \in [Tenants -> BOOLEAN] /\ erasure \in [Tenants -> BOOLEAN]
    /\ \A t \in Tenants :
         /\ Len(runs[t]) <= MaxRuns
         /\ \A i \in 1..Len(runs[t]) :
              runs[t][i] \in [kind : {"good", "poison"}, lease : 0..LeaseCycles]
    /\ pc \in {"relay", "publish", "list", "tenant", "run", "erase", "wait"}
    /\ offset \in 0..MaxTenants /\ sent \in 0..RelayLimit /\ held \in Tenants \cup {None}
    /\ pos \in 0..(MaxTenants + 1) /\ batch \in 0..BatchSize /\ current \in 0..MaxRuns
    /\ faults \in 0..MaxFaults

Init ==
    /\ active = Tenants
    /\ outbox = [t \in Tenants |-> FALSE] /\ erasure = [t \in Tenants |-> FALSE]
    /\ runs = [t \in Tenants |-> <<>>]
    /\ pc = "relay" /\ offset = 0 /\ sent = 0 /\ held = None
    /\ listed = <<>> /\ pos = 0 /\ batch = 0 /\ current = 0
    /\ faults = 0

Fault == faults < MaxFaults /\ faults' = faults + 1

\* list_tenant_routes: the routes of active Tenants, ordered by Tenant.
Routes == SelectSeq([t \in Tenants |-> t], LAMBDA t : t \in active)

\* A Tenant's stores answer: its route resolves and its database is up.
Answers(t) == t \in active /\ t \notin Broken

-----------------------------------------------------------------------------
(* relay_once *)

\* Mutant: a scan starts where the last one did.
NextOffsetSame(routes) == offset

NextOffset(routes) == (offset + 1) % Len(routes)

\* claim_outbox scans from the offset: the first Tenant that has a due row, or whose
\* database raises, ends the scan.
Scan(routes) ==
    LET ordered == SubSeq(routes, offset + 1, Len(routes))
                     \o SubSeq(routes, 1, IF offset < Len(routes) THEN offset ELSE Len(routes))
        first == SelectInSeq(ordered, LAMBDA t : t \in Broken \/ outbox[t])
    IN  IF first = 0 THEN None ELSE ordered[first]

RelayClaim ==
    /\ pc = "relay"
    /\ IF sent = RelayLimit \/ active = {}
       THEN pc' = "list" /\ UNCHANGED <<offset, held>>
       ELSE /\ offset' = NextOffset(Routes)
            /\ LET t == Scan(Routes) IN
               IF t = None \/ t \in Broken
               THEN pc' = "list" /\ UNCHANGED held
               ELSE pc' = "publish" /\ held' = t
    /\ UNCHANGED <<work, sent, cycle, faults>>

\* The row is published and marked. A publish that fails releases it, a Tenant that was
\* suspended keeps it until its lock is stale; both raise and end relay_once.
RelayPublish ==
    /\ pc = "publish" /\ held' = None
    /\ \/ /\ Answers(held)
          /\ outbox' = [outbox EXCEPT ![held] = FALSE]
          /\ sent' = sent + 1
          /\ pc' = "relay" /\ UNCHANGED faults
       \/ ~Answers(held) /\ pc' = "list" /\ UNCHANGED <<outbox, sent, faults>>
       \/ Fault /\ pc' = "list" /\ UNCHANGED <<outbox, sent>>
    /\ UNCHANGED <<active, runs, erasure, offset, cycle>>

-----------------------------------------------------------------------------
(* The Tenants of a cycle *)

List ==
    /\ pc = "list"
    /\ listed' = Routes /\ pos' = 1 /\ batch' = 0 /\ current' = 0
    /\ pc' = IF active = {} THEN "wait" ELSE "tenant"
    /\ UNCHANGED <<work, relay, faults>>

Tenant == listed[pos]

\* Its part of the cycle is over: done, or an exception was logged.
NextTenant ==
    /\ pos' = pos + 1 /\ batch' = 0 /\ current' = 0
    /\ pc' = IF pos = Len(listed) THEN "wait" ELSE "tenant"
    /\ UNCHANGED listed

\* The oldest open run without a lease.
Claimable(t) == SelectInSeq(runs[t], LAMBDA run : run.lease = 0)

ClaimRun ==
    /\ pc = "tenant"
    /\ \/ /\ Answers(Tenant) /\ batch < BatchSize /\ Claimable(Tenant) # 0
          /\ current' = Claimable(Tenant)
          /\ runs' = [runs EXCEPT ![Tenant][Claimable(Tenant)].lease = LeaseCycles]
          /\ pc' = "run" /\ UNCHANGED <<listed, pos, batch, faults>>
       \/ /\ Answers(Tenant) /\ (batch = BatchSize \/ Claimable(Tenant) = 0)
          /\ pc' = "erase" /\ UNCHANGED <<runs, listed, pos, batch, current, faults>>
       \/ ~Answers(Tenant) /\ NextTenant /\ UNCHANGED <<runs, faults>>
       \/ Fault /\ NextTenant /\ UNCHANGED runs
    /\ UNCHANGED <<active, outbox, erasure, relay>>

\* Mutant: the claim of a run that raised is given back.
AfterRaiseReleased == [runs EXCEPT ![Tenant][current].lease = 0]

\* Its lease is left to expire.
AfterRaise == runs

\* reauthorize_agent_claim and run_claimed: the run ends, whatever its end, or raises.
RunClaimed ==
    /\ pc = "run"
    /\ \/ /\ Answers(Tenant) /\ runs[Tenant][current].kind = "good"
          /\ runs' = [runs EXCEPT ![Tenant] = RemoveAt(@, current)]
          /\ batch' = batch + 1
          /\ current' = 0 /\ pc' = "tenant" /\ UNCHANGED <<listed, pos, faults>>
       \/ /\ ~Answers(Tenant) \/ runs[Tenant][current].kind = "poison"
          /\ runs' = AfterRaise
          /\ NextTenant /\ UNCHANGED faults
       \/ Fault /\ runs' = AfterRaise /\ NextTenant
    /\ UNCHANGED <<active, outbox, erasure, relay>>

EraseNext ==
    /\ pc = "erase"
    /\ \/ /\ Answers(Tenant)
          /\ erasure' = [erasure EXCEPT ![Tenant] = FALSE] /\ UNCHANGED faults
       \/ ~Answers(Tenant) /\ UNCHANGED <<erasure, faults>>
       \/ Fault /\ UNCHANGED erasure
    /\ NextTenant
    /\ UNCHANGED <<active, outbox, runs, relay>>

\* wait_for(stop.wait(), timeout = 1.0): every lease has a cycle less to go.
Wait ==
    /\ pc = "wait"
    /\ runs' = [t \in Tenants |->
                  [i \in 1..Len(runs[t]) |->
                     [runs[t][i] EXCEPT !.lease = IF @ = 0 THEN 0 ELSE @ - 1]]]
    /\ pc' = "relay" /\ sent' = 0
    /\ UNCHANGED <<active, outbox, erasure, offset, held, cycle, faults>>

\* The Control Store does not answer, or the process is killed: it is started again.
Restart ==
    /\ Fault
    /\ pc' = "relay" /\ offset' = 0 /\ sent' = 0 /\ held' = None
    /\ listed' = <<>> /\ pos' = 0 /\ batch' = 0 /\ current' = 0
    /\ UNCHANGED work

-----------------------------------------------------------------------------
(* What others do meanwhile *)

Enqueue(t) ==
    /\ t \in active \ Broken /\ ~outbox[t]
    /\ outbox' = [outbox EXCEPT ![t] = TRUE]
    /\ UNCHANGED <<active, runs, erasure, pc, relay, cycle, faults>>

\* Pairs of a Tenant and the index of one of its open runs.
Open(kinds) ==
    {o \in Tenants \X (1..MaxRuns) :
        o[2] <= Len(runs[o[1]]) /\ runs[o[1]][o[2]].kind \in kinds}

StartAgentRun(t, kind) ==
    /\ t \in active \ Broken
    /\ Cardinality(Open({"good", "poison"})) < MaxRuns
    /\ kind = "poison" => Cardinality(Open({"poison"})) < MaxPoison
    /\ runs' = [runs EXCEPT ![t] = Append(@, [kind |-> kind, lease |-> 0])]
    /\ UNCHANGED <<active, outbox, erasure, pc, relay, cycle, faults>>

ApproveErasure(t) ==
    /\ t \in active \ Broken /\ ~erasure[t]
    /\ erasure' = [erasure EXCEPT ![t] = TRUE]
    /\ UNCHANGED <<active, outbox, runs, pc, relay, cycle, faults>>

\* A backup or a decommission suspends a Tenant, and may resume it.
Suspend(t) ==
    /\ t \in active /\ Fault /\ active' = active \ {t}
    /\ UNCHANGED <<outbox, runs, erasure, pc, relay, cycle>>

Resume(t) ==
    /\ active' = active \cup {t} /\ t \notin active
    /\ UNCHANGED <<outbox, runs, erasure, pc, relay, cycle, faults>>

-----------------------------------------------------------------------------
Step ==
    \/ RelayClaim \/ RelayPublish \/ List \/ ClaimRun \/ RunClaimed \/ EraseNext \/ Wait

Next ==
    \/ Step \/ Restart
    \/ \E t \in Tenants :
         \/ Enqueue(t) \/ ApproveErasure(t) \/ Suspend(t) \/ Resume(t)
         \/ \E kind \in {"good", "poison"} : StartAgentRun(t, kind)

Spec == Init /\ [][Next]_vars

\* The worker keeps running; its supervisor restarts it.
FairSpec == Spec /\ WF_vars(Step)

-----------------------------------------------------------------------------
(* Properties *)

Served == Tenants \ Broken

\* Every Tenant gets its turn at the relay: neither a Tenant whose database is down nor
\* one that always has work keeps the others' committed work from being claimed.
RelayServesEveryTenant ==
    \A t \in Served : outbox[t] ~> held = t \/ ~outbox[t] \/ t \notin active

\* Every Tenant gets its turn in the cycle: an approved erasure is reached, although
\* runs of the same Tenant raise again and again and other Tenants have work all the
\* time; and so is the oldest run that can end.
Runs(t, kind) == \E i \in 1..Len(runs[t]) : runs[t][i].kind = kind
RunsAGoodOne(t) == pc = "run" /\ Tenant = t /\ runs[t][current].kind = "good"

EveryTenantIsServed ==
    \A t \in Served :
        /\ erasure[t] ~> ~erasure[t] \/ t \notin active
        /\ Runs(t, "good") ~> RunsAGoodOne(t) \/ t \notin active
=============================================================================
