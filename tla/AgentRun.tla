------------------------------- MODULE AgentRun -------------------------------
(***************************************************************************)
(* One durable Agent Run of a Tenant. Its history is kept twice: in the    *)
(* snapshot row of memory.agent_runs, written under a versioned lease, and *)
(* in ActiveGraph's native event stream, which everyone who loads the run  *)
(* repairs from the snapshot he has read. Workers claim and execute the    *)
(* run; gateways start, read and cancel it. Nothing but the row's          *)
(* conditional UPDATE and the stream's event identifiers orders them.      *)
(*                                                                         *)
(* A record's state, and the row's, is the fold of its events (StateOf).   *)
(* A capability is a sequence of operations, each with a check, a request  *)
(* event, a call, a check and an answer event.                             *)
(***************************************************************************)
EXTENDS Naturals, Sequences, FiniteSets

CONSTANTS
    Workers,        \* worker processes: each executes at most one claim
    Gateways,       \* requests a gateway process serves at a time
    Program,        \* the operations of the capability: "model" or "tool"
    MaxModelCalls,  \* max_model_calls of the budget
    MaxEvents,      \* max_events of the budget
    MaxClaims,      \* bound: lease_version
    MaxFaults,      \* bound: crashes, overrun leases, failing stores
    MaxReads        \* bound: status and replay requests

Procs == Workers \cup Gateways

ASSUME AgentRunAssumption ==
    /\ Workers \cap Gateways = {}
    /\ Program \in Seq({"model", "tool"})
    /\ MaxModelCalls \in Nat /\ MaxEvents \in Nat \ {0} /\ MaxClaims \in Nat
    /\ MaxFaults \in Nat /\ MaxReads \in Nat

VARIABLES
    snap,      \* events of the snapshot row; <<>>: no row
    version, held, expired,  \* lease_version; lease_token is set; it is too old
    native,    \* application events of the ActiveGraph stream
    pc,        \* each process: its next step
    then,      \* what the step is for
    ev,        \* events of its record
    exp,       \* the events that _reconcile_native_projection expects
    ver, op, typ,   \* each worker: its claim, its operation, the event it appends
    calls,     \* model calls made so far, by whomever
    lost,      \* commits whose answer did not reach the worker
    faults, reads

lease   == <<version, held, expired>>
local   == <<pc, then, ev, exp, ver, op, typ>>
bounds  == <<faults, reads>>
vars    == <<snap, lease, native, local, calls, lost, bounds>>

Terminal  == {"cancelled", "completed", "budget_exhausted", "failed"}
Lifecycle == Terminal \cup {"queued", "started", "cancel_requested"}
Types     == Lifecycle \cup {"requested", "answered"}
Kinds     == {"run", "model", "tool"}
EventsOf  == [type : Types, kind : Kinds, by : 0..MaxClaims]

Event(type, kind, by) == [type |-> type, kind |-> kind, by |-> by]

\* _replay_view: the last lifecycle event decides.
StateOf(s) ==
    LET L == {k \in 1..Len(s) : s[k].type \in Lifecycle}
    IN  s[CHOOSE k \in L : \A j \in L : j <= k].type

ModelCalls(s) == Cardinality({k \in 1..Len(s) : s[k].type = "requested" /\ s[k].kind = "model"})

Agree(s, t) == \A k \in 1..Len(s) : k <= Len(t) => s[k] = t[k]
Prefix(s, t) == Len(s) <= Len(t) /\ Agree(s, t)

TypeOK ==
    /\ snap \in Seq(EventsOf) /\ native \in Seq(EventsOf)
    /\ version \in 0..MaxClaims /\ held \in BOOLEAN /\ expired \in BOOLEAN
    /\ pc \in [Procs -> {"idle", "claimed", "check", "seed", "refresh", "diverged",
                         "observe", "persist", "call"}]
    /\ then \in [Procs -> {"none", "load", "quantum", "started", "before", "requested",
                           "after", "answered", "completed", "ended", "cancelling", "view"}]
    /\ ev \in [Procs -> Seq(EventsOf)] /\ exp \in [Procs -> Seq(EventsOf)]
    /\ ver \in [Procs -> 0..MaxClaims] /\ op \in [Procs -> 0..Len(Program)]
    /\ typ \in [Procs -> Types]
    /\ \A w \in Workers : pc[w] = "idle" <=> ver[w] = 0
    /\ calls \in Nat /\ lost \in 0..MaxFaults
    /\ faults \in 0..MaxFaults /\ reads \in 0..MaxReads

Init ==
    /\ snap = <<>> /\ native = <<>>
    /\ version = 0 /\ held = FALSE /\ expired = FALSE
    /\ pc = [p \in Procs |-> "idle"] /\ then = [p \in Procs |-> "none"]
    /\ ev = [p \in Procs |-> <<>>] /\ exp = [p \in Procs |-> <<>>]
    /\ ver = [p \in Procs |-> 0] /\ op = [p \in Procs |-> 0]
    /\ typ = [p \in Procs |-> "queued"]
    /\ calls = 0 /\ lost = 0 /\ faults = 0 /\ reads = 0

Fault == faults < MaxFaults /\ faults' = faults + 1 /\ UNCHANGED reads

-----------------------------------------------------------------------------
(* Control flow of a process *)

Goto(p, step, why) ==
    /\ pc' = [pc EXCEPT ![p] = step]
    /\ then' = [then EXCEPT ![p] = why]

\* The record is released and the claim forgotten, not given back.
Exit(p) ==
    /\ Goto(p, "idle", "none")
    /\ ev' = [ev EXCEPT ![p] = <<>>] /\ exp' = [exp EXCEPT ![p] = <<>>]
    /\ ver' = [ver EXCEPT ![p] = 0] /\ op' = [op EXCEPT ![p] = 0]
    /\ typ' = [typ EXCEPT ![p] = "queued"]

\* _append_event: the next step persists s with an event of this type appended.
AppendNext(w, s, type, why) ==
    /\ Goto(w, "persist", why)
    /\ typ' = [typ EXCEPT ![w] = type]
    /\ ev' = [ev EXCEPT ![w] = s]

\* Mutant: the calls of earlier attempts are not counted.
CallsLeftForWorker(w, s) ==
    Cardinality({k \in 1..Len(s) : s[k].type = "requested" /\ s[k].kind = "model"
                                     /\ s[k].by = ver[w]}) < MaxModelCalls

\* complete: the calls counted are the request events of all attempts.
CallsLeft(w, s) == ModelCalls(s) < MaxModelCalls

\* An event that is not forced needs room in the budget.
AppendInBudget(w, s, type, why) ==
    IF \/ Len(s) >= MaxEvents
       \/ type = "requested" /\ Program[op[w]] = "model" /\ ~CallsLeft(w, s)
    THEN AppendNext(w, s, "budget_exhausted", "ended")
    ELSE AppendNext(w, s, type, why)

InTry(p) ==
    then[p] \in {"started", "before", "requested", "after", "answered", "completed"}

\* An exception other than the runtime's own: inside the try block of run_quantum
\* the run fails, anywhere else the call does.
Raise(p) ==
    IF InTry(p)
    THEN AppendNext(p, ev[p], "failed", "ended") /\ UNCHANGED <<exp, ver, op>>
    ELSE Exit(p)

\* ValueError: the two histories are not one.
Diverged(p) ==
    IF p \in Gateways
    THEN pc' = [pc EXCEPT ![p] = "diverged"] /\ UNCHANGED <<then, ev, exp, ver, op, typ>>
    ELSE Raise(p)

-----------------------------------------------------------------------------
(* _reconcile_native_projection and _refresh_native_projection *)

\* The stream must be a prefix of the expected events ...
CheckProjection(p) ==
    /\ pc[p] = "check"
    /\ IF Prefix(native, exp[p])
       THEN pc' = [pc EXCEPT ![p] = "seed"] /\ UNCHANGED <<then, ev, exp, ver, op, typ>>
       ELSE Diverged(p)
    /\ UNCHANGED <<snap, lease, native, calls, lost, bounds>>

\* Mutant: a repaired event gets a fresh identifier and is appended again.
SeedProjectionTwice(p) ==
    /\ pc[p] = "seed"
    /\ native' = native \o SubSeq(exp[p], 1, 1)
    /\ pc' = [pc EXCEPT ![p] = "refresh"]
    /\ UNCHANGED <<snap, lease, then, ev, exp, ver, op, typ, calls, lost, bounds>>

\* ... and the missing ones are appended one by one under identifiers made from
\* their sequence numbers: one that someone else has appended is left alone.
SeedProjection(p) ==
    /\ pc[p] = "seed" /\ Agree(exp[p], native)
    /\ IF Len(native) < Len(exp[p])
       THEN native' = Append(native, exp[p][Len(native) + 1]) /\ UNCHANGED pc
       ELSE pc' = [pc EXCEPT ![p] = "refresh"] /\ UNCHANGED native
    /\ UNCHANGED <<snap, lease, then, ev, exp, ver, op, typ, calls, lost, bounds>>

\* "identifier collision": another event has the identifier.
SeedCollision(p) ==
    /\ pc[p] = "seed" /\ ~Agree(exp[p], native)
    /\ Diverged(p)
    /\ UNCHANGED <<snap, lease, native, calls, lost, bounds>>

\* run_quantum after the record has been refreshed from the stream s.
BeginQuantum(w, s) ==
    IF StateOf(s) \in Terminal THEN Exit(w)
    ELSE /\ IF StateOf(s) = "cancel_requested"
            THEN AppendNext(w, s, "cancelled", "ended")
            ELSE AppendInBudget(w, s, "started", "started")
         /\ UNCHANGED <<exp, ver, op>>

\* _check_time after its refresh: cancellation, then the clock, then what follows; a
\* model's answer is parsed only now.
Checked(w, s, type, why) ==
    /\ \/ /\ StateOf(s) = "cancel_requested"
          /\ Goto(w, "observe", "cancelling")
          /\ ev' = [ev EXCEPT ![w] = s] /\ UNCHANGED typ
       \/ /\ StateOf(s) # "cancel_requested"
          /\ AppendNext(w, s, "budget_exhausted", "ended")
       \/ /\ StateOf(s) # "cancel_requested"
          /\ AppendInBudget(w, s, type, why)
       \/ /\ StateOf(s) # "cancel_requested"
          /\ type = "answered" /\ Program[op[w]] = "model"
          /\ AppendNext(w, s, "failed", "ended")
    /\ UNCHANGED <<exp, ver, op>>

\* The stream is read again, the record becomes what it says, and the code goes on.
RefreshProjection(p) ==
    /\ pc[p] = "refresh"
    /\ LET s == native IN
         CASE then[p] \in {"view", "completed", "ended"} -> Exit(p)
           [] then[p] = "load" ->
                /\ Goto(p, "observe", "quantum")
                /\ ev' = [ev EXCEPT ![p] = s] /\ UNCHANGED <<exp, ver, op, typ>>
           [] then[p] = "quantum" -> BeginQuantum(p, s)
           [] then[p] = "before" -> Checked(p, s, "requested", "requested")
           [] then[p] = "after" -> Checked(p, s, "answered", "answered")
           [] then[p] = "requested" ->
                /\ Goto(p, "call", "requested")
                /\ ev' = [ev EXCEPT ![p] = s] /\ UNCHANGED <<exp, ver, op, typ>>
           [] then[p] \in {"started", "answered"} ->
                IF op[p] < Len(Program)
                THEN /\ Goto(p, "observe", "before")
                     /\ op' = [op EXCEPT ![p] = @ + 1]
                     /\ ev' = [ev EXCEPT ![p] = s] /\ UNCHANGED <<exp, ver, typ>>
                ELSE AppendInBudget(p, s, "completed", "completed") /\ UNCHANGED <<exp, ver, op>>
           [] then[p] = "cancelling" ->
                AppendNext(p, s, "cancelled", "ended") /\ UNCHANGED <<exp, ver, op>>
    /\ UNCHANGED <<snap, lease, native, calls, lost, bounds>>

-----------------------------------------------------------------------------
(* The row of memory.agent_runs *)

\* create_or_get; the first event follows into the stream.
StartRun(g) ==
    /\ pc[g] = "idle" /\ snap = <<>>
    /\ snap' = <<Event("queued", "run", 0)>>
    /\ exp' = [exp EXCEPT ![g] = <<Event("queued", "run", 0)>>]
    /\ Goto(g, "seed", "view")
    /\ UNCHANGED <<lease, native, ev, ver, op, typ, calls, lost, bounds>>

\* status, replay, a repeated start, and run_pending without a claim.
ReadRun(g) ==
    /\ pc[g] = "idle" /\ snap # <<>> /\ reads < MaxReads
    /\ reads' = reads + 1
    /\ exp' = [exp EXCEPT ![g] = snap]
    /\ Goto(g, "check", "view")
    /\ UNCHANGED <<snap, lease, native, ev, ver, op, typ, calls, lost, faults>>

\* Mutant: the row as the caller last saw it is written back.
WithCancellationOfStale(s) == <<s[1], Event("cancel_requested", "run", 0)>>

\* _with_cancellation_requested.
WithCancellation(s) == Append(s, Event("cancel_requested", "run", 0))

Cancellable == snap # <<>> /\ StateOf(snap) \notin Terminal \cup {"cancel_requested"}

\* cancel: request_cancellation needs no lease; then the view is built like any other.
CancelRun(g) ==
    /\ pc[g] = "idle" /\ Cancellable
    /\ snap' = WithCancellation(snap)
    /\ exp' = [exp EXCEPT ![g] = WithCancellation(snap)]
    /\ Goto(g, "check", "view")
    /\ UNCHANGED <<lease, native, ev, ver, op, typ, calls, lost, bounds>>

\* The request ends with the error response.
ReportDivergence(g) ==
    /\ pc[g] = "diverged"
    /\ Exit(g)
    /\ UNCHANGED <<snap, lease, native, calls, lost, bounds>>

\* Mutant: the claim of a crashed worker is never taken over.
RunnableUnclaimed ==
    snap # <<>> /\ StateOf(snap) \notin Terminal /\ ~held

\* The WHERE clause of _claim.
Runnable ==
    /\ snap # <<>> /\ StateOf(snap) \notin Terminal
    /\ ~held \/ expired

\* claim_runnable.
ClaimRun(w) ==
    /\ pc[w] = "idle" /\ Runnable /\ version < MaxClaims
    /\ version' = version + 1 /\ held' = TRUE /\ expired' = FALSE
    /\ ver' = [ver EXCEPT ![w] = version + 1]
    /\ exp' = [exp EXCEPT ![w] = snap] /\ ev' = [ev EXCEPT ![w] = snap]
    /\ Goto(w, "claimed", "load")
    /\ UNCHANGED <<snap, native, op, typ, calls, lost, bounds>>

\* reauthorize_agent_claim: the session is still good, or the run is cancelled and
\* executed with the snapshot of the claim all the same.
Reauthorize(w) ==
    /\ pc[w] = "claimed"
    /\ snap' = snap \/ (Cancellable /\ snap' = WithCancellation(snap))
    /\ Goto(w, "check", "load")
    /\ UNCHANGED <<lease, native, ev, exp, ver, op, typ, calls, lost, bounds>>

\* Three hundred seconds pass on the claim of a process that has gone ...
LeaseExpires ==
    /\ held /\ ~expired
    /\ \A w \in Workers : pc[w] = "idle" \/ ver[w] # version
    /\ expired' = TRUE
    /\ UNCHANGED <<snap, version, held, native, local, calls, lost, bounds>>

\* ... or of one that is still at work.
LeaseOverrun ==
    /\ held /\ ~expired /\ Fault
    /\ \E w \in Workers : pc[w] # "idle" /\ ver[w] = version
    /\ expired' = TRUE
    /\ UNCHANGED <<snap, version, held, native, local, calls, lost>>

-----------------------------------------------------------------------------
(* run_claimed *)

\* _refresh_cancellation reads the row; a requested cancellation is reconciled first.
ObserveCancellation(w) ==
    /\ pc[w] = "observe"
    /\ IF then[w] \in {"before", "after"} /\ StateOf(ev[w]) = "cancel_requested"
       THEN Goto(w, "observe", "cancelling") /\ UNCHANGED exp
       ELSE IF StateOf(snap) = "cancel_requested"
       THEN Goto(w, "check", then[w]) /\ exp' = [exp EXCEPT ![w] = snap]
       ELSE Goto(w, "refresh", then[w]) /\ UNCHANGED exp
    /\ UNCHANGED <<snap, lease, native, ev, ver, op, typ, calls, lost, bounds>>

Owns(w) == held /\ ~expired /\ version = ver[w]

\* Mutant: a requested cancellation is overwritten.
AcceptsOverCancellation(w) == Owns(w) /\ StateOf(snap) \notin Terminal

\* The WHERE clause of _save_claimed.
Accepts(w) ==
    /\ Owns(w)
    /\ StateOf(snap) \notin Terminal
    /\ StateOf(snap) = "cancel_requested" => typ[w] = "cancelled"

NewEvent(w) ==
    Event(typ[w], IF typ[w] \in {"requested", "answered"} THEN Program[op[w]] ELSE "run", ver[w])

\* The whole snapshot is replaced by the worker's; a terminal one ends the lease.
Save(w) ==
    /\ snap' = Append(ev[w], NewEvent(w))
    /\ held' = (held /\ typ[w] \notin Terminal)
    /\ UNCHANGED <<version, expired>>

\* _append_event: the row first, the stream afterwards.
Persist(w) ==
    /\ pc[w] = "persist" /\ Accepts(w)
    /\ Save(w)
    /\ ev' = [ev EXCEPT ![w] = Append(ev[w], NewEvent(w))]
    /\ exp' = [exp EXCEPT ![w] = Append(ev[w], NewEvent(w))]
    /\ Goto(w, "check", then[w])
    /\ UNCHANGED <<native, ver, op, typ, calls, lost, bounds>>

\* The UPDATE matched no row: AgentRunCancellationRequested completes the
\* cancellation, AgentRunLeaseLost ends the execution.
PersistRefused(w) ==
    /\ pc[w] = "persist" /\ ~Accepts(w)
    /\ IF Owns(w) /\ StateOf(snap) = "cancel_requested"
       THEN Goto(w, "observe", "cancelling") /\ UNCHANGED <<ev, exp, ver, op, typ>>
       ELSE Exit(w)
    /\ UNCHANGED <<snap, lease, native, calls, lost, bounds>>

\* The database fails; the event is taken off the record again. The transaction may
\* have been committed before its answer was lost.
PersistFails(w) ==
    /\ pc[w] = "persist" /\ Fault
    /\ \/ UNCHANGED <<snap, lease, lost>>
       \/ Accepts(w) /\ Save(w) /\ lost' = lost + 1
    /\ Raise(w)
    /\ UNCHANGED <<native, calls>>

\* The model or the tool is called; it answers, it fails, or its cost ends the run.
Call(w) ==
    /\ pc[w] = "call"
    /\ calls' = calls + (IF Program[op[w]] = "model" THEN 1 ELSE 0)
    /\ \/ Goto(w, "observe", "after") /\ UNCHANGED <<ev, exp, ver, op, typ>>
       \/ Raise(w)
       \/ /\ Program[op[w]] = "model"
          /\ AppendNext(w, ev[w], "budget_exhausted", "ended") /\ UNCHANGED <<exp, ver, op>>
    /\ UNCHANGED <<snap, lease, native, lost, bounds>>

\* A read or an append of either store fails.
StoreFails(p) ==
    /\ pc[p] \in {"check", "seed", "refresh", "observe"} /\ Fault
    /\ Raise(p)
    /\ UNCHANGED <<snap, lease, native, calls, lost>>

\* The process dies.
Crash(p) ==
    /\ pc[p] # "idle" /\ Fault
    /\ Exit(p)
    /\ UNCHANGED <<snap, lease, native, calls, lost>>

-----------------------------------------------------------------------------
Reconcile(p) ==
    CheckProjection(p) \/ SeedProjection(p) \/ SeedCollision(p) \/ RefreshProjection(p)

Work(w) ==
    ClaimRun(w) \/ Reauthorize(w) \/ Reconcile(w) \/ ObserveCancellation(w)
        \/ Persist(w) \/ PersistRefused(w) \/ Call(w)

Next ==
    \/ \E g \in Gateways :
         StartRun(g) \/ ReadRun(g) \/ CancelRun(g) \/ Reconcile(g) \/ ReportDivergence(g)
    \/ \E w \in Workers : Work(w) \/ PersistFails(w)
    \/ \E p \in Procs : StoreFails(p) \/ Crash(p)
    \/ LeaseExpires \/ LeaseOverrun

Spec == Init /\ [][Next]_vars

\* Workers poll and execute, and time passes; nobody has to ask for anything.
Fairness == WF_vars(LeaseExpires) /\ \A w \in Workers : WF_vars(Work(w))

FairSpec == Spec /\ Fairness

-----------------------------------------------------------------------------
(* Properties *)

\* The stream never runs ahead of the snapshot nor away from it, whoever repairs it,
\* with whatever snapshot he read, and whoever lost his lease meanwhile. (An answer
\* that is lost after the commit breaks this: see AcceptedEventsStand.)
ProjectionIsPrefix == lost = 0 => Prefix(native, snap)

\* Writing the snapshot back as a whole never drops an accepted event: neither a
\* cancellation nor another worker's progress.
AcceptedEventsStand == [][lost' = 0 => Prefix(snap, snap')]_vars

\* "Cancellation wins over a worker's later success or failure", and an ended run
\* stays as it ended.
CancellationWins ==
    [][snap # <<>> =>
         /\ StateOf(snap) \in Terminal => snap' = snap
         /\ StateOf(snap) = "cancel_requested" =>
              StateOf(snap') \in {"cancel_requested", "cancelled"}]_vars

\* The run never makes more model calls than its budget, however many workers
\* crash in the middle of one and start over; and its history is bounded: past the
\* event budget there is room for a cancellation and for the end.
BudgetKept == calls <= MaxModelCalls /\ Len(snap) <= MaxEvents + 2

\* Stated by the documents; it does not hold of the code, see README.md ("Known
\* differences"). "Runs are addressable, replayable, and cooperatively cancellable
\* across gateway and worker processes": a request fails with the divergence error
\* only when the histories really diverge.
ReadableWhileHealthy ==
    \A g \in Gateways : pc[g] = "diverged" => ~Prefix(native, snap)

\* A started run ends, whoever crashes or loses the lease on the way.
RunEnds == (snap # <<>>) ~> (snap # <<>> /\ StateOf(snap) \in Terminal)
=============================================================================
