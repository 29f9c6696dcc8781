---------------------------- MODULE AgentRunProofs ----------------------------
(***************************************************************************)
(* One Agent Run's two histories, for any number of workers, gateways,     *)
(* claims and faults and any capability. IInv says how far a process is    *)
(* from the row: whoever repairs the stream does it with a prefix of the   *)
(* row, and the owner of the lease is at most one cancellation behind it,  *)
(* and one event of his own if the answer of a commit was lost. Budget     *)
(* adds what the calls are paid with: each model call made belongs to a    *)
(* request event of the row that no worker still has to call for.          *)
(***************************************************************************)
EXTENDS AgentRun, SequenceTheorems, FiniteSetTheorems, WellFoundedInduction, TLAPS

Steps   == {"idle", "claimed", "check", "seed", "refresh", "diverged", "observe", "persist", "call"}
Reasons == {"none", "load", "quantum", "started", "before", "requested", "after", "answered",
            "completed", "ended", "cancelling", "view"}
InOperation == {"before", "requested", "after", "answered"}

LocalTypes ==
    /\ pc \in [Procs -> Steps] /\ then \in [Procs -> Reasons]
    /\ ev \in [Procs -> Seq(EventsOf)] /\ exp \in [Procs -> Seq(EventsOf)]
    /\ ver \in [Procs -> 0..MaxClaims] /\ op \in [Procs -> 0..Len(Program)]
    /\ typ \in [Procs -> Types]

SharedTypes ==
    /\ snap \in Seq(EventsOf) /\ native \in Seq(EventsOf)
    /\ version \in 0..MaxClaims /\ held \in BOOLEAN /\ expired \in BOOLEAN
    /\ calls \in Nat /\ lost \in 0..MaxFaults
    /\ faults \in 0..MaxFaults /\ lost <= faults /\ reads \in 0..MaxReads

\* A process that is busy knows what for, and which operation it is at.
Busy(p) ==
    /\ pc[p] # "idle" => then[p] # "none"
    /\ p \in Workers => (pc[p] = "idle" <=> ver[p] = 0)
    /\ then[p] \in InOperation => op[p] \in 1..Len(Program)
    /\ pc[p] = "persist" /\ typ[p] \in {"requested", "answered"} => then[p] \in InOperation
    /\ pc[p] = "call" => then[p] \in InOperation
    /\ pc[p] = "persist" => then[p] # "cancelling"

TInv == LocalTypes /\ SharedTypes /\ \A p \in Procs : Busy(p)

\* A claim has its own version, and only a run that exists is claimed.
Claims ==
    /\ snap = <<>> => ~held
    /\ \A w \in Workers : ver[w] <= version
    /\ \A v, w \in Workers : ver[v] = ver[w] /\ ver[w] # 0 => v = w

\* The row is this history, or this history and a cancellation.
Near(s) ==
    \/ snap = s
    \/ snap = WithCancellation(s) /\ StateOf(s) \notin Terminal \cup {"cancel_requested"}

\* A commit's answer was lost, and the worker is about to report the failure: the row
\* has an event of his that he does not know of.
Dropped(w) ==
    /\ pc[w] = "persist" /\ then[w] = "ended" /\ typ[w] = "failed" /\ lost # 0
    /\ StateOf(ev[w]) \notin Terminal
    /\ \E e \in EventsOf : /\ e.by = ver[w] /\ e.type \notin Terminal \cup {"cancel_requested"}
                          /\ Near(Append(ev[w], e))

\* The worker reads the row again to complete a cancellation.
Ending(w) == then[w] = "cancelling" /\ pc[w] \in {"observe", "check", "seed", "refresh"}

\* What the owner of the lease knows of the row and of the stream.
Owner(w) ==
    /\ Near(ev[w]) \/ Ending(w) \/ Dropped(w)
    /\ Near(exp[w]) \/ (Ending(w) /\ pc[w] = "observe") \/ Dropped(w)
    /\ \/ pc[w] \in {"refresh", "call"}
       \/ pc[w] = "observe" /\ then[w] # "cancelling"
       => Prefix(exp[w], native)
    /\ Ending(w) => StateOf(snap) = "cancel_requested"
    /\ Ending(w) /\ pc[w] # "observe" => exp[w] = snap
    /\ pc[w] = "persist" /\ typ[w] = "cancelled" =>
         ev[w] = snap /\ StateOf(snap) = "cancel_requested"

Good(p) ==
    /\ Prefix(exp[p], snap)
    /\ p \in Workers /\ pc[p] # "idle" /\ Owns(p) => Owner(p)

Histories == Prefix(native, snap) /\ \A p \in Procs : Good(p)

\* The worst that a lost answer leads to is the end of the run.
Intact == lost = 0 \/ StateOf(snap) \notin Terminal

\* An ended run is nobody's, and what does not exist has lost nothing.
Ended ==
    /\ snap # <<>> => snap[1].type \in Lifecycle
    /\ snap # <<>> /\ StateOf(snap) \in Terminal => ~held
    /\ snap = <<>> => lost = 0

\* What a worker is about to append, and that it was in the budget.
Planned(w) ==
    /\ then[w] = "requested" => pc[w] \in {"persist", "check", "seed", "refresh", "call"}
    /\ pc[w] = "call" => then[w] = "requested"
    /\ pc[w] = "persist" => (then[w] = "requested" <=> typ[w] = "requested")
    /\ pc[w] = "persist" /\ typ[w] \notin Terminal =>
         InTry(w) /\ typ[w] # "cancel_requested" /\ Len(ev[w]) < MaxEvents
    /\ pc[w] = "persist" /\ typ[w] = "requested" /\ Program[op[w]] = "model" =>
         ModelCalls(ev[w]) < MaxModelCalls

Plans == \A w \in Workers : Planned(w)

\* A worker between its request event and its call.
Open(w) == then[w] = "requested" /\ pc[w] \in {"check", "seed", "refresh", "call"}

Opened(w) ==
    Open(w) => /\ Len(exp[w]) \in 1..Len(snap)
               /\ snap[Len(exp[w])] = Event("requested", Program[op[w]], ver[w])

Request(e) == e.type = "requested" /\ e.kind = "model"

\* The place of a request that its worker has not called for, or does not know of.
Uncalled(w, k) ==
    \/ Open(w) /\ k = Len(exp[w])
    \/ pc[w] = "persist" /\ Owns(w) /\ k = Len(ev[w]) + 1

\* The requests that may have led to a call.
Paid == {k \in 1..Len(snap) : Request(snap[k]) /\ \A w \in Workers : ~Uncalled(w, k)}

\* Events that need no room in the budget.
Forced ==
    IF StateOf(snap) \in Terminal THEN 2 ELSE IF StateOf(snap) = "cancel_requested" THEN 1 ELSE 0

Room     == snap # <<>> => Len(snap) <= MaxEvents + Forced
Counted  == ModelCalls(snap) <= MaxModelCalls
Openings == \A w \in Workers : Opened(w)
Budget   == Room /\ Counted /\ Openings /\ calls <= Cardinality(Paid)

IInv == TInv /\ Claims /\ Plans /\ Ended /\ (Intact => Histories)

LocalSane == LocalTypes /\ \A p \in Procs : Busy(p)

-----------------------------------------------------------------------------
(* Types *)

LEMMA ProgramKinds ==
  /\ Len(Program) \in Nat
  /\ \A k \in 1..Len(Program) : Program[k] \in Kinds
  BY AgentRunAssumption DEF Kinds

LEMMA InitTypes == Init => TInv
  <1> SUFFICES ASSUME Init PROVE TInv
    OBVIOUS
  <1>1. LocalTypes
    <2>1. pc \in [Procs -> Steps] /\ then \in [Procs -> Reasons] /\ typ \in [Procs -> Types]
      BY DEF Init, Steps, Reasons, Types, Lifecycle
    <2>2. ev \in [Procs -> Seq(EventsOf)] /\ exp \in [Procs -> Seq(EventsOf)]
      BY DEF Init
    <2>3. ver \in [Procs -> 0..MaxClaims] /\ op \in [Procs -> 0..Len(Program)]
      BY ProgramKinds, AgentRunAssumption DEF Init
    <2> QED
      BY <2>1, <2>2, <2>3 DEF LocalTypes
  <1>2. SharedTypes
    <2>1. snap \in Seq(EventsOf) /\ native \in Seq(EventsOf)
      <3>1. snap = <<>> /\ native = <<>>
        BY DEF Init
      <3> QED
        BY <3>1
    <2>3. held \in BOOLEAN /\ expired \in BOOLEAN
      BY Zenon DEF Init
    <2>2. /\ version \in 0..MaxClaims /\ calls \in Nat /\ lost \in 0..MaxFaults
          /\ faults \in 0..MaxFaults /\ lost <= faults /\ reads \in 0..MaxReads
      BY AgentRunAssumption DEF Init
    <2> QED
      BY <2>1, <2>2, <2>3 DEF SharedTypes
  <1>3. \A p \in Procs : Busy(p)
    BY DEF Init, Busy, Procs, InOperation
  <1> QED
    BY <1>1, <1>2, <1>3 DEF TInv

LEMMA ExitTypes ==
  ASSUME LocalSane, NEW p \in Procs, Exit(p)
  PROVE  LocalSane'
  <1>1. LocalTypes'
    BY ProgramKinds, AgentRunAssumption DEF LocalSane, LocalTypes, Exit, Goto, Steps, Reasons, Types, Lifecycle
  <1>2. ASSUME NEW q \in Procs PROVE Busy(q)'
    BY DEF LocalSane, LocalTypes, Exit, Goto, Busy, InOperation
  <1> QED
    BY <1>1, <1>2 DEF LocalSane

LEMMA AppendTypes ==
  ASSUME LocalSane, NEW p \in Procs, NEW s \in Seq(EventsOf), NEW type \in Types, NEW why \in Reasons \ {"none", "cancelling"},
         AppendNext(p, s, type, why), UNCHANGED <<exp, ver, op>>, pc[p] # "idle",
         why \in InOperation => op[p] \in 1..Len(Program),
         type \in {"requested", "answered"} => why \in InOperation
  PROVE  LocalSane'
  <1>1. LocalTypes'
    BY DEF LocalSane, LocalTypes, AppendNext, Goto, Steps
  <1>2. ASSUME NEW q \in Procs PROVE Busy(q)'
    BY DEF LocalSane, LocalTypes, AppendNext, Goto, Busy
  <1> QED
    BY <1>1, <1>2 DEF LocalSane

LEMMA GotoTypes ==
  ASSUME LocalSane, NEW p \in Procs, NEW step \in Steps \ {"idle", "persist"}, NEW why \in Reasons \ {"none"},
         Goto(p, step, why), UNCHANGED typ,
         ev' \in [Procs -> Seq(EventsOf)], exp' \in [Procs -> Seq(EventsOf)],
         ver' \in [Procs -> 0..MaxClaims], op' \in [Procs -> 0..Len(Program)],
         \A q \in Procs \ {p} : ver'[q] = ver[q] /\ op'[q] = op[q],
         p \in Workers => ver'[p] # 0, step = "call" => why \in InOperation,
         why \in InOperation => op'[p] \in 1..Len(Program)
  PROVE  LocalSane'
  <1>1. LocalTypes'
    BY DEF LocalSane, LocalTypes, Goto
  <1>2. ASSUME NEW q \in Procs PROVE Busy(q)'
    BY DEF LocalSane, LocalTypes, Goto, Busy
  <1> QED
    BY <1>1, <1>2 DEF LocalSane

LEMMA RaiseTypes ==
  ASSUME LocalSane, NEW p \in Procs, Raise(p), pc[p] # "idle"
  PROVE  LocalSane'
  <1>1. CASE InTry(p)
    <2>1. ev[p] \in Seq(EventsOf)
      BY DEF LocalSane, LocalTypes
    <2> QED
      BY <1>1, <2>1, AppendTypes DEF Raise, Types, Lifecycle, Terminal, Reasons, InOperation
  <1>2. CASE ~InTry(p)
    BY <1>2, ExitTypes DEF Raise
  <1> QED
    BY <1>1, <1>2

\* A process that goes on without anything local changing but its step.
LEMMA OnwardTypes ==
  ASSUME LocalSane, NEW p \in Procs, NEW step \in Steps \ {"idle", "persist", "call"}, pc[p] # "idle",
         pc' = [pc EXCEPT ![p] = step], UNCHANGED <<then, ev, exp, ver, op, typ>>
  PROVE  LocalSane'
  <1>1. LocalTypes'
    BY DEF LocalSane, LocalTypes
  <1>2. ASSUME NEW q \in Procs PROVE Busy(q)'
    BY DEF LocalSane, LocalTypes, Busy
  <1> QED
    BY <1>1, <1>2 DEF LocalSane

LEMMA DivergedTypes ==
  ASSUME LocalSane, NEW p \in Procs, Diverged(p), pc[p] # "idle"
  PROVE  LocalSane'
  BY RaiseTypes, OnwardTypes DEF Diverged, Steps

LEMMA CheckTypes ==
  ASSUME LocalSane, NEW p \in Procs, CheckProjection(p)
  PROVE  LocalSane'
  <1>1. CASE Diverged(p)
    BY <1>1, DivergedTypes DEF CheckProjection
  <1>2. CASE pc' = [pc EXCEPT ![p] = "seed"] /\ UNCHANGED <<then, ev, exp, ver, op, typ>>
    BY <1>2, OnwardTypes DEF CheckProjection, Steps
  <1> QED
    BY <1>1, <1>2 DEF CheckProjection

LEMMA SeedTypes ==
  ASSUME LocalSane, NEW p \in Procs, SeedProjection(p)
  PROVE  LocalSane'
  <1>1. CASE pc' = [pc EXCEPT ![p] = "refresh"]
    BY <1>1, OnwardTypes DEF SeedProjection, Steps
  <1>2. CASE UNCHANGED pc
    BY <1>2 DEF SeedProjection, LocalSane, LocalTypes, Busy
  <1> QED
    BY <1>1, <1>2 DEF SeedProjection

LEMMA InBudgetTypes ==
  ASSUME LocalSane, NEW p \in Procs, NEW s \in Seq(EventsOf), NEW type \in Types, NEW why \in Reasons \ {"none", "cancelling"},
         AppendInBudget(p, s, type, why), UNCHANGED <<exp, ver, op>>, pc[p] # "idle",
         why \in InOperation => op[p] \in 1..Len(Program),
         type \in {"requested", "answered"} => why \in InOperation
  PROVE  LocalSane'
  <1>1. CASE AppendNext(p, s, "budget_exhausted", "ended")
    BY <1>1, AppendTypes DEF Types, Lifecycle, Terminal, Reasons, InOperation
  <1>2. CASE AppendNext(p, s, type, why)
    BY <1>2, AppendTypes
  <1> QED
    BY <1>1, <1>2 DEF AppendInBudget

LEMMA CheckedTypes ==
  ASSUME LocalSane, NEW p \in Procs, NEW s \in Seq(EventsOf), NEW type \in {"requested", "answered"},
         Checked(p, s, type, type), pc[p] # "idle", then[p] \in InOperation
  PROVE  LocalSane'
  <1>0. /\ op[p] \in 1..Len(Program) /\ type \in Types /\ type \in InOperation
        /\ type \in Reasons \ {"none", "cancelling"} /\ UNCHANGED <<exp, ver, op>>
    BY DEF LocalSane, Busy, Types, InOperation, Reasons, Checked
  <1>1. CASE Goto(p, "observe", "cancelling") /\ ev' = [ev EXCEPT ![p] = s] /\ UNCHANGED typ
    <2>1. p \in Workers => ver[p] # 0
      BY DEF LocalSane, Busy
    <2> QED
      BY <1>0, <1>1, <2>1, GotoTypes DEF LocalSane, LocalTypes, Steps, Reasons, InOperation
  <1>2. CASE AppendNext(p, s, "budget_exhausted", "ended") \/ AppendNext(p, s, "failed", "ended")
    BY <1>0, <1>2, AppendTypes DEF Types, Lifecycle, Terminal, Reasons, InOperation
  <1>3. CASE AppendInBudget(p, s, type, type)
    BY <1>0, <1>3, InBudgetTypes
  <1> QED
    BY <1>1, <1>2, <1>3 DEF Checked

LEMMA RefreshTypes ==
  ASSUME LocalSane, native \in Seq(EventsOf), NEW p \in Procs, RefreshProjection(p)
  PROVE  LocalSane'
  <1>0. /\ pc[p] = "refresh" /\ then[p] \in Reasons \ {"none"}
        /\ p \in Workers => ver[p] # 0
        /\ then[p] \in InOperation => op[p] \in 1..Len(Program)
        /\ op[p] \in 0..Len(Program)
    BY DEF LocalSane, LocalTypes, Busy, RefreshProjection
  <1>1. CASE then[p] \in {"view", "completed", "ended"}
    BY <1>0, <1>1, ExitTypes DEF RefreshProjection
  <1>2. CASE then[p] \in {"load", "requested"}
    <2>1. /\ \/ Goto(p, "observe", "quantum")
             \/ Goto(p, "call", "requested") /\ then[p] = "requested"
          /\ ev' = [ev EXCEPT ![p] = native] /\ UNCHANGED <<exp, ver, op, typ>>
      BY <1>0, <1>2 DEF RefreshProjection
    <2> QED
      BY <1>0, <2>1, GotoTypes DEF LocalSane, LocalTypes, Steps, Reasons, InOperation
  <1>3. CASE then[p] = "quantum"
    <2>1. BeginQuantum(p, native)
      BY <1>0, <1>3 DEF RefreshProjection
    <2>2. CASE Exit(p)
      BY <2>2, ExitTypes
    <2>3. CASE AppendNext(p, native, "cancelled", "ended") /\ UNCHANGED <<exp, ver, op>>
      BY <1>0, <2>3, AppendTypes DEF Types, Lifecycle, Terminal, Reasons, InOperation
    <2>4. CASE AppendInBudget(p, native, "started", "started") /\ UNCHANGED <<exp, ver, op>>
      BY <1>0, <2>4, InBudgetTypes DEF Types, Lifecycle, Reasons, InOperation
    <2> QED
      BY <2>1, <2>2, <2>3, <2>4 DEF BeginQuantum
  <1>4. CASE then[p] = "before" \/ then[p] = "after"
    <2>1. Checked(p, native, "requested", "requested") \/ Checked(p, native, "answered", "answered")
      BY <1>0, <1>4 DEF RefreshProjection
    <2> QED
      BY <1>0, <1>4, <2>1, CheckedTypes DEF InOperation
  <1>5. CASE then[p] \in {"started", "answered"}
    <2>1. CASE op[p] < Len(Program)
      <3>1. /\ Goto(p, "observe", "before") /\ op' = [op EXCEPT ![p] = op[p] + 1]
            /\ ev' = [ev EXCEPT ![p] = native] /\ UNCHANGED <<exp, ver, typ>>
        BY <1>0, <1>5, <2>1 DEF RefreshProjection
      <3>2. op[p] + 1 \in 1..Len(Program)
        BY <1>0, <2>1, ProgramKinds
      <3>3. /\ op' \in [Procs -> 0..Len(Program)] /\ op'[p] \in 1..Len(Program)
            /\ \A q \in Procs \ {p} : op'[q] = op[q]
        BY <3>1, <3>2, ProgramKinds DEF LocalSane, LocalTypes
      <3> QED
        BY <1>0, <3>1, <3>3, GotoTypes DEF LocalSane, LocalTypes, Steps, Reasons
    <2>2. CASE ~(op[p] < Len(Program))
      <3>1. AppendInBudget(p, native, "completed", "completed") /\ UNCHANGED <<exp, ver, op>>
        BY <1>0, <1>5, <2>2 DEF RefreshProjection
      <3> QED
        BY <1>0, <3>1, InBudgetTypes DEF Types, Lifecycle, Terminal, Reasons, InOperation
    <2> QED
      BY <2>1, <2>2
  <1>6. CASE then[p] = "cancelling"
    <2>1. AppendNext(p, native, "cancelled", "ended") /\ UNCHANGED <<exp, ver, op>>
      BY <1>0, <1>6 DEF RefreshProjection
    <2> QED
      BY <1>0, <2>1, AppendTypes DEF Types, Lifecycle, Terminal, Reasons, InOperation
  <1> QED
    BY <1>0, <1>1, <1>2, <1>3, <1>4, <1>5, <1>6 DEF Reasons

LEMMA NewEventType ==
  ASSUME LocalSane, SharedTypes, NEW w \in Workers, pc[w] = "persist"
  PROVE  NewEvent(w) \in EventsOf
  <1>1. typ[w] \in Types /\ ver[w] \in 0..MaxClaims /\ w \in Procs
    BY DEF LocalSane, LocalTypes, Procs
  <1>2. typ[w] \in {"requested", "answered"} => Program[op[w]] \in Kinds
    BY <1>1, ProgramKinds DEF LocalSane, Busy
  <1> QED
    BY <1>1, <1>2 DEF NewEvent, Event, EventsOf, Kinds

LEMMA CancellationType == Event("cancel_requested", "run", 0) \in EventsOf /\ Event("queued", "run", 0) \in EventsOf
  BY AgentRunAssumption DEF Event, EventsOf, Types, Lifecycle, Kinds

\* Work on the row: what happens to the process.
LEMMA WorkTypes ==
  ASSUME LocalSane, SharedTypes, NEW w \in Workers, Work(w) \/ PersistFails(w)
  PROVE  LocalSane'
  <1>0. w \in Procs /\ native \in Seq(EventsOf) /\ snap \in Seq(EventsOf) /\ (pc[w] # "idle" => ver[w] # 0)
    BY DEF SharedTypes, Procs, LocalSane, Busy
  <1>1. CASE ClaimRun(w)
    <2>1. version + 1 \in 1..MaxClaims
      <3>1. version \in 0..MaxClaims /\ version < MaxClaims
        BY <1>1 DEF SharedTypes, ClaimRun
      <3> QED
        BY <3>1, AgentRunAssumption
    <2>2. ver' \in [Procs -> 0..MaxClaims] /\ ver'[w] # 0 /\ \A q \in Procs \ {w} : ver'[q] = ver[q]
      BY <1>0, <1>1, <2>1 DEF ClaimRun, LocalSane, LocalTypes
    <2> QED
      BY <1>0, <1>1, <2>2, GotoTypes DEF ClaimRun, LocalSane, LocalTypes, Steps, Reasons, InOperation
  <1>2. CASE Reauthorize(w)
    BY <1>0, <1>2, GotoTypes DEF Reauthorize, LocalSane, LocalTypes, Steps, Reasons, InOperation
  <1>3. CASE Reconcile(w)
    <2>1. CASE SeedCollision(w)
      BY <1>0, <2>1, DivergedTypes DEF SeedCollision
    <2> QED
      BY <1>0, <1>3, <2>1, CheckTypes, SeedTypes, RefreshTypes DEF Reconcile
  <1>4. CASE ObserveCancellation(w)
    <2>1. /\ then[w] \in Reasons \ {"none"} /\ (then[w] \in InOperation => op[w] \in 1..Len(Program))
          /\ pc[w] # "idle"
      BY <1>0, <1>4 DEF LocalSane, LocalTypes, Busy, ObserveCancellation
    <2>2. \/ Goto(w, "observe", "cancelling") \/ Goto(w, "check", then[w]) \/ Goto(w, "refresh", then[w])
      BY <1>4 DEF ObserveCancellation
    <2>3. exp' \in [Procs -> Seq(EventsOf)] /\ UNCHANGED <<ev, ver, op, typ>>
      BY <1>0, <1>4 DEF LocalSane, LocalTypes, ObserveCancellation
    <2> QED
      BY <1>0, <2>1, <2>2, <2>3, GotoTypes DEF LocalSane, LocalTypes, Steps, Reasons, InOperation
  <1>5. CASE Persist(w)
    <2>1. /\ then[w] \in Reasons \ {"none"} /\ (then[w] \in InOperation => op[w] \in 1..Len(Program))
          /\ pc[w] # "idle"
      BY <1>0, <1>5 DEF LocalSane, LocalTypes, Busy, Persist
    <2>2. Append(ev[w], NewEvent(w)) \in Seq(EventsOf)
      BY <1>0, <1>5, NewEventType DEF LocalSane, LocalTypes, Persist
    <2>3. /\ ev' \in [Procs -> Seq(EventsOf)] /\ exp' \in [Procs -> Seq(EventsOf)]
          /\ Goto(w, "check", then[w]) /\ UNCHANGED <<ver, op, typ>>
      BY <1>5, <2>2 DEF Persist, LocalSane, LocalTypes
    <2> QED
      BY <1>0, <2>1, <2>3, GotoTypes DEF LocalSane, LocalTypes, Steps
  <1>6. CASE PersistRefused(w)
    <2>1. CASE Exit(w)
      BY <1>0, <2>1, ExitTypes
    <2>2. CASE Goto(w, "observe", "cancelling") /\ UNCHANGED <<ev, exp, ver, op, typ>>
      BY <1>0, <1>6, <2>2, GotoTypes DEF PersistRefused, LocalSane, LocalTypes, Steps, Reasons, InOperation
    <2> QED
      BY <1>6, <2>1, <2>2 DEF PersistRefused
  <1>7. CASE Call(w)
    <2>1. CASE Goto(w, "observe", "after") /\ UNCHANGED <<ev, exp, ver, op, typ>>
      BY <1>0, <1>7, <2>1, GotoTypes DEF Call, LocalSane, LocalTypes, Busy, Steps, Reasons, InOperation
    <2>2. CASE Raise(w)
      BY <1>0, <1>7, <2>2, RaiseTypes DEF Call
    <2>3. CASE AppendNext(w, ev[w], "budget_exhausted", "ended") /\ UNCHANGED <<exp, ver, op>>
      <3>1. ev[w] \in Seq(EventsOf)
        BY <1>0 DEF LocalSane, LocalTypes
      <3> QED
        BY <1>0, <1>7, <2>3, <3>1, AppendTypes DEF Call, Types, Lifecycle, Terminal, Reasons, InOperation
    <2> QED
      BY <1>7, <2>1, <2>2, <2>3 DEF Call
  <1>8. CASE PersistFails(w)
    BY <1>0, <1>8, RaiseTypes DEF PersistFails
  <1> QED
    BY <1>1, <1>2, <1>3, <1>4, <1>5, <1>6, <1>7, <1>8 DEF Work

LEMMA GatewayTypes ==
  ASSUME LocalSane, SharedTypes, NEW g \in Gateways,
         StartRun(g) \/ ReadRun(g) \/ CancelRun(g) \/ Reconcile(g) \/ ReportDivergence(g)
  PROVE  LocalSane'
  <1>0. g \in Procs /\ g \notin Workers /\ native \in Seq(EventsOf) /\ snap \in Seq(EventsOf)
    BY AgentRunAssumption DEF SharedTypes, Procs
  <1>1. CASE StartRun(g) \/ ReadRun(g) \/ CancelRun(g)
    <2>1. /\ Goto(g, "seed", "view") \/ Goto(g, "check", "view")
          /\ UNCHANGED <<ev, ver, op, typ>>
      BY <1>1 DEF StartRun, ReadRun, CancelRun
    <2>2. exp' \in [Procs -> Seq(EventsOf)]
      <3>1. /\ <<Event("queued", "run", 0)>> \in Seq(EventsOf)
            /\ Append(snap, Event("cancel_requested", "run", 0)) \in Seq(EventsOf)
        BY <1>0, CancellationType
      <3>2. PICK x \in Seq(EventsOf) : exp' = [exp EXCEPT ![g] = x]
        BY <1>0, <1>1, <3>1 DEF StartRun, ReadRun, CancelRun, WithCancellation
      <3> QED
        BY <3>2 DEF LocalSane, LocalTypes
    <2> QED
      BY <1>0, <2>1, <2>2, GotoTypes DEF LocalSane, LocalTypes, Steps, Reasons, InOperation
  <1>2. CASE Reconcile(g)
    <2>1. CASE SeedCollision(g)
      BY <1>0, <2>1, DivergedTypes DEF SeedCollision
    <2> QED
      BY <1>0, <1>2, <2>1, CheckTypes, SeedTypes, RefreshTypes DEF Reconcile
  <1>3. CASE ReportDivergence(g)
    BY <1>0, <1>3, ExitTypes DEF ReportDivergence
  <1> QED
    BY <1>1, <1>2, <1>3

LEMMA FaultTypes ==
  ASSUME SharedTypes, Fault
  PROVE  faults' \in 0..MaxFaults /\ faults' = faults + 1 /\ reads' = reads
  <1>1. faults \in 0..MaxFaults /\ faults < MaxFaults /\ faults' = faults + 1 /\ reads' = reads
    BY DEF SharedTypes, Fault
  <1> QED
    BY <1>1, AgentRunAssumption

\* What the stores become under a process's step ...
LEMMA ReconcileStores ==
  ASSUME TInv, NEW p \in Procs, Reconcile(p)
  PROVE  SharedTypes' /\ UNCHANGED <<snap, lease, calls, lost, bounds>>
  <1>1. UNCHANGED <<snap, lease, calls, lost, bounds>>
    BY DEF Reconcile, CheckProjection, SeedProjection, SeedCollision, RefreshProjection
  <1>2. native' \in Seq(EventsOf)
    <2>1. native \in Seq(EventsOf) /\ exp[p] \in Seq(EventsOf)
      BY DEF TInv, LocalTypes, SharedTypes
    <2>2. CASE SeedProjection(p)
      <3>1. Len(native) < Len(exp[p]) => exp[p][Len(native) + 1] \in EventsOf
        BY <2>1
      <3> QED
        BY <2>1, <2>2, <3>1 DEF SeedProjection
    <2> QED
      BY <2>1, <2>2 DEF Reconcile, CheckProjection, SeedCollision, RefreshProjection
  <1>3. SharedTypes
    BY DEF TInv
  <1>4. UNCHANGED <<version, held, expired, faults, reads>>
    BY <1>1 DEF lease, bounds
  <1> QED
    BY <1>1, <1>2, <1>3, <1>4 DEF SharedTypes

LEMMA SaveStores ==
  ASSUME TInv, NEW w \in Workers, pc[w] = "persist", Save(w)
  PROVE  snap' \in Seq(EventsOf) /\ held' \in BOOLEAN /\ UNCHANGED <<version, expired>>
  <1>1. Append(ev[w], NewEvent(w)) \in Seq(EventsOf)
    BY NewEventType DEF TInv, LocalSane, LocalTypes, Procs
  <1> QED
    BY <1>1 DEF Save

LEMMA WorkStores ==
  ASSUME TInv, NEW w \in Workers, Work(w) \/ PersistFails(w)
  PROVE  SharedTypes'
  <1>0. /\ w \in Procs /\ snap \in Seq(EventsOf) /\ native \in Seq(EventsOf)
        /\ version \in 0..MaxClaims /\ calls \in Nat /\ lost \in 0..MaxFaults
        /\ faults \in 0..MaxFaults /\ lost <= faults /\ reads \in 0..MaxReads
    BY DEF TInv, SharedTypes, Procs
  <1>1. held \in BOOLEAN /\ expired \in BOOLEAN
    BY DEF TInv, SharedTypes
  <1>2. CASE ClaimRun(w)
    <2>1. version' \in 0..MaxClaims
      BY <1>0, <1>2, AgentRunAssumption DEF ClaimRun
    <2>2. UNCHANGED <<snap, native, calls, lost, faults, reads>>
      BY <1>2 DEF ClaimRun, bounds
    <2>3. held' \in BOOLEAN /\ expired' \in BOOLEAN
      BY <1>2, Zenon DEF ClaimRun
    <2> QED
      BY <1>0, <2>1, <2>2, <2>3 DEF SharedTypes
  <1>3. CASE Reauthorize(w)
    <2>1. snap' \in Seq(EventsOf)
      BY <1>0, <1>3, CancellationType DEF Reauthorize, WithCancellation
    <2>2. UNCHANGED <<native, version, held, expired, calls, lost, faults, reads>>
      BY <1>3 DEF Reauthorize, lease, bounds
    <2> QED
      BY <1>0, <1>1, <2>1, <2>2 DEF SharedTypes
  <1>4. CASE Reconcile(w)
    BY <1>0, <1>4, ReconcileStores
  <1>5. CASE ObserveCancellation(w) \/ PersistRefused(w)
    <2>1. UNCHANGED <<snap, native, version, held, expired, calls, lost, faults, reads>>
      BY <1>5 DEF ObserveCancellation, PersistRefused, lease, bounds
    <2> QED
      BY <1>0, <1>1, <2>1 DEF SharedTypes
  <1>6. CASE Persist(w)
    <2>1. UNCHANGED <<native, calls, lost, faults, reads>> /\ Save(w) /\ pc[w] = "persist"
      BY <1>6 DEF Persist, bounds
    <2> QED
      BY <1>0, <1>1, <2>1, SaveStores DEF SharedTypes
  <1>7. CASE Call(w)
    <2>1. UNCHANGED <<snap, native, version, held, expired, lost, faults, reads>> /\ calls' \in Nat
      BY <1>0, <1>7 DEF Call, lease, bounds
    <2> QED
      BY <1>0, <1>1, <2>1 DEF SharedTypes
  <1>8. CASE PersistFails(w)
    <2>1. UNCHANGED <<native, calls>> /\ Fault /\ pc[w] = "persist"
      BY <1>8 DEF PersistFails
    <2>2. faults' \in 0..MaxFaults /\ faults' = faults + 1 /\ reads' = reads
      BY <2>1, FaultTypes DEF TInv
    <2>3. CASE UNCHANGED <<snap, lease, lost>>
      <3>1. UNCHANGED <<version, held, expired>>
        BY <2>3 DEF lease
      <3> QED
        BY <1>0, <1>1, <2>1, <2>2, <2>3, <3>1 DEF SharedTypes
    <2>4. CASE Save(w) /\ lost' = lost + 1
      <3>1. lost' \in 0..MaxFaults /\ lost' <= faults'
        <4>1. lost <= faults /\ faults \in Nat /\ lost \in Nat /\ lost' = lost + 1
          BY <1>0, <2>4, AgentRunAssumption
        <4>2. faults + 1 \in 0..MaxFaults /\ faults' = faults + 1
          BY <2>2
        <4> QED
          BY <4>1, <4>2, AgentRunAssumption
      <3> QED
        BY <1>0, <1>1, <2>1, <2>2, <2>4, <3>1, SaveStores DEF SharedTypes
    <2> QED
      BY <1>8, <2>3, <2>4 DEF PersistFails
  <1> QED
    BY <1>2, <1>3, <1>4, <1>5, <1>6, <1>7, <1>8 DEF Work

LEMMA GatewayStores ==
  ASSUME TInv, NEW g \in Gateways,
         StartRun(g) \/ ReadRun(g) \/ CancelRun(g) \/ Reconcile(g) \/ ReportDivergence(g)
  PROVE  SharedTypes'
  <1>0. g \in Procs /\ snap \in Seq(EventsOf) /\ SharedTypes
    BY DEF TInv, SharedTypes, Procs
  <1>1. CASE Reconcile(g)
    BY <1>0, <1>1, ReconcileStores
  <1>2. CASE StartRun(g) \/ CancelRun(g) \/ ReportDivergence(g)
    <2>1. UNCHANGED <<native, version, held, expired, calls, lost, faults, reads>>
      BY <1>2 DEF StartRun, CancelRun, ReportDivergence, lease, bounds
    <2>2. snap' \in Seq(EventsOf)
      <3>1. /\ <<Event("queued", "run", 0)>> \in Seq(EventsOf)
            /\ Append(snap, Event("cancel_requested", "run", 0)) \in Seq(EventsOf)
        BY <1>0, CancellationType
      <3> QED
        BY <1>0, <1>2, <3>1 DEF StartRun, CancelRun, ReportDivergence, WithCancellation
    <2> QED
      BY <1>0, <2>1, <2>2 DEF SharedTypes
  <1>3. CASE ReadRun(g)
    <2>1. UNCHANGED <<snap, native, version, held, expired, calls, lost, faults>>
      BY <1>3 DEF ReadRun, lease
    <2>2. reads' \in 0..MaxReads
      BY <1>0, <1>3, AgentRunAssumption DEF ReadRun, SharedTypes
    <2> QED
      BY <1>0, <2>1, <2>2 DEF SharedTypes
  <1> QED
    BY <1>1, <1>2, <1>3

LEMMA TypesKept == TInv /\ [Next]_vars => TInv'
  <1> SUFFICES ASSUME TInv, [Next]_vars PROVE TInv'
    OBVIOUS
  <1>0. LocalSane /\ SharedTypes
    BY DEF TInv, LocalSane
  <1>1. ASSUME NEW g \in Gateways,
               StartRun(g) \/ ReadRun(g) \/ CancelRun(g) \/ Reconcile(g) \/ ReportDivergence(g)
        PROVE  TInv'
    BY <1>0, <1>1, GatewayTypes, GatewayStores DEF TInv, LocalSane
  <1>2. ASSUME NEW w \in Workers, Work(w) \/ PersistFails(w) PROVE TInv'
    BY <1>0, <1>2, WorkTypes, WorkStores DEF TInv, LocalSane
  <1>3. ASSUME NEW p \in Procs, StoreFails(p) \/ Crash(p) PROVE TInv'
    <2>1. LocalSane'
      BY <1>0, <1>3, RaiseTypes, ExitTypes DEF StoreFails, Crash
    <2>2. UNCHANGED <<snap, native, version, held, expired, calls, lost>> /\ Fault
      BY <1>3 DEF StoreFails, Crash, lease
    <2>3. SharedTypes'
      BY <1>0, <2>2, FaultTypes DEF SharedTypes
    <2> QED
      BY <2>1, <2>3 DEF TInv, LocalSane
  <1>4. CASE LeaseExpires \/ LeaseOverrun
    <2>1. UNCHANGED <<snap, native, version, held, calls, lost, pc, then, ev, exp, ver, op, typ>> /\ expired' = TRUE
      BY <1>4 DEF LeaseExpires, LeaseOverrun, local
    <2>2. faults' \in 0..MaxFaults /\ faults' >= faults /\ reads' = reads
      <3>1. CASE LeaseExpires
        BY <1>0, <3>1 DEF LeaseExpires, bounds, SharedTypes
      <3>2. CASE LeaseOverrun
        BY <1>0, <3>2, FaultTypes DEF LeaseOverrun, SharedTypes
      <3> QED
        BY <1>4, <3>1, <3>2
    <2>3. SharedTypes'
      <3>1. expired' \in BOOLEAN
        BY <2>1, Zenon
      <3> QED
        BY <1>0, <2>1, <2>2, <3>1 DEF SharedTypes
    <2>4. LocalSane'
      BY <1>0, <2>1 DEF LocalSane, LocalTypes, Busy
    <2> QED
      BY <2>3, <2>4 DEF TInv, LocalSane
  <1>5. CASE UNCHANGED vars
    <2>1. UNCHANGED <<snap, native, version, held, expired, calls, lost, faults, reads, pc, then, ev, exp, ver, op, typ>>
      BY <1>5 DEF vars, lease, local, bounds
    <2> QED
      BY <1>0, <2>1 DEF TInv, LocalSane, LocalTypes, SharedTypes, Busy
  <1> QED
    BY <1>1, <1>2, <1>3, <1>4, <1>5 DEF Next

-----------------------------------------------------------------------------
(* Histories as sequences *)

LEMMA StateAppend ==
  ASSUME NEW s \in Seq(EventsOf), NEW e \in EventsOf, e.type \in Lifecycle
  PROVE  StateOf(Append(s, e)) = e.type
  <1> DEFINE t == Append(s, e)
             L == {k \in 1..Len(t) : t[k].type \in Lifecycle}
             last == CHOOSE k \in L : \A j \in L : j <= k
  <1>1. Len(t) = Len(s) + 1 /\ t[Len(s) + 1] = e /\ Len(s) \in Nat
    OBVIOUS
  <1>2. Len(s) + 1 \in L /\ \A j \in L : j <= Len(s) + 1
    BY <1>1
  <1>3. last \in L /\ \A j \in L : j <= last
    BY <1>2
  <1>4. last = Len(s) + 1
    BY <1>1, <1>2, <1>3
  <1> QED
    BY <1>1, <1>4 DEF StateOf

LEMMA PrefixBasics ==
  ASSUME NEW s \in Seq(EventsOf)
  PROVE  /\ Prefix(s, s) /\ Prefix(<<>>, s)
         /\ Prefix(s, <<>>) => s = <<>>
         /\ \A e \in EventsOf : Prefix(s, Append(s, e))
  BY DEF Prefix, Agree

LEMMA PrefixTransitive ==
  ASSUME NEW a \in Seq(EventsOf), NEW b \in Seq(EventsOf), NEW c \in Seq(EventsOf), Prefix(a, b), Prefix(b, c)
  PROVE  Prefix(a, c)
  BY DEF Prefix, Agree

\* Between a history and the same with one event more there is nothing.
LEMMA PrefixBetween ==
  ASSUME NEW x \in Seq(EventsOf), NEW n \in Seq(EventsOf), NEW s \in Seq(EventsOf), NEW e \in EventsOf,
         Prefix(x, n), Prefix(n, s), s = x \/ s = Append(x, e)
  PROVE  n = x \/ n = s
  <1>1. Len(x) <= Len(n) /\ Len(n) <= Len(s) /\ Len(s) <= Len(x) + 1
    BY DEF Prefix
  <1>2. CASE Len(n) = Len(x)
    <2>1. \A k \in 1..Len(x) : x[k] = n[k]
      BY <1>2 DEF Prefix, Agree
    <2> QED
      BY <1>2, <2>1, SeqEqual
  <1>3. CASE Len(n) = Len(s)
    <2>1. \A k \in 1..Len(n) : n[k] = s[k]
      BY <1>3 DEF Prefix, Agree
    <2> QED
      BY <1>3, <2>1, SeqEqual
  <1> QED
    BY <1>1, <1>2, <1>3

\* A repaired event is the one that the row has in its place.
LEMMA PrefixSeed ==
  ASSUME NEW n \in Seq(EventsOf), NEW x \in Seq(EventsOf), NEW s \in Seq(EventsOf),
         Prefix(n, s), Prefix(x, s), Len(n) < Len(x)
  PROVE  Prefix(Append(n, x[Len(n) + 1]), s)
  BY DEF Prefix, Agree

-----------------------------------------------------------------------------
(* Claims *)

\* Everything a process does but claiming leaves versions alone or forgets them.
VersionsKept == \A q \in Procs : ver'[q] = ver[q] \/ ver'[q] = 0

LEMMA ExitVersions ==
  ASSUME TInv, NEW p \in Procs, Exit(p) \/ UNCHANGED ver
  PROVE  VersionsKept
  BY DEF TInv, LocalTypes, Exit, VersionsKept

LEMMA RaiseVersions ==
  ASSUME TInv, NEW p \in Procs, Raise(p) \/ Diverged(p)
  PROVE  VersionsKept
  BY ExitVersions DEF Raise, Diverged

LEMMA ReconcileVersions ==
  ASSUME TInv, NEW p \in Procs, Reconcile(p)
  PROVE  VersionsKept
  <1>1. CASE CheckProjection(p) \/ SeedCollision(p)
    BY <1>1, RaiseVersions, ExitVersions DEF CheckProjection, SeedCollision
  <1>2. CASE SeedProjection(p)
    BY <1>2, ExitVersions DEF SeedProjection
  <1>3. CASE RefreshProjection(p)
    <2>1. then[p] \in Reasons \ {"none"}
      BY <1>3 DEF TInv, LocalTypes, Busy, RefreshProjection
    <2>2. Exit(p) \/ UNCHANGED ver
      BY <1>3, <2>1 DEF RefreshProjection, BeginQuantum, Checked, Reasons
    <2> QED
      BY <2>2, ExitVersions
  <1> QED
    BY <1>1, <1>2, <1>3 DEF Reconcile

LEMMA OtherVersions ==
  ASSUME TInv,
         \/ \E g \in Gateways :
              StartRun(g) \/ ReadRun(g) \/ CancelRun(g) \/ Reconcile(g) \/ ReportDivergence(g)
         \/ \E w \in Workers : (Work(w) /\ ~ClaimRun(w)) \/ PersistFails(w)
         \/ \E p \in Procs : StoreFails(p) \/ Crash(p)
         \/ LeaseExpires \/ LeaseOverrun \/ UNCHANGED vars
  PROVE  VersionsKept /\ version' = version /\ (held' => held) /\ (snap' = <<>> => snap = <<>>)
  <1>1. ASSUME NEW g \in Gateways,
               StartRun(g) \/ ReadRun(g) \/ CancelRun(g) \/ Reconcile(g) \/ ReportDivergence(g)
        PROVE  VersionsKept /\ UNCHANGED lease /\ (snap' = <<>> => snap = <<>>)
    <2>0. g \in Procs /\ snap \in Seq(EventsOf)
      BY DEF Procs, TInv, SharedTypes
    <2>1. CASE Reconcile(g)
      BY <2>0, <2>1, ReconcileVersions, ReconcileStores
    <2>2. CASE StartRun(g) \/ ReadRun(g) \/ CancelRun(g) \/ ReportDivergence(g)
      <3>1. VersionsKept
        BY <2>0, <2>2, ExitVersions DEF StartRun, ReadRun, CancelRun, ReportDivergence
      <3>2. snap' = <<>> => snap = <<>>
        BY <2>0, <2>2 DEF StartRun, ReadRun, CancelRun, ReportDivergence, WithCancellation
      <3> QED
        BY <2>2, <3>1, <3>2 DEF StartRun, ReadRun, CancelRun, ReportDivergence
    <2> QED
      BY <1>1, <2>1, <2>2
  <1>2. ASSUME NEW w \in Workers, (Work(w) /\ ~ClaimRun(w)) \/ PersistFails(w)
        PROVE  VersionsKept /\ version' = version /\ (held' => held) /\ (snap' = <<>> => snap = <<>>)
    <2>0. w \in Procs /\ snap \in Seq(EventsOf) /\ ev[w] \in Seq(EventsOf)
      BY DEF Procs, TInv, LocalTypes, SharedTypes
    <2>1. ASSUME Save(w), pc[w] = "persist"
          PROVE  snap' # <<>> /\ version' = version /\ (held' => held)
      <3>1. NewEvent(w) \in EventsOf
        BY <2>1, NewEventType DEF TInv, LocalSane
      <3>2. snap' # <<>>
        BY <2>0, <2>1, <3>1 DEF Save
      <3>3. held' => held
        BY <2>1, Zenon DEF Save
      <3> QED
        BY <2>1, <3>2, <3>3 DEF Save
    <2>2. CASE Reconcile(w)
      BY <2>0, <2>2, ReconcileVersions, ReconcileStores DEF lease
    <2>3. CASE Reauthorize(w)
      <3>1. snap' = <<>> => snap = <<>>
        BY <2>0, <2>3 DEF Reauthorize, WithCancellation
      <3> QED
        BY <2>0, <2>3, <3>1, ExitVersions DEF Reauthorize, lease
    <2>4. CASE ObserveCancellation(w) \/ PersistRefused(w)
      BY <2>0, <2>4, ExitVersions DEF ObserveCancellation, PersistRefused, lease
    <2>5. CASE Persist(w)
      BY <2>0, <2>1, <2>5, ExitVersions DEF Persist
    <2>6. CASE PersistFails(w)
      BY <2>0, <2>1, <2>6, RaiseVersions DEF PersistFails, lease
    <2>7. CASE Call(w)
      BY <2>0, <2>7, ExitVersions, RaiseVersions DEF Call, lease
    <2> QED
      BY <1>2, <2>2, <2>3, <2>4, <2>5, <2>6, <2>7 DEF Work
  <1>3. ASSUME NEW p \in Procs, StoreFails(p) \/ Crash(p)
        PROVE  VersionsKept /\ UNCHANGED <<snap, lease>>
    BY <1>3, RaiseVersions, ExitVersions DEF StoreFails, Crash
  <1>4. CASE LeaseExpires \/ LeaseOverrun
    BY <1>4 DEF LeaseExpires, LeaseOverrun, local, VersionsKept
  <1>5. CASE UNCHANGED vars
    BY <1>5 DEF vars, local, lease, VersionsKept
  <1> QED
    BY <1>1, <1>2, <1>3, <1>4, <1>5 DEF lease

LEMMA ClaimsKept == TInv /\ Claims /\ [Next]_vars => Claims'
  <1> SUFFICES ASSUME TInv, Claims, [Next]_vars PROVE Claims'
    OBVIOUS
  <1>0. ver \in [Procs -> 0..MaxClaims] /\ version \in 0..MaxClaims /\ Workers \subseteq Procs
    BY DEF TInv, LocalTypes, SharedTypes, Procs
  <1>1. ASSUME NEW w \in Workers, ClaimRun(w) PROVE Claims'
    <2>1. /\ snap' # <<>> /\ version' = version + 1
          /\ ver' = [ver EXCEPT ![w] = version + 1]
      BY <1>1 DEF ClaimRun, Runnable
    <2>2. \A v \in Workers : ver[v] <= version /\ ver[v] \in Nat
      BY <1>0 DEF Claims
    <2>3. \A v \in Workers : ver'[v] <= version'
      BY <1>0, <2>1, <2>2
    <2>4. \A u, v \in Workers : ver'[u] = ver'[v] /\ ver'[v] # 0 => u = v
      BY <1>0, <2>1, <2>2 DEF Claims
    <2> QED
      BY <2>1, <2>3, <2>4 DEF Claims
  <1>2. CASE VersionsKept /\ version' = version /\ (held' => held) /\ (snap' = <<>> => snap = <<>>)
    <2>1. snap' = <<>> => ~held'
      BY <1>2 DEF Claims
    <2>2. \A w \in Workers : ver'[w] <= version'
      BY <1>0, <1>2 DEF Claims, VersionsKept
    <2>3. \A u, v \in Workers : ver'[u] = ver'[v] /\ ver'[v] # 0 => u = v
      BY <1>0, <1>2 DEF Claims, VersionsKept
    <2> QED
      BY <2>1, <2>2, <2>3 DEF Claims
  <1> QED
    BY <1>1, <1>2, OtherVersions DEF Next

-----------------------------------------------------------------------------
(* Whose step it is *)

\* Only the process at work changes what is its own.
OnlyOf(p) ==
    \A q \in Procs \ {p} :
      /\ pc'[q] = pc[q] /\ then'[q] = then[q] /\ ev'[q] = ev[q] /\ exp'[q] = exp[q]
      /\ ver'[q] = ver[q] /\ op'[q] = op[q] /\ typ'[q] = typ[q]

LEMMA OnlyOfGoto ==
  ASSUME TInv, NEW p \in Procs, NEW step, NEW why, Goto(p, step, why),
         NEW x, NEW y, ev' = ev \/ ev' = [ev EXCEPT ![p] = x], exp' = exp \/ exp' = [exp EXCEPT ![p] = y],
         UNCHANGED <<ver, op, typ>>
  PROVE  OnlyOf(p)
  BY DEF TInv, LocalTypes, Goto, OnlyOf

LEMMA OnlyOfAppend ==
  ASSUME TInv, NEW p \in Procs, NEW s, NEW type, NEW why, AppendNext(p, s, type, why),
         UNCHANGED <<exp, ver, op>>
  PROVE  OnlyOf(p)
  BY DEF TInv, LocalTypes, AppendNext, Goto, OnlyOf

LEMMA OnlyOfRaise ==
  ASSUME TInv, NEW p \in Procs, Raise(p) \/ Exit(p) \/ Diverged(p)
  PROVE  OnlyOf(p)
  <1>1. CASE Exit(p)
    BY <1>1 DEF TInv, LocalTypes, Exit, Goto, OnlyOf
  <1>2. CASE AppendNext(p, ev[p], "failed", "ended") /\ UNCHANGED <<exp, ver, op>>
    BY <1>2, OnlyOfAppend
  <1>3. CASE pc' = [pc EXCEPT ![p] = "diverged"] /\ UNCHANGED <<then, ev, exp, ver, op, typ>>
    BY <1>3 DEF TInv, LocalTypes, OnlyOf
  <1> QED
    BY <1>1, <1>2, <1>3 DEF Raise, Diverged

LEMMA OnlyOfReconcile ==
  ASSUME TInv, NEW p \in Procs, Reconcile(p)
  PROVE  OnlyOf(p)
  <1>1. CASE CheckProjection(p) \/ SeedProjection(p) \/ SeedCollision(p)
    <2>1. \/ Diverged(p)
          \/ /\ pc' = pc \/ pc' = [pc EXCEPT ![p] = "seed"] \/ pc' = [pc EXCEPT ![p] = "refresh"]
             /\ UNCHANGED <<then, ev, exp, ver, op, typ>>
      BY <1>1 DEF CheckProjection, SeedProjection, SeedCollision
    <2> QED
      BY <2>1, OnlyOfRaise DEF TInv, LocalTypes, OnlyOf
  <1>2. CASE RefreshProjection(p)
    <2>0. /\ pc[p] = "refresh" /\ then[p] \in Reasons \ {"none"}
      BY <1>2 DEF TInv, LocalTypes, Busy, RefreshProjection
    <2>1. ASSUME NEW s, NEW type, NEW why, AppendNext(p, s, type, why) \/ AppendInBudget(p, s, type, why),
                 UNCHANGED <<exp, ver, op>>
          PROVE  OnlyOf(p)
      BY <2>1, OnlyOfAppend DEF AppendInBudget
    <2>2. ASSUME NEW step, NEW why, Goto(p, step, why), ev' = [ev EXCEPT ![p] = native],
                 op' = op \/ op' = [op EXCEPT ![p] = op[p] + 1], UNCHANGED <<exp, ver, typ>>
          PROVE  OnlyOf(p)
      BY <2>2 DEF TInv, LocalTypes, Goto, OnlyOf
    <2>3. CASE then[p] \in {"view", "completed", "ended"}
      BY <1>2, <2>3, OnlyOfRaise DEF RefreshProjection
    <2>4. CASE then[p] \in {"load", "requested"}
      BY <1>2, <2>2, <2>4 DEF RefreshProjection
    <2>5. CASE then[p] = "quantum"
      <3>1. BeginQuantum(p, native)
        BY <1>2, <2>5 DEF RefreshProjection
      <3> QED
        BY <2>1, <3>1, OnlyOfRaise DEF BeginQuantum
    <2>6. CASE then[p] = "before" \/ then[p] = "after"
      <3>1. Checked(p, native, "requested", "requested") \/ Checked(p, native, "answered", "answered")
        BY <1>2, <2>6 DEF RefreshProjection
      <3> QED
        BY <2>1, <2>2, <3>1 DEF Checked
    <2>7. CASE then[p] \in {"started", "answered"}
      <3>1. CASE op[p] < Len(Program)
        BY <1>2, <2>2, <2>7, <3>1 DEF RefreshProjection
      <3>2. CASE ~(op[p] < Len(Program))
        BY <1>2, <2>1, <2>7, <3>2 DEF RefreshProjection
      <3> QED
        BY <3>1, <3>2
    <2>8. CASE then[p] = "cancelling"
      BY <1>2, <2>1, <2>8 DEF RefreshProjection
    <2> QED
      BY <2>0, <2>3, <2>4, <2>5, <2>6, <2>7, <2>8 DEF Reasons
  <1> QED
    BY <1>1, <1>2 DEF Reconcile

LEMMA OnlyOfWork ==
  ASSUME TInv, NEW w \in Workers, Work(w) \/ PersistFails(w)
  PROVE  OnlyOf(w)
  <1>0. w \in Procs
    BY DEF Procs
  <1>1. CASE ClaimRun(w)
    BY <1>0, <1>1 DEF TInv, LocalTypes, ClaimRun, Goto, OnlyOf
  <1>2. CASE Reauthorize(w) \/ ObserveCancellation(w)
    BY <1>0, <1>2, OnlyOfGoto DEF Reauthorize, ObserveCancellation
  <1>3. CASE Persist(w)
    BY <1>0, <1>3 DEF TInv, LocalTypes, Persist, Goto, OnlyOf
  <1>4. CASE PersistRefused(w) \/ PersistFails(w) \/ Call(w)
    BY <1>0, <1>4, OnlyOfGoto, OnlyOfAppend, OnlyOfRaise DEF PersistRefused, PersistFails, Call
  <1> QED
    BY <1>0, <1>1, <1>2, <1>3, <1>4, OnlyOfReconcile DEF Work

LEMMA OnlyOfGateway ==
  ASSUME TInv, NEW g \in Gateways,
         StartRun(g) \/ ReadRun(g) \/ CancelRun(g) \/ Reconcile(g) \/ ReportDivergence(g)
  PROVE  OnlyOf(g)
  <1>0. g \in Procs
    BY DEF Procs
  <1> QED
    BY <1>0, OnlyOfGoto, OnlyOfRaise, OnlyOfReconcile DEF StartRun, ReadRun, CancelRun, ReportDivergence

-----------------------------------------------------------------------------
(* Plans *)

LEMMA PlansOfOthers ==
  ASSUME TInv, Plans, NEW p \in Procs, p \in Workers => Planned(p)', OnlyOf(p)
  PROVE  Plans'
  <1>1. ASSUME NEW w \in Workers, w # p PROVE Planned(w)'
    <2>1. Planned(w) /\ w \in Procs
      BY DEF Plans, Procs
    <2> QED
      BY <1>1, <2>1 DEF Planned, InTry, OnlyOf
  <1> QED
    BY <1>1 DEF Plans

LEMMA AppendPlanned ==
  ASSUME TInv, NEW w \in Procs, NEW s, NEW type, NEW why, AppendNext(w, s, type, why), UNCHANGED op,
         why = "requested" <=> type = "requested",
         type \in Terminal \/ (/\ type = why /\ why \in {"started", "requested", "answered"}
                               /\ Len(s) < MaxEvents),
         type = "requested" /\ Program[op[w]] = "model" => ModelCalls(s) < MaxModelCalls
  PROVE  Planned(w)'
  <1>1. pc'[w] = "persist" /\ then'[w] = why /\ typ'[w] = type /\ ev'[w] = s /\ op'[w] = op[w]
    BY DEF TInv, LocalTypes, AppendNext, Goto
  <1> QED
    BY <1>1 DEF Planned, InTry

LEMMA InBudgetPlanned ==
  ASSUME TInv, NEW w \in Procs, NEW s \in Seq(EventsOf), NEW type \in {"started", "requested", "answered", "completed"},
         AppendInBudget(w, s, type, type), UNCHANGED op
  PROVE  Planned(w)'
  <1>1. CASE AppendNext(w, s, "budget_exhausted", "ended")
    BY <1>1, AppendPlanned DEF Terminal
  <1>2. CASE /\ AppendNext(w, s, type, type) /\ ~(Len(s) >= MaxEvents)
             /\ type = "requested" /\ Program[op[w]] = "model" => CallsLeft(w, s)
    <2>1. Len(s) < MaxEvents
      BY <1>2, AgentRunAssumption
    <2> QED
      BY <1>2, <2>1, AppendPlanned DEF Terminal, CallsLeft
  <1> QED
    BY <1>1, <1>2 DEF AppendInBudget

LEMMA ExitPlanned ==
  ASSUME TInv, NEW w \in Procs, Exit(w)
  PROVE  Planned(w)'
  BY DEF TInv, LocalTypes, Exit, Goto, Planned

LEMMA RaisePlanned ==
  ASSUME TInv, NEW w \in Procs, Raise(w)
  PROVE  Planned(w)'
  BY ExitPlanned, AppendPlanned DEF Raise, Terminal

LEMMA GotoPlanned ==
  ASSUME TInv, NEW w \in Procs, NEW step, NEW why, Goto(w, step, why), step # "persist",
         why = "requested" => step \in {"check", "seed", "refresh", "call"}, step = "call" => why = "requested"
  PROVE  Planned(w)'
  BY DEF TInv, LocalTypes, Goto, Planned

LEMMA RefreshPlanned ==
  ASSUME TInv, NEW w \in Workers, Planned(w), RefreshProjection(w)
  PROVE  Planned(w)'
  <1>0. /\ w \in Procs /\ pc[w] = "refresh" /\ then[w] \in Reasons \ {"none"} /\ native \in Seq(EventsOf)
    BY DEF TInv, LocalTypes, SharedTypes, Busy, Procs, RefreshProjection
  <1>1. CASE then[w] \in {"view", "completed", "ended"}
    BY <1>0, <1>1, ExitPlanned DEF RefreshProjection
  <1>2. CASE then[w] \in {"load", "requested"}
    <2>1. Goto(w, "observe", "quantum") \/ Goto(w, "call", "requested")
      BY <1>0, <1>2 DEF RefreshProjection
    <2> QED
      BY <1>0, <2>1, GotoPlanned
  <1>3. CASE then[w] = "quantum"
    <2>1. BeginQuantum(w, native)
      BY <1>0, <1>3 DEF RefreshProjection
    <2> QED
      BY <1>0, <2>1, ExitPlanned, AppendPlanned, InBudgetPlanned DEF BeginQuantum, Terminal
  <1>4. CASE then[w] = "before" \/ then[w] = "after"
    <2>1. Checked(w, native, "requested", "requested") \/ Checked(w, native, "answered", "answered")
      BY <1>0, <1>4 DEF RefreshProjection
    <2> QED
      BY <1>0, <2>1, GotoPlanned, AppendPlanned, InBudgetPlanned DEF Checked, Terminal
  <1>5. CASE then[w] \in {"started", "answered"}
    <2>1. \/ Goto(w, "observe", "before")
          \/ AppendInBudget(w, native, "completed", "completed") /\ UNCHANGED op
      BY <1>0, <1>5 DEF RefreshProjection
    <2> QED
      BY <1>0, <2>1, GotoPlanned, InBudgetPlanned
  <1>6. CASE then[w] = "cancelling"
    <2>1. AppendNext(w, native, "cancelled", "ended") /\ UNCHANGED op
      BY <1>0, <1>6 DEF RefreshProjection
    <2> QED
      BY <1>0, <2>1, AppendPlanned DEF Terminal
  <1> QED
    BY <1>0, <1>1, <1>2, <1>3, <1>4, <1>5, <1>6 DEF Reasons

LEMMA WorkPlanned ==
  ASSUME TInv, NEW w \in Workers, Planned(w), Work(w) \/ PersistFails(w)
  PROVE  Planned(w)'
  <1>0. w \in Procs /\ w \notin Gateways
    BY AgentRunAssumption DEF Procs
  <1>1. CASE ClaimRun(w) \/ Reauthorize(w)
    BY <1>0, <1>1, GotoPlanned DEF ClaimRun, Reauthorize
  <1>2. CASE ObserveCancellation(w)
    <2>1. then[w] # "requested"
      BY <1>2 DEF Planned, ObserveCancellation
    <2> QED
      BY <1>0, <1>2, <2>1, GotoPlanned DEF ObserveCancellation
  <1>3. CASE Persist(w)
    BY <1>0, <1>3, GotoPlanned DEF Persist
  <1>4. CASE PersistRefused(w) \/ PersistFails(w) \/ Call(w)
    BY <1>0, <1>4, GotoPlanned, AppendPlanned, RaisePlanned, ExitPlanned
       DEF PersistRefused, PersistFails, Call, Terminal
  <1>5. CASE CheckProjection(w) \/ SeedProjection(w) \/ SeedCollision(w)
    <2>1. \/ Raise(w)
          \/ /\ pc' = pc \/ pc' = [pc EXCEPT ![w] = "seed"] \/ pc' = [pc EXCEPT ![w] = "refresh"]
             /\ pc[w] # "persist" /\ UNCHANGED <<then, ev, op, typ>>
      BY <1>0, <1>5 DEF CheckProjection, SeedProjection, SeedCollision, Diverged
    <2>2. CASE Raise(w)
      BY <1>0, <2>2, RaisePlanned
    <2>3. CASE /\ pc' = pc \/ pc' = [pc EXCEPT ![w] = "seed"] \/ pc' = [pc EXCEPT ![w] = "refresh"]
               /\ pc[w] # "persist" /\ UNCHANGED <<then, ev, op, typ>>
      <3>1. pc'[w] # "persist" /\ (pc'[w] = pc[w] \/ pc'[w] \in {"seed", "refresh"}) /\ then'[w] = then[w]
        BY <1>0, <2>3 DEF TInv, LocalTypes
      <3> QED
        BY <3>1 DEF Planned
    <2> QED
      BY <2>1, <2>2, <2>3
  <1> QED
    BY <1>1, <1>2, <1>3, <1>4, <1>5, RefreshPlanned DEF Work, Reconcile

LEMMA PlansKept ==
  ASSUME TInv, Plans, [Next]_vars
  PROVE  Plans'
  <1>1. ASSUME NEW g \in Gateways,
               StartRun(g) \/ ReadRun(g) \/ CancelRun(g) \/ Reconcile(g) \/ ReportDivergence(g)
        PROVE  Plans'
    BY <1>1, OnlyOfGateway, PlansOfOthers, AgentRunAssumption DEF Procs
  <1>2. ASSUME NEW w \in Workers, Work(w) \/ PersistFails(w)
        PROVE  Plans'
    BY <1>2, WorkPlanned, OnlyOfWork, PlansOfOthers DEF Procs, Plans
  <1>3. ASSUME NEW p \in Procs, StoreFails(p) \/ Crash(p)
        PROVE  Plans'
    BY <1>3, RaisePlanned, ExitPlanned, OnlyOfRaise, PlansOfOthers DEF StoreFails, Crash
  <1>4. CASE UNCHANGED <<pc, then, ev, op, typ>>
    BY <1>4 DEF Plans, Planned, InTry
  <1> QED
    BY <1>1, <1>2, <1>3, <1>4 DEF Next, LeaseExpires, LeaseOverrun, local, vars

-----------------------------------------------------------------------------
(* The row *)

\* Every way the row changes.
LEMMA RowSteps ==
  ASSUME TInv, [Next]_vars
  PROVE  \/ snap' = snap
         \/ \E g \in Gateways : StartRun(g)
         \/ Cancellable /\ snap' = WithCancellation(snap)
         \/ \E w \in Workers : /\ pc[w] = "persist" /\ Accepts(w) /\ Save(w)
                               /\ Persist(w) \/ lost' = lost + 1
  <1>1. ASSUME NEW g \in Gateways,
               StartRun(g) \/ ReadRun(g) \/ CancelRun(g) \/ Reconcile(g) \/ ReportDivergence(g)
        PROVE  \/ snap' = snap \/ StartRun(g)
               \/ Cancellable /\ snap' = WithCancellation(snap)
    BY <1>1, ReconcileStores DEF ReadRun, CancelRun, ReportDivergence, Procs
  <1>2. ASSUME NEW w \in Workers, Work(w) \/ PersistFails(w)
        PROVE  \/ snap' = snap
               \/ Cancellable /\ snap' = WithCancellation(snap)
               \/ /\ pc[w] = "persist" /\ Accepts(w) /\ Save(w)
                  /\ Persist(w) \/ lost' = lost + 1
    BY <1>2, ReconcileStores DEF Work, ClaimRun, Reauthorize, ObserveCancellation, Persist, PersistRefused, Call,
       PersistFails, Procs
  <1>3. ASSUME NEW p \in Procs, StoreFails(p) \/ Crash(p)
        PROVE  snap' = snap
    BY <1>3 DEF StoreFails, Crash
  <1>4. CASE LeaseExpires \/ LeaseOverrun \/ UNCHANGED vars
    BY <1>4 DEF LeaseExpires, LeaseOverrun, vars
  <1> QED
    BY <1>1, <1>2, <1>3, <1>4 DEF Next

LEMMA LostSteps ==
  ASSUME TInv, [Next]_vars
  PROVE  /\ lost' = lost \/ \E w \in Workers : /\ pc[w] = "persist" /\ Accepts(w) /\ Save(w)
                                               /\ Raise(w) /\ native' = native /\ lost' = lost + 1
         /\ lost' = 0 => lost' = lost
  <1>0. lost \in Nat
    BY AgentRunAssumption DEF TInv, SharedTypes
  <1>1. lost' = lost \/ \E w \in Workers : /\ pc[w] = "persist" /\ Accepts(w) /\ Save(w)
                                          /\ Raise(w) /\ native' = native /\ lost' = lost + 1
    BY ReconcileStores DEF Next, StartRun, ReadRun, CancelRun, ReportDivergence, Work, ClaimRun, Reauthorize,
       ObserveCancellation, Persist, PersistRefused, Call, PersistFails, StoreFails, Crash, LeaseExpires,
       LeaseOverrun, vars, Procs
  <1> QED
    BY <1>0, <1>1

LEMMA SavedState ==
  ASSUME TInv, NEW w \in Workers, pc[w] = "persist", Save(w)
  PROVE  /\ snap' # <<>>
         /\ typ[w] \in Terminal => StateOf(snap') = typ[w] /\ ~held'
  <1>1. NewEvent(w) \in EventsOf /\ ev[w] \in Seq(EventsOf)
    BY NewEventType DEF TInv, LocalSane, LocalTypes, Procs
  <1>2. typ[w] \in Terminal => NewEvent(w).type = typ[w] /\ typ[w] \in Lifecycle
    BY DEF NewEvent, Event, Lifecycle, Terminal
  <1>3. snap' = Append(ev[w], NewEvent(w)) /\ (typ[w] \in Terminal => ~held')
    BY Zenon DEF Save
  <1> QED
    BY <1>1, <1>2, <1>3, StateAppend

\* An ended run stays as it ended, and a requested cancellation can only be completed,
\* by any number of workers, claims, lost answers and crashes.
THEOREM CancellationPrevails == Spec => CancellationWins
  <1>1. ASSUME TInv, [Next]_vars, snap # <<>>
        PROVE  /\ StateOf(snap) \in Terminal => snap' = snap
               /\ StateOf(snap) = "cancel_requested" =>
                    StateOf(snap') \in {"cancel_requested", "cancelled"}
    <2>1. ASSUME NEW g \in Gateways, StartRun(g) PROVE FALSE
      BY <1>1, <2>1 DEF StartRun
    <2>2. ASSUME NEW w \in Workers, pc[w] = "persist", Accepts(w), Save(w)
          PROVE  /\ StateOf(snap) \notin Terminal
                 /\ StateOf(snap) = "cancel_requested" => StateOf(snap') = "cancelled"
      <3>1. NewEvent(w) \in EventsOf /\ ev[w] \in Seq(EventsOf)
        BY <1>1, <2>2, NewEventType DEF TInv, LocalSane, LocalTypes, Procs
      <3>2. typ[w] = "cancelled" => NewEvent(w).type = "cancelled"
        BY DEF NewEvent, Event
      <3> QED
        BY <2>2, <3>1, <3>2, StateAppend DEF Accepts, Save, Lifecycle, Terminal
    <2> QED
      BY <1>1, <2>1, <2>2, RowSteps DEF Cancellable, Terminal
  <1>2. TInv /\ [Next]_vars
          => [snap # <<>> =>
                /\ StateOf(snap) \in Terminal => snap' = snap
                /\ StateOf(snap) = "cancel_requested" =>
                     StateOf(snap') \in {"cancel_requested", "cancelled"}]_vars
    BY <1>1
  <1> QED
    BY <1>2, InitTypes, TypesKept, PTL DEF Spec, CancellationWins

-----------------------------------------------------------------------------
(* Histories *)

LEMMA CancellationState ==
  ASSUME NEW s \in Seq(EventsOf)
  PROVE  StateOf(WithCancellation(s)) = "cancel_requested" /\ WithCancellation(s) \in Seq(EventsOf)
  <1>1. Event("cancel_requested", "run", 0).type = "cancel_requested"
    BY DEF Event
  <1> QED
    BY <1>1, CancellationType, StateAppend DEF WithCancellation, Lifecycle

\* Whoever is not at work keeps what he knows while the row stands.
LEMMA OthersStay ==
  ASSUME TInv, TInv', Histories, NEW q \in Procs,
         pc'[q] = pc[q], then'[q] = then[q], ev'[q] = ev[q], exp'[q] = exp[q], typ'[q] = typ[q], ver'[q] = ver[q],
         snap' = snap, lost' = lost, Prefix(native, native'),
         q \in Workers /\ pc[q] # "idle" /\ Owns(q)' => Owns(q)
  PROVE  Good(q)'
  <1>1. exp[q] \in Seq(EventsOf) /\ native \in Seq(EventsOf) /\ native' \in Seq(EventsOf) /\ Good(q)
    BY DEF TInv, LocalTypes, SharedTypes, Histories
  <1>2. Prefix(exp[q], native) => Prefix(exp[q], native')
    BY <1>1, PrefixTransitive
  <1>3. Dropped(q)' <=> Dropped(q)
    BY DEF Dropped, Near
  <1>4. Near(ev[q])' <=> Near(ev[q])
    BY DEF Near
  <1>5. Near(exp[q])' <=> Near(exp[q])
    BY DEF Near
  <1>6. ASSUME Owner(q) PROVE Owner(q)'
    BY <1>2, <1>3, <1>4, <1>5, <1>6 DEF Owner, Ending
  <1> QED
    BY <1>1, <1>6 DEF Good

LEMMA ExitGood ==
  ASSUME TInv, TInv', NEW p \in Procs, Exit(p)
  PROVE  Good(p)'
  <1>1. exp'[p] = <<>> /\ pc'[p] = "idle"
    BY DEF TInv, LocalTypes, Exit, Goto
  <1>2. snap' \in Seq(EventsOf)
    BY DEF TInv, SharedTypes
  <1> QED
    BY <1>1, <1>2, PrefixBasics DEF Good

LEMMA AppendGood ==
  ASSUME TInv, NEW p \in Procs, Good(p), pc[p] # "idle", snap' = snap, Owns(p)' => Owns(p),
         NEW s, NEW type, NEW why, AppendNext(p, s, type, why), UNCHANGED <<exp, ver, op>>,
         Owner(p) => Near(s) /\ Near(exp[p]),
         Owner(p) /\ type = "cancelled" => s = snap /\ StateOf(snap) = "cancel_requested"
  PROVE  Good(p)'
  <1>1. pc'[p] = "persist" /\ ev'[p] = s /\ exp'[p] = exp[p] /\ typ'[p] = type
    BY DEF TInv, LocalTypes, AppendNext, Goto
  <1>2. Near(s) => Near(ev[p])'
    BY <1>1 DEF Near
  <1>3. Near(exp[p]) => Near(exp[p])'
    BY <1>1 DEF Near
  <1>4. ASSUME Owner(p) PROVE Owner(p)'
    BY <1>1, <1>2, <1>3, <1>4 DEF Owner, Ending
  <1> QED
    BY <1>1, <1>4 DEF Good

LEMMA InBudgetGood ==
  ASSUME TInv, NEW p \in Procs, Good(p), pc[p] # "idle", snap' = snap, Owns(p)' => Owns(p),
         NEW s, NEW type, NEW why, AppendInBudget(p, s, type, why), UNCHANGED <<exp, ver, op>>,
         Owner(p) => Near(s) /\ Near(exp[p]), type # "cancelled"
  PROVE  Good(p)' /\ OnlyOf(p)
  BY AppendGood, OnlyOfAppend DEF AppendInBudget

\* Between its calls the owner is where it thinks it is.
LEMMA OwnerInTry ==
  ASSUME NEW p \in Procs, Owner(p), InTry(p)
  PROVE  Near(ev[p]) /\ Near(exp[p])
  BY DEF Owner, InTry, Ending, Dropped

LEMMA RaiseGood ==
  ASSUME TInv, TInv', NEW p \in Procs, Good(p), pc[p] # "idle", snap' = snap, Owns(p)' => Owns(p),
         Raise(p) \/ Diverged(p)
  PROVE  Good(p)'
  <1>1. CASE Exit(p)
    BY <1>1, ExitGood
  <1>2. CASE InTry(p) /\ AppendNext(p, ev[p], "failed", "ended") /\ UNCHANGED <<exp, ver, op>>
    BY <1>2, OwnerInTry, AppendGood
  <1>3. CASE p \in Gateways /\ pc' = [pc EXCEPT ![p] = "diverged"] /\ UNCHANGED <<then, ev, exp, ver, op, typ>>
    BY <1>3, AgentRunAssumption DEF Good
  <1> QED
    BY <1>1, <1>2, <1>3 DEF Raise, Diverged

\* The owner's view of the stream is the row, or the row before its cancellation.
LEMMA OwnerRefresh ==
  ASSUME TInv, Histories, NEW w \in Workers, pc[w] = "refresh", Owner(w)
  PROVE  /\ Near(native) /\ Near(exp[w]) /\ Prefix(exp[w], native)
         /\ then[w] = "cancelling" \/ StateOf(native) = "cancel_requested" =>
              native = snap /\ StateOf(snap) = "cancel_requested"
  <1>1. /\ exp[w] \in Seq(EventsOf) /\ native \in Seq(EventsOf) /\ snap \in Seq(EventsOf)
        /\ Prefix(exp[w], native) /\ Prefix(native, snap) /\ Near(exp[w])
    BY DEF TInv, LocalTypes, SharedTypes, Procs, Histories, Owner, Dropped
  <1>2. native = exp[w] \/ native = snap
    <2>1. snap = exp[w] \/ snap = Append(exp[w], Event("cancel_requested", "run", 0))
      BY <1>1 DEF Near, WithCancellation
    <2> QED
      BY <1>1, <2>1, PrefixBetween, CancellationType
  <1>3. Near(native)
    BY <1>1, <1>2 DEF Near
  <1>4. then[w] = "cancelling" => native = snap /\ StateOf(snap) = "cancel_requested"
    BY <1>2 DEF Owner, Ending
  <1>5. StateOf(native) = "cancel_requested" => native = snap
    BY <1>3 DEF Near
  <1> QED
    BY <1>1, <1>3, <1>4, <1>5

LEMMA RefreshGood ==
  ASSUME TInv, TInv', Histories, NEW p \in Procs, RefreshProjection(p)
  PROVE  Good(p)' /\ OnlyOf(p)
  <1>0. /\ pc[p] = "refresh" /\ then[p] \in Reasons \ {"none"} /\ Good(p)
        /\ snap' = snap /\ native' = native /\ (Owns(p)' => ver'[p] # ver[p] \/ Owns(p))
    BY DEF TInv, LocalTypes, Busy, Histories, RefreshProjection, lease, Owns
  <1>1. p \in Workers /\ Owner(p) =>
          /\ Near(native) /\ Near(exp[p]) /\ Prefix(exp[p], native)
          /\ then[p] = "cancelling" \/ StateOf(native) = "cancel_requested" =>
               native = snap /\ StateOf(snap) = "cancel_requested"
    BY <1>0, OwnerRefresh
  <1>2. CASE Exit(p)
    BY <1>2, ExitGood, OnlyOfRaise
  <1>3. ASSUME NEW why \in Reasons \ {"cancelling"}, NEW step \in {"observe", "call"},
               Goto(p, step, why), ev' = [ev EXCEPT ![p] = native], UNCHANGED <<exp, ver, typ>>
        PROVE  Good(p)'
    <2>1. /\ pc'[p] = step /\ then'[p] = why /\ ev'[p] = native /\ exp'[p] = exp[p]
          /\ (p \in Workers /\ Owns(p)' => Owns(p))
      BY <1>0, <1>3 DEF TInv, LocalTypes, Goto
    <2>2. Near(native) /\ Near(exp[p]) => Near(ev[p])' /\ Near(exp[p])'
      BY <1>0, <2>1 DEF Near
    <2>3. ASSUME p \in Workers, Owner(p) PROVE Owner(p)'
      BY <1>0, <1>1, <1>3, <2>1, <2>2, <2>3 DEF Owner, Ending
    <2> QED
      BY <1>0, <2>1, <2>3 DEF Good
  <1>4. CASE Goto(p, "observe", "cancelling") /\ StateOf(native) = "cancel_requested"
             /\ ev' = [ev EXCEPT ![p] = native] /\ UNCHANGED <<exp, ver, op, typ>>
    <2>1. /\ pc'[p] = "observe" /\ then'[p] = "cancelling" /\ ev'[p] = native /\ exp'[p] = exp[p]
          /\ (p \in Workers /\ Owns(p)' => Owns(p))
      BY <1>0, <1>4 DEF TInv, LocalTypes, Goto
    <2>2. ASSUME p \in Workers, Owner(p) PROVE Owner(p)'
      BY <1>0, <1>1, <1>4, <2>1, <2>2 DEF Owner, Ending
    <2>3. Good(p)'
      BY <1>0, <2>1, <2>2 DEF Good
    <2> QED
      BY <1>4, <2>3, OnlyOfGoto
  <1>5. ASSUME NEW s, NEW type, NEW why, AppendNext(p, s, type, why) \/ AppendInBudget(p, s, type, why),
               UNCHANGED <<exp, ver, op>>, s = native,
               type = "cancelled" =>
                 AppendNext(p, s, type, why) /\ (then[p] = "cancelling" \/ StateOf(native) = "cancel_requested")
        PROVE  Good(p)' /\ OnlyOf(p)
    <2>1. (p \notin Workers \/ ~Owns(p)) => Good(p)'
      <3>1. exp'[p] = exp[p] /\ (Owns(p)' => Owns(p))
        BY <1>0, <1>5
      <3> QED
        BY <1>0, <3>1 DEF Good
    <2>2. ASSUME p \in Workers, Owns(p) PROVE Good(p)'
      BY <1>0, <1>1, <1>5, <2>2, AppendGood, InBudgetGood
    <2> QED
      BY <1>5, <2>1, <2>2, OnlyOfAppend DEF AppendInBudget
  <1>6. CASE then[p] \in {"view", "completed", "ended"}
    BY <1>0, <1>2, <1>6 DEF RefreshProjection
  <1>7. CASE then[p] \in {"load", "requested"}
    <2>1. /\ Goto(p, "observe", "quantum") \/ Goto(p, "call", "requested")
          /\ ev' = [ev EXCEPT ![p] = native] /\ UNCHANGED <<exp, ver, op, typ>>
      BY <1>0, <1>7 DEF RefreshProjection
    <2> QED
      BY <1>3, <2>1, OnlyOfGoto DEF Reasons
  <1>8. CASE then[p] = "quantum"
    <2>1. BeginQuantum(p, native)
      BY <1>0, <1>8 DEF RefreshProjection
    <2> QED
      BY <1>2, <1>5, <2>1 DEF BeginQuantum
  <1>9. CASE then[p] = "before" \/ then[p] = "after"
    <2>1. Checked(p, native, "requested", "requested") \/ Checked(p, native, "answered", "answered")
      BY <1>0, <1>9 DEF RefreshProjection
    <2> QED
      BY <1>4, <1>5, <2>1 DEF Checked
  <1>10. CASE then[p] \in {"started", "answered"}
    <2>1. CASE op[p] < Len(Program)
      <3>1. /\ Goto(p, "observe", "before") /\ op' = [op EXCEPT ![p] = op[p] + 1]
            /\ ev' = [ev EXCEPT ![p] = native] /\ UNCHANGED <<exp, ver, typ>>
        BY <1>0, <1>10, <2>1 DEF RefreshProjection
      <3>2. OnlyOf(p)
        BY <3>1 DEF TInv, LocalTypes, Goto, OnlyOf
      <3> QED
        BY <1>3, <3>1, <3>2 DEF Reasons
    <2>2. CASE ~(op[p] < Len(Program))
      <3>1. AppendInBudget(p, native, "completed", "completed") /\ UNCHANGED <<exp, ver, op>>
        BY <1>0, <1>10, <2>2 DEF RefreshProjection
      <3> QED
        BY <1>5, <3>1
    <2> QED
      BY <2>1, <2>2
  <1>11. CASE then[p] = "cancelling"
    <2>1. AppendNext(p, native, "cancelled", "ended") /\ UNCHANGED <<exp, ver, op>>
      BY <1>0, <1>11 DEF RefreshProjection
    <2> QED
      BY <1>5, <1>11, <2>1
  <1> QED
    BY <1>0, <1>6, <1>7, <1>8, <1>9, <1>10, <1>11 DEF Reasons

LEMMA ReconcileHistories ==
  ASSUME TInv, TInv', Histories, NEW p \in Procs, Reconcile(p)
  PROVE  Histories'
  <1>0. /\ snap' = snap /\ lost' = lost /\ UNCHANGED <<version, held, expired>> /\ Good(p) /\ Prefix(native, snap)
        /\ native \in Seq(EventsOf) /\ snap \in Seq(EventsOf) /\ exp[p] \in Seq(EventsOf)
    BY ReconcileStores DEF TInv, LocalTypes, SharedTypes, Histories, lease
  <1>1. ASSUME Good(p)', OnlyOf(p), Prefix(native, native'), Prefix(native', snap)
        PROVE  Histories'
    <2>1. ASSUME NEW q \in Procs \ {p} PROVE Good(q)'
      <3>1. q \in Workers /\ pc[q] # "idle" /\ Owns(q)' => Owns(q)
        BY <1>0, <1>1 DEF OnlyOf, Owns
      <3> QED
        BY <1>0, <1>1, <3>1, OthersStay DEF OnlyOf
    <2> QED
      BY <1>0, <1>1, <2>1 DEF Histories
  <1>2. Prefix(native, native)
    BY <1>0, PrefixBasics
  <1>3. CASE CheckProjection(p) \/ SeedCollision(p)
    <2>1. native' = native /\ pc[p] # "idle"
      BY <1>3 DEF CheckProjection, SeedCollision
    <2>2. CASE Diverged(p)
      <3>1. CASE Exit(p)
        BY <1>0, <1>1, <1>2, <2>1, <3>1, ExitGood, OnlyOfRaise
      <3>2. CASE ver' = ver
        <4>1. Owns(p)' => Owns(p)
          BY <1>0, <3>2 DEF Owns
        <4> QED
          BY <1>0, <1>1, <1>2, <2>1, <2>2, <4>1, RaiseGood, OnlyOfRaise
      <3> QED
        BY <2>2, <3>1, <3>2 DEF Diverged, Raise
    <2>3. CASE pc' = [pc EXCEPT ![p] = "seed"] /\ UNCHANGED <<then, ev, exp, ver, op, typ>> /\ CheckProjection(p)
      <3>1. OnlyOf(p) /\ pc'[p] = "seed" /\ pc[p] = "check"
        BY <2>3 DEF TInv, LocalTypes, OnlyOf, CheckProjection
      <3>2. Near(ev[p]) => Near(ev[p])'
        BY <1>0, <2>3 DEF Near
      <3>3. Near(exp[p]) => Near(exp[p])'
        BY <1>0, <2>3 DEF Near
      <3>4. ASSUME Owner(p) PROVE Owner(p)'
        BY <1>0, <2>3, <3>1, <3>2, <3>3, <3>4 DEF Owner, Ending, Dropped
      <3>5. Good(p)'
        BY <1>0, <2>3, <3>1, <3>4 DEF Good, Owns
      <3> QED
        BY <1>0, <1>1, <1>2, <2>1, <3>1, <3>5
    <2> QED
      BY <1>3, <2>2, <2>3 DEF CheckProjection, SeedCollision
  <1>4. CASE SeedProjection(p)
    <2>1. CASE Len(native) < Len(exp[p])
      <3>1. /\ native' = Append(native, exp[p][Len(native) + 1])
            /\ UNCHANGED <<pc, then, ev, exp, ver, op, typ>>
        BY <1>4, <2>1 DEF SeedProjection
      <3>2. exp[p][Len(native) + 1] \in EventsOf
        BY <1>0, <2>1
      <3>3. Prefix(native, native') /\ Prefix(native', snap)
        BY <1>0, <2>1, <3>1, <3>2, PrefixBasics, PrefixSeed DEF Good
      <3>4. Good(p)'
        <4>1. p \in Workers /\ pc[p] # "idle" /\ Owns(p)' => Owns(p)
          BY <1>0, <3>1 DEF Owns
        <4> QED
          BY <1>0, <3>1, <3>3, <4>1, OthersStay
      <3> QED
        BY <1>1, <3>1, <3>3, <3>4 DEF OnlyOf
    <2>2. CASE ~(Len(native) < Len(exp[p]))
      <3>1. native' = native /\ pc' = [pc EXCEPT ![p] = "refresh"] /\ UNCHANGED <<then, ev, exp, ver, op, typ>>
        BY <1>4, <2>2 DEF SeedProjection
      <3>2. Prefix(exp[p], native)
        BY <1>0, <1>4, <2>2 DEF SeedProjection, Prefix
      <3>3. pc'[p] = "refresh" /\ pc[p] = "seed" /\ OnlyOf(p)
        BY <1>4, <3>1 DEF TInv, LocalTypes, OnlyOf, SeedProjection
      <3>4. Near(ev[p]) => Near(ev[p])'
        BY <1>0, <3>1 DEF Near
      <3>5. Near(exp[p]) => Near(exp[p])'
        BY <1>0, <3>1 DEF Near
      <3>6. Prefix(exp[p], native)'
        BY <3>1, <3>2
      <3>7. ASSUME Owner(p) PROVE Owner(p)'
        BY <1>0, <3>1, <3>3, <3>4, <3>5, <3>6, <3>7 DEF Owner, Ending, Dropped
      <3>8. Good(p)'
        BY <1>0, <3>1, <3>3, <3>7 DEF Good, Owns
      <3> QED
        BY <1>0, <1>1, <1>2, <3>1, <3>3, <3>8
    <2> QED
      BY <2>1, <2>2
  <1>5. CASE RefreshProjection(p)
    <2>1. native' = native
      BY <1>5 DEF RefreshProjection
    <2> QED
      BY <1>0, <1>1, <1>2, <1>5, <2>1, RefreshGood
  <1> QED
    BY <1>3, <1>4, <1>5 DEF Reconcile

\* The steps at which the row stands and the process goes on, fails or gives up.
LEMMA LocalHistories ==
  ASSUME TInv, TInv', Histories, NEW p \in Procs, snap' = snap, native' = native, UNCHANGED <<lease, lost>>,
         Good(p)', OnlyOf(p)
  PROVE  Histories'
  <1>1. Prefix(native, native') /\ Prefix(native', snap')
    BY PrefixBasics DEF TInv, SharedTypes, Histories
  <1>2. ASSUME NEW q \in Procs \ {p} PROVE Good(q)'
    <2>1. q \in Workers /\ pc[q] # "idle" /\ Owns(q)' => Owns(q)
      BY DEF OnlyOf, Owns, lease
    <2> QED
      BY <1>1, <2>1, OthersStay DEF OnlyOf
  <1> QED
    BY <1>1, <1>2 DEF Histories

LEMMA RaiseHistories ==
  ASSUME TInv, TInv', Histories, NEW p \in Procs, pc[p] # "idle", snap' = snap, native' = native,
         UNCHANGED <<lease, lost>>, Raise(p) \/ Exit(p)
  PROVE  Histories'
  <1>1. CASE Exit(p)
    BY <1>1, ExitGood, OnlyOfRaise, LocalHistories
  <1>2. CASE ver' = ver /\ Raise(p)
    <2>1. Good(p) /\ (Owns(p)' => Owns(p))
      BY <1>2 DEF Histories, Owns, lease
    <2> QED
      BY <1>2, <2>1, RaiseGood, OnlyOfRaise, LocalHistories
  <1> QED
    BY <1>1, <1>2 DEF Raise

LEMMA ObserveHistories ==
  ASSUME TInv, TInv', Histories, NEW w \in Workers, ObserveCancellation(w)
  PROVE  Histories'
  <1>0. /\ w \in Procs /\ Good(w) /\ pc[w] = "observe" /\ snap \in Seq(EventsOf) /\ snap' = snap
        /\ UNCHANGED <<lease, lost, native, ev, ver, op, typ>> /\ (Owns(w)' => Owns(w))
    BY DEF TInv, SharedTypes, Histories, Procs, ObserveCancellation, Owns, lease
  <1>1. CASE Goto(w, "observe", "cancelling") /\ StateOf(ev[w]) = "cancel_requested" /\ UNCHANGED exp
    <2>1. pc'[w] = "observe" /\ then'[w] = "cancelling" /\ ev'[w] = ev[w] /\ exp'[w] = exp[w]
      BY <1>0, <1>1 DEF TInv, LocalTypes, Goto
    <2>2. ASSUME Owner(w) PROVE StateOf(snap) = "cancel_requested"
      BY <1>0, <1>1, <2>2 DEF Owner, Ending, Dropped, Near
    <2>3. ASSUME Owner(w) PROVE Owner(w)'
      BY <1>0, <2>1, <2>2, <2>3 DEF Owner, Ending
    <2>4. Good(w)'
      BY <1>0, <2>1, <2>3 DEF Good
    <2> QED
      BY <1>0, <1>1, <2>4, OnlyOfGoto, LocalHistories
  <1>2. CASE Goto(w, "check", then[w]) /\ exp' = [exp EXCEPT ![w] = snap] /\ StateOf(snap) = "cancel_requested"
    <2>1. pc'[w] = "check" /\ then'[w] = then[w] /\ ev'[w] = ev[w] /\ exp'[w] = snap /\ Prefix(snap, snap)
      BY <1>0, <1>2, PrefixBasics DEF TInv, LocalTypes, Goto
    <2>2. ASSUME Owner(w) PROVE Owner(w)'
      <3>1. Near(exp[w])'
        BY <1>0, <2>1 DEF Near
      <3>2. Near(ev[w]) => Near(ev[w])'
        BY <1>0, <2>1 DEF Near
      <3> QED
        BY <1>0, <1>2, <2>1, <2>2, <3>1, <3>2 DEF Owner, Ending, Dropped
    <2>3. Good(w)'
      BY <1>0, <2>1, <2>2 DEF Good
    <2> QED
      BY <1>0, <1>2, <2>3, OnlyOfGoto, LocalHistories
  <1>3. CASE Goto(w, "refresh", then[w]) /\ StateOf(snap) # "cancel_requested" /\ UNCHANGED exp
    <2>1. pc'[w] = "refresh" /\ then'[w] = then[w] /\ ev'[w] = ev[w] /\ exp'[w] = exp[w]
      BY <1>0, <1>3 DEF TInv, LocalTypes, Goto
    <2>2. ASSUME Owner(w) PROVE Owner(w)'
      <3>1. ~Ending(w) /\ ~Dropped(w) /\ Near(ev[w]) /\ Near(exp[w])
        BY <1>0, <1>3, <2>2 DEF Owner, Ending, Dropped
      <3>2. Near(ev[w])' /\ Near(exp[w])'
        BY <1>0, <2>1, <3>1 DEF Near
      <3> QED
        BY <1>0, <1>3, <2>1, <2>2, <3>1, <3>2 DEF Owner, Ending
    <2>3. Good(w)'
      BY <1>0, <2>1, <2>2 DEF Good
    <2> QED
      BY <1>0, <1>3, <2>3, OnlyOfGoto, LocalHistories
  <1> QED
    BY <1>1, <1>2, <1>3 DEF ObserveCancellation

LEMMA RefusedHistories ==
  ASSUME TInv, TInv', Histories, NEW w \in Workers, PersistRefused(w)
  PROVE  Histories'
  <1>0. /\ w \in Procs /\ Good(w) /\ pc[w] = "persist" /\ snap' = snap
        /\ UNCHANGED <<lease, lost, native>>
    BY DEF Histories, Procs, PersistRefused
  <1>1. CASE Exit(w)
    BY <1>0, <1>1, RaiseHistories
  <1>2. CASE Goto(w, "observe", "cancelling") /\ UNCHANGED <<ev, exp, ver, op, typ>>
             /\ StateOf(snap) = "cancel_requested"
    <2>1. /\ pc'[w] = "observe" /\ then'[w] = "cancelling" /\ ev'[w] = ev[w] /\ exp'[w] = exp[w]
          /\ (Owns(w)' => Owns(w))
      BY <1>0, <1>2 DEF TInv, LocalTypes, Goto, Owns, lease
    <2>2. ASSUME Owner(w) PROVE Owner(w)'
      BY <1>0, <1>2, <2>1, <2>2 DEF Owner, Ending
    <2>3. Good(w)'
      BY <1>0, <2>1, <2>2 DEF Good
    <2> QED
      BY <1>0, <1>2, <2>3, OnlyOfGoto, LocalHistories
  <1> QED
    BY <1>1, <1>2 DEF PersistRefused

LEMMA CallHistories ==
  ASSUME TInv, TInv', Histories, NEW w \in Workers, Call(w)
  PROVE  Histories'
  <1>0. /\ w \in Procs /\ Good(w) /\ pc[w] = "call" /\ snap' = snap
        /\ UNCHANGED <<lease, lost, native>>
        /\ Owner(w) => Near(ev[w]) /\ Near(exp[w])
    BY DEF Histories, Procs, Call, Owner, Ending, Dropped
  <1>1. CASE Raise(w)
    BY <1>0, <1>1, RaiseHistories
  <1>2. CASE Goto(w, "observe", "after") /\ UNCHANGED <<ev, exp, ver, op, typ>>
    <2>1. /\ pc'[w] = "observe" /\ then'[w] = "after" /\ ev'[w] = ev[w] /\ exp'[w] = exp[w]
          /\ (Owns(w)' => Owns(w))
      BY <1>0, <1>2 DEF TInv, LocalTypes, Goto, Owns, lease
    <2>2. Near(ev[w]) /\ Near(exp[w]) => Near(ev[w])' /\ Near(exp[w])'
      BY <1>0, <2>1 DEF Near
    <2>3. ASSUME Owner(w) PROVE Owner(w)'
      BY <1>0, <2>1, <2>2, <2>3 DEF Owner, Ending
    <2>4. Good(w)'
      BY <1>0, <2>1, <2>3 DEF Good
    <2> QED
      BY <1>0, <1>2, <2>4, OnlyOfGoto, LocalHistories
  <1>3. CASE AppendNext(w, ev[w], "budget_exhausted", "ended") /\ UNCHANGED <<exp, ver, op>>
    <2>1. Owns(w)' => Owns(w)
      BY <1>0, <1>3 DEF Owns, lease
    <2> QED
      BY <1>0, <1>3, <2>1, AppendGood, OnlyOfAppend, LocalHistories
  <1> QED
    BY <1>1, <1>2, <1>3 DEF Call

LEMMA ClaimHistories ==
  ASSUME TInv, TInv', Claims, Histories, NEW w \in Workers, ClaimRun(w)
  PROVE  Histories'
  <1>0. /\ w \in Procs /\ snap \in Seq(EventsOf) /\ native \in Seq(EventsOf) /\ snap' = snap /\ native' = native
        /\ lost' = lost /\ version' = version + 1 /\ version \in Nat
        /\ pc'[w] = "claimed" /\ exp'[w] = snap /\ ev'[w] = snap
    BY DEF TInv, LocalTypes, SharedTypes, Procs, ClaimRun, Goto
  <1>1. Prefix(snap, snap) /\ Prefix(native, native)
    BY <1>0, PrefixBasics
  <1>2. Good(w)'
    <2>1. Near(ev[w])' /\ Near(exp[w])'
      BY <1>0 DEF Near
    <2> QED
      BY <1>0, <1>1, <2>1 DEF Good, Owner, Ending
  <1>3. ASSUME NEW q \in Procs \ {w} PROVE Good(q)'
    <2>1. /\ pc'[q] = pc[q] /\ then'[q] = then[q] /\ ev'[q] = ev[q] /\ exp'[q] = exp[q] /\ typ'[q] = typ[q]
          /\ ver'[q] = ver[q]
      BY DEF TInv, LocalTypes, ClaimRun, Goto
    <2>2. q \in Workers => ver[q] <= version /\ ver[q] \in Nat
      BY DEF TInv, LocalTypes, Claims
    <2>3. q \in Workers => ~Owns(q)'
      BY <1>0, <2>1, <2>2 DEF Owns
    <2> QED
      BY <1>0, <1>1, <2>1, <2>3, OthersStay
  <1> QED
    BY <1>0, <1>2, <1>3 DEF Histories

\* What an owner may write is an extension of the row ...
LEMMA SavedIsRow ==
  ASSUME TInv, Histories, NEW w \in Workers, pc[w] = "persist", Accepts(w), ~Dropped(w)
  PROVE  ev[w] = snap
  <1>1. Owner(w) /\ w \in Procs /\ ev[w] \in Seq(EventsOf)
    BY DEF TInv, LocalTypes, Histories, Good, Procs, Accepts
  <1>2. snap = WithCancellation(ev[w]) => StateOf(snap) = "cancel_requested"
    BY <1>1, CancellationState
  <1> QED
    BY <1>1, <1>2 DEF Owner, Near, Accepts, Ending

\* ... or, after a lost answer, of the row without its last event, which was his own.
LEMMA SavedIsBehind ==
  ASSUME TInv, NEW w \in Workers, Accepts(w), Dropped(w)
  PROVE  \E e \in EventsOf : e.by = ver[w] /\ snap = Append(ev[w], e)
  <1>1. PICK e \in EventsOf : e.by = ver[w] /\ Near(Append(ev[w], e))
    BY DEF Dropped
  <1>2. ev[w] \in Seq(EventsOf) /\ Append(ev[w], e) \in Seq(EventsOf)
    BY <1>1 DEF TInv, LocalTypes, Procs
  <1>3. StateOf(snap) # "cancel_requested"
    BY DEF Accepts, Dropped
  <1>4. snap # WithCancellation(Append(ev[w], e))
    BY <1>2, <1>3, CancellationState
  <1> QED
    BY <1>1, <1>4 DEF Near

LEMMA PersistHistories ==
  ASSUME TInv, TInv', Claims, Histories, NEW w \in Workers, Persist(w), ~Dropped(w)
  PROVE  Histories' /\ Prefix(snap, snap')
  <1>0. /\ w \in Procs /\ pc[w] = "persist" /\ ev[w] = snap /\ native' = native
        /\ then[w] # "cancelling" /\ version = ver[w] /\ ver[w] # 0
        /\ snap \in Seq(EventsOf) /\ native \in Seq(EventsOf) /\ snap' \in Seq(EventsOf)
    BY SavedIsRow DEF TInv, LocalTypes, SharedTypes, Busy, Procs, Persist, Accepts, Owns
  <1>1. NewEvent(w) \in EventsOf
    BY <1>0, NewEventType DEF TInv, LocalSane
  <1>2. snap' = Append(snap, NewEvent(w)) /\ version' = version
    BY <1>0 DEF Persist, Save
  <1>3. Prefix(snap, snap') /\ Prefix(snap', snap')
    BY <1>0, <1>1, <1>2, PrefixBasics
  <1>4. /\ pc'[w] = "check" /\ then'[w] = then[w] /\ ev'[w] = snap' /\ exp'[w] = snap'
        /\ OnlyOf(w)
    BY <1>0, <1>2 DEF TInv, LocalTypes, Persist, Goto, OnlyOf
  <1>5. Good(w)'
    <2>1. Near(ev[w])' /\ Near(exp[w])'
      BY <1>4 DEF Near
    <2> QED
      BY <1>0, <1>3, <1>4, <2>1 DEF Good, Owner, Ending
  <1>6. ASSUME NEW q \in Procs \ {w} PROVE Good(q)'
    <2>1. Prefix(exp[q], snap) /\ exp[q] \in Seq(EventsOf) /\ exp'[q] = exp[q] /\ ver'[q] = ver[q]
      BY <1>4 DEF TInv, LocalTypes, Histories, Good, OnlyOf
    <2>2. Prefix(exp'[q], snap')
      BY <1>0, <1>3, <2>1, PrefixTransitive
    <2>3. q \in Workers => ~Owns(q)'
      BY <1>0, <1>2, <2>1 DEF Claims, Owns
    <2> QED
      BY <2>2, <2>3 DEF Good
  <1>7. Prefix(native', snap')
    BY <1>0, <1>3, PrefixTransitive DEF Histories
  <1> QED
    BY <1>3, <1>5, <1>6, <1>7 DEF Histories

\* A cancellation between two steps of the owner.
LEMMA CancelledHistories ==
  ASSUME TInv, TInv', Histories, NEW p \in Procs, Cancellable, snap' = WithCancellation(snap), native' = native,
         UNCHANGED <<lease, lost>>, OnlyOf(p), pc'[p] = "check", then'[p] # "cancelling",
         \/ p \in Gateways /\ exp'[p] = snap'
         \/ ev'[p] = ev[p] /\ exp'[p] = exp[p] /\ ver'[p] = ver[p] /\ pc[p] = "claimed"
  PROVE  Histories' /\ Prefix(snap, snap')
  <1>0. /\ snap \in Seq(EventsOf) /\ native \in Seq(EventsOf) /\ snap' \in Seq(EventsOf)
        /\ \A q \in Procs : exp[q] \in Seq(EventsOf) /\ ev[q] \in Seq(EventsOf) /\ Good(q)
    BY DEF TInv, LocalTypes, SharedTypes, Histories
  <1>1. Prefix(snap, snap') /\ Prefix(snap', snap') /\ StateOf(snap') = "cancel_requested"
    BY <1>0, CancellationType, CancellationState, PrefixBasics DEF WithCancellation
  <1>2. /\ \A q \in Procs : Prefix(exp[q], snap')
        /\ Prefix(native', snap')
    BY <1>0, <1>1, PrefixTransitive DEF Good, Histories
  <1>3. StateOf(snap) \notin Terminal \cup {"cancel_requested"}
    BY DEF Cancellable
  <1>4. ASSUME NEW s \in Seq(EventsOf), Near(s) PROVE s = snap
    BY <1>3, <1>4, CancellationState DEF Near
  <1>5. ASSUME NEW q \in Procs, q # p PROVE Good(q)'
    <2>1. /\ pc'[q] = pc[q] /\ then'[q] = then[q] /\ ev'[q] = ev[q] /\ exp'[q] = exp[q] /\ typ'[q] = typ[q]
          /\ (Owns(q)' => Owns(q))
      BY <1>5 DEF OnlyOf, Owns, lease
    <2>2. ASSUME q \in Workers, pc[q] # "idle", Owns(q)
          PROVE  /\ Owner(q) /\ ~Ending(q)
                 /\ ~Dropped(q) => ev[q] = snap /\ exp[q] = snap
      BY <1>0, <1>3, <1>4, <2>2 DEF Good, Owner
    <2>3. ASSUME q \in Workers, pc[q] # "idle", Owns(q), ~Dropped(q) PROVE Owner(q)'
      <3>1. Near(ev[q])' /\ Near(exp[q])'
        BY <1>3, <2>1, <2>2, <2>3 DEF Near
      <3>2. ~(pc[q] = "persist" /\ typ[q] = "cancelled")
        BY <1>3, <2>2, <2>3 DEF Owner
      <3> QED
        BY <2>1, <2>2, <2>3, <3>1, <3>2 DEF Owner, Ending
    <2>4. ASSUME q \in Workers, Dropped(q) PROVE Owner(q)'
      <3>1. PICK e \in EventsOf : /\ e.by = ver[q] /\ e.type \notin Terminal \cup {"cancel_requested"}
                                 /\ Near(Append(ev[q], e))
        BY <2>4 DEF Dropped
      <3>2. Append(ev[q], e) = snap
        <4>1. Append(ev[q], e) \in Seq(EventsOf)
          BY <1>0, <3>1
        <4> QED
          BY <1>4, <3>1, <4>1
      <3>3. snap' = WithCancellation(Append(ev[q], e))
        BY <3>2
      <3>4. StateOf(Append(ev[q], e)) \notin Terminal \cup {"cancel_requested"}
        BY <1>3, <3>2
      <3>5. ver'[q] = ver[q] /\ ev'[q] = ev[q]
        BY <1>5 DEF OnlyOf
      <3>6. \E f \in EventsOf : /\ f.by = ver'[q] /\ f.type \notin Terminal \cup {"cancel_requested"}
                               /\ \/ snap' = Append(ev'[q], f)
                                  \/ /\ snap' = WithCancellation(Append(ev'[q], f))
                                     /\ StateOf(Append(ev'[q], f)) \notin Terminal \cup {"cancel_requested"}
        BY <3>1, <3>3, <3>4, <3>5
      <3>7. Dropped(q)'
        BY <2>1, <2>4, <3>6 DEF Dropped, Near
      <3>8. pc'[q] = "persist" /\ typ'[q] = "failed"
        BY <2>1, <2>4 DEF Dropped
      <3> QED
        BY <3>7, <3>8 DEF Owner, Ending
    <2> QED
      BY <1>2, <2>1, <2>3, <2>4 DEF Good
  <1>6. Good(p)'
    <2>1. CASE p \in Gateways /\ exp'[p] = snap'
      BY <1>1, <2>1, AgentRunAssumption DEF Good
    <2>2. CASE ev'[p] = ev[p] /\ exp'[p] = exp[p] /\ ver'[p] = ver[p] /\ pc[p] = "claimed"
      <3>1. Owns(p)' => Owns(p)
        BY <2>2 DEF Owns, lease
      <3>2. ASSUME p \in Workers, Owns(p) PROVE Owner(p)'
        <4>1. ev[p] = snap /\ exp[p] = snap
          BY <1>0, <1>4, <2>2, <3>2 DEF Good, Owner, Ending, Dropped
        <4>2. Near(ev[p])' /\ Near(exp[p])'
          BY <1>3, <2>2, <4>1 DEF Near
        <4> QED
          BY <4>2 DEF Owner, Ending
      <3> QED
        BY <1>2, <2>2, <3>1, <3>2 DEF Good
    <2> QED
      BY <2>1, <2>2
  <1> QED
    BY <1>1, <1>2, <1>5, <1>6 DEF Histories

LEMMA StartHistories ==
  ASSUME TInv, TInv', Claims, Histories, NEW g \in Gateways, StartRun(g)
  PROVE  Histories' /\ Prefix(snap, snap')
  <1>0. /\ snap = <<>> /\ ~held' /\ native' = native /\ snap' \in Seq(EventsOf) /\ g \in Procs
    BY DEF TInv, SharedTypes, Claims, StartRun, lease, Procs
  <1>1. exp'[g] = snap' /\ \A q \in Procs \ {g} : exp'[q] = exp[q]
    BY <1>0 DEF TInv, LocalTypes, StartRun
  <1>2. native = <<>> /\ \A q \in Procs : exp[q] = <<>>
    BY <1>0, PrefixBasics DEF TInv, LocalTypes, SharedTypes, Histories, Good
  <1>3. Prefix(<<>>, snap') /\ Prefix(snap', snap')
    BY <1>0, PrefixBasics
  <1>4. ASSUME NEW q \in Procs PROVE Good(q)'
    BY <1>0, <1>1, <1>2, <1>3 DEF Good, Owns
  <1> QED
    BY <1>0, <1>2, <1>3, <1>4 DEF Histories

LEMMA LeaseHistories ==
  ASSUME TInv, TInv', Histories, LeaseExpires \/ LeaseOverrun
  PROVE  Histories'
  <1>1. UNCHANGED <<snap, native, exp>> /\ expired' = TRUE
    BY DEF LeaseExpires, LeaseOverrun, local
  <1>2. ASSUME NEW q \in Procs PROVE Good(q)'
    BY <1>1 DEF Histories, Good, Owns
  <1> QED
    BY <1>1, <1>2 DEF Histories

\* The answer of a commit is lost: either the run has ended, or the worker is now an
\* event of his own behind the row.
LEMMA LostHistories ==
  ASSUME TInv, TInv', Claims, Plans, Histories, NEW w \in Workers, pc[w] = "persist", Accepts(w), Save(w), Raise(w),
         native' = native, lost' = lost + 1, typ[w] \notin Terminal
  PROVE  Histories'
  <1>0. /\ w \in Procs /\ snap \in Seq(EventsOf) /\ native \in Seq(EventsOf) /\ snap' \in Seq(EventsOf)
        /\ lost \in Nat /\ version = ver[w] /\ ver[w] # 0 /\ version' = version
    BY AgentRunAssumption DEF TInv, LocalTypes, SharedTypes, Busy, Procs, Accepts, Owns, Save
  <1>1. ev[w] = snap
    <2>1. ~Dropped(w)
      BY DEF Dropped, Terminal
    <2> QED
      BY <2>1, SavedIsRow
  <1>2. NewEvent(w) \in EventsOf /\ NewEvent(w).by = ver[w] /\ NewEvent(w).type = typ[w]
    BY NewEventType DEF TInv, LocalSane, NewEvent, Event
  <1>3. snap' = Append(ev[w], NewEvent(w))
    BY DEF Save
  <1>4. Prefix(snap, snap')
    BY <1>0, <1>1, <1>2, <1>3, PrefixBasics
  <1>5. InTry(w) /\ typ[w] # "cancel_requested"
    BY DEF Plans, Planned
  <1>6. /\ pc'[w] = "persist" /\ then'[w] = "ended" /\ typ'[w] = "failed" /\ ev'[w] = ev[w] /\ exp'[w] = exp[w]
        /\ ver'[w] = ver[w] /\ OnlyOf(w)
    BY <1>0, <1>5, OnlyOfRaise DEF TInv, LocalTypes, Raise, AppendNext, Goto
  <1>7. Owner(w)'
    <2>1. StateOf(ev'[w]) \notin Terminal
      BY <1>1, <1>6 DEF Accepts
    <2>2. \E e \in EventsOf : /\ e.by = ver'[w] /\ e.type \notin Terminal \cup {"cancel_requested"}
                             /\ snap' = Append(ev'[w], e)
      BY <1>2, <1>3, <1>5, <1>6
    <2>3. lost' # 0
      BY <1>0
    <2>4. Dropped(w)'
      BY <1>6, <2>1, <2>2, <2>3 DEF Dropped, Near
    <2> QED
      BY <1>6, <2>4 DEF Owner, Ending
  <1>8. ASSUME NEW q \in Procs PROVE Prefix(exp[q], snap)'
    <2>1. Prefix(exp[q], snap) /\ exp[q] \in Seq(EventsOf) /\ exp'[q] = exp[q]
      BY <1>6 DEF TInv, LocalTypes, Histories, Good, OnlyOf
    <2> QED
      BY <1>0, <1>4, <2>1, PrefixTransitive
  <1>9. ASSUME NEW q \in Procs \ {w}, q \in Workers PROVE ~Owns(q)'
    <2>1. ver'[q] = ver[q] /\ ver[q] # ver[w]
      BY <1>0, <1>6, <1>9 DEF OnlyOf, Claims
    <2> QED
      BY <1>0, <2>1 DEF Owns
  <1>10. Prefix(native', snap')
    BY <1>0, <1>4, PrefixTransitive DEF Histories
  <1> QED
    BY <1>7, <1>8, <1>9, <1>10 DEF Histories, Good

\* Every other step keeps the histories together and the row growing, but for the
\* failure reported by a worker who did not get his last answer.
LEMMA HistoriesKept ==
  ASSUME TInv, TInv', Claims, Histories, [Next]_vars, lost' = lost,
         ~\E w \in Workers : Persist(w) /\ Dropped(w)
  PROVE  Histories' /\ Prefix(snap, snap')
  <1>0. lost \in Nat /\ Prefix(snap, snap)
    BY AgentRunAssumption, PrefixBasics DEF TInv, SharedTypes
  <1>1. ASSUME NEW g \in Gateways,
               StartRun(g) \/ ReadRun(g) \/ CancelRun(g) \/ Reconcile(g) \/ ReportDivergence(g)
        PROVE  Histories' /\ Prefix(snap, snap')
    <2>0. g \in Procs /\ snap \in Seq(EventsOf)
      BY DEF Procs, TInv, SharedTypes
    <2>1. CASE ReadRun(g)
      <3>1. /\ exp'[g] = snap /\ snap' = snap /\ native' = native /\ UNCHANGED lease /\ OnlyOf(g)
        BY <2>0, <2>1, OnlyOfGoto DEF TInv, LocalTypes, ReadRun
      <3>2. Good(g)'
        BY <1>0, <3>1, AgentRunAssumption DEF Good
      <3> QED
        BY <1>0, <2>0, <3>1, <3>2, LocalHistories
    <2>2. CASE CancelRun(g)
      <3>1. pc'[g] = "check" /\ then'[g] = "view" /\ exp'[g] = snap' /\ OnlyOf(g)
        BY <2>0, <2>2, OnlyOfGoto DEF TInv, LocalTypes, CancelRun, Goto
      <3> QED
        BY <2>0, <2>2, <3>1, CancelledHistories DEF CancelRun
    <2>3. CASE Reconcile(g)
      BY <1>0, <2>0, <2>3, ReconcileHistories, ReconcileStores
    <2>4. CASE ReportDivergence(g)
      BY <1>0, <2>0, <2>4, RaiseHistories DEF ReportDivergence
    <2> QED
      BY <1>1, <2>1, <2>2, <2>3, <2>4, StartHistories
  <1>2. ASSUME NEW w \in Workers, Work(w) \/ PersistFails(w)
        PROVE  Histories' /\ Prefix(snap, snap')
    <2>0. w \in Procs
      BY DEF Procs
    <2>1. CASE ClaimRun(w)
      BY <1>0, <2>1, ClaimHistories DEF ClaimRun
    <2>2. CASE Reauthorize(w)
      <3>1. /\ pc'[w] = "check" /\ then'[w] = "load" /\ pc[w] = "claimed" /\ OnlyOf(w) /\ native' = native
            /\ UNCHANGED <<lease, ev, exp, ver, typ>>
        BY <2>0, <2>2, OnlyOfGoto DEF TInv, LocalTypes, Reauthorize, Goto
      <3>2. CASE snap' = snap
        <4>1. Good(w) /\ (Owns(w)' => Owns(w))
          BY <2>0, <3>1 DEF Histories, Owns, lease
        <4>3. ASSUME Owns(w) PROVE Near(ev[w])' /\ Near(exp[w])'
          <5>1. Near(ev[w]) /\ Near(exp[w])
            BY <3>1, <4>1, <4>3 DEF Good, Owner, Ending, Dropped, TInv, LocalTypes, Busy
          <5> QED
            BY <3>1, <3>2, <5>1 DEF Near
        <4>2. Good(w)'
          BY <3>1, <3>2, <4>1, <4>3 DEF Good, Owner, Ending
        <4> QED
          BY <1>0, <2>0, <3>1, <3>2, <4>2, LocalHistories
      <3>3. CASE Cancellable /\ snap' = WithCancellation(snap)
        BY <2>0, <3>1, <3>3, CancelledHistories
      <3> QED
        BY <2>2, <3>2, <3>3 DEF Reauthorize
    <2>3. CASE Reconcile(w)
      BY <1>0, <2>0, <2>3, ReconcileHistories, ReconcileStores
    <2>4. CASE ObserveCancellation(w)
      BY <1>0, <2>4, ObserveHistories DEF ObserveCancellation
    <2>5. CASE Persist(w)
      BY <2>5, PersistHistories
    <2>6. CASE PersistRefused(w)
      BY <1>0, <2>6, RefusedHistories DEF PersistRefused
    <2>7. CASE Call(w)
      BY <1>0, <2>7, CallHistories DEF Call
    <2>8. CASE PersistFails(w)
      <3>1. UNCHANGED <<snap, lease, native>> /\ Raise(w) /\ pc[w] = "persist"
        BY <1>0, <2>8 DEF PersistFails
      <3> QED
        BY <1>0, <2>0, <3>1, RaiseHistories
    <2> QED
      BY <1>2, <2>1, <2>2, <2>3, <2>4, <2>5, <2>6, <2>7, <2>8 DEF Work
  <1>3. ASSUME NEW p \in Procs, StoreFails(p) \/ Crash(p)
        PROVE  Histories' /\ Prefix(snap, snap')
    BY <1>0, <1>3, RaiseHistories DEF StoreFails, Crash
  <1>4. CASE LeaseExpires \/ LeaseOverrun
    BY <1>0, <1>4, LeaseHistories DEF LeaseExpires, LeaseOverrun
  <1>5. CASE UNCHANGED vars
    <2>1. Prefix(native', snap')
      BY <1>5 DEF vars, Histories
    <2>2. ASSUME NEW q \in Procs PROVE Good(q)'
      <3>1. Prefix(native, native') /\ UNCHANGED <<pc, then, ev, exp, typ, ver, snap, version, held, expired>>
        BY <1>5, PrefixBasics DEF vars, local, lease, TInv, SharedTypes
      <3> QED
        BY <3>1, OthersStay DEF Owns
    <2> QED
      BY <1>0, <1>5, <2>1, <2>2 DEF vars, Histories
  <1> QED
    BY <1>1, <1>2, <1>3, <1>4, <1>5 DEF Next

\* A bounded set of positions has a last one.
LEMMA LastOne ==
  ASSUME NEW n \in Nat, NEW L \in SUBSET (1..n), L # {}
  PROVE  \E k \in L : \A j \in L : j <= k
  <1> DEFINE D == {n - k : k \in L}
  <1>1. D \subseteq Nat /\ D # {}
    <2>1. \A k \in L : n - k \in Nat
      OBVIOUS
    <2>2. PICK k : k \in L
      OBVIOUS
    <2>3. n - k \in D
      BY <2>2
    <2> QED
      BY <2>1, <2>3
  <1>2. PICK d \in D : \A x \in D : ~(<<x, d>> \in OpToRel(<, Nat))
    BY <1>1, NatLessThanWellFounded, WFMin
  <1>3. \A x \in D : ~(x < d)
    BY <1>1, <1>2 DEF OpToRel
  <1>4. PICK k \in L : d = n - k
    OBVIOUS
  <1>5. ASSUME NEW j \in L PROVE j <= k
    BY <1>3, <1>4
  <1> QED
    BY <1>5

LEMMA StateAppendOther ==
  ASSUME NEW s \in Seq(EventsOf), s # <<>>, s[1].type \in Lifecycle, NEW e \in EventsOf, e.type \notin Lifecycle
  PROVE  StateOf(Append(s, e)) = StateOf(s)
  <1> DEFINE t == Append(s, e)
             L == {k \in 1..Len(s) : s[k].type \in Lifecycle}
             M == {k \in 1..Len(t) : t[k].type \in Lifecycle}
             last == CHOOSE k \in L : \A j \in L : j <= k
  <1>1. Len(t) = Len(s) + 1 /\ t[Len(s) + 1] = e /\ Len(s) \in Nat /\ \A k \in 1..Len(s) : t[k] = s[k]
    OBVIOUS
  <1>2. L = M
    BY <1>1
  <1>3. 1 \in L /\ L \in SUBSET (1..Len(s))
    BY <1>1
  <1>4. \E k \in L : \A j \in L : j <= k
    <2> HIDE DEF L
    <2> QED
      BY <1>1, <1>3, LastOne
  <1>5. last \in L
    BY <1>4
  <1>6. StateOf(t) = t[last].type
    BY <1>2 DEF StateOf
  <1>7. StateOf(s) = s[last].type
    BY DEF StateOf
  <1> QED
    BY <1>1, <1>5, <1>6, <1>7

\* What is saved extends the row, or replaces its last event, which was the worker's own.
LEMMA SavedOver ==
  ASSUME IInv, NEW w \in Workers, pc[w] = "persist", Accepts(w)
  PROVE  /\ Histories /\ snap # <<>>
         /\ typ[w] \notin Terminal => ~Dropped(w)
         /\ ~Dropped(w) => ev[w] = snap
         /\ Dropped(w) => \E e \in EventsOf : e.by = ver[w] /\ snap = Append(ev[w], e)
  <1>1. Intact /\ held
    BY DEF Accepts, Intact, Owns
  <1>2. Histories /\ snap # <<>>
    BY <1>1 DEF IInv, Claims
  <1>3. typ[w] \notin Terminal => ~Dropped(w)
    BY DEF Dropped, Terminal
  <1> QED
    BY <1>2, <1>3, SavedIsRow, SavedIsBehind DEF IInv

LEMMA EndedKept ==
  ASSUME IInv, [Next]_vars
  PROVE  Ended'
  <1>0. TInv /\ Claims /\ Ended /\ snap \in Seq(EventsOf)
    BY DEF IInv, TInv, SharedTypes
  <1>1. CASE snap' = snap
    <2>1. snap # <<>> /\ StateOf(snap) \in Terminal => ~held'
      <3>1. ASSUME snap # <<>>, StateOf(snap) \in Terminal, NEW w \in Workers, ClaimRun(w) PROVE FALSE
        BY <3>1 DEF ClaimRun, Runnable
      <3>2. CASE \E w \in Workers : ClaimRun(w)
        BY <3>1, <3>2
      <3>3. CASE ~\E w \in Workers : ClaimRun(w)
        BY <1>0, <3>3, OtherVersions DEF Next, Ended
      <3> QED
        BY <3>2, <3>3
    <2>2. snap = <<>> => lost' = 0
      <3>1. lost' = lost \/ snap' # <<>>
        BY <1>0, LostSteps, SavedState
      <3> QED
        BY <1>0, <1>1, <3>1 DEF Ended
    <2> QED
      BY <1>0, <1>1, <2>1, <2>2 DEF Ended
  <1>2. ASSUME NEW g \in Gateways, StartRun(g) PROVE Ended'
    <2>1. snap' = Append(<<>>, Event("queued", "run", 0))
      BY <1>2 DEF StartRun
    <2>2. StateOf(snap') = "queued" /\ snap' # <<>> /\ snap'[1].type = "queued"
      <3> DEFINE e == Event("queued", "run", 0)
      <3>1. e \in EventsOf /\ e.type = "queued" /\ e.type \in Lifecycle /\ <<>> \in Seq(EventsOf)
        BY CancellationType DEF Lifecycle, Event
      <3> HIDE DEF e
      <3>2. StateOf(Append(<<>>, e)) = e.type
        BY <3>1, StateAppend
      <3>3. Append(<<>>, e) # <<>> /\ Append(<<>>, e)[1] = e
        BY <3>1
      <3> QED
        BY <2>1, <3>1, <3>2, <3>3 DEF e
    <2> QED
      BY <2>2 DEF Ended, Lifecycle, Terminal
  <1>3. CASE Cancellable /\ snap' = WithCancellation(snap)
    <2>1. StateOf(snap') = "cancel_requested" /\ snap # <<>>
      BY <1>0, <1>3, CancellationState DEF Cancellable
    <2>2. snap' # <<>> /\ snap'[1] = snap[1]
      BY <1>0, <1>3, <2>1, CancellationType DEF WithCancellation
    <2> QED
      BY <1>0, <2>1, <2>2 DEF Ended, Terminal
  <1>4. ASSUME NEW w \in Workers, pc[w] = "persist", Accepts(w), Save(w) PROVE Ended'
    <2>0. /\ ev[w] \in Seq(EventsOf) /\ NewEvent(w) \in EventsOf /\ snap' = Append(ev[w], NewEvent(w))
          /\ NewEvent(w).type = typ[w] /\ snap # <<>> /\ snap' # <<>>
      BY <1>0, <1>4, SavedOver, SavedState, NewEventType DEF TInv, LocalSane, LocalTypes, Procs, NewEvent, Event, Save
    <2>1. typ[w] \in Terminal => StateOf(snap') = typ[w] /\ ~held'
      BY <1>0, <1>4, SavedState
    <2>2. typ[w] \notin Terminal => ev[w] = snap /\ typ[w] \in {"queued", "started", "requested", "answered"}
      BY <1>0, <1>4, SavedOver DEF IInv, Plans, Planned, TInv, LocalTypes, Types, Lifecycle, Procs
    <2>3. typ[w] \notin Terminal => StateOf(snap') \notin Terminal
      <3>1. CASE typ[w] \in {"queued", "started"}
        BY <2>0, <3>1, StateAppend DEF Lifecycle, Terminal
      <3>2. CASE typ[w] \in {"requested", "answered"}
        <4>1. typ[w] \notin Lifecycle /\ ev[w] = snap /\ snap[1].type \in Lifecycle
          BY <1>0, <2>0, <2>2, <3>2 DEF Lifecycle, Terminal, Ended
        <4>2. StateOf(Append(snap, NewEvent(w))) = StateOf(snap)
          BY <1>0, <2>0, <4>1, StateAppendOther
        <4> QED
          BY <1>4, <2>0, <4>1, <4>2 DEF Accepts
      <3> QED
        BY <2>2, <3>1, <3>2
    <2>4. snap'[1].type \in Lifecycle
      <3>1. CASE ev[w] = <<>>
        <4>1. typ[w] \in Terminal
          BY <2>0, <2>2, <3>1
        <4> QED
          BY <2>0, <3>1, <4>1 DEF Lifecycle
      <3>2. CASE ev[w] # <<>>
        <4>1. snap'[1] = ev[w][1]
          BY <2>0, <3>2
        <4>2. \A e \in EventsOf : Append(ev[w], e)[1] = ev[w][1]
          BY <2>0, <3>2
        <4>3. snap[1] = ev[w][1]
          BY <1>4, <4>2, SavedOver
        <4> QED
          BY <1>0, <2>0, <4>1, <4>3 DEF Ended
      <3> QED
        BY <3>1, <3>2
    <2> QED
      BY <2>0, <2>1, <2>3, <2>4 DEF Ended
  <1> QED
    BY <1>0, <1>1, <1>2, <1>3, <1>4, RowSteps

\* The histories stay together until the run ends with a lost answer.
LEMMA TogetherKept ==
  ASSUME IInv, TInv', [Next]_vars, Intact'
  PROVE  Histories'
  <1>0. TInv /\ Claims /\ Ended /\ Plans /\ lost \in Nat
    BY AgentRunAssumption DEF IInv, TInv, SharedTypes
  <1>1. Intact
    <2>1. CASE lost = 0
      BY <2>1 DEF Intact
    <2>2. CASE lost # 0
      <3>1. lost' # 0 /\ snap # <<>>
        BY <1>0, <2>2, LostSteps DEF Ended
      <3>2. StateOf(snap) \in Terminal => snap' = snap
        BY <1>0, <3>1, RowSteps DEF StartRun, Cancellable, Accepts
      <3> QED
        BY <3>1, <3>2 DEF Intact
    <2> QED
      BY <2>1, <2>2
  <1>2. Histories
    BY <1>1 DEF IInv
  <1>3. CASE lost' # lost
    <2>1. PICK w \in Workers : /\ pc[w] = "persist" /\ Accepts(w) /\ Save(w)
                              /\ Raise(w) /\ native' = native /\ lost' = lost + 1
      BY <1>0, <1>3, LostSteps
    <2>2. typ[w] \notin Terminal
      <3>1. lost' # 0
        BY <1>0, <2>1
      <3> QED
        BY <1>0, <2>1, <3>1, SavedState DEF Intact
    <2> QED
      BY <1>0, <1>2, <2>1, <2>2, LostHistories
  <1>4. CASE lost' = lost
    <2>1. ASSUME NEW w \in Workers, Persist(w), Dropped(w) PROVE FALSE
      <3>1. typ[w] \in Terminal /\ lost' # 0
        BY <1>4, <2>1 DEF Dropped, Terminal
      <3> QED
        BY <1>0, <2>1, <3>1, SavedState DEF Intact, Persist
    <2> QED
      BY <1>0, <1>2, <1>4, <2>1, HistoriesKept
  <1> QED
    BY <1>3, <1>4

-----------------------------------------------------------------------------
(* The budget *)

LEMMA FinitePlaces ==
  ASSUME NEW n \in Nat, NEW S \in SUBSET (1..n)
  PROVE  IsFiniteSet(S) /\ Cardinality(S) \in Nat
  <1>1. IsFiniteSet(1..n)
    BY FS_Interval
  <1>2. IsFiniteSet(S)
    BY <1>1, FS_Subset
  <1> QED
    BY <1>2, FS_CardinalityType

LEMMA ModelCallsAppend ==
  ASSUME NEW s \in Seq(EventsOf), NEW e \in EventsOf
  PROVE  /\ ModelCalls(s) \in Nat
         /\ ModelCalls(Append(s, e)) = ModelCalls(s) + (IF Request(e) THEN 1 ELSE 0)
  <1> DEFINE R(t) == {k \in 1..Len(t) : t[k].type = "requested" /\ t[k].kind = "model"}
             A == R(s)
             B == R(Append(s, e))
  <1>1. Len(s) \in Nat /\ A \in SUBSET (1..Len(s))
    OBVIOUS
  <1>2. IsFiniteSet(A) /\ Cardinality(A) \in Nat
    <2> HIDE DEF A
    <2> QED
      BY <1>1, FinitePlaces
  <1>3. Len(s) + 1 \notin A
    BY <1>1
  <1>4. Request(e) => B = A \cup {Len(s) + 1}
    BY DEF Request
  <1>5. ~Request(e) => B = A
    BY DEF Request
  <1>6. Cardinality(A \cup {Len(s) + 1}) = Cardinality(A) + 1
    <2> HIDE DEF A
    <2> QED
      BY <1>2, <1>3, FS_AddElement
  <1>7. ModelCalls(s) = Cardinality(A) /\ ModelCalls(Append(s, e)) = Cardinality(B)
    BY DEF ModelCalls
  <1> HIDE DEF A, B
  <1>8. CASE Request(e)
    BY <1>2, <1>4, <1>6, <1>7, <1>8
  <1>9. CASE ~Request(e)
    BY <1>2, <1>5, <1>7, <1>9
  <1> QED
    BY <1>8, <1>9

LEMMA ModelCallsEmpty == ModelCalls(<<>>) = 0
  <1>1. {k \in 1..Len(<<>>) : <<>>[k].type = "requested" /\ <<>>[k].kind = "model"} = {}
    OBVIOUS
  <1> QED
    BY <1>1, FS_EmptySet DEF ModelCalls

\* The event that is saved, and what it is saved over.
LEMMA SavedEvent ==
  ASSUME IInv, NEW w \in Workers, pc[w] = "persist", Accepts(w), Save(w)
  PROVE  /\ ev[w] \in Seq(EventsOf) /\ snap \in Seq(EventsOf) /\ NewEvent(w) \in EventsOf
         /\ snap' = Append(ev[w], NewEvent(w)) /\ NewEvent(w).type = typ[w] /\ NewEvent(w).by = ver[w]
         /\ typ[w] = "requested" => NewEvent(w) = Event("requested", Program[op[w]], ver[w])
         /\ \/ snap = ev[w]
            \/ typ[w] \in Terminal /\ \E e \in EventsOf : e.by = ver[w] /\ snap = Append(ev[w], e)
  <1>1. /\ ev[w] \in Seq(EventsOf) /\ snap \in Seq(EventsOf) /\ NewEvent(w) \in EventsOf
    BY NewEventType DEF IInv, TInv, LocalSane, LocalTypes, SharedTypes, Procs
  <1>2. /\ snap' = Append(ev[w], NewEvent(w)) /\ NewEvent(w).type = typ[w] /\ NewEvent(w).by = ver[w]
        /\ typ[w] = "requested" => NewEvent(w) = Event("requested", Program[op[w]], ver[w])
    BY DEF Save, NewEvent, Event
  <1> QED
    BY <1>1, <1>2, SavedOver

LEMMA RoomKept ==
  ASSUME IInv, Room, [Next]_vars
  PROVE  Room'
  <1>0. /\ TInv /\ snap \in Seq(EventsOf) /\ Len(snap) \in Nat /\ MaxEvents \in Nat \ {0} /\ Forced' \in 0..2
        /\ Plans
    BY AgentRunAssumption DEF IInv, TInv, SharedTypes, Forced
  <1>1. CASE snap' = snap
    BY <1>1 DEF Room, Forced
  <1>2. ASSUME NEW g \in Gateways, StartRun(g) PROVE Room'
    <2>1. Len(snap') = 1
      BY <1>2 DEF StartRun
    <2>2. 1 <= MaxEvents + Forced'
      <3>1. PICK f \in 0..2 : Forced' = f
        BY <1>0
      <3>2. MaxEvents \in Nat /\ MaxEvents # 0
        BY <1>0
      <3>3. 1 <= MaxEvents + f
        BY <3>2
      <3> QED
        BY <3>1, <3>3
    <2> QED
      BY <2>1, <2>2 DEF Room
  <1>3. CASE Cancellable /\ snap' = WithCancellation(snap)
    <2>1. Len(snap) <= MaxEvents
      BY <1>0, <1>3 DEF Room, Forced, Cancellable
    <2>2. Len(snap') = Len(snap) + 1
      BY <1>0, <1>3, CancellationType DEF WithCancellation
    <2>3. Forced' = 1
      BY <1>0, <1>3, CancellationState DEF Forced, Terminal
    <2> QED
      BY <1>0, <2>1, <2>2, <2>3 DEF Room
  <1>4. ASSUME NEW w \in Workers, pc[w] = "persist", Accepts(w), Save(w) PROVE Room'
    <2>1. /\ ev[w] \in Seq(EventsOf) /\ Len(ev[w]) \in Nat /\ NewEvent(w) \in EventsOf
          /\ snap' = Append(ev[w], NewEvent(w))
      BY <1>4, SavedEvent
    <2>2. Len(snap') = Len(ev[w]) + 1
      BY <2>1
    <2>3. CASE typ[w] \in Terminal
      <3>1. Len(ev[w]) <= Len(snap)
        BY <1>4, <2>1, SavedEvent
      <3>2. Len(snap) <= MaxEvents + 1
        <4>1. snap # <<>> /\ StateOf(snap) \notin Terminal
          BY <1>4, SavedOver DEF Accepts
        <4> QED
          BY <1>0, <4>1 DEF Room, Forced
      <3>3. Forced' = 2
        BY <1>0, <1>4, <2>3, SavedState DEF Forced
      <3> QED
        BY <1>0, <2>1, <2>2, <3>1, <3>2, <3>3 DEF Room
    <2>4. CASE typ[w] \notin Terminal
      <3>1. Len(ev[w]) < MaxEvents
        BY <1>0, <1>4, <2>4 DEF Plans, Planned
      <3> QED
        BY <1>0, <2>1, <2>2, <3>1 DEF Room
    <2> QED
      BY <2>3, <2>4
  <1> QED
    BY <1>0, <1>1, <1>2, <1>3, <1>4, RowSteps

LEMMA CountedKept ==
  ASSUME IInv, Counted, [Next]_vars
  PROVE  Counted'
  <1>0. TInv /\ snap \in Seq(EventsOf) /\ MaxModelCalls \in Nat /\ Plans
    BY AgentRunAssumption DEF IInv, TInv, SharedTypes
  <1>1. CASE snap' = snap
    BY <1>1 DEF Counted
  <1>2. ASSUME NEW g \in Gateways, StartRun(g) PROVE Counted'
    <2> DEFINE e == Event("queued", "run", 0)
    <2>1. e \in EventsOf /\ ~Request(e) /\ <<>> \in Seq(EventsOf)
      BY CancellationType DEF Request, Event
    <2>2. snap' = Append(<<>>, e)
      BY <1>2 DEF StartRun
    <2> HIDE DEF e
    <2>3. ModelCalls(snap') = 0
      <3>1. ModelCalls(Append(<<>>, e)) = ModelCalls(<<>>) + 0
        BY <2>1, ModelCallsAppend
      <3> QED
        BY <2>2, <3>1, ModelCallsEmpty
    <2> QED
      BY <1>0, <2>3 DEF Counted
  <1>3. CASE Cancellable /\ snap' = WithCancellation(snap)
    <2> DEFINE e == Event("cancel_requested", "run", 0)
    <2>1. e \in EventsOf /\ ~Request(e) /\ snap' = Append(snap, e)
      BY <1>3, CancellationType DEF Request, Event, WithCancellation
    <2> HIDE DEF e
    <2> QED
      BY <1>0, <2>1, ModelCallsAppend DEF Counted
  <1>4. ASSUME NEW w \in Workers, pc[w] = "persist", Accepts(w), Save(w) PROVE Counted'
    <2>1. /\ ev[w] \in Seq(EventsOf) /\ NewEvent(w) \in EventsOf /\ snap' = Append(ev[w], NewEvent(w))
          /\ NewEvent(w).type = typ[w] /\ (typ[w] = "requested" => NewEvent(w).kind = Program[op[w]])
      BY <1>4, SavedEvent DEF Event
    <2>2. ModelCalls(ev[w]) \in Nat /\ ModelCalls(ev[w]) <= ModelCalls(snap)
      <3>1. \A e \in EventsOf : ModelCalls(ev[w]) \in Nat /\ ModelCalls(ev[w]) <= ModelCalls(Append(ev[w], e))
        BY <2>1, ModelCallsAppend
      <3>2. ModelCalls(ev[w]) \in Nat
        BY <3>1, CancellationType
      <3>3. snap = ev[w] \/ \E e \in EventsOf : snap = Append(ev[w], e)
        BY <1>4, SavedEvent
      <3>4. CASE snap = ev[w]
        BY <3>2, <3>4
      <3> QED
        BY <3>1, <3>2, <3>3, <3>4
    <2>3. Request(NewEvent(w)) => ModelCalls(ev[w]) < MaxModelCalls
      BY <1>0, <1>4, <2>1 DEF Request, Plans, Planned
    <2>4. ModelCalls(snap') = ModelCalls(ev[w]) + (IF Request(NewEvent(w)) THEN 1 ELSE 0)
      BY <2>1, ModelCallsAppend
    <2>5. ModelCalls(snap) \in Nat /\ ModelCalls(snap) <= MaxModelCalls
      BY <1>0, CancellationType, ModelCallsAppend DEF Counted
    <2> QED
      BY <1>0, <2>2, <2>3, <2>4, <2>5 DEF Counted
  <1> QED
    BY <1>0, <1>1, <1>2, <1>3, <1>4, RowSteps

\* Every step is a process's, which leaves the others alone, or nobody's.
LEMMA StepOf ==
  ASSUME TInv, [Next]_vars, NEW v \in Workers
  PROVE  \/ Work(v) \/ PersistFails(v) \/ StoreFails(v) \/ Crash(v)
         \/ /\ pc'[v] = pc[v] /\ then'[v] = then[v] /\ ev'[v] = ev[v] /\ exp'[v] = exp[v]
            /\ ver'[v] = ver[v] /\ op'[v] = op[v] /\ typ'[v] = typ[v]
  <1>0. v \in Procs /\ v \notin Gateways
    BY AgentRunAssumption DEF Procs
  <1>1. ASSUME NEW g \in Gateways,
               StartRun(g) \/ ReadRun(g) \/ CancelRun(g) \/ Reconcile(g) \/ ReportDivergence(g)
        PROVE  OnlyOf(g)
    BY <1>1, OnlyOfGateway
  <1>2. ASSUME NEW w \in Workers, Work(w) \/ PersistFails(w)
        PROVE  OnlyOf(w)
    BY <1>2, OnlyOfWork
  <1>3. ASSUME NEW p \in Procs, StoreFails(p) \/ Crash(p)
        PROVE  OnlyOf(p)
    BY <1>3, OnlyOfRaise DEF StoreFails, Crash
  <1>4. CASE LeaseExpires \/ LeaseOverrun \/ UNCHANGED vars
    BY <1>4 DEF LeaseExpires, LeaseOverrun, vars, local
  <1> QED
    BY <1>0, <1>1, <1>2, <1>3, <1>4 DEF Next, OnlyOf

LEMMA RaiseCloses ==
  ASSUME TInv, NEW v \in Procs, Raise(v) \/ Exit(v)
  PROVE  ~Open(v)' /\ (pc'[v] = "persist" => InTry(v) /\ ev'[v] = ev[v] /\ ver'[v] = ver[v])
  <1>1. CASE Exit(v)
    BY <1>1 DEF TInv, LocalTypes, Exit, Goto, Open
  <1>2. CASE InTry(v) /\ AppendNext(v, ev[v], "failed", "ended") /\ UNCHANGED <<exp, ver, op>>
    BY <1>2 DEF TInv, LocalTypes, AppendNext, Goto, Open
  <1> QED
    BY <1>1, <1>2 DEF Raise

LEMMA AppendCloses ==
  ASSUME TInv, NEW v \in Procs, NEW s, NEW type, NEW why, AppendNext(v, s, type, why)
  PROVE  ~Open(v)' /\ pc'[v] = "persist" /\ ev'[v] = s
  BY DEF TInv, LocalTypes, AppendNext, Goto, Open

\* A worker turns from the stream to its call, or to the next event, which it appends to
\* what the stream says.
LEMMA RefreshOpens ==
  ASSUME TInv, NEW v \in Workers, RefreshProjection(v)
  PROVE  /\ Open(v)' => Open(v) /\ exp'[v] = exp[v] /\ ver'[v] = ver[v] /\ op'[v] = op[v]
         /\ pc'[v] = "persist" => ev'[v] = native /\ ver'[v] = ver[v]
  <1>0. v \in Procs /\ pc[v] = "refresh" /\ then[v] \in Reasons \ {"none"}
    BY DEF TInv, LocalTypes, Busy, Procs, RefreshProjection
  <1>1. CASE Exit(v)
    BY <1>0, <1>1, RaiseCloses DEF TInv, LocalTypes, Exit, Goto
  <1>2. CASE then[v] \in {"load", "requested"}
    BY <1>0, <1>2 DEF RefreshProjection, Goto, Open, TInv, LocalTypes
  <1>3. CASE then[v] = "quantum" /\ ~Exit(v)
    <2>1. (\E type, why : AppendNext(v, native, type, why)) /\ UNCHANGED ver
      BY <1>0, <1>3 DEF RefreshProjection, BeginQuantum, AppendInBudget
    <2> QED
      BY <1>0, <2>1, AppendCloses
  <1>4. CASE then[v] \in {"before", "after"}
    <2>1. /\ Goto(v, "observe", "cancelling") \/ \E type, why : AppendNext(v, native, type, why)
          /\ UNCHANGED ver
      BY <1>0, <1>4 DEF RefreshProjection, Checked, AppendInBudget
    <2>2. CASE Goto(v, "observe", "cancelling")
      BY <1>0, <2>2 DEF Goto, Open, TInv, LocalTypes
    <2> QED
      BY <1>0, <2>1, <2>2, AppendCloses
  <1>5. CASE then[v] \in {"started", "answered"}
    <2>1. \/ Goto(v, "observe", "before")
          \/ (\E type, why : AppendNext(v, native, type, why)) /\ UNCHANGED ver
      BY <1>0, <1>5 DEF RefreshProjection, AppendInBudget
    <2>2. CASE Goto(v, "observe", "before")
      BY <1>0, <2>2 DEF Goto, Open, TInv, LocalTypes
    <2> QED
      BY <1>0, <2>1, <2>2, AppendCloses
  <1>6. CASE then[v] = "cancelling"
    <2>1. AppendNext(v, native, "cancelled", "ended") /\ UNCHANGED ver
      BY <1>0, <1>6 DEF RefreshProjection
    <2> QED
      BY <1>0, <2>1, AppendCloses
  <1>7. then[v] \in {"view", "completed", "ended"} => Exit(v)
    BY <1>0 DEF RefreshProjection
  <1> QED
    BY <1>0, <1>1, <1>2, <1>3, <1>4, <1>5, <1>6, <1>7 DEF Reasons

\* A request is opened by the event that announces it.
LEMMA OpenSteps ==
  ASSUME TInv, Plans, [Next]_vars, NEW v \in Workers, Open(v)'
  PROVE  \/ Persist(v) /\ then[v] = "requested"
         \/ Open(v) /\ exp'[v] = exp[v] /\ ver'[v] = ver[v] /\ op'[v] = op[v]
  <1>0. v \in Procs /\ v \notin Gateways /\ Planned(v)
    BY AgentRunAssumption DEF Procs, Plans
  <1>1. CASE /\ pc'[v] = pc[v] /\ then'[v] = then[v] /\ ev'[v] = ev[v] /\ exp'[v] = exp[v]
             /\ ver'[v] = ver[v] /\ op'[v] = op[v] /\ typ'[v] = typ[v]
    BY <1>1 DEF Open
  <1>2. CASE StoreFails(v) \/ Crash(v) \/ PersistFails(v)
    BY <1>0, <1>2, RaiseCloses DEF StoreFails, Crash, PersistFails
  <1>3. CASE ClaimRun(v) \/ Reauthorize(v)
    BY <1>0, <1>3 DEF ClaimRun, Reauthorize, Goto, Open, TInv, LocalTypes
  <1>4. CASE ObserveCancellation(v)
    <2>1. then[v] # "requested"
      BY <1>0, <1>4 DEF Planned, ObserveCancellation
    <2>2. then'[v] # "requested"
      BY <1>0, <1>4, <2>1 DEF ObserveCancellation, Goto, TInv, LocalTypes
    <2> QED
      BY <2>2 DEF Open
  <1>5. CASE Persist(v)
    BY <1>0, <1>5 DEF Persist, Goto, Open, TInv, LocalTypes
  <1>6. CASE PersistRefused(v)
    <2>1. Exit(v) \/ Goto(v, "observe", "cancelling")
      BY <1>6 DEF PersistRefused
    <2> QED
      BY <1>0, <2>1, RaiseCloses DEF Goto, Open, TInv, LocalTypes
  <1>7. CASE Call(v)
    <2>1. Raise(v) \/ Goto(v, "observe", "after") \/ AppendNext(v, ev[v], "budget_exhausted", "ended")
      BY <1>7 DEF Call
    <2> QED
      BY <1>0, <2>1, RaiseCloses, AppendCloses DEF Goto, Open, TInv, LocalTypes
  <1>8. CASE CheckProjection(v) \/ SeedProjection(v) \/ SeedCollision(v)
    <2>1. \/ Raise(v)
          \/ pc[v] \in {"check", "seed"} /\ UNCHANGED <<then, exp, ver, op>>
      BY <1>0, <1>8 DEF CheckProjection, SeedProjection, SeedCollision, Diverged
    <2> QED
      BY <1>0, <2>1, RaiseCloses DEF Open
  <1> QED
    BY <1>1, <1>2, <1>3, <1>4, <1>5, <1>6, <1>7, <1>8, RefreshOpens, StepOf DEF Work, Reconcile

\* A worker that comes to append an event does so where it was in its try block or to
\* what the stream says.
LEMMA PersistSteps ==
  ASSUME TInv, Plans, [Next]_vars, NEW v \in Workers, pc'[v] = "persist"
  PROVE  /\ ver'[v] = ver[v] /\ pc[v] # "idle"
         /\ \/ pc[v] = "persist" /\ ev'[v] = ev[v]
            \/ snap' = snap /\ ev'[v] = ev[v] /\ InTry(v)
            \/ snap' = snap /\ ev'[v] = native /\ pc[v] = "refresh"
  <1>0. v \in Procs /\ v \notin Gateways /\ Planned(v) /\ Busy(v)
    BY AgentRunAssumption DEF Procs, Plans, TInv
  <1>1. CASE /\ pc'[v] = pc[v] /\ then'[v] = then[v] /\ ev'[v] = ev[v] /\ exp'[v] = exp[v]
             /\ ver'[v] = ver[v] /\ op'[v] = op[v] /\ typ'[v] = typ[v]
    BY <1>1
  <1>2. CASE StoreFails(v) \/ PersistFails(v) \/ Crash(v)
    <2>1. /\ Raise(v) \/ Exit(v)
          /\ pc[v] # "idle" /\ (snap' = snap \/ pc[v] = "persist")
      BY <1>2 DEF StoreFails, PersistFails, Crash
    <2> QED
      BY <1>0, <2>1, RaiseCloses
  <1>3. CASE ClaimRun(v) \/ Reauthorize(v) \/ ObserveCancellation(v) \/ Persist(v)
    BY <1>0, <1>3 DEF ClaimRun, Reauthorize, ObserveCancellation, Persist, Goto, TInv, LocalTypes
  <1>6. CASE PersistRefused(v)
    <2>1. Exit(v) \/ Goto(v, "observe", "cancelling")
      BY <1>6 DEF PersistRefused
    <2> QED
      BY <1>0, <2>1 DEF Exit, Goto, TInv, LocalTypes
  <1>7. CASE Call(v)
    <2>1. /\ Raise(v) \/ Goto(v, "observe", "after")
             \/ (AppendNext(v, ev[v], "budget_exhausted", "ended") /\ UNCHANGED ver)
          /\ pc[v] = "call" /\ snap' = snap
      BY <1>7 DEF Call
    <2>2. InTry(v)
      BY <1>0, <2>1 DEF Planned, InTry
    <2>3. CASE Goto(v, "observe", "after")
      BY <1>0, <2>3 DEF Goto, TInv, LocalTypes
    <2> QED
      BY <1>0, <2>1, <2>2, <2>3, RaiseCloses, AppendCloses
  <1>8. CASE CheckProjection(v) \/ SeedProjection(v) \/ SeedCollision(v)
    <2>1. /\ \/ Raise(v)
             \/ pc' = pc \/ pc' = [pc EXCEPT ![v] = "seed"] \/ pc' = [pc EXCEPT ![v] = "refresh"]
          /\ pc[v] \in {"check", "seed"} /\ snap' = snap
      BY <1>0, <1>8 DEF CheckProjection, SeedProjection, SeedCollision, Diverged
    <2>2. Raise(v)
      BY <1>0, <2>1 DEF TInv, LocalTypes
    <2> QED
      BY <1>0, <2>1, <2>2, RaiseCloses
  <1>9. CASE RefreshProjection(v)
    BY <1>0, <1>9, RefreshOpens DEF RefreshProjection
  <1> QED
    BY <1>1, <1>2, <1>3, <1>6, <1>7, <1>8, <1>9, StepOf DEF Work, Reconcile

\* Who owns the lease after a step that leaves his version owned it before.
LEMMA OwnsBefore ==
  ASSUME TInv, Claims, [Next]_vars, NEW v \in Workers, ver'[v] = ver[v], Owns(v)'
  PROVE  Owns(v)
  <1>0. version \in Nat /\ ver[v] \in Nat /\ v \in Procs
    BY AgentRunAssumption DEF TInv, LocalTypes, SharedTypes, Procs
  <1>1. ASSUME NEW w \in Workers, ClaimRun(w) PROVE FALSE
    <2>1. version' = version + 1 /\ ver[v] <= version
      BY <1>1 DEF ClaimRun, Claims
    <2> QED
      BY <1>0, <2>1 DEF Owns
  <1>2. version' = version /\ (held' => held)
    BY <1>1, OtherVersions DEF Next
  <1>3. expired' = expired \/ expired'
    <2>1. ASSUME NEW w \in Workers, Work(w) \/ PersistFails(w) PROVE expired' = expired
      BY <1>1, <2>1, ReconcileStores DEF Work, Reauthorize, ObserveCancellation, Persist, PersistRefused, Call,
         PersistFails, Save, lease, Procs
    <2>2. ASSUME NEW g \in Gateways,
                 StartRun(g) \/ ReadRun(g) \/ CancelRun(g) \/ Reconcile(g) \/ ReportDivergence(g)
          PROVE  expired' = expired
      BY <2>2, ReconcileStores DEF StartRun, ReadRun, CancelRun, ReportDivergence, lease, Procs
    <2>3. ASSUME NEW p \in Procs, StoreFails(p) \/ Crash(p) PROVE expired' = expired
      BY <2>3 DEF StoreFails, Crash, lease
    <2>4. CASE LeaseExpires \/ LeaseOverrun \/ UNCHANGED vars
      BY <2>4, Zenon DEF LeaseExpires, LeaseOverrun, vars, lease
    <2> QED
      BY <2>1, <2>2, <2>3, <2>4, Zenon DEF Next
  <1> QED
    BY <1>2, <1>3 DEF Owns

\* A place of the row is rewritten only by the worker whose event it has, and who does
\* not know of it.
LEMMA PlaceStands ==
  ASSUME IInv, [Next]_vars, NEW k \in 1..Len(snap)
  PROVE  \/ k \in 1..Len(snap') /\ snap'[k] = snap[k]
         \/ \E w \in Workers : pc[w] = "persist" /\ Owns(w) /\ k = Len(ev[w]) + 1 /\ snap[k].by = ver[w]
  <1>0. TInv /\ snap \in Seq(EventsOf)
    BY DEF IInv, TInv, SharedTypes
  <1>1. ASSUME NEW g \in Gateways, StartRun(g) PROVE FALSE
    BY <1>1 DEF StartRun
  <1>2. CASE Cancellable /\ snap' = WithCancellation(snap)
    BY <1>0, <1>2, CancellationType DEF WithCancellation
  <1>3. ASSUME NEW w \in Workers, pc[w] = "persist", Accepts(w), Save(w)
        PROVE  \/ k \in 1..Len(snap') /\ snap'[k] = snap[k]
               \/ Owns(w) /\ k = Len(ev[w]) + 1 /\ snap[k].by = ver[w]
    <2>1. /\ ev[w] \in Seq(EventsOf) /\ NewEvent(w) \in EventsOf /\ snap' = Append(ev[w], NewEvent(w)) /\ Owns(w)
          /\ snap = ev[w] \/ \E e \in EventsOf : e.by = ver[w] /\ snap = Append(ev[w], e)
      BY <1>3, SavedEvent DEF Accepts
    <2>2. CASE snap = ev[w]
      BY <2>1, <2>2
    <2>3. ASSUME NEW e \in EventsOf, e.by = ver[w], snap = Append(ev[w], e)
          PROVE  \/ k \in 1..Len(snap') /\ snap'[k] = snap[k]
                 \/ k = Len(ev[w]) + 1 /\ snap[k].by = ver[w]
      BY <2>1, <2>3
    <2> QED
      BY <2>1, <2>2, <2>3
  <1> QED
    BY <1>0, <1>1, <1>2, <1>3, RowSteps

LEMMA OpeningsKept ==
  ASSUME IInv, Openings, [Next]_vars
  PROVE  Openings'
  <1>0. TInv /\ Plans /\ Claims
    BY DEF IInv
  <1>1. ASSUME NEW v \in Workers, Open(v)' PROVE Opened(v)'
    <2>1. CASE Persist(v) /\ then[v] = "requested"
      <3>1. v \in Procs /\ typ[v] = "requested" /\ pc[v] = "persist" /\ Accepts(v) /\ Save(v)
        BY <1>0, <2>1 DEF Persist, Plans, Planned, Procs
      <3>2. /\ ev[v] \in Seq(EventsOf) /\ NewEvent(v) \in EventsOf /\ snap' = Append(ev[v], NewEvent(v))
            /\ NewEvent(v) = Event("requested", Program[op[v]], ver[v])
        BY <3>1, SavedEvent
      <3>3. exp'[v] = snap' /\ ver'[v] = ver[v] /\ op'[v] = op[v]
        BY <1>0, <2>1, <3>1, <3>2 DEF Persist, TInv, LocalTypes
      <3>4. Len(snap') \in 1..Len(snap') /\ snap'[Len(snap')] = NewEvent(v)
        BY <3>2
      <3> QED
        BY <3>2, <3>3, <3>4 DEF Opened
    <2>2. CASE Open(v) /\ exp'[v] = exp[v] /\ ver'[v] = ver[v] /\ op'[v] = op[v]
      <3> DEFINE k == Len(exp[v])
      <3>1. k \in 1..Len(snap) /\ snap[k] = Event("requested", Program[op[v]], ver[v])
        BY <2>2 DEF Openings, Opened
      <3>2. ASSUME NEW w \in Workers, pc[w] = "persist", snap[k].by = ver[w] PROVE FALSE
        <4>1. ver[w] = ver[v]
          BY <3>1, <3>2 DEF Event
        <4>2. ver[w] # 0 /\ pc[v] # "persist"
          BY <1>0, <2>2, <3>2 DEF TInv, Busy, Procs, Open
        <4> QED
          BY <1>0, <3>2, <4>1, <4>2 DEF Claims
      <3> HIDE DEF k
      <3>3. k \in 1..Len(snap') /\ snap'[k] = snap[k]
        BY <3>1, <3>2, PlaceStands
      <3> QED
        BY <2>2, <3>1, <3>3 DEF Opened, k
    <2> QED
      BY <1>0, <1>1, <2>1, <2>2, OpenSteps
  <1> QED
    BY <1>1 DEF Openings, Opened

\* The place after a history that is near the row is no request.
LEMMA NearPlace ==
  ASSUME TInv, NEW s \in Seq(EventsOf), Near(s), NEW k \in 1..Len(snap), k = Len(s) + 1
  PROVE  ~Request(snap[k])
  <1>1. snap = Append(s, Event("cancel_requested", "run", 0))
    BY DEF Near, WithCancellation
  <1>2. snap[k] = Event("cancel_requested", "run", 0)
    BY <1>1, CancellationType
  <1> QED
    BY <1>2 DEF Request, Event

\* A request that its worker is done with stays in the row, and nobody gets it back.
LEMMA PaidGrows ==
  ASSUME IInv, IInv', [Next]_vars
  PROVE  Paid \subseteq Paid'
  <1>0. TInv /\ Plans /\ Claims /\ Ended /\ Ended' /\ snap \in Seq(EventsOf) /\ native \in Seq(EventsOf)
    BY DEF IInv, TInv, SharedTypes
  <1> SUFFICES ASSUME NEW k \in Paid PROVE k \in Paid'
    OBVIOUS
  <1>1. k \in 1..Len(snap) /\ Request(snap[k]) /\ \A w \in Workers : ~Uncalled(w, k)
    BY DEF Paid
  <1>2. k \in 1..Len(snap') /\ snap'[k] = snap[k]
    BY <1>1, PlaceStands DEF Uncalled
  <1>3. ASSUME NEW v \in Workers, Open(v)', k = Len(exp'[v]) PROVE FALSE
    <2>1. CASE Persist(v)
      <3>1. v \in Procs /\ pc[v] = "persist" /\ Accepts(v) /\ Save(v)
        BY <2>1 DEF Persist, Procs
      <3>2. /\ ev[v] \in Seq(EventsOf) /\ NewEvent(v) \in EventsOf /\ exp'[v] = Append(ev[v], NewEvent(v))
        BY <1>0, <2>1, <3>1, SavedEvent DEF Persist, TInv, LocalTypes
      <3>3. k = Len(ev[v]) + 1 /\ Owns(v)
        BY <1>3, <3>1, <3>2 DEF Accepts
      <3> QED
        BY <1>1, <3>1, <3>3 DEF Uncalled
    <2>2. CASE Open(v) /\ exp'[v] = exp[v]
      BY <1>1, <1>3, <2>2 DEF Uncalled
    <2> QED
      BY <1>0, <1>3, <2>1, <2>2, OpenSteps
  <1>4. ASSUME NEW v \in Workers, pc'[v] = "persist", Owns(v)', k = Len(ev'[v]) + 1 PROVE FALSE
    <2>1. /\ v \in Procs /\ ver'[v] = ver[v] /\ pc[v] # "idle" /\ Owns(v) /\ ev[v] \in Seq(EventsOf)
      BY <1>0, <1>4, PersistSteps, OwnsBefore DEF Procs, TInv, LocalTypes
    <2>2. CASE pc[v] = "persist" /\ ev'[v] = ev[v]
      BY <1>1, <1>4, <2>1, <2>2 DEF Uncalled
    <2>3. Histories /\ Owner(v)
      <3>1. StateOf(snap) \in Terminal => ~held
        BY <1>0, <1>1 DEF Ended
      <3>2. Intact
        BY <2>1, <3>1 DEF Intact, Owns
      <3> QED
        BY <2>1, <3>2 DEF IInv, Histories, Good
    <2>4. CASE ev'[v] = ev[v] /\ InTry(v)
      BY <1>0, <1>1, <1>4, <2>1, <2>3, <2>4, OwnerInTry, NearPlace
    <2>5. CASE ev'[v] = native /\ pc[v] = "refresh"
      BY <1>0, <1>1, <1>4, <2>3, <2>5, OwnerRefresh, NearPlace
    <2> QED
      BY <1>0, <1>4, <2>2, <2>4, <2>5, PersistSteps
  <1> QED
    BY <1>1, <1>2, <1>3, <1>4 DEF Paid, Uncalled

\* A model call pays for the request that the worker has opened, and for no other.
LEMMA CallPays ==
  ASSUME IInv, IInv', Openings, NEW w \in Workers, Call(w), Program[op[w]] = "model"
  PROVE  /\ Len(exp[w]) \notin Paid
         /\ Len(exp[w]) \in Paid'
  <1>0. TInv /\ Plans /\ Claims /\ Ended /\ snap \in Seq(EventsOf) /\ w \in Procs
    BY DEF IInv, TInv, SharedTypes, Procs
  <1>1. /\ pc[w] = "call" /\ then[w] = "requested" /\ Open(w) /\ ver[w] # 0 /\ InTry(w)
        /\ snap' = snap /\ UNCHANGED lease
    BY <1>0 DEF Call, Plans, Planned, Open, TInv, Busy, Procs, InTry
  <1>2. PICK k \in 1..Len(snap) : k = Len(exp[w]) /\ snap[k] = Event("requested", "model", ver[w])
    BY <1>1 DEF Openings, Opened
  <1>3. Request(snap[k]) /\ snap[k].by = ver[w]
    BY <1>2 DEF Request, Event
  <1>4. k \notin Paid
    BY <1>1, <1>2 DEF Paid, Uncalled
  <1>5. OnlyOf(w) /\ Work(w)
    BY <1>0, OnlyOfWork DEF Work
  <1>6. ASSUME NEW v \in Workers, Owns(v), pc[v] # "idle" PROVE Histories /\ Owner(v)
    <2>1. snap # <<>>
      BY <1>2, <1>0
    <2>2. Intact /\ v \in Procs
      BY <1>0, <1>6, <2>1 DEF Ended, Intact, Owns, Procs
    <2> QED
      BY <1>6, <2>2 DEF IInv, Histories, Good
  <1>7. ~Uncalled(w, k)'
    <2>1. /\ Raise(w) \/ Goto(w, "observe", "after")
             \/ (AppendNext(w, ev[w], "budget_exhausted", "ended") /\ UNCHANGED ver)
      BY DEF Call
    <2>2. ~Open(w)' /\ (pc'[w] = "persist" => ev'[w] = ev[w] /\ ver'[w] = ver[w])
      <3>1. CASE Goto(w, "observe", "after")
        BY <1>0, <3>1 DEF Goto, Open, TInv, LocalTypes
      <3> QED
        BY <1>0, <2>1, <3>1, RaiseCloses, AppendCloses
    <2>3. ASSUME pc'[w] = "persist", Owns(w)', k = Len(ev'[w]) + 1 PROVE FALSE
      <3>1. Owns(w) /\ ev'[w] = ev[w] /\ ev[w] \in Seq(EventsOf)
        BY <1>0, <1>1, <2>2, <2>3 DEF Owns, lease, TInv, LocalTypes
      <3>2. Near(ev[w])
        BY <1>0, <1>1, <1>6, <3>1, OwnerInTry
      <3> QED
        BY <1>0, <1>2, <1>3, <2>3, <3>1, <3>2, NearPlace
    <2> QED
      BY <2>2, <2>3 DEF Uncalled
  <1>8. ASSUME NEW v \in Workers, v # w, Uncalled(v, k)' PROVE FALSE
    <2>1. /\ v \in Procs /\ pc'[v] = pc[v] /\ then'[v] = then[v] /\ ev'[v] = ev[v] /\ exp'[v] = exp[v]
          /\ ver'[v] = ver[v] /\ ver[v] # ver[w] /\ ev[v] \in Seq(EventsOf)
      BY <1>0, <1>1, <1>5, <1>8 DEF OnlyOf, Procs, Claims, TInv, LocalTypes
    <2>2. CASE Open(v)' /\ k = Len(exp'[v])
      <3>1. Open(v) /\ snap[k] = Event("requested", Program[op[v]], ver[v])
        BY <2>1, <2>2 DEF Open, Openings, Opened
      <3> QED
        BY <1>3, <2>1, <3>1 DEF Event
    <2>3. CASE pc'[v] = "persist" /\ Owns(v)' /\ k = Len(ev'[v]) + 1
      <3>1. Owns(v) /\ pc[v] = "persist" /\ k = Len(ev[v]) + 1
        BY <1>1, <2>1, <2>3 DEF Owns, lease
      <3>2. Owner(v)
        BY <1>6, <3>1
      <3>3. then[v] # "cancelling"
        BY <1>0, <2>1, <3>1 DEF TInv, Busy
      <3>4. ASSUME Dropped(v) PROVE FALSE
        <4>1. PICK e \in EventsOf : e.by = ver[v] /\ Near(Append(ev[v], e))
          BY <3>4 DEF Dropped
        <4>2. \/ snap = Append(ev[v], e)
              \/ snap = Append(Append(ev[v], e), Event("cancel_requested", "run", 0))
          BY <4>1 DEF Near, WithCancellation
        <4>3. snap[k] = e
          BY <2>1, <3>1, <4>1, <4>2, CancellationType
        <4> QED
          BY <1>3, <2>1, <4>1, <4>3
      <3>5. Near(ev[v])
        BY <3>2, <3>3, <3>4 DEF Owner, Ending
      <3> QED
        BY <1>0, <1>2, <1>3, <2>1, <3>1, <3>5, NearPlace
    <2> QED
      BY <1>8, <2>2, <2>3 DEF Uncalled
  <1>9. k \in Paid'
    BY <1>1, <1>2, <1>3, <1>7, <1>8 DEF Paid
  <1> QED
    BY <1>2, <1>4, <1>9

LEMMA CallSteps ==
  ASSUME TInv, [Next]_vars
  PROVE  calls' = calls \/ \E w \in Workers : Call(w) /\ Program[op[w]] = "model" /\ calls' = calls + 1
  <1>0. calls \in Nat
    BY DEF TInv, SharedTypes
  <1>1. ASSUME NEW w \in Workers, Call(w) PROVE calls' = calls \/ (Program[op[w]] = "model" /\ calls' = calls + 1)
    BY <1>0, <1>1 DEF Call
  <1>2. ASSUME NEW p \in Procs, Reconcile(p) PROVE calls' = calls
    BY <1>2 DEF Reconcile, CheckProjection, SeedProjection, SeedCollision, RefreshProjection
  <1> QED
    BY <1>1, <1>2 DEF Next, StartRun, ReadRun, CancelRun, ReportDivergence, Work, ClaimRun, Reauthorize,
       ObserveCancellation, Persist, PersistRefused, PersistFails, StoreFails, Crash, LeaseExpires,
       LeaseOverrun, vars, Procs

LEMMA PaidFinite ==
  ASSUME TInv
  PROVE  /\ IsFiniteSet(Paid) /\ Cardinality(Paid) \in Nat
         /\ Cardinality(Paid) <= ModelCalls(snap)
  <1> DEFINE R == {k \in 1..Len(snap) : snap[k].type = "requested" /\ snap[k].kind = "model"}
  <1>0. snap \in Seq(EventsOf) /\ Len(snap) \in Nat
    BY DEF TInv, SharedTypes
  <1>1. R \in SUBSET (1..Len(snap)) /\ Paid \in SUBSET R
    BY DEF Paid, Request
  <1>2. ModelCalls(snap) = Cardinality(R)
    BY DEF ModelCalls
  <1> HIDE DEF R
  <1>4. IsFiniteSet(R)
    BY <1>0, <1>1, FinitePlaces
  <1>5. IsFiniteSet(Paid) /\ Cardinality(Paid) <= Cardinality(R)
    BY <1>1, <1>4, FS_Subset
  <1> QED
    BY <1>2, <1>5, FS_CardinalityType

LEMMA BudgetInductive ==
  ASSUME IInv, IInv', Budget, [Next]_vars
  PROVE  Budget'
  <1>0. TInv /\ TInv' /\ calls \in Nat /\ Openings /\ calls <= Cardinality(Paid)
    BY DEF IInv, TInv, SharedTypes, Budget
  <1>1. Room' /\ Counted' /\ Openings'
    BY RoomKept, CountedKept, OpeningsKept DEF Budget
  <1>2. PICK P, Q : P = Paid /\ Q = Paid'
    OBVIOUS
  <1>3. /\ IsFiniteSet(P) /\ Cardinality(P) \in Nat /\ P \subseteq Q
        /\ IsFiniteSet(Q) /\ Cardinality(Q) \in Nat
    <2>1. IsFiniteSet(Paid) /\ Cardinality(Paid) \in Nat
      BY <1>0, PaidFinite
    <2>2. IsFiniteSet(Paid') /\ Cardinality(Paid') \in Nat
      <3>1. Len(snap') \in Nat /\ Paid' \in SUBSET (1..Len(snap'))
        BY <1>0 DEF TInv, SharedTypes, Paid
      <3> QED
        BY <3>1, FinitePlaces
    <2>3. Paid \subseteq Paid'
      BY PaidGrows
    <2> QED
      BY <1>2, <2>1, <2>2, <2>3
  <1>4. CASE calls' = calls
    <2>1. Cardinality(P) <= Cardinality(Q)
      BY <1>3, FS_Subset
    <2> QED
      BY <1>0, <1>1, <1>2, <1>3, <1>4, <2>1 DEF Budget
  <1>5. ASSUME NEW w \in Workers, Call(w), Program[op[w]] = "model", calls' = calls + 1
        PROVE  Budget'
    <2>1. PICK k : k = Len(exp[w])
      OBVIOUS
    <2>2. k \notin P /\ k \in Q
      BY <1>0, <1>2, <1>5, <2>1, CallPays
    <2>3. IsFiniteSet(P \cup {k}) /\ Cardinality(P \cup {k}) = Cardinality(P) + 1
      BY <1>3, <2>2, FS_AddElement
    <2>4. Cardinality(P \cup {k}) <= Cardinality(Q)
      BY <1>3, <2>2, <2>3, FS_Subset
    <2> QED
      BY <1>0, <1>1, <1>2, <1>3, <1>5, <2>3, <2>4 DEF Budget
  <1> QED
    BY <1>0, <1>4, <1>5, CallSteps

-----------------------------------------------------------------------------
(* Theorems *)

\* Row, stream and processes keep their types; calls are counted, claims bounded.
THEOREM TypeCorrect == Spec => []TypeOK
  <1>1. TInv => TypeOK
    <2> SUFFICES ASSUME TInv PROVE TypeOK
      OBVIOUS
    <2>1. \A w \in Workers : pc[w] = "idle" <=> ver[w] = 0
      BY DEF TInv, Busy, Procs
    <2> QED
      BY <2>1 DEF TInv, LocalTypes, SharedTypes, TypeOK, Steps, Reasons
  <1> QED
    BY <1>1, InitTypes, TypesKept, PTL DEF Spec

\* IInv holds in every state, for any number of processes, claims and faults.
THEOREM Inductive == Spec => []IInv
  <1>1. Init => IInv
    <2> SUFFICES ASSUME Init PROVE IInv
      OBVIOUS
    <2>1. TInv
      BY InitTypes
    <2>2. Claims
      BY DEF Init, Claims, Procs
    <2>3. Histories
      BY PrefixBasics, <2>1 DEF Init, Histories, Good, TInv, SharedTypes, Procs
    <2>4. Plans
      BY DEF Init, Plans, Planned, Procs
    <2>5. Ended
      BY DEF Init, Ended
    <2> QED
      BY <2>1, <2>2, <2>3, <2>4, <2>5 DEF IInv
  <1>2. IInv /\ [Next]_vars => IInv'
    <2> SUFFICES ASSUME IInv, [Next]_vars PROVE IInv'
      OBVIOUS
    <2>1. TInv' /\ Claims' /\ Plans'
      BY TypesKept, ClaimsKept, PlansKept DEF IInv
    <2> QED
      BY <2>1, EndedKept, TogetherKept DEF IInv
  <1> QED
    BY <1>1, <1>2, PTL DEF Spec

\* The stream is always a prefix of the row, whoever repairs it and with whatever he
\* has read, unless a commit's answer was lost.
THEOREM StreamIsPrefix == Spec => []ProjectionIsPrefix
  <1>1. IInv => ProjectionIsPrefix
    BY DEF IInv, Intact, Histories, ProjectionIsPrefix
  <1> QED
    BY <1>1, Inductive, PTL

\* No accepted event is ever overwritten, neither a cancellation nor what another
\* worker has done, unless a commit's answer was lost.
THEOREM EventsStand == Spec => AcceptedEventsStand
  <1>1. IInv /\ IInv' /\ [Next]_vars => [lost' = 0 => Prefix(snap, snap')]_vars
    <2> SUFFICES ASSUME IInv, IInv', [Next]_vars, lost' = 0 PROVE Prefix(snap, snap')
      OBVIOUS
    <2>1. TInv /\ TInv' /\ Claims
      BY DEF IInv
    <2>2. lost' = lost /\ lost = 0
      BY <2>1, LostSteps
    <2>3. Histories /\ ~\E w \in Workers : Persist(w) /\ Dropped(w)
      BY <2>2 DEF IInv, Intact, Dropped
    <2> QED
      BY <2>1, <2>2, <2>3, HistoriesKept
  <1> QED
    BY <1>1, Inductive, PTL DEF Spec, AcceptedEventsStand

\* The model calls of a run stay in its budget, and past the event budget its history has
\* room for a cancellation and for the end only: however many workers crash in the middle
\* of a call, overrun their lease or do not hear that their event was accepted.
THEOREM BudgetHolds == Spec => []BudgetKept
  <1>1. Init => Budget
    <2> SUFFICES ASSUME Init PROVE Budget
      OBVIOUS
    <2>1. TInv /\ snap = <<>> /\ calls = 0
      BY InitTypes DEF Init
    <2>2. calls <= Cardinality(Paid)
      BY <2>1, PaidFinite
    <2>3. Counted
      BY <2>1, ModelCallsEmpty, AgentRunAssumption DEF Counted
    <2>4. Openings
      BY DEF Init, Openings, Opened, Open, Procs
    <2> QED
      BY <2>1, <2>2, <2>3, <2>4 DEF Budget, Room
  <1>2. IInv /\ IInv' /\ Budget /\ [Next]_vars => Budget'
    BY BudgetInductive
  <1>3. IInv /\ Budget => BudgetKept
    <2> SUFFICES ASSUME IInv, Budget PROVE BudgetKept
      OBVIOUS
    <2>1. TInv /\ calls \in Nat /\ snap \in Seq(EventsOf) /\ MaxModelCalls \in Nat /\ MaxEvents \in Nat
      BY AgentRunAssumption DEF IInv, TInv, SharedTypes
    <2>2. calls <= MaxModelCalls
      <3>1. ModelCalls(snap) \in Nat
        BY <2>1, CancellationType, ModelCallsAppend
      <3>2. /\ Cardinality(Paid) \in Nat /\ Cardinality(Paid) <= ModelCalls(snap)
            /\ calls <= Cardinality(Paid) /\ ModelCalls(snap) <= MaxModelCalls
        BY <2>1, PaidFinite DEF Budget, Counted
      <3> QED
        BY <2>1, <3>1, <3>2
    <2>3. Len(snap) <= MaxEvents + 2
      <3>1. snap # <<>> => Len(snap) <= MaxEvents + Forced
        BY DEF Budget, Room
      <3>2. Forced = 0 \/ Forced = 1 \/ Forced = 2
        BY DEF Forced
      <3> QED
        BY <2>1, <3>1, <3>2
    <2> QED
      BY <2>2, <2>3 DEF BudgetKept
  <1> QED
    BY <1>1, <1>2, <1>3, Inductive, PTL DEF Spec
===============================================================================
