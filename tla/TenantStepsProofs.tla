--------------------------- MODULE TenantStepsProofs ---------------------------
(***************************************************************************)
(* The two lists of steps a Tenant goes through, its migration and its     *)
(* provisioning, for any number of processes, requests and faults. In both *)
(* the processes overtake one another, so what a process has done is known *)
(* only through the steps it holds: the invariants say what is in place    *)
(* when `n` steps are held or listed.                                      *)
(***************************************************************************)
EXTENDS TenantMigration, ProvisioningRecord, TLAPS

(* The migration of an active Tenant *)


OldPoint == \E p \in points : p.schema = Old

\* What is in place when n steps are done.
InPlace(n) ==
    /\ n >= 1 => OldPoint
    /\ n >= 2 => pg = New
    /\ n >= 3 => graph = New

Calls == {"idle", "start", "resume", "route", "run", "mark", "fail"}

\* A runner belongs to the new image; what it holds is in place, and the step it is
\* about to record, too.
Runner(r) ==
    /\ pc[r] # "idle" => image = New
    /\ have[r] >= 1 => pc[r] \in {"route", "run", "mark", "fail"}
    /\ InPlace(have[r])
    /\ pc[r] = "mark" => have[r] < Last /\ InPlace(have[r] + 1)

\* As long as the Tenant has the old schema, nothing else is dumped or published.
Recoverable ==
    /\ pg = Old => dump = Old /\ \A p \in points : p.schema = Old
    /\ pg = New \/ graph = New => OldPoint

Recorded ==
    /\ InPlace(mig.done)
    /\ mig.status = "completed" => mig.done = Last
    /\ image = Old => pg = Old /\ graph = Old /\ mig = [status |-> "none", done |-> 0]

IInv ==
    /\ TypeOK /\ Recoverable /\ Recorded /\ VerifiedIsServed
    /\ \A r \in Runners : Runner(r)

-----------------------------------------------------------------------------
LEMMA Six == /\ Last = 6 /\ Steps[1] = "verify_recovery_point" /\ Steps[2] = "migrate_postgres"
             /\ Steps[3] = "migrate_neo4j" /\ Steps[4] = "verify_neo4j_health"
             /\ Steps[5] = "verify_routing" /\ Steps[6] = "verify_isolation"
  BY DEF Last, Steps

LEMMA InitInv == Init => IInv
  <1> SUFFICES ASSUME Init PROVE IInv
    OBVIOUS
  <1>1. TypeOK
    BY MigrationAssumption, Six DEF Init, TypeOK, Revisions, Old, Point
  <1> QED
    BY <1>1, Six DEF Init, IInv, Recoverable, Recorded, VerifiedIsServed, Runner, InPlace, Old, New

\* A point that is there stays, though it grows old.
LEMMA PointsStay ==
  ASSUME OldPoint, points \subseteq points'
  PROVE  OldPoint'
  BY DEF OldPoint

\* A step of one runner keeps the rest of the invariant if it keeps the runner's part
\* and what others rely on only grows.
LEMMA RunnerSteps ==
  ASSUME IInv, NEW r \in Runners, TypeOK',
         \A s \in Runners : s # r => pc'[s] = pc[s] /\ have'[s] = have[s],
         UNCHANGED <<image, active, service, recovery>>,
         pg' = pg \/ pg' = image, pg = New => pg' = New, graph = New => graph' = New,
         pg' = New \/ graph' = New => OldPoint,
         image = New, Recorded', Runner(r)'
  PROVE  IInv'
  <1>1. Recoverable'
    BY DEF IInv, TypeOK, Recoverable, OldPoint, recovery, Old, New, Revisions
  <1>2. VerifiedIsServed'
    BY DEF IInv, VerifiedIsServed
  <1>3. ASSUME NEW s \in Runners, s # r PROVE Runner(s)'
    <2>1. Runner(s) /\ pc'[s] = pc[s] /\ have'[s] = have[s] /\ points' = points
      BY <1>3 DEF IInv, recovery
    <2> QED
      BY <2>1 DEF Runner, InPlace, OldPoint
  <1> QED
    BY <1>1, <1>2, <1>3 DEF IInv

\* ... in particular one that touches no database.
LEMMA RunnerCalls ==
  ASSUME IInv, NEW r \in Runners, NEW next \in Calls, pc' = [pc EXCEPT ![r] = next],
         have' = have \/ (next = "idle" /\ have' = [have EXCEPT ![r] = 0]),
         UNCHANGED <<stores, service, recovery>>, image = New, faults' = faults \/ Fault,
         mig' = mig \/ (mig' = [mig EXCEPT !.status = "failed"])
                    \/ (mig.done = Last /\ mig' = [mig EXCEPT !.status = "completed"]),
         next # "mark", have[r] >= 1 => next \in {"idle", "route", "run", "fail"},
         next = "idle" => have' = [have EXCEPT ![r] = 0]
  PROVE  IInv'
  <1>1. UNCHANGED <<image, pg, graph, active>>
    BY DEF stores
  <1>2. faults' \in 0..MaxFaults /\ mig' \in [status : {"none", "applying", "failed", "completed"}, done : 0..Last]
        /\ mig'.done = mig.done
    BY MigrationAssumption DEF IInv, TypeOK, Fault
  <1>3. TypeOK'
    BY <1>1, <1>2, Six DEF IInv, TypeOK, Calls, recovery
  <1>4. Recorded'
    BY <1>1, <1>2 DEF IInv, TypeOK, Recorded, InPlace, OldPoint, recovery, Old, New
  <1>5. pc'[r] = next /\ (have'[r] = have[r] \/ have'[r] = 0)
    BY DEF IInv, TypeOK
  <1>6. Runner(r)'
    <2>1. have'[r] >= 1 => have'[r] = have[r] /\ next # "idle"
      BY <1>5, Six DEF IInv, TypeOK
    <2>2. InPlace(have[r])'
      BY <1>1 DEF IInv, TypeOK, Runner, InPlace, OldPoint, recovery
    <2> QED
      BY <1>1, <1>5, <2>1, <2>2 DEF Runner
  <1> QED
    BY <1>1, <1>3, <1>4, <1>6, RunnerSteps DEF IInv, TypeOK, Recoverable

-----------------------------------------------------------------------------
(* The runners *)

LEMMA BeginKeeps ==
  ASSUME IInv, NEW r \in Runners, BeginApply(r) \/ BeginResume(r)
  PROVE  IInv'
  <1>1. image = New
    BY DEF IInv, TypeOK, Recorded, BeginApply, BeginResume, Old, New, Revisions
  <1>2. have[r] = 0
    BY Six DEF IInv, TypeOK, Runner, BeginApply, BeginResume
  <1> QED
    BY <1>1, <1>2, RunnerCalls DEF BeginApply, BeginResume, Goto, Calls

\* The row is inserted with no steps done.
LEMMA StartKeeps ==
  ASSUME IInv, NEW r \in Runners, Start(r)
  PROVE  IInv'
  <1>1. image = New /\ have[r] = 0 /\ pc[r] = "start"
    BY Six DEF IInv, TypeOK, Runner, Start
  <1>2. CASE End(r) /\ UNCHANGED mig
    BY <1>1, <1>2, RunnerCalls DEF Start, End, Goto, Calls
  <1>3. CASE mig' = [status |-> "applying", done |-> 0] /\ Goto(r, "route") /\ UNCHANGED have
    <2>1. UNCHANGED <<image, pg, graph, active, service, recovery, faults>>
      BY DEF Start, stores
    <2>2. TypeOK'
      BY <1>3, <2>1, Six DEF IInv, TypeOK, Goto, recovery
    <2>3. Recorded'
      BY <1>1, <1>3, <2>1 DEF Recorded, InPlace, Old, New
    <2>4. pc'[r] = "route" /\ have'[r] = 0 /\ \A s \in Runners : s # r => pc'[s] = pc[s] /\ have'[s] = have[s]
      BY <1>1, <1>3 DEF IInv, TypeOK, Goto
    <2>5. Runner(r)'
      BY <1>1, <2>1, <2>4 DEF Runner, InPlace
    <2> QED
      BY <1>1, <2>1, <2>2, <2>3, <2>4, <2>5, RunnerSteps DEF IInv, Recoverable
  <1> QED
    BY <1>2, <1>3 DEF Start

\* A runner takes over what the row lists.
LEMMA ResumeKeeps ==
  ASSUME IInv, NEW r \in Runners, Resume(r)
  PROVE  IInv'
  <1>1. image = New /\ have[r] = 0 /\ pc[r] = "resume"
    BY Six DEF IInv, TypeOK, Runner, Resume
  <1>2. CASE End(r) /\ UNCHANGED mig
    BY <1>1, <1>2, RunnerCalls DEF Resume, End, Goto, Calls
  <1>3. CASE mig' = [mig EXCEPT !.status = "applying"] /\ have' = [have EXCEPT ![r] = mig.done]
             /\ Goto(r, "route")
    <2>1. UNCHANGED <<image, pg, graph, active, service, recovery, faults>>
      BY DEF Resume, stores
    <2>2. mig.done \in 0..Last /\ mig'.done = mig.done /\ mig'.status = "applying"
      BY <1>3 DEF IInv, TypeOK
    <2>3. TypeOK'
      BY <1>3, <2>1, <2>2, Six DEF IInv, TypeOK, Goto, recovery
    <2>4. Recorded'
      BY <1>1, <2>1, <2>2 DEF IInv, Recorded, InPlace, OldPoint, recovery, Old, New
    <2>5. pc'[r] = "route" /\ have'[r] = mig.done
          /\ \A s \in Runners : s # r => pc'[s] = pc[s] /\ have'[s] = have[s]
      BY <1>3 DEF IInv, TypeOK, Goto
    <2>6. Runner(r)'
      BY <1>1, <2>1, <2>2, <2>4, <2>5 DEF Runner, Recorded
    <2> QED
      BY <1>1, <2>1, <2>3, <2>4, <2>5, <2>6, RunnerSteps DEF IInv, Recoverable
  <1> QED
    BY <1>2, <1>3 DEF Resume

LEMMA RouteKeeps ==
  ASSUME IInv, NEW r \in Runners, Route(r)
  PROVE  IInv'
  <1>1. image = New
    BY DEF IInv, Runner, Route
  <1> QED
    BY <1>1, RunnerCalls DEF Route, End, Goto, Calls

\* The gate is the first step: it is passed only with a point of the old schema, or
\* after another runner has passed it.
LEMMA ExecuteStepKeeps ==
  ASSUME IInv, NEW r \in Runners, ExecuteStep(r)
  PROVE  IInv'
  <1>1. /\ image = New /\ pc[r] = "run" /\ have[r] \in 0..5 /\ InPlace(have[r]) /\ have' = have
        /\ UNCHANGED <<image, active, mig, service, recovery>> /\ (faults' = faults \/ Fault)
    BY Six DEF IInv, TypeOK, Runner, ExecuteStep
  <1>2. CASE Goto(r, "fail") /\ UNCHANGED <<pg, graph>>
    BY <1>1, <1>2, RunnerCalls DEF Goto, Calls, stores
  <1>3. CASE /\ Ready(StepOf(r)) /\ Goto(r, "mark") /\ UNCHANGED faults
             /\ pg' = (IF StepOf(r) = "migrate_postgres" THEN image ELSE pg)
             /\ graph' = (IF StepOf(r) = "migrate_neo4j" THEN image ELSE graph)
    <2>1. (have[r] = 1 => pg' = New) /\ (have[r] # 1 => pg' = pg)
      BY <1>1, <1>3, Six DEF StepOf
    <2>2. (have[r] = 2 => graph' = New) /\ (have[r] # 2 => graph' = graph)
      BY <1>1, <1>3, Six DEF StepOf
    <2>3. (pg = New => pg' = New) /\ (graph = New => graph' = New) /\ pg' \in Revisions
          /\ graph' \in Revisions /\ (pg' = pg \/ pg' = image)
      BY <1>1, <2>1, <2>2 DEF IInv, TypeOK, Revisions
    <2>4. OldPoint
      <3>1. CASE have[r] = 0
        <4>1. GateOpen
          BY <1>3, <3>1, Six DEF StepOf, Ready
        <4> QED
          BY <4>1 DEF GateOpen, IInv, TypeOK, Recoverable, OldPoint, Revisions
      <3>2. CASE have[r] # 0
        BY <1>1, <3>2 DEF InPlace
      <3> QED
        BY <3>1, <3>2
    <2>5. TypeOK'
      BY <1>1, <1>3, <2>3 DEF IInv, TypeOK, Goto, recovery
    <2>6. Recorded'
      BY <1>1, <2>3 DEF IInv, Recorded, InPlace, OldPoint, recovery, Old, New
    <2>7. pc'[r] = "mark" /\ have'[r] = have[r]
          /\ \A s \in Runners : s # r => pc'[s] = pc[s] /\ have'[s] = have[s]
      BY <1>1, <1>3 DEF IInv, TypeOK, Goto
    <2>8. OldPoint'
      BY <1>1, <2>4 DEF OldPoint, recovery
    <2>9. InPlace(have[r])' /\ InPlace(have[r] + 1)'
      BY <1>1, <2>1, <2>2, <2>3, <2>7, <2>8 DEF InPlace
    <2>10. Runner(r)'
      BY <1>1, <2>7, <2>9, Six DEF Runner
    <2> QED
      BY <1>1, <2>3, <2>4, <2>5, <2>6, <2>7, <2>10, RunnerSteps
  <1> QED
    BY <1>1, <1>2, <1>3 DEF ExecuteStep

LEMMA MarkCompletedKeeps ==
  ASSUME IInv, NEW r \in Runners, MarkCompleted(r)
  PROVE  IInv'
  <1>1. image = New /\ pc[r] = "mark" /\ have[r] < Last /\ InPlace(have[r] + 1) /\ have[r] \in 0..Last
    BY DEF IInv, TypeOK, Runner, MarkCompleted
  <1>2. CASE End(r) /\ UNCHANGED mig
    BY <1>1, <1>2, RunnerCalls DEF MarkCompleted, End, Goto, Calls
  <1>3. CASE Current(r) /\ mig' = [mig EXCEPT !.done = mig.done + 1]
             /\ have' = [have EXCEPT ![r] = mig.done + 1] /\ Goto(r, "run")
    <2>1. UNCHANGED <<image, pg, graph, active, service, recovery, faults>>
      BY DEF MarkCompleted, stores
    <2>2. mig.done = have[r] /\ mig'.done = have[r] + 1 /\ mig'.status = "applying"
          /\ mig' \in [status : {"none", "applying", "failed", "completed"}, done : 0..Last]
      BY <1>1, <1>3, Six DEF Current, IInv, TypeOK
    <2>3. TypeOK'
      BY <1>1, <1>3, <2>1, <2>2, Six DEF IInv, TypeOK, Goto, recovery
    <2>4. Recorded'
      BY <1>1, <2>1, <2>2 DEF Recorded, InPlace, OldPoint, recovery, Old, New
    <2>5. pc'[r] = "run" /\ have'[r] = have[r] + 1
          /\ \A s \in Runners : s # r => pc'[s] = pc[s] /\ have'[s] = have[s]
      BY <1>3, <2>2 DEF IInv, TypeOK, Goto
    <2>6. Runner(r)'
      BY <1>1, <2>1, <2>2, <2>4, <2>5 DEF Runner, Recorded
    <2> QED
      BY <1>1, <2>1, <2>3, <2>4, <2>5, <2>6, RunnerSteps DEF IInv, Recoverable
  <1> QED
    BY <1>2, <1>3 DEF MarkCompleted

LEMMA EndingKeeps ==
  ASSUME IInv, NEW r \in Runners, MarkFailed(r) \/ Complete(r) \/ Crash(r)
  PROVE  IInv'
  <1>1. image = New
    BY DEF IInv, Runner, MarkFailed, Complete, Crash
  <1>2. mig' = mig \/ mig' = [mig EXCEPT !.status = "failed"]
        \/ (mig.done = Last /\ mig' = [mig EXCEPT !.status = "completed"])
    BY DEF MarkFailed, Complete, Crash, Current
  <1>3. /\ pc' = [pc EXCEPT ![r] = "idle"] /\ have' = [have EXCEPT ![r] = 0]
        /\ UNCHANGED <<stores, service, recovery>> /\ (faults' = faults \/ Fault)
    BY DEF MarkFailed, Complete, Crash, End, Goto
  <1> QED
    BY <1>1, <1>2, <1>3, RunnerCalls DEF Calls

-----------------------------------------------------------------------------
(* Services, backups and time *)

\* What happens beside the runners leaves their part alone if no point is lost and the
\* image is not taken back.
LEMMA AroundKeeps ==
  ASSUME IInv, TypeOK', UNCHANGED <<runners, pg, graph, mig>>, image = New => image' = New,
         image' = Old => image = Old, OldPoint => OldPoint',
         Recoverable', VerifiedIsServed'
  PROVE  IInv'
  <1>1. Recorded'
    BY DEF IInv, Recorded, InPlace
  <1>2. ASSUME NEW r \in Runners PROVE Runner(r)'
    BY DEF IInv, Runner, InPlace, runners
  <1> QED
    BY <1>1, <1>2 DEF IInv

\* No runner of the new image is there yet, and no service goes on.
LEMMA UpgradeKeeps ==
  ASSUME IInv, Upgrade
  PROVE  IInv'
  <1>1. image' = New /\ UNCHANGED <<pg, graph, active, mig, runners, recovery, faults>>
        /\ service' = [s \in Services |-> "down"]
    BY DEF Upgrade
  <1>2. TypeOK'
    BY <1>1 DEF IInv, TypeOK, runners, recovery, Revisions
  <1>3. Recoverable' /\ (OldPoint => OldPoint')
    BY <1>1 DEF IInv, Recoverable, OldPoint, recovery
  <1>4. VerifiedIsServed'
    BY <1>1 DEF VerifiedIsServed
  <1> QED
    BY <1>1, <1>2, <1>3, <1>4, AroundKeeps DEF Old, New

\* A Tenant without a route has nothing verified; one with a route, the image's schema.
LEMMA ServiceKeeps ==
  ASSUME IInv, NEW s \in Services, StartService(s) \/ StopService(s)
  PROVE  IInv'
  <1>1. UNCHANGED <<image, pg, graph, active, mig, runners, recovery, faults>>
    BY DEF StartService, StopService, stores
  <1>2. TypeOK'
    BY <1>1 DEF IInv, TypeOK, StartService, StopService, runners, recovery
  <1>3. Recoverable' /\ (OldPoint => OldPoint')
    BY <1>1 DEF IInv, Recoverable, OldPoint, recovery
  <1>4. VerifiedIsServed'
    BY <1>1 DEF IInv, TypeOK, VerifiedIsServed, StartService, StopService
  <1> QED
    BY <1>1, <1>2, <1>3, <1>4, AroundKeeps

\* A backup dumps the schema that is there, and no point is ever removed.
LEMMA BackupKeeps ==
  ASSUME IInv, BackupEnter \/ BackupDump \/ BackupExit
  PROVE  IInv'
  <1>1. UNCHANGED <<image, pg, graph, mig, runners, service>>
    BY DEF BackupEnter, BackupDump, BackupExit, stores
  <1>2. TypeOK'
    <2>1. taken' \in 0..MaxBackups
      BY MigrationAssumption DEF IInv, TypeOK, BackupEnter, BackupDump, BackupExit
    <2>2. faults' \in 0..MaxFaults
      BY MigrationAssumption DEF IInv, TypeOK, BackupEnter, BackupDump, BackupExit, Fault
    <2>3. active' \in BOOLEAN /\ backup' \in {"idle", "suspended", "dumped"} /\ dump' \in Revisions
      BY DEF IInv, TypeOK, BackupEnter, BackupDump, BackupExit, stores
    <2>4. points' \subseteq Point
      <3>1. points \subseteq Point /\ dump \in Revisions /\ image \in Revisions
        BY DEF IInv, TypeOK
      <3>2. [schema |-> dump, label |-> image, fresh |-> TRUE] \in Point
        BY <3>1 DEF Point
      <3>3. points' = points \/ points' = points \cup {[schema |-> dump, label |-> image, fresh |-> TRUE]}
        BY DEF BackupEnter, BackupDump, BackupExit
      <3> QED
        BY <3>1, <3>2, <3>3
    <2>5. drill' = drill /\ days' = days /\ pc' = pc /\ have' = have
      BY DEF BackupEnter, BackupDump, BackupExit, runners
    <2> QED
      BY <1>1, <2>1, <2>2, <2>3, <2>4, <2>5 DEF IInv, TypeOK
  <1>3. points \subseteq points' /\ (\A p \in points' \ points : p.schema = dump)
        /\ (dump' = dump \/ dump' = pg)
    BY DEF BackupEnter, BackupDump, BackupExit
  <1>4. OldPoint => OldPoint'
    BY <1>3, PointsStay
  <1>5. Recoverable'
    BY <1>1, <1>3, <1>4 DEF IInv, Recoverable
  <1>6. VerifiedIsServed'
    BY <1>1 DEF IInv, VerifiedIsServed
  <1> QED
    BY <1>1, <1>2, <1>4, <1>5, <1>6, AroundKeeps

LEMMA DayKeeps ==
  ASSUME IInv, Day
  PROVE  IInv'
  <1>1. UNCHANGED <<image, pg, graph, active, mig, runners, service, backup, dump, drill, taken, faults>>
        /\ points' = {[p EXCEPT !.fresh = FALSE] : p \in points} /\ days' \in 0..MaxDays
    BY MigrationAssumption DEF Day, stores, IInv, TypeOK
  <1>2. \A p \in points : [p EXCEPT !.fresh = FALSE] \in Point /\ [p EXCEPT !.fresh = FALSE].schema = p.schema
    BY DEF IInv, TypeOK, Point
  <1>3. TypeOK'
    BY <1>1, <1>2 DEF IInv, TypeOK, runners
  <1>4. OldPoint => OldPoint'
    BY <1>1, <1>2 DEF OldPoint
  <1>5. Recoverable'
    BY <1>1, <1>2, <1>4 DEF IInv, Recoverable
  <1>6. VerifiedIsServed'
    BY <1>1 DEF IInv, VerifiedIsServed
  <1> QED
    BY <1>1, <1>3, <1>4, <1>5, <1>6, AroundKeeps

LEMMA DrillKeeps ==
  ASSUME IInv, NEW p \in Point, StartDrill(p)
  PROVE  IInv'
  <1>1. UNCHANGED <<image, pg, graph, active, mig, runners, service, backup, dump, points, taken, days, faults>>
        /\ drill' = drill \cup {p}
    BY DEF StartDrill, stores
  <1>2. TypeOK'
    BY <1>1 DEF IInv, TypeOK, runners
  <1>3. Recoverable' /\ (OldPoint => OldPoint')
    BY <1>1 DEF IInv, Recoverable, OldPoint
  <1>4. VerifiedIsServed'
    BY <1>1 DEF IInv, VerifiedIsServed
  <1> QED
    BY <1>1, <1>2, <1>3, <1>4, AroundKeeps

LEMMA NextKeeps ==
  ASSUME IInv, [Next]_vars
  PROVE  IInv'
  <1>1. ASSUME NEW r \in Runners, BeginApply(r) \/ BeginResume(r) \/ Continue(r) \/ Crash(r)
        PROVE  IInv'
    BY <1>1, BeginKeeps, StartKeeps, ResumeKeeps, RouteKeeps, ExecuteStepKeeps, MarkCompletedKeeps,
       EndingKeeps DEF Continue
  <1>2. CASE Upgrade \/ (\E s \in Services : StartService(s) \/ StopService(s))
    BY <1>2, UpgradeKeeps, ServiceKeeps
  <1>3. CASE BackupEnter \/ BackupDump \/ BackupExit \/ Day \/ (\E p \in Point : StartDrill(p))
    BY <1>3, BackupKeeps, DayKeeps, DrillKeeps
  <1>4. CASE UNCHANGED vars
    <2>1. UNCHANGED <<image, pg, graph, active, mig, runners, service, recovery, faults>>
      BY <1>4 DEF vars, stores
    <2>2. TypeOK'
      BY <2>1 DEF IInv, TypeOK, runners, recovery
    <2>3. Recoverable' /\ (OldPoint => OldPoint') /\ VerifiedIsServed'
      BY <2>1 DEF IInv, Recoverable, OldPoint, VerifiedIsServed, recovery
    <2> QED
      BY <2>1, <2>2, <2>3, AroundKeeps
  <1> QED
    BY <1>1, <1>2, <1>3, <1>4 DEF Next

-----------------------------------------------------------------------------
(* Theorems *)

\* What a runner holds and what the row lists is in place, in every reachable state
\* (tenant_migration.py _run; postgres_control.py mark_completed).
THEOREM Inductive == Spec => []IInv
  <1>1. Init => IInv
    BY InitInv
  <1>2. IInv /\ [Next]_vars => IInv'
    BY NextKeeps
  <1> QED
    BY <1>1, <1>2, PTL DEF Spec

\* The row never lists more steps than there are, and no runner holds more.
THEOREM TypeCorrect == Spec => []TypeOK
  <1>1. IInv => TypeOK
    BY DEF IInv
  <1> QED
    BY <1>1, Inductive, PTL

\* A step that is listed as done is done, and a completed migration is complete, though
\* several runners execute and record the steps.
THEOREM RecordedMigrated == Spec => []RecordedIsMigrated
  <1>1. IInv => RecordedIsMigrated
    BY DEF IInv, Recorded, InPlace, RecordedIsMigrated
  <1> QED
    BY <1>1, Inductive, PTL

\* The recovery gate protects every change of a database: a point of the old schema was
\* published before, whichever runner passed the gate and whichever goes on.
THEOREM MigratedRecoverable == Spec => []MigratedIsRecoverable
  <1>1. IInv => MigratedIsRecoverable
    BY DEF IInv, Recoverable, OldPoint, MigratedIsRecoverable
  <1> QED
    BY <1>1, Inductive, PTL

\* A service that checked a Tenant's schema when it started meets no other one later.
THEOREM VerifiedServed == Spec => []VerifiedIsServed
  <1>1. IInv => VerifiedIsServed
    BY DEF IInv
  <1> QED
    BY <1>1, Inductive, PTL

-----------------------------------------------------------------------------
(***************************************************************************)
(* The provisioning of a Tenant: the processes of TenantProvisioning over  *)
(* the rows and the host of ProvisioningRecord. What they keep for         *)
(* themselves is another state than the migration's runners keep: where    *)
(* both modules have the name, it is called `call`, `listed`, `failures`.  *)
(***************************************************************************)
CONSTANTS Workers, Shells, Operators, Manifests, MaxEdits, Nobody, NoManifest

VARIABLES call, man, listed, out, jobOf, ask, target, edits, failures

P == INSTANCE TenantProvisioning WITH pc <- call, have <- listed, faults <- failures

\* What is on the host when n steps are done.
Built(n) ==
    /\ \A i \in 1..n : P!PROVISIONING_STEPS[i] \in world
    /\ n >= 2 => secret = "written"

AtWork == {"execute", "write", "mark"}

\* What the proof needs of the types.
Typed ==
    /\ prov \in [status : {"none", "provisioning", "failed", "active"},
                 done : 0..10, manifest : Manifests \cup {NoManifest}]
    /\ secret \in {"absent", "empty", "written"}
    /\ call \in [P!Appliers -> {"idle", "plan", "start", "execute", "write", "mark", "fail", "report"}]
    /\ man \in [P!Appliers -> Manifests \cup {NoManifest}]
    /\ listed \in [P!Appliers -> 0..10]
    /\ out \in [P!Appliers -> {"none", "active", "failed"}]
    /\ jobOf \in [P!Appliers -> P!Jobs \cup {0}]
    /\ job \in [P!Jobs -> [state : P!JobStates, by : P!Appliers \cup {Nobody},
                           manifest : Manifests \cup {NoManifest}]]
    /\ ask \in [Operators -> {"none", "cancel", "retry", "cleanup"}]
    /\ target \in [Operators -> P!Jobs \cup {0}]

\* The row of control.provisioning: what it lists is built, and it is active when all is.
Row ==
    /\ Built(prov.done)
    /\ prov.status = "none" <=> prov.done = 0
    /\ tenant = "active" <=> prov.status = "active"
    /\ prov.status = "active" <=> prov.done = 10

\* An apply holds only steps that are built, the one it is about to record too; it works
\* on a row of its own manifest, and so does its job.
Applier(a) ==
    /\ call[a] \in AtWork => listed[a] \in 1..9 /\ Built(listed[a])
    /\ call[a] \in AtWork \cup {"fail"} => prov.status # "none" /\ prov.manifest = man[a]
    /\ call[a] = "write" => listed[a] = 1 /\ secret = "empty"
    /\ call[a] = "mark" => listed[a] < 9 /\ Built(listed[a] + 1)
    /\ call[a] = "report" /\ out[a] = "active" => prov.status = "active" /\ prov.manifest = man[a]
    /\ jobOf[a] \in P!Jobs => job[jobOf[a]].state # "none" /\ job[jobOf[a]].manifest = man[a]

\* The secret file is created exclusively: one apply at a time writes it.
OneWriter == \A a, b \in P!Appliers : call[a] = "write" /\ call[b] = "write" => a = b

Succeeded == \A j \in P!Jobs : job[j].state = "succeeded" =>
                 prov.status = "active" /\ prov.manifest = job[j].manifest

Provisioned ==
    /\ Typed /\ Row /\ OneWriter /\ Succeeded
    /\ \A a \in P!Appliers : Applier(a)

LEMMA Ten == /\ P!AllSteps = 10 /\ P!PROVISIONING_STEPS[1] = "record_control_state"
             /\ P!PROVISIONING_STEPS[2] = "write_secrets" /\ P!PROVISIONING_STEPS[3] = "start_neo4j"
             /\ P!PROVISIONING_STEPS[4] = "create_tenant_database"
             /\ P!PROVISIONING_STEPS[5] = "migrate_postgres" /\ P!PROVISIONING_STEPS[6] = "migrate_neo4j"
             /\ P!PROVISIONING_STEPS[7] = "verify_neo4j_health"
             /\ P!PROVISIONING_STEPS[8] = "verify_routing" /\ P!PROVISIONING_STEPS[9] = "verify_isolation"
             /\ P!PROVISIONING_STEPS[10] = "activate"
  BY DEF P!AllSteps, P!PROVISIONING_STEPS

\* The instance and the record speak of the same steps and jobs.
LEMMA SameRecord ==
  /\ P!PROVISIONING_STEPS = PROVISIONING_STEPS /\ P!AllSteps = AllSteps /\ P!Jobs = Jobs
  BY DEF P!PROVISIONING_STEPS, PROVISIONING_STEPS, P!AllSteps, AllSteps, P!Jobs, Jobs

LEMMA StartProvisioned == P!Init => Provisioned
  <1> SUFFICES ASSUME P!Init PROVE Provisioned
    OBVIOUS
  <1>1. Typed
    BY DEF P!Init, Typed, P!JobStates
  <1>2. Row /\ OneWriter
    BY DEF P!Init, Row, Built, OneWriter
  <1>3. Succeeded /\ \A a \in P!Appliers : Applier(a)
    BY DEF P!Init, Succeeded, Applier, AtWork, P!Jobs
  <1> QED
    BY <1>1, <1>2, <1>3 DEF Provisioned

\* Nothing that was built, recorded or queued is taken back.
Grows ==
    /\ world \subseteq world'
    /\ secret = "written" => secret' = "written"
    /\ prov.status # "none" => prov'.status # "none" /\ prov'.manifest = prov.manifest
    /\ prov.status = "active" => prov'.status = "active"
    /\ \A j \in P!Jobs : job[j].state # "none" =>
         job'[j].state # "none" /\ job'[j].manifest = job[j].manifest

\* The n steps that are held now are built after the step.
BuiltNext(n) ==
    /\ \A i \in 1..n : P!PROVISIONING_STEPS[i] \in world'
    /\ n >= 2 => secret' = "written"

LEMMA BuiltStays ==
  ASSUME Grows, NEW n, Built(n)
  PROVE  BuiltNext(n)
  BY DEF Grows, Built, BuiltNext

\* An apply keeps what it holds while others work.
LEMMA OtherStays ==
  ASSUME Grows, NEW b \in P!Appliers, Applier(b),
         call'[b] = call[b], man'[b] = man[b], listed'[b] = listed[b], out'[b] = out[b], jobOf'[b] = jobOf[b],
         call[b] = "write" => secret' = secret
  PROVE  Applier(b)'
  <1>1. call'[b] \in AtWork => listed'[b] \in 1..9 /\ Built(listed[b])'
    BY BuiltStays DEF Applier, Built, BuiltNext
  <1>2. call'[b] = "mark" => listed'[b] < 9 /\ Built(listed[b] + 1)'
    BY BuiltStays DEF Applier, Built, BuiltNext
  <1>3. jobOf'[b] \in P!Jobs => job'[jobOf'[b]].state # "none" /\ job'[jobOf'[b]].manifest = man'[b]
    BY DEF Applier, Grows
  <1>4. call'[b] \in AtWork \cup {"fail"} => prov'.status # "none" /\ prov'.manifest = man'[b]
    BY DEF Applier, Grows
  <1>5. call'[b] = "report" /\ out'[b] = "active" => prov'.status = "active" /\ prov'.manifest = man'[b]
    BY DEF Applier, Grows
  <1>6. call'[b] = "write" => listed'[b] = 1 /\ secret' = "empty"
    BY DEF Applier
  <1> QED
    BY <1>1, <1>2, <1>3, <1>4, <1>5, <1>6 DEF Applier

\* A step of one apply.
LEMMA ApplierSteps ==
  ASSUME Provisioned, NEW a \in P!Appliers, Typed', Row', Grows, Applier(a)',
         \A b \in P!Appliers \ {a} :
            /\ call'[b] = call[b] /\ man'[b] = man[b] /\ listed'[b] = listed[b]
            /\ out'[b] = out[b] /\ jobOf'[b] = jobOf[b]
            /\ call[b] = "write" => secret' = secret /\ call'[a] # "write",
         \A j \in P!Jobs : job'[j].state = "succeeded" =>
            job'[j].manifest = job[j].manifest
            /\ (job[j].state = "succeeded" \/ (prov'.status = "active" /\ prov'.manifest = job[j].manifest))
  PROVE  Provisioned'
  <1>1. ASSUME NEW b \in P!Appliers, b # a PROVE Applier(b)'
    BY <1>1, OtherStays DEF Provisioned
  <1>2. OneWriter'
    BY DEF Provisioned, OneWriter
  <1>3. Succeeded'
    <2>1. ASSUME NEW j \in P!Jobs, job'[j].state = "succeeded"
          PROVE  prov'.status = "active" /\ prov'.manifest = job'[j].manifest
      BY <2>1 DEF Provisioned, Succeeded, Grows
    <2> QED
      BY <2>1 DEF Succeeded, P!Jobs
  <1> QED
    BY <1>1, <1>2, <1>3 DEF Provisioned

\* A step that changes jobs and requests only.
LEMMA RequestSteps ==
  ASSUME Provisioned, Typed', UNCHANGED <<tenant, prov, world, secret, call, man, listed, out, jobOf>>,
         \A j \in P!Jobs :
            /\ job[j].state # "none" => job'[j].state # "none" /\ job'[j].manifest = job[j].manifest
            /\ job'[j].state = "succeeded" => job'[j] = job[j]
  PROVE  Provisioned'
  <1>1. Grows
    BY DEF Grows
  <1>2. Row' /\ OneWriter'
    BY DEF Provisioned, Row, Built, OneWriter
  <1>3. Succeeded'
    <2>1. ASSUME NEW j \in P!Jobs, job'[j].state = "succeeded"
          PROVE  prov'.status = "active" /\ prov'.manifest = job'[j].manifest
      BY <2>1 DEF Provisioned, Succeeded
    <2> QED
      BY <2>1 DEF Succeeded, P!Jobs
  <1>4. \A b \in P!Appliers : Applier(b)'
    BY <1>1, OtherStays DEF Provisioned
  <1> QED
    BY <1>2, <1>3, <1>4 DEF Provisioned

-----------------------------------------------------------------------------
(* Jobs and requests *)

LEMMA CreateJobProvisions ==
  ASSUME Provisioned, NEW j \in P!Jobs, NEW m \in Manifests, P!CreateJob(j, m)
  PROVE  Provisioned'
  <1>1. UNCHANGED <<tenant, prov, world, secret, call, man, listed, out, jobOf, ask, target>>
    BY DEF P!CreateJob, P!host, P!local, P!requests
  <1>2. Typed'
    BY <1>1 DEF Provisioned, Typed, P!CreateJob, P!JobStates, P!Jobs, P!Appliers
  <1>3. ASSUME NEW i \in P!Jobs
        PROVE  /\ job[i].state # "none" => job'[i].state # "none" /\ job'[i].manifest = job[i].manifest
               /\ job'[i].state = "succeeded" => job'[i] = job[i]
    BY DEF Provisioned, Typed, P!CreateJob
  <1> QED
    BY <1>1, <1>2, <1>3, RequestSteps

\* Admitting an edit changes no job.
LEMMA AdmitEditProvisions ==
  ASSUME Provisioned, NEW o \in Operators, NEW op \in {"cancel", "retry", "cleanup"}, NEW j \in P!Jobs,
         P!AdmitEdit(o, op, j)
  PROVE  Provisioned'
  <1>1. UNCHANGED <<tenant, prov, world, secret, call, man, listed, out, jobOf, job>>
    BY DEF P!AdmitEdit, P!host, P!local
  <1>2. ask' = [ask EXCEPT ![o] = op] /\ target' = [target EXCEPT ![o] = j]
    BY DEF P!AdmitEdit
  <1>3. Typed'
    BY <1>1, <1>2 DEF Provisioned, Typed, P!JobStates, P!Jobs, P!Appliers
  <1> QED
    BY <1>1, <1>3, RequestSteps

\* An edit moves its job to a state in which it has not succeeded.
LEMMA CommitEditProvisions ==
  ASSUME Provisioned, NEW o \in Operators, P!CommitEdit(o)
  PROVE  Provisioned'
  <1>1. UNCHANGED <<tenant, prov, world, secret, call, man, listed, out, jobOf>>
    BY DEF P!CommitEdit, P!host, P!local
  <1>2. PICK r : job' = [job EXCEPT ![target[o]] = r]
                 /\ (target[o] \in P!Jobs =>
                       /\ r \in [state : P!JobStates, by : P!Appliers \cup {Nobody},
                                 manifest : Manifests \cup {NoManifest}]
                       /\ r.state \notin {"none", "succeeded"} /\ r.manifest = job[target[o]].manifest)
    <2>1. ask[o] = "cancel" \/ ask[o] = "retry" \/ ask[o] = "cleanup"
      BY DEF Provisioned, Typed, P!CommitEdit
    <2>2. target[o] \in P!Jobs => job[target[o]] \in [state : P!JobStates, by : P!Appliers \cup {Nobody},
                                                      manifest : Manifests \cup {NoManifest}]
      BY DEF Provisioned, Typed
    <2>3. CASE ask[o] = "cancel"
      <3>1. job' = [job EXCEPT ![target[o]] = [job[target[o]] EXCEPT !.state = "cancel_requested"]]
        BY <2>3 DEF P!CommitEdit
      <3>2. PICK r : r = [job[target[o]] EXCEPT !.state = "cancel_requested"]
        OBVIOUS
      <3>3. target[o] \in P!Jobs =>
              /\ r \in [state : P!JobStates, by : P!Appliers \cup {Nobody},
                        manifest : Manifests \cup {NoManifest}]
              /\ r.state \notin {"none", "succeeded"} /\ r.manifest = job[target[o]].manifest
        BY <2>2, <3>2 DEF P!JobStates
      <3> QED
        BY <3>1, <3>2, <3>3, Zenon
    <2>4. CASE ask[o] = "retry"
      <3>1. job' = [job EXCEPT ![target[o]] = [job[target[o]] EXCEPT !.state = "queued", !.by = Nobody]]
        BY <2>4 DEF P!CommitEdit
      <3>2. PICK r : r = [job[target[o]] EXCEPT !.state = "queued", !.by = Nobody]
        OBVIOUS
      <3>3. target[o] \in P!Jobs =>
              /\ r \in [state : P!JobStates, by : P!Appliers \cup {Nobody},
                        manifest : Manifests \cup {NoManifest}]
              /\ r.state \notin {"none", "succeeded"} /\ r.manifest = job[target[o]].manifest
        BY <2>2, <3>2 DEF P!JobStates
      <3> QED
        BY <3>1, <3>2, <3>3, Zenon
    <2>5. CASE ask[o] = "cleanup"
      <3>1. job' = [job EXCEPT ![target[o]] = [job[target[o]] EXCEPT !.state = "cleanup_requested"]]
        BY <2>5 DEF P!CommitEdit
      <3>2. PICK r : r = [job[target[o]] EXCEPT !.state = "cleanup_requested"]
        OBVIOUS
      <3>3. target[o] \in P!Jobs =>
              /\ r \in [state : P!JobStates, by : P!Appliers \cup {Nobody},
                        manifest : Manifests \cup {NoManifest}]
              /\ r.state \notin {"none", "succeeded"} /\ r.manifest = job[target[o]].manifest
        BY <2>2, <3>2 DEF P!JobStates
      <3> QED
        BY <3>1, <3>2, <3>3, Zenon
    <2> QED
      BY <2>1, <2>3, <2>4, <2>5
  <1>3. ask' = [ask EXCEPT ![o] = "none"] /\ target' = [target EXCEPT ![o] = 0]
    BY DEF P!CommitEdit
  <1>4. job' \in [P!Jobs -> [state : P!JobStates, by : P!Appliers \cup {Nobody},
                             manifest : Manifests \cup {NoManifest}]]
    BY <1>2 DEF Provisioned, Typed
  <1>5. Typed'
    BY <1>1, <1>3, <1>4 DEF Provisioned, Typed, P!JobStates, P!Jobs, P!Appliers
  <1>6. ASSUME NEW i \in P!Jobs
        PROVE  /\ job[i].state # "none" => job'[i].state # "none" /\ job'[i].manifest = job[i].manifest
               /\ job'[i].state = "succeeded" => job'[i] = job[i]
    BY <1>2 DEF Provisioned, Typed
  <1> QED
    BY <1>1, <1>5, <1>6, RequestSteps

\* A worker takes the manifest of its job; memoryctl has no job.
LEMMA BeginProvisions ==
  ASSUME Provisioned, NEW a \in P!Appliers, call[a] = "idle",
         NEW m \in Manifests \cup {NoManifest}, NEW j \in P!Jobs \cup {0}, P!Begin(a, m, j),
         UNCHANGED <<tenant, prov, world, secret, ask, target>>, Typed',
         \A i \in P!Jobs : /\ job'[i].manifest = job[i].manifest
                           /\ job'[i].state = job[i].state \/ job'[i].state \notin {"none", "succeeded"},
         j \in P!Jobs => job'[j].state # "none" /\ job'[j].manifest = m
  PROVE  Provisioned'
  <1>1. Grows
    BY DEF Grows
  <1>2. Row'
    BY DEF Provisioned, Row, Built
  <1>3. /\ call' = [call EXCEPT ![a] = "plan"] /\ man' = [man EXCEPT ![a] = m]
        /\ listed' = [listed EXCEPT ![a] = 0] /\ out' = [out EXCEPT ![a] = "none"]
        /\ jobOf' = [jobOf EXCEPT ![a] = j]
    BY DEF P!Begin
  <1>4. Applier(a)'
    BY <1>3 DEF Provisioned, Typed, Applier, AtWork, P!Jobs
  <1>5. ASSUME NEW b \in P!Appliers \ {a}
        PROVE  /\ call'[b] = call[b] /\ man'[b] = man[b] /\ listed'[b] = listed[b]
               /\ out'[b] = out[b] /\ jobOf'[b] = jobOf[b]
               /\ call[b] = "write" => secret' = secret /\ call'[a] # "write"
    BY <1>3 DEF Provisioned, Typed
  <1>6. ASSUME NEW i \in P!Jobs, job'[i].state = "succeeded"
        PROVE  job'[i].manifest = job[i].manifest /\ job[i].state = "succeeded"
    BY <1>6
  <1> QED
    BY <1>1, <1>2, <1>4, <1>5, <1>6, ApplierSteps

LEMMA ClaimJobProvisions ==
  ASSUME Provisioned, NEW w \in Workers, NEW j \in P!Jobs, P!ClaimJob(w, j)
  PROVE  Provisioned'
  <1>1. w \in P!Appliers /\ job[j].manifest \in Manifests \cup {NoManifest}
    BY DEF P!Appliers, Provisioned, Typed
  <1>2. UNCHANGED <<tenant, prov, world, secret, ask, target>>
    BY DEF P!ClaimJob, P!host, P!requests
  <1>3. /\ job' = [job EXCEPT ![j].state = "running", ![j].by = w]
        /\ call[w] = "idle" /\ P!Begin(w, job[j].manifest, j)
    BY DEF P!ClaimJob
  <1>4. job' \in [P!Jobs -> [state : P!JobStates, by : P!Appliers \cup {Nobody},
                             manifest : Manifests \cup {NoManifest}]]
    <2>1. [job EXCEPT ![j].state = "running"]
            \in [P!Jobs -> [state : P!JobStates, by : P!Appliers \cup {Nobody},
                            manifest : Manifests \cup {NoManifest}]]
      BY DEF Provisioned, Typed, P!JobStates
    <2>2. job' = [[job EXCEPT ![j].state = "running"] EXCEPT ![j].by = w]
      BY <1>3
    <2> QED
      BY <1>1, <2>1, <2>2
  <1>5. Typed'
    BY <1>1, <1>2, <1>3, <1>4 DEF Provisioned, Typed, P!Begin, P!JobStates, P!Jobs, P!Appliers
  <1>6. ASSUME NEW i \in P!Jobs
        PROVE  /\ job'[i].manifest = job[i].manifest
               /\ job'[i].state = job[i].state \/ job'[i].state \notin {"none", "succeeded"}
    BY <1>3 DEF Provisioned, Typed
  <1>7. job'[j].state # "none" /\ job'[j].manifest = job[j].manifest
    BY <1>3 DEF Provisioned, Typed
  <1>8. PICK m \in Manifests \cup {NoManifest} : m = job[j].manifest
    BY <1>1
  <1>9. P!Begin(w, m, j) /\ job'[j].state # "none" /\ job'[j].manifest = m
    BY <1>3, <1>7, <1>8
  <1> QED
    BY <1>1, <1>2, <1>3, <1>5, <1>6, <1>9, BeginProvisions

LEMMA RunShellProvisions ==
  ASSUME Provisioned, NEW s \in Shells, NEW m \in Manifests, P!RunShell(s, m)
  PROVE  Provisioned'
  <1>1. s \in P!Appliers /\ 0 \notin P!Jobs
    BY DEF P!Appliers, P!Jobs
  <1>2. UNCHANGED <<tenant, prov, world, secret, ask, target, job>>
    BY DEF P!RunShell, P!host, P!requests
  <1>3. call[s] = "idle" /\ P!Begin(s, m, 0)
    BY DEF P!RunShell
  <1>4. Typed'
    BY <1>1, <1>2, <1>3 DEF Provisioned, Typed, P!Begin, P!JobStates, P!Jobs, P!Appliers
  <1> QED
    BY <1>1, <1>2, <1>3, <1>4, BeginProvisions

-----------------------------------------------------------------------------
(* TenantProvisioner.apply *)

\* An apply goes on to `next` and holds l steps afterwards; it keeps its job.
Moves(a, next, l, o) ==
    /\ call' = [call EXCEPT ![a] = next] /\ listed' = [listed EXCEPT ![a] = l]
    /\ out' = [out EXCEPT ![a] = o]
    /\ UNCHANGED <<man, jobOf, job, ask, target>>

LEMMA ApplyMoves ==
  ASSUME Provisioned, NEW a \in P!Appliers,
         NEW next \in {"start", "execute", "write", "mark", "fail", "report"},
         NEW l \in 0..10, NEW o \in {"none", "active", "failed"},
         Moves(a, next, l, o),
         prov' \in [status : {"none", "provisioning", "failed", "active"},
                    done : 0..10, manifest : Manifests \cup {NoManifest}],
         secret' \in {"absent", "empty", "written"}, Row', world \subseteq world',
         secret' = secret \/ secret = "absent" \/ call[a] = "write",
         prov.status # "none" => prov'.status # "none" /\ prov'.manifest = prov.manifest,
         prov.status = "active" => prov'.status = "active",
         next \in AtWork => l \in 1..9 /\ BuiltNext(l),
         next \in AtWork \cup {"fail"} => prov'.status # "none" /\ prov'.manifest = man[a],
         next = "write" => l = 1 /\ secret = "absent" /\ secret' = "empty",
         next = "mark" => l < 9 /\ P!PROVISIONING_STEPS[l + 1] \in world' /\ secret' = "written",
         next = "report" /\ o = "active" => prov'.status = "active" /\ prov'.manifest = man[a]
  PROVE  Provisioned'
  <1>1. call'[a] = next /\ listed'[a] = l /\ out'[a] = o /\ man'[a] = man[a] /\ jobOf'[a] = jobOf[a]
    BY DEF Provisioned, Typed, Moves
  <1>2. secret = "written" => secret' = "written"
    BY DEF Provisioned, Applier
  <1>3. Grows
    BY <1>2 DEF Grows, Moves
  <1>4. Typed'
    <2>1. /\ call' \in [P!Appliers -> {"idle", "plan", "start", "execute", "write", "mark", "fail", "report"}]
          /\ listed' \in [P!Appliers -> 0..10] /\ out' \in [P!Appliers -> {"none", "active", "failed"}]
      BY DEF Provisioned, Typed, Moves
    <2> QED
      BY <2>1 DEF Provisioned, Typed, Moves, P!JobStates, P!Jobs, P!Appliers
  <1>5. Applier(a)'
    <2>1. next = "mark" => \A i \in 1..(l + 1) : P!PROVISIONING_STEPS[i] \in world'
      <3>1. ASSUME next = "mark", NEW i \in 1..(l + 1) PROVE P!PROVISIONING_STEPS[i] \in world'
        <4>1. i \in 1..l \/ i = l + 1
          OBVIOUS
        <4> QED
          BY <3>1, <4>1 DEF AtWork, BuiltNext
      <3> QED
        BY <3>1
    <2>2. next = "mark" => Built(l + 1)'
      BY <2>1 DEF Built
    <2>3. next \in AtWork => Built(l)'
      BY DEF Built, BuiltNext
    <2>4. jobOf'[a] \in P!Jobs => job'[jobOf'[a]].state # "none" /\ job'[jobOf'[a]].manifest = man'[a]
      BY <1>1 DEF Provisioned, Applier, Moves
    <2> QED
      BY <1>1, <2>2, <2>3, <2>4 DEF Applier, P!Jobs
  <1>6. ASSUME NEW b \in P!Appliers \ {a}
        PROVE  /\ call'[b] = call[b] /\ man'[b] = man[b] /\ listed'[b] = listed[b]
               /\ out'[b] = out[b] /\ jobOf'[b] = jobOf[b]
               /\ call[b] = "write" => secret' = secret /\ call'[a] # "write"
    <2>1. /\ call'[b] = call[b] /\ man'[b] = man[b] /\ listed'[b] = listed[b]
          /\ out'[b] = out[b] /\ jobOf'[b] = jobOf[b]
      BY DEF Provisioned, Typed, Moves
    <2>2. call[b] = "write" => secret = "empty" /\ call[a] # "write"
      BY DEF Provisioned, Applier, OneWriter
    <2> QED
      BY <1>1, <2>1, <2>2
  <1>7. \A j \in P!Jobs : job'[j].manifest = job[j].manifest /\ job'[j].state = job[j].state
    BY DEF Moves
  <1> QED
    BY <1>3, <1>4, <1>5, <1>6, <1>7, ApplierSteps

\* ... in particular one after which the row and the host are as before.
LEMMA ApplyTurns ==
  ASSUME Provisioned, NEW a \in P!Appliers, NEW next \in {"start", "fail", "report"},
         NEW o \in {"none", "active", "failed"}, call' = [call EXCEPT ![a] = next],
         out' = [out EXCEPT ![a] = o], UNCHANGED <<tenant, world, listed, man, jobOf, job, ask, target>>,
         secret' \in {"absent", "empty", "written"}, secret' = secret \/ call[a] = "write",
         prov' = prov \/ (prov' = [prov EXCEPT !.status = "failed"] /\ prov.status = "provisioning"),
         next = "fail" => call[a] \in AtWork,
         next = "report" /\ o = "active" => prov.status = "active" /\ prov.manifest = man[a]
  PROVE  Provisioned'
  <1>1. PICK l \in 0..10 : l = listed[a]
    BY DEF Provisioned, Typed
  <1>2. Moves(a, next, l, o)
    BY <1>1 DEF Provisioned, Typed, Moves
  <1>3. /\ prov' \in [status : {"none", "provisioning", "failed", "active"},
                      done : 0..10, manifest : Manifests \cup {NoManifest}]
        /\ prov.status # "none" => prov'.status # "none"
        /\ prov.status = "active" => prov'.status = "active"
        /\ prov'.manifest = prov.manifest /\ prov'.done = prov.done
        /\ prov'.status = "active" => prov.status = "active"
        /\ prov'.status = "none" => prov.status = "none"
    BY DEF Provisioned, Typed
  <1>4. call[a] = "write" => prov.done < 2
    BY DEF Provisioned, Typed, Row, Built, Applier
  <1>5. Row'
    BY <1>3, <1>4 DEF Provisioned, Typed, Row, Built
  <1>6. next = "fail" => prov'.status # "none" /\ prov'.manifest = man[a]
    BY <1>3 DEF Provisioned, Applier, AtWork
  <1>7. next = "report" /\ o = "active" => prov'.status = "active" /\ prov'.manifest = man[a]
    BY <1>3
  <1> QED
    BY <1>2, <1>3, <1>5, <1>6, <1>7, ApplyMoves DEF AtWork

LEMMA PlanApplyProvisions ==
  ASSUME Provisioned, NEW a \in P!Appliers, P!PlanApply(a)
  PROVE  Provisioned'
  <1>1. UNCHANGED <<tenant, prov, world, secret, man, listed, jobOf, job, ask, target>>
    BY DEF P!PlanApply, P!host, P!requests
  <1>2. secret' \in {"absent", "empty", "written"}
    BY <1>1 DEF Provisioned, Typed
  <1>3. CASE P!Return(a, "failed")
    BY <1>1, <1>2, <1>3, ApplyTurns DEF P!Return, P!Goto
  <1>4. CASE ~P!OtherManifest(a) /\ prov.done = P!AllSteps /\ P!Return(a, "active")
    <2>1. prov.status = "active" /\ prov.manifest = man[a]
      BY <1>4, Ten DEF Provisioned, Row, P!OtherManifest
    <2> QED
      BY <1>1, <1>2, <1>4, <2>1, ApplyTurns DEF P!Return, P!Goto
  <1>5. CASE P!Goto(a, "start") /\ UNCHANGED out
    <2>1. PICK o \in {"none", "active", "failed"} : o = out[a]
      BY DEF Provisioned, Typed
    <2>2. out' = [out EXCEPT ![a] = o]
      BY <1>5, <2>1 DEF Provisioned, Typed
    <2> QED
      BY <1>1, <1>2, <1>5, <2>2, ApplyTurns DEF P!Goto
  <1> QED
    BY <1>3, <1>4, <1>5 DEF P!PlanApply

\* The first apply records the manifest with the first step; a later one takes over the
\* steps the row lists.
LEMMA StartApplyProvisions ==
  ASSUME Provisioned, NEW a \in P!Appliers, P!StartApply(a)
  PROVE  Provisioned'
  <1>1. UNCHANGED <<secret, man, jobOf, job, ask, target>> /\ call[a] = "start"
    BY DEF P!StartApply, P!requests
  <1>2. PICK o \in {"none", "active", "failed"} : o = out[a]
    BY DEF Provisioned, Typed
  <1>3. UNCHANGED out => out' = [out EXCEPT ![a] = o]
    BY <1>2 DEF Provisioned, Typed
  <1>4. secret' \in {"absent", "empty", "written"} /\ man[a] \in Manifests \cup {NoManifest}
    BY <1>1 DEF Provisioned, Typed
  <1>5. CASE /\ prov.status = "none"
             /\ prov' = [status |-> "provisioning", done |-> 1, manifest |-> man[a]]
             /\ tenant' = "inactive" /\ world' = world \cup {P!PROVISIONING_STEPS[1]}
             /\ listed' = [listed EXCEPT ![a] = 1]
             /\ P!Goto(a, "execute") /\ UNCHANGED out
    <2>1. BuiltNext(1)
      BY <1>5 DEF BuiltNext
    <2>2. Row'
      BY <1>5, <2>1 DEF Row, Built, BuiltNext
    <2>3. prov' \in [status : {"none", "provisioning", "failed", "active"},
                     done : 0..10, manifest : Manifests \cup {NoManifest}]
      BY <1>4, <1>5
    <2>4. Moves(a, "execute", 1, o)
      BY <1>1, <1>3, <1>5 DEF P!Goto, Moves
    <2>5. /\ world \subseteq world' /\ prov.status = "none"
          /\ prov'.status = "provisioning" /\ prov'.manifest = man[a]
      BY <1>5
    <2> QED
      BY <1>1, <1>4, <2>1, <2>2, <2>3, <2>4, <2>5, ApplyMoves
  <1>6. CASE /\ prov.status \in {"provisioning", "failed"} /\ ~P!OtherManifest(a)
             /\ prov' = P!Reopened
             /\ listed' = [listed EXCEPT ![a] = prov.done]
             /\ P!Goto(a, "execute") /\ UNCHANGED <<tenant, world, out>>
    <2>1. /\ prov' = [prov EXCEPT !.status = "provisioning"] /\ prov'.manifest = prov.manifest
          /\ prov'.status = "provisioning" /\ prov'.done = prov.done
          /\ prov' \in [status : {"none", "provisioning", "failed", "active"},
                        done : 0..10, manifest : Manifests \cup {NoManifest}]
      BY <1>6 DEF P!Reopened, Provisioned, Typed
    <2>2. prov.manifest = man[a]
      BY <1>6 DEF P!OtherManifest
    <2>3. Row'
      BY <1>1, <1>6, <2>1 DEF Provisioned, Row, Built
    <2>4. PICK l \in 0..10 : l = prov.done
      BY DEF Provisioned, Typed
    <2>5. l \in 1..9
      BY <1>6, <2>4 DEF Provisioned, Typed, Row
    <2>6. BuiltNext(l)
      BY <1>1, <1>6, <2>4 DEF Provisioned, Row, Built, BuiltNext
    <2>7. Moves(a, "execute", l, o)
      BY <1>1, <1>3, <1>6, <2>4 DEF P!Goto, Moves
    <2>8. world \subseteq world' /\ prov.status # "active"
      BY <1>6
    <2>9. /\ prov'.status # "none" /\ prov'.manifest = prov.manifest /\ prov'.manifest = man[a]
          /\ prov' \in [status : {"none", "provisioning", "failed", "active"},
                        done : 0..10, manifest : Manifests \cup {NoManifest}]
      BY <2>1, <2>2
    <2> QED
      BY <1>1, <1>4, <2>3, <2>5, <2>6, <2>7, <2>8, <2>9, ApplyMoves
  <1>7. CASE P!Return(a, "failed") /\ UNCHANGED <<tenant, prov, world, listed>>
    BY <1>1, <1>4, <1>7, ApplyTurns DEF P!Return, P!Goto
  <1> QED
    BY <1>5, <1>6, <1>7 DEF P!StartApply

\* Where an apply that executes stands.
LEMMA AtStep ==
  ASSUME Provisioned, NEW a \in P!Appliers, call[a] = "execute"
  PROVE  /\ listed[a] \in 1..9 /\ Built(listed[a])
         /\ (P!StepOf(a) = "write_secrets" <=> listed[a] = 1)
         /\ (P!StepOf(a) = "activate" <=> listed[a] = 9)
  <1>1. listed[a] \in 1..9 /\ Built(listed[a])
    BY DEF Provisioned, Applier, AtWork
  <1>2. listed[a] \in {1, 2, 3, 4, 5, 6, 7, 8, 9}
    BY <1>1
  <1> QED
    BY <1>1, <1>2, Ten DEF P!StepOf

\* An apply that has done its next step on the host goes on to record it.
LEMMA DoneOnHost ==
  ASSUME Provisioned, NEW a \in P!Appliers, call[a] \in {"execute", "write"}, listed[a] < 9,
         world' = world \cup {P!PROVISIONING_STEPS[listed[a] + 1]}, secret' = "written",
         secret = "written" \/ call[a] = "write",
         P!Goto(a, "mark"), UNCHANGED <<tenant, prov, man, listed, out, jobOf, job, ask, target>>
  PROVE  Provisioned'
  <1>1. PICK l \in 0..10, o \in {"none", "active", "failed"} : l = listed[a] /\ o = out[a]
    BY DEF Provisioned, Typed
  <1>2. Moves(a, "mark", l, o)
    BY <1>1 DEF Provisioned, Typed, P!Goto, Moves
  <1>3. l \in 1..9 /\ l < 9 /\ BuiltNext(l) /\ P!PROVISIONING_STEPS[l + 1] \in world'
    BY <1>1 DEF Provisioned, Applier, Built, AtWork, BuiltNext
  <1>4. /\ prov'.status # "none" /\ prov'.manifest = man[a] /\ prov'.manifest = prov.manifest
        /\ prov.status = "active" => prov'.status = "active"
    BY DEF Provisioned, Applier, AtWork
  <1>5. Row'
    BY DEF Provisioned, Row, Built
  <1>6. /\ prov' \in [status : {"none", "provisioning", "failed", "active"},
                      done : 0..10, manifest : Manifests \cup {NoManifest}]
        /\ world \subseteq world'
    BY DEF Provisioned, Typed
  <1> QED
    BY <1>2, <1>3, <1>4, <1>5, <1>6, ApplyMoves

\* A call of an apply that fails.
LEMMA FailsOnHost ==
  ASSUME Provisioned, NEW a \in P!Appliers, call[a] \in AtWork, P!Goto(a, "fail"),
         UNCHANGED <<tenant, prov, world, man, listed, out, jobOf, job, ask, target>>,
         secret' = secret \/ (call[a] = "write" /\ secret' = "absent")
  PROVE  Provisioned'
  <1>1. PICK o \in {"none", "active", "failed"} : o = out[a]
    BY DEF Provisioned, Typed
  <1>2. out' = [out EXCEPT ![a] = o]
    BY <1>1 DEF Provisioned, Typed
  <1>3. secret' \in {"absent", "empty", "written"}
    BY DEF Provisioned, Typed
  <1> QED
    BY <1>2, <1>3, ApplyTurns DEF P!Goto

LEMMA ExecuteStepProvisions ==
  ASSUME Provisioned, NEW a \in P!Appliers, P!ExecuteStep(a)
  PROVE  Provisioned'
  <1>1. UNCHANGED <<tenant, prov, secret, man, listed, out, jobOf, job, ask, target>> /\ call[a] = "execute"
    BY DEF P!ExecuteStep, P!requests
  <1>2. listed[a] \in 2..8 /\ secret = "written"
    BY <1>1, AtStep DEF P!ExecuteStep, Built
  <1>3. CASE world' = world \cup {P!StepOf(a)} /\ P!Goto(a, "mark")
    BY <1>1, <1>2, <1>3, DoneOnHost DEF P!StepOf
  <1>4. CASE P!Goto(a, "fail") /\ UNCHANGED world
    BY <1>1, <1>4, FailsOnHost DEF AtWork
  <1> QED
    BY <1>3, <1>4 DEF P!ExecuteStep

\* The file that does not exist is created empty by one apply ...
LEMMA OpenSecretProvisions ==
  ASSUME Provisioned, NEW a \in P!Appliers, P!OpenSecret(a)
  PROVE  Provisioned'
  <1>1. UNCHANGED <<tenant, prov, man, listed, out, jobOf, job, ask, target>> /\ call[a] = "execute"
    BY DEF P!OpenSecret, P!requests
  <1>2. listed[a] = 1 /\ Built(1)
    BY <1>1, AtStep DEF P!OpenSecret
  <1>3. CASE secret = "absent" /\ secret' = "empty" /\ P!Goto(a, "write") /\ UNCHANGED world
    <2>1. PICK l \in 1..9, o \in {"none", "active", "failed"} : l = 1 /\ l = listed[a] /\ o = out[a]
      BY <1>2 DEF Provisioned, Typed
    <2>2. Moves(a, "write", l, o)
      BY <1>1, <1>2, <1>3, <2>1 DEF Provisioned, Typed, P!Goto, Moves
    <2>3. BuiltNext(l) /\ l = 1
      BY <1>2, <1>3, <2>1 DEF Built, BuiltNext
    <2>4. /\ prov'.status # "none" /\ prov'.manifest = man[a] /\ prov'.manifest = prov.manifest
          /\ prov.status = "active" => prov'.status = "active"
      BY <1>1 DEF Provisioned, Applier, AtWork
    <2>5. Row'
      BY <1>1, <1>3 DEF Provisioned, Typed, Row, Built
    <2>6. /\ prov' \in [status : {"none", "provisioning", "failed", "active"},
                        done : 0..10, manifest : Manifests \cup {NoManifest}]
          /\ world \subseteq world'
      BY <1>1, <1>3 DEF Provisioned, Typed
    <2>7. secret = "absent" /\ secret' = "empty" /\ secret' \in {"absent", "empty", "written"}
      BY <1>3
    <2>8. l \in 0..10 /\ l \in 1..9
      OBVIOUS
    <2> QED
      BY <2>2, <2>3, <2>4, <2>5, <2>6, <2>7, <2>8, ApplyMoves, Zenon
  <1>4. CASE P!Goto(a, "fail") /\ UNCHANGED <<secret, world>>
    BY <1>1, <1>4, FailsOnHost DEF AtWork
  <1>5. CASE /\ secret = "written" /\ world' = world \cup {"write_secrets"}
             /\ P!Goto(a, "mark") /\ UNCHANGED secret
    <2>1. P!PROVISIONING_STEPS[listed[a] + 1] = "write_secrets"
      BY <1>2, Ten
    <2> QED
      BY <1>1, <1>2, <1>5, <2>1, DoneOnHost
  <1> QED
    BY <1>3, <1>4, <1>5 DEF P!OpenSecret

\* ... which alone writes it.
LEMMA WriteSecretProvisions ==
  ASSUME Provisioned, NEW a \in P!Appliers, P!WriteSecret(a)
  PROVE  Provisioned'
  <1>1. UNCHANGED <<tenant, prov, man, listed, out, jobOf, job, ask, target>> /\ call[a] = "write"
    BY DEF P!WriteSecret, P!requests
  <1>2. listed[a] = 1 /\ P!PROVISIONING_STEPS[listed[a] + 1] = "write_secrets"
    BY <1>1, Ten DEF Provisioned, Applier
  <1>3. CASE secret' = "written" /\ world' = world \cup {"write_secrets"} /\ P!Goto(a, "mark")
    BY <1>1, <1>2, <1>3, DoneOnHost
  <1>4. CASE secret' = "absent" /\ P!Goto(a, "fail") /\ UNCHANGED world
    BY <1>1, <1>4, FailsOnHost DEF AtWork
  <1> QED
    BY <1>3, <1>4 DEF P!WriteSecret

-----------------------------------------------------------------------------
(* Recording *)

\* Only the row's next step is recorded, and it is built.
LEMMA MarkCompletedProvisions ==
  ASSUME Provisioned, NEW a \in P!Appliers, P!MarkCompleted(a)
  PROVE  Provisioned'
  <1>1. UNCHANGED <<tenant, world, secret, man, out, jobOf, job, ask, target>> /\ call[a] = "mark"
    BY DEF P!MarkCompleted, P!host, P!requests
  <1>2. CASE P!Goto(a, "fail") /\ UNCHANGED <<prov, listed>>
    BY <1>1, <1>2, FailsOnHost DEF AtWork
  <1>3. CASE /\ P!Current(a) /\ prov' = [prov EXCEPT !.done = @ + 1]
             /\ listed' = [listed EXCEPT ![a] = prov'.done] /\ P!Goto(a, "execute")
    <2>1. PICK l \in 0..10, o \in {"none", "active", "failed"} : l = listed[a] + 1 /\ o = out[a]
      BY <1>1 DEF Provisioned, Typed, Applier, AtWork
    <2>2. /\ l \in 2..9 /\ Built(l) /\ l = prov.done + 1 /\ prov.status = "provisioning"
          /\ prov.manifest = man[a]
      BY <1>1, <1>3, <2>1 DEF Provisioned, Typed, Applier, AtWork, P!Current
    <2>3. /\ prov'.done = l /\ prov'.status = "provisioning" /\ prov'.manifest = prov.manifest
          /\ prov' \in [status : {"none", "provisioning", "failed", "active"},
                        done : 0..10, manifest : Manifests \cup {NoManifest}]
      BY <1>3, <2>2 DEF Provisioned, Typed
    <2>4. Moves(a, "execute", l, o)
      BY <1>1, <1>3, <2>1, <2>3 DEF Provisioned, Typed, P!Goto, Moves
    <2>5. BuiltNext(l)
      BY <1>1, <2>2 DEF Built, BuiltNext
    <2>6. Row'
      BY <1>1, <2>2, <2>3, <2>5 DEF Provisioned, Row, Built, BuiltNext
    <2>7. world \subseteq world' /\ secret' \in {"absent", "empty", "written"} /\ l \in 1..9
      BY <1>1, <2>2 DEF Provisioned, Typed
    <2> QED
      BY <1>1, <2>2, <2>3, <2>4, <2>5, <2>6, <2>7, ApplyMoves
  <1> QED
    BY <1>2, <1>3 DEF P!MarkCompleted

\* Nine steps are built when the last is taken.
LEMMA ActivateProvisions ==
  ASSUME Provisioned, NEW a \in P!Appliers, P!Activate(a)
  PROVE  Provisioned'
  <1>1. UNCHANGED <<secret, man, jobOf, job, ask, target>> /\ call[a] = "execute"
    BY DEF P!Activate, P!requests
  <1>2. listed[a] = 9 /\ Built(9)
    BY <1>1, AtStep DEF P!Activate
  <1>3. CASE P!Goto(a, "fail") /\ UNCHANGED <<tenant, prov, world, listed, out>>
    BY <1>1, <1>3, FailsOnHost DEF AtWork
  <1>4. CASE /\ P!Current(a) /\ tenant' = "active" /\ world' = world \cup {"activate"}
             /\ prov' = [prov EXCEPT !.status = "active", !.done = P!AllSteps]
             /\ listed' = [listed EXCEPT ![a] = P!AllSteps] /\ P!Return(a, "active")
    <2>1. prov.manifest = man[a]
      BY <1>1 DEF Provisioned, Applier, AtWork
    <2>2. /\ prov'.done = 10 /\ prov'.status = "active" /\ prov'.manifest = prov.manifest
          /\ prov' \in [status : {"none", "provisioning", "failed", "active"},
                        done : 0..10, manifest : Manifests \cup {NoManifest}]
      <3>1. PICK q : q = [prov EXCEPT !.status = "active"]
        OBVIOUS
      <3>2. /\ q.status = "active" /\ q.manifest = prov.manifest
            /\ q \in [status : {"none", "provisioning", "failed", "active"},
                      done : 0..10, manifest : Manifests \cup {NoManifest}]
        BY <3>1 DEF Provisioned, Typed
      <3>3. prov' = [q EXCEPT !.done = 10]
        BY <1>4, <3>1, Ten
      <3> QED
        BY <3>2, <3>3
    <2>3. \A i \in 1..10 : P!PROVISIONING_STEPS[i] \in world'
      <3>1. ASSUME NEW i \in 1..10 PROVE P!PROVISIONING_STEPS[i] \in world'
        <4>1. i \in 1..9 \/ i = 10
          OBVIOUS
        <4> QED
          BY <1>2, <1>4, <4>1, Ten DEF Built
      <3> QED
        BY <3>1
    <2>4. secret' = "written"
      BY <1>1, <1>2 DEF Built
    <2>5. Row'
      BY <1>4, <2>2, <2>3, <2>4 DEF Row, Built
    <2>6. Moves(a, "report", 10, "active")
      BY <1>1, <1>4, Ten DEF P!Return, P!Goto, Moves
    <2>7. world \subseteq world' /\ secret' = secret /\ secret' \in {"absent", "empty", "written"}
      BY <1>1, <1>4 DEF Provisioned, Typed
    <2> QED
      BY <2>1, <2>2, <2>5, <2>6, <2>7, ApplyMoves DEF AtWork
  <1> QED
    BY <1>3, <1>4 DEF P!Activate

\* A row that has moved on is left alone.
LEMMA MarkFailedProvisions ==
  ASSUME Provisioned, NEW a \in P!Appliers, P!MarkFailed(a)
  PROVE  Provisioned'
  <1>1. UNCHANGED <<tenant, world, secret, man, listed, jobOf, job, ask, target>>
    BY DEF P!MarkFailed, P!host, P!requests
  <1>2. secret' \in {"absent", "empty", "written"}
    BY <1>1 DEF Provisioned, Typed
  <1>3. prov' = prov \/ (prov' = [prov EXCEPT !.status = "failed"] /\ prov.status = "provisioning")
    BY DEF P!MarkFailed, P!Current
  <1> QED
    BY <1>1, <1>2, <1>3, ApplyTurns DEF P!MarkFailed, P!Return, P!Goto

\* The process ends, or dies and leaves its job behind.
LEMMA ForgetProvisions ==
  ASSUME Provisioned, NEW a \in P!Appliers, NEW o \in {"none", "active", "failed"}, P!Forget(a, o),
         UNCHANGED <<tenant, prov, world, secret, ask, target>>,
         job' \in [P!Jobs -> [state : P!JobStates, by : P!Appliers \cup {Nobody},
                              manifest : Manifests \cup {NoManifest}]],
         \A j \in P!Jobs :
            /\ job'[j].manifest = job[j].manifest
            /\ job'[j].state = "none" => job[j].state = "none"
            /\ job'[j].state = "succeeded" => job[j].state = "succeeded"
                  \/ (prov.status = "active" /\ prov.manifest = job[j].manifest)
  PROVE  Provisioned'
  <1>1. Grows
    BY DEF Grows
  <1>2. Row'
    BY DEF Provisioned, Row, Built
  <1>3. /\ call' = [call EXCEPT ![a] = "idle"] /\ man' = [man EXCEPT ![a] = NoManifest]
        /\ listed' = [listed EXCEPT ![a] = 0] /\ jobOf' = [jobOf EXCEPT ![a] = 0]
        /\ out' = [out EXCEPT ![a] = "none"] \/ out' = [out EXCEPT ![a] = o]
    BY DEF P!Forget
  <1>4. Typed'
    BY <1>3 DEF Provisioned, Typed, P!JobStates, P!Jobs, P!Appliers
  <1>5. call'[a] = "idle" /\ jobOf'[a] = 0
    BY <1>3 DEF Provisioned, Typed
  <1>6. Applier(a)'
    BY <1>5 DEF Applier, AtWork, P!Jobs
  <1>7. ASSUME NEW b \in P!Appliers \ {a}
        PROVE  /\ call'[b] = call[b] /\ man'[b] = man[b] /\ listed'[b] = listed[b]
               /\ out'[b] = out[b] /\ jobOf'[b] = jobOf[b]
               /\ call[b] = "write" => secret' = secret /\ call'[a] # "write"
    BY <1>3, <1>5 DEF Provisioned, Typed
  <1> QED
    BY <1>1, <1>2, <1>4, <1>6, <1>7, ApplierSteps

\* A worker that still runs its job reports the outcome of its own apply.
LEMMA ReportJobProvisions ==
  ASSUME Provisioned, NEW a \in P!Appliers, P!ReportJob(a)
  PROVE  Provisioned'
  <1>1. UNCHANGED <<tenant, prov, world, secret, ask, target>> /\ call[a] = "report"
    BY DEF P!ReportJob, P!host, P!requests
  <1>2. PICK o \in {"none", "active", "failed"} : o = out[a]
    BY DEF Provisioned, Typed
  <1>3. P!Forget(a, o)
    BY <1>2 DEF P!ReportJob
  <1>4. PICK j \in P!Jobs \cup {0}, state \in {"succeeded", "failed"} :
            /\ j = jobOf[a] /\ (job' = job \/ job' = [job EXCEPT ![j].state = state])
            /\ state = "succeeded" => out[a] = "active"
    BY DEF P!ReportJob, P!JobOutcome, Provisioned, Typed
  <1>5. j \in P!Jobs /\ state = "succeeded" => prov.status = "active" /\ prov.manifest = job[j].manifest
    BY <1>1, <1>4 DEF Provisioned, Applier
  <1>6. job' \in [P!Jobs -> [state : P!JobStates, by : P!Appliers \cup {Nobody},
                             manifest : Manifests \cup {NoManifest}]]
    BY <1>4 DEF Provisioned, Typed, P!JobStates
  <1>7. ASSUME NEW i \in P!Jobs
        PROVE  /\ job'[i].manifest = job[i].manifest
               /\ job'[i].state = "none" => job[i].state = "none"
               /\ job'[i].state = "succeeded" => job[i].state = "succeeded"
                     \/ (prov.status = "active" /\ prov.manifest = job[i].manifest)
    BY <1>4, <1>5 DEF Provisioned, Typed
  <1> QED
    BY <1>1, <1>3, <1>6, <1>7, ForgetProvisions

LEMMA CrashProvisions ==
  ASSUME Provisioned, NEW a \in P!Appliers, P!Crash(a)
  PROVE  Provisioned'
  <1>1. UNCHANGED <<tenant, prov, world, secret, ask, target, job>> /\ P!Forget(a, "none")
    BY DEF P!Crash, P!host, P!requests
  <1>2. job' \in [P!Jobs -> [state : P!JobStates, by : P!Appliers \cup {Nobody},
                             manifest : Manifests \cup {NoManifest}]]
    BY <1>1 DEF Provisioned, Typed
  <1> QED
    BY <1>1, <1>2, ForgetProvisions

LEMMA NextProvisions ==
  ASSUME Provisioned, [P!Next]_P!vars
  PROVE  Provisioned'
  <1>1. CASE \E j \in P!Jobs, m \in Manifests : P!CreateJob(j, m)
    BY <1>1, CreateJobProvisions
  <1>2. CASE \E w \in Workers, j \in P!Jobs : P!ClaimJob(w, j)
    BY <1>2, ClaimJobProvisions
  <1>3. CASE \E s \in Shells, m \in Manifests : P!RunShell(s, m)
    BY <1>3, RunShellProvisions
  <1>4. CASE \E o \in Operators :
               \/ \E op \in {"cancel", "retry", "cleanup"}, j \in P!Jobs : P!AdmitEdit(o, op, j)
               \/ P!CommitEdit(o)
    BY <1>4, AdmitEditProvisions, CommitEditProvisions
  <1>5. CASE \E a \in P!Appliers : P!Apply(a) \/ P!Crash(a)
    BY <1>5, PlanApplyProvisions, StartApplyProvisions, ExecuteStepProvisions, OpenSecretProvisions,
       WriteSecretProvisions, MarkCompletedProvisions, ActivateProvisions, MarkFailedProvisions,
       ReportJobProvisions, CrashProvisions DEF P!Apply
  <1>6. CASE UNCHANGED P!vars
    <2>1. UNCHANGED <<tenant, prov, world, secret, call, man, listed, out, jobOf, job, ask, target>>
      BY <1>6 DEF P!vars, P!host, P!local, P!requests
    <2>2. Typed'
      BY <2>1 DEF Provisioned, Typed, P!JobStates, P!Jobs, P!Appliers
    <2> QED
      BY <2>1, <2>2, RequestSteps
  <1> QED
    BY <1>1, <1>2, <1>3, <1>4, <1>5, <1>6 DEF P!Next

-----------------------------------------------------------------------------
(* Theorems *)

\* Every apply holds only steps that are built, works on a row of its own manifest and
\* writes the secrets alone, in every reachable state (provisioning.py apply;
\* postgres_control.py mark_completed, activate).
THEOREM ProvisioningInductive == P!Spec => []Provisioned
  <1>1. P!Init => Provisioned
    BY StartProvisioned
  <1>2. Provisioned /\ [P!Next]_P!vars => Provisioned'
    BY NextProvisions
  <1> QED
    BY <1>1, <1>2, PTL DEF P!Spec

\* What the Control Store lists is in place and the Tenant is active exactly when all of
\* it is, however many applies overtake, resume and crash.
THEOREM RecordedDone == P!Spec => []RecordedIsDone
  <1>1. Provisioned => RecordedIsDone
    BY Ten, SameRecord DEF Provisioned, Row, Built, RecordedIsDone
  <1> QED
    BY <1>1, ProvisioningInductive, PTL

\* A job that has succeeded built the Tenant from its own manifest, though an Operator
\* may have cancelled, retried or cleaned it up and another apply may have overtaken it.
THEOREM SucceededActive == P!Spec => []SucceededIsActive
  <1>1. Provisioned => SucceededIsActive
    BY SameRecord DEF Provisioned, Row, Succeeded, SucceededIsActive
  <1> QED
    BY <1>1, ProvisioningInductive, PTL

=============================================================================
