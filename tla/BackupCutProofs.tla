----------------------------- MODULE BackupCutProofs -----------------------------
(***************************************************************************)
(* Recovery points for any number of clients, items, backups and drills.   *)
(* The lock stops PostgreSQL but not the graph, and the stores are copied  *)
(* one after the other; what makes them one cut is that a quiescent Tenant *)
(* gives the worker nothing to write. IInv follows that from the delivery  *)
(* that is under way (Projected) over the phases of a capture (Captured)   *)
(* to the drills (Restored).                                               *)
(***************************************************************************)
EXTENDS BackupCut, TLAPS

Calls == Capturing \cup {"idle", "locking", "exit", "resuming", "encrypt", "encrypted", "publish",
                         "evidence", "done", "dead"}
Phases == {"none", "workspace", "decrypted", "created", "graph", "postgres", "databases", "restored",
           "verified", "preserved", "removed"}
Dumps == [pg : [Items -> States], graph : SUBSET Items, routed : BOOLEAN]
Exposed == [artifacts : BOOLEAN, intact : BOOLEAN, manifest : BOOLEAN, receipt : BOOLEAN]

WorldTypes ==
    /\ active \in BOOLEAN /\ neo4j \in BOOLEAN
    /\ barrier \in Backups \cup {NoBackup} /\ lock \in Backups \cup {NoBackup}
    /\ proved \in Backups \cup {NoBackup}
    /\ pg \in [Items -> States] /\ graph \in SUBSET Items
    /\ at \in [Mutators -> {"idle", "routed", "written"}] /\ item \in [Mutators -> Items \cup {NoOne}]
    /\ drops \in 0..MaxDrops /\ faults \in 0..MaxFaults
BackupTypes ==
    /\ pc \in [Backups -> Calls] /\ expect \in [Backups -> [Items -> States]]
    /\ ok \in [Backups -> BOOLEAN] /\ dump \in [Backups -> Dumps] /\ store \in [Backups -> Exposed]
DrillTypes ==
    /\ drill \in [Targets -> Phases] /\ result \in [Targets -> {"none", "passed", "failed"}]
    /\ target \in [Targets -> [of : Backups \cup {NoBackup}, data : Dumps]]

\* The graph holds what PostgreSQL calls applied; what the worker is at is not settled.
Projected ==
    /\ \A p \in Mutators : at[p] # "idle" => item[p] \in Items
    /\ at[Worker] # "idle" => pg[item[Worker]] \in {"retaining", "erasing"}
    /\ at[Worker] = "written" => (item[Worker] \in graph <=> pg[item[Worker]] = "retaining")
    /\ \A i \in Items : /\ pg[i] \in {"none", "erased"} => i \notin graph
                        /\ pg[i] = "applied" => i \in graph

\* How far a capture has come.
Locked(b) == pc[b] \in Capturing \cup {"exit"}
Copied(b) == pc[b] = "exit" /\ ok[b]
Sealed(b) == pc[b] \in Capturing \ {"locked"} \/ Copied(b)
Expecting(b) == pc[b] \in Capturing \ {"locked", "quiet"} \/ Copied(b)
Dumped(b) == pc[b] \in {"tenant", "stopped", "copied"} \/ Copied(b)
Archived(b) == (pc[b] = "copied" /\ ok[b]) \/ Copied(b)
Leaving(b) ==
    \/ pc[b] = "resuming" /\ ok[b]
    \/ pc[b] \in {"encrypt", "encrypted", "publish", "evidence"}
    \/ store[b].manifest

Coherent(b) ==
    /\ dump[b].pg = expect[b]
    /\ dump[b].graph = Applied(expect[b]) /\ dump[b].graph # {}
    /\ \A i \in Items : expect[b][i] \notin {"retaining", "erasing"}

Captured(b) ==
    /\ pc[b] \in {"idle", "locking"} => ~ok[b]
    /\ Locked(b) => lock = b
    /\ Sealed(b) => Quiescent
    /\ Expecting(b) => expect[b] = pg /\ Applied(pg) # {}
    /\ Dumped(b) => dump[b].pg = pg
    /\ Archived(b) => dump[b].graph = Applied(pg)
    /\ Leaving(b) => Coherent(b)
    /\ store[b].manifest => pc[b] \in {"evidence", "done", "dead"}

\* How far a drill has come with the point it restores.
Restored(t) ==
    /\ drill[t] \in Phases \ {"none", "verified", "preserved", "removed"} =>
         target[t].of \in Backups /\ store[target[t].of].manifest
    /\ drill[t] \in {"graph", "postgres", "databases", "restored"} =>
         target[t].data.graph = dump[target[t].of].graph
    /\ drill[t] \in {"databases", "restored"} =>
         target[t].data.pg = dump[target[t].of].pg /\ target[t].data.routed
    /\ result[t] # "failed"

IInv ==
    /\ WorldTypes /\ BackupTypes /\ DrillTypes /\ Projected
    /\ \A b \in Backups : Captured(b)
    /\ \A t \in Targets : Restored(t)

-----------------------------------------------------------------------------
LEMMA Types == IInv => TypeOK
  BY DEF IInv, WorldTypes, BackupTypes, DrillTypes, TypeOK, Calls, Phases, Dumps, Exposed

LEMMA Numbers == NoBackup \notin Backups /\ Worker \in Mutators
  BY BackupAssumption DEF NoBackup, Backups, Mutators

\* When nothing awaits its projection, the graph is what PostgreSQL says.
LEMMA QuietGraph ==
  ASSUME IInv, Quiescent
  PROVE  graph = Applied(pg) /\ at[Worker] = "idle"
  <1>1. at[Worker] = "idle"
    BY Numbers DEF IInv, Projected, Quiescent
  <1>2. \A i \in Items : pg[i] \in {"none", "applied", "erased"}
    BY DEF IInv, WorldTypes, Quiescent, States
  <1> QED
    BY <1>1, <1>2 DEF IInv, Projected, WorldTypes, Applied

LEMMA InitInv == Init => IInv
  <1> SUFFICES ASSUME Init PROVE IInv
    OBVIOUS
  <1>1. Empty \in [Items -> States] /\ \A i \in Items : Empty[i] = "none"
    BY DEF Empty, States
  <1>2. Nothing \in Dumps
    BY <1>1 DEF Nothing, Dumps
  <1>3. WorldTypes
    BY <1>1, BackupAssumption DEF Init, WorldTypes
  <1>4. BackupTypes
    BY <1>1, <1>2 DEF Init, BackupTypes, Calls, Exposed
  <1>5. DrillTypes
    BY <1>2 DEF Init, DrillTypes, Phases
  <1>6. Projected
    BY <1>1, Numbers DEF Init, Projected
  <1>7. ASSUME NEW b \in Backups PROVE Captured(b)
    <2>1. pc[b] = "idle" /\ ~ok[b] /\ ~store[b].manifest
      BY DEF Init
    <2> QED
      BY <2>1 DEF Captured, Locked, Copied, Sealed, Expecting, Dumped, Archived, Leaving, Capturing
  <1>8. ASSUME NEW t \in Targets PROVE Restored(t)
    BY DEF Init, Restored
  <1> QED
    BY <1>3, <1>4, <1>5, <1>6, <1>7, <1>8 DEF IInv

-----------------------------------------------------------------------------
(* Mutations *)

\* A step that touches neither PostgreSQL nor a backup nor a drill: only Projected is
\* at stake, and no graph is written under a sealed capture.
LEMMA MutatorSteps ==
  ASSUME IInv, WorldTypes', Projected', UNCHANGED <<lock, pg, backup, store, drills>>
  PROVE  IInv'
  <1>1. BackupTypes' /\ DrillTypes'
    BY DEF IInv, BackupTypes, DrillTypes, backup, drills
  <1>2. ASSUME NEW b \in Backups PROVE Captured(b)'
    <2>1. Captured(b)
      BY DEF IInv
    <2> QED
      BY <2>1 DEF Captured, Locked, Copied, Sealed, Expecting, Dumped, Archived, Leaving, Coherent,
                  Quiescent, Applied, backup
  <1>3. ASSUME NEW t \in Targets PROVE Restored(t)'
    BY DEF IInv, Restored, backup, drills
  <1> QED
    BY <1>1, <1>2, <1>3 DEF IInv

LEMMA MutateKeeps ==
  ASSUME IInv, Mutate
  PROVE  IInv'
  <1>0. UNCHANGED <<active, barrier, lock, pg, graph, neo4j, backup, store, proved, drills, faults>>
    BY DEF Mutate, RouteRequest, RouteDelivery, DropMutator, tenantStores
  <1>1. PICK p \in Mutators, phase \in {"idle", "routed"}, i \in Items \cup {NoOne} :
          /\ at' = [at EXCEPT ![p] = phase] /\ item' = [item EXCEPT ![p] = i]
          /\ phase = "routed" => i \in Items /\ (p = Worker => pg[i] \in {"retaining", "erasing"})
    <2>1. ASSUME NEW c \in Clients, NEW i \in Items, RouteRequest(c, i)
          PROVE  /\ c \in Mutators /\ c # Worker /\ at' = [at EXCEPT ![c] = "routed"]
                 /\ item' = [item EXCEPT ![c] = i]
      BY <2>1, BackupAssumption DEF RouteRequest, Put, Mutators
    <2>2. ASSUME NEW i \in Items, RouteDelivery(i)
          PROVE  /\ pg[i] \in {"retaining", "erasing"} /\ at' = [at EXCEPT ![Worker] = "routed"]
                 /\ item' = [item EXCEPT ![Worker] = i]
      BY <2>2 DEF RouteDelivery, Put
    <2>3. ASSUME NEW p \in Mutators, DropMutator(p)
          PROVE  at' = [at EXCEPT ![p] = "idle"] /\ item' = [item EXCEPT ![p] = NoOne]
      BY <2>3 DEF DropMutator, Put
    <2> QED
      BY <2>1, <2>2, <2>3, Numbers DEF Mutate
  <1>2. drops' \in 0..MaxDrops
    BY BackupAssumption DEF Mutate, RouteRequest, RouteDelivery, DropMutator, IInv, WorldTypes
  <1>3. WorldTypes'
    BY <1>0, <1>1, <1>2 DEF IInv, WorldTypes
  <1>4. Projected'
    BY <1>0, <1>1, Numbers DEF IInv, WorldTypes, Projected
  <1> QED
    BY <1>0, <1>3, <1>4, MutatorSteps

LEMMA WriteGraphKeeps ==
  ASSUME IInv, WriteGraph
  PROVE  IInv'
  <1> DEFINE i == item[Worker]
  <1>0. /\ UNCHANGED <<active, barrier, lock, pg, neo4j, drops, backup, store, proved, drills, faults>>
        /\ at[Worker] = "routed" /\ i \in Items /\ pg[i] \in {"retaining", "erasing"}
    BY Numbers DEF WriteGraph, IInv, Projected
  <1>1. CASE /\ graph' = (IF pg[i] = "retaining" THEN graph \cup {i} ELSE graph \ {i})
             /\ Put(Worker, "written", i)
    <2>1. WorldTypes'
      BY <1>0, <1>1, Numbers DEF IInv, WorldTypes, Put
    <2>2. Projected'
      BY <1>0, <1>1, Numbers DEF IInv, WorldTypes, Projected, Put
    <2> QED
      BY <1>0, <2>1, <2>2, MutatorSteps
  <1>2. CASE graph' = graph /\ Put(Worker, "idle", NoOne)
    <2>1. WorldTypes'
      BY <1>0, <1>2, Numbers DEF IInv, WorldTypes, Put
    <2>2. Projected'
      BY <1>0, <1>2, Numbers DEF IInv, WorldTypes, Projected, Put
    <2> QED
      BY <1>0, <2>1, <2>2, MutatorSteps
  <1> QED
    BY <1>1, <1>2 DEF WriteGraph

\* A transaction commits only while nobody holds the lock, so under no capture.
LEMMA CommitTxKeeps ==
  ASSUME IInv, NEW p \in Mutators, CommitTx(p)
  PROVE  IInv'
  <1>0. /\ UNCHANGED <<active, barrier, lock, graph, neo4j, drops, backup, store, proved, drills, faults>>
        /\ at[p] = (IF p = Worker THEN "written" ELSE "routed") /\ lock = NoBackup
        /\ pg' = [pg EXCEPT ![item[p]] = Committed(pg[item[p]], p)]
        /\ at' = [at EXCEPT ![p] = "idle"] /\ item' = [item EXCEPT ![p] = NoOne]
    BY DEF CommitTx, SharedLockFree, Put
  <1>1. item[p] \in Items /\ pg[item[p]] \in States
    BY <1>0 DEF IInv, WorldTypes, Projected
  <1>2. Committed(pg[item[p]], p) \in States
    BY <1>1 DEF Committed, States
  <1>3. WorldTypes'
    BY <1>0, <1>1, <1>2 DEF IInv, WorldTypes
  <1>4. BackupTypes' /\ DrillTypes'
    BY <1>0 DEF IInv, BackupTypes, DrillTypes, backup, drills
  <1>5. Projected'
    <2>1. CASE p = Worker
      <3>1. Committed(pg[item[p]], p) = (IF pg[item[p]] = "retaining" THEN "applied" ELSE "erased")
        BY <1>0, <2>1 DEF IInv, Projected, Committed
      <3> QED
        BY <1>0, <1>1, <2>1, <3>1 DEF IInv, WorldTypes, Projected
    <2>2. CASE p # Worker
      <3>1. \/ Committed(pg[item[p]], p) = pg[item[p]]
            \/ pg[item[p]] = "none" /\ Committed(pg[item[p]], p) = "retaining"
            \/ pg[item[p]] = "applied" /\ Committed(pg[item[p]], p) = "erasing"
        BY <2>2 DEF Committed
      <3>2. at'[Worker] = at[Worker] /\ item'[Worker] = item[Worker]
        BY <1>0, <2>2, Numbers DEF IInv, WorldTypes
      <3>3. at[Worker] # "idle" => pg'[item[Worker]] = pg[item[Worker]]
        BY <1>0, <1>1, <3>1, Numbers DEF IInv, WorldTypes, Projected
      <3>4. \A i \in Items : /\ pg'[i] \in {"none", "erased"} => i \notin graph
                             /\ pg'[i] = "applied" => i \in graph
        BY <1>0, <1>1, <3>1 DEF IInv, WorldTypes, Projected
      <3>5. \A q \in Mutators : at'[q] # "idle" => item'[q] \in Items
        BY <1>0 DEF IInv, WorldTypes, Projected
      <3> QED
        BY <1>0, <3>2, <3>3, <3>4, <3>5 DEF IInv, Projected
    <2> QED
      BY <2>1, <2>2
  <1>6. ASSUME NEW b \in Backups PROVE Captured(b)'
    <2>1. Captured(b) /\ ~Locked(b)
      BY <1>0, Numbers DEF IInv, Captured
    <2> QED
      BY <1>0, <2>1 DEF Captured, Locked, Copied, Sealed, Expecting, Dumped, Archived, Leaving, Coherent,
                        Applied, Capturing, backup
  <1>7. ASSUME NEW t \in Targets PROVE Restored(t)'
    BY <1>0 DEF IInv, Restored, backup, drills
  <1> QED
    BY <1>3, <1>4, <1>5, <1>6, <1>7 DEF IInv

-----------------------------------------------------------------------------
(* The steps of one backup *)

\* What a step of b leaves alone: the other backups, a lock one of them holds, and
\* what b has published.
Others(b) ==
    /\ \A a \in Backups \ {b} :
         /\ pc'[a] = pc[a] /\ expect'[a] = expect[a] /\ dump'[a] = dump[a] /\ ok'[a] = ok[a]
         /\ store'[a] = store[a]
         /\ lock = a => lock' = a
    /\ store[b].manifest => store'[b].manifest /\ dump'[b] = dump[b]

LEMMA BackupSteps ==
  ASSUME IInv, NEW b \in Backups, WorldTypes', BackupTypes', Others(b), Captured(b)',
         UNCHANGED <<pg, graph, at, item, drills>>
  PROVE  IInv'
  <1>1. DrillTypes' /\ Projected'
    BY DEF IInv, DrillTypes, Projected, drills
  <1>2. ASSUME NEW a \in Backups PROVE Captured(a)'
    <2>1. CASE a = b
      BY <2>1
    <2>2. CASE a # b
      <3>1. Captured(a)
        BY DEF IInv
      <3> QED
        BY <2>2, <3>1 DEF Captured, Locked, Copied, Sealed, Expecting, Dumped, Archived, Leaving,
                    Coherent, Quiescent, Applied, Others
    <2> QED
      BY <2>1, <2>2
  <1>3. ASSUME NEW t \in Targets PROVE Restored(t)'
    <2>1. Restored(t)
      BY DEF IInv
    <2>2. ASSUME NEW a \in Backups, store[a].manifest PROVE store'[a].manifest /\ dump'[a] = dump[a]
      BY <2>2 DEF Others
    <2> QED
      BY <2>1, <2>2 DEF Restored, Phases, drills
  <1> QED
    BY <1>1, <1>2, <1>3 DEF IInv

FaultCounted == faults' \in 0..MaxFaults

LEMMA FaultTypes ==
  ASSUME IInv, Fault \/ UNCHANGED faults
  PROVE  FaultCounted
  BY BackupAssumption DEF IInv, WorldTypes, Fault, FaultCounted

LEMMA EmptyTypes == Empty \in [Items -> States] /\ Nothing \in Dumps
  <1>1. Empty \in [Items -> States]
    BY DEF Empty, States
  <1> QED
    BY <1>1 DEF Nothing, Dumps

LEMMA SuspendKeeps ==
  ASSUME IInv, NEW b \in Backups, Suspend(b)
  PROVE  IInv'
  <1>1. WorldTypes'
    BY DEF IInv, WorldTypes, Suspend, tenantSide, tenantStores, mutators
  <1>2. BackupTypes'
    BY DEF IInv, BackupTypes, Calls, Suspend, Goto, tenantSide
  <1>3. Others(b)
    BY DEF IInv, BackupTypes, Others, Suspend, Goto, tenantSide
  <1>4. Captured(b)'
    <2>1. Captured(b) /\ pc[b] = "idle" /\ pc'[b] = "locking"
      BY DEF IInv, BackupTypes, Suspend, Goto
    <2>2. ~ok[b] /\ ~store[b].manifest
      BY <2>1 DEF Captured
    <2> QED
      BY <2>1, <2>2 DEF Captured, Locked, Copied, Sealed, Expecting, Dumped, Archived, Leaving,
                  Capturing, Suspend, tenantSide
  <1> QED
    BY <1>1, <1>2, <1>3, <1>4, BackupSteps DEF Suspend, tenantSide, tenantStores, mutators

LEMMA LockKeeps ==
  ASSUME IInv, NEW b \in Backups, Lock(b)
  PROVE  IInv'
  <1>0. FaultCounted
    BY FaultTypes DEF Lock
  <1>1. WorldTypes'
    BY <1>0 DEF IInv, WorldTypes, FaultCounted, Lock, tenantSide, tenantStores, mutators
  <1>2. BackupTypes'
    BY DEF IInv, BackupTypes, Calls, Capturing, Lock, Goto, tenantSide
  <1>3. Others(b)
    BY Numbers DEF IInv, BackupTypes, Others, Lock, LockFree, Goto, tenantSide
  <1>4. Captured(b)'
    <2>1. Captured(b) /\ pc[b] = "locking" /\ ~store'[b].manifest /\ ~ok[b]
      BY DEF IInv, Captured, Lock, tenantSide
    <2>2. \/ pc'[b] = "locked" /\ lock' = b
          \/ pc'[b] = "resuming" /\ ~ok'[b]
      BY <2>1 DEF IInv, BackupTypes, Lock, Goto
    <2> QED
      BY <2>1, <2>2 DEF Captured, Locked, Copied, Sealed, Expecting, Dumped, Archived, Leaving,
                  Capturing
  <1> QED
    BY <1>1, <1>2, <1>3, <1>4, BackupSteps DEF Lock, tenantSide, tenantStores, mutators

LEMMA VerifyQuiescentKeeps ==
  ASSUME IInv, NEW b \in Backups, VerifyQuiescent(b)
  PROVE  IInv'
  <1>0. FaultCounted
    BY FaultTypes DEF VerifyQuiescent
  <1>1. WorldTypes'
    BY <1>0 DEF IInv, WorldTypes, FaultCounted, VerifyQuiescent, tenantSide, tenantStores, mutators
  <1>2. BackupTypes'
    BY DEF IInv, BackupTypes, Calls, Capturing, VerifyQuiescent, Abort, Goto, tenantSide
  <1>3. Others(b)
    BY DEF IInv, BackupTypes, Others, VerifyQuiescent, Abort, Goto, tenantSide
  <1>4. Captured(b)'
    <2>1. Captured(b) /\ pc[b] = "locked" /\ ~store'[b].manifest /\ lock' = b
      BY DEF IInv, Captured, Locked, Capturing, VerifyQuiescent, tenantSide
    <2>2. \/ pc'[b] = "quiet" /\ Quiescent'
          \/ pc'[b] = "exit" /\ ~ok'[b]
      BY DEF IInv, BackupTypes, VerifyQuiescent, Abort, Goto, Quiescent, tenantSide, tenantStores
    <2> QED
      BY <2>1, <2>2 DEF Captured, Locked, Copied, Sealed, Expecting, Dumped, Archived, Leaving,
                  Capturing
  <1> QED
    BY <1>1, <1>2, <1>3, <1>4, BackupSteps DEF VerifyQuiescent, tenantSide, tenantStores, mutators

LEMMA CollectKeeps ==
  ASSUME IInv, NEW b \in Backups, Collect(b)
  PROVE  IInv'
  <1>0. FaultCounted
    BY FaultTypes DEF Collect
  <1>1. WorldTypes'
    BY <1>0 DEF IInv, WorldTypes, FaultCounted, Collect, tenantSide, tenantStores, mutators
  <1>2. BackupTypes'
    BY DEF IInv, WorldTypes, BackupTypes, Calls, Capturing, Collect, Abort, Goto, tenantSide
  <1>3. Others(b)
    BY DEF IInv, BackupTypes, Others, Captured, Collect, Abort, Goto, tenantSide
  <1>4. Captured(b)'
    <2>1. Captured(b) /\ pc[b] = "quiet" /\ ~store'[b].manifest /\ lock' = b /\ Quiescent'
      BY DEF IInv, Captured, Locked, Sealed, Capturing, Collect, Quiescent, tenantSide, tenantStores
    <2>2. \/ pc'[b] = "expected" /\ expect'[b] = pg' /\ Applied(pg') # {}
          \/ pc'[b] = "exit" /\ ~ok'[b]
      BY DEF IInv, BackupTypes, Collect, Abort, Goto, tenantSide, tenantStores
    <2> QED
      BY <2>1, <2>2 DEF Captured, Locked, Copied, Sealed, Expecting, Dumped, Archived, Leaving,
                  Capturing
  <1> QED
    BY <1>1, <1>2, <1>3, <1>4, BackupSteps DEF Collect, tenantSide, tenantStores, mutators

\* Well-typed copies and publications.
LEMMA CopyTypes ==
  ASSUME NEW d \in [Backups -> Dumps], NEW b \in Backups
  PROVE  /\ \A v \in BOOLEAN : [d EXCEPT ![b].routed = v] \in [Backups -> Dumps]
         /\ \A v \in [Items -> States] : [d EXCEPT ![b].pg = v] \in [Backups -> Dumps]
  <1>1. ASSUME NEW v \in BOOLEAN PROVE [d EXCEPT ![b].routed = v] \in [Backups -> Dumps]
    <2>1. [d[b] EXCEPT !.routed = v] \in Dumps
      BY DEF Dumps
    <2> QED
      BY <2>1
  <1>2. ASSUME NEW v \in [Items -> States] PROVE [d EXCEPT ![b].pg = v] \in [Backups -> Dumps]
    <2>1. [d[b] EXCEPT !.pg = v] \in Dumps
      BY DEF Dumps
    <2> QED
      BY <2>1
  <1> QED
    BY <1>1, <1>2

LEMMA ExposedTypes ==
  ASSUME NEW s \in [Backups -> Exposed], NEW b \in Backups
  PROVE  /\ [s EXCEPT ![b].artifacts = TRUE] \in [Backups -> Exposed]
         /\ [s EXCEPT ![b].manifest = TRUE] \in [Backups -> Exposed]
         /\ [s EXCEPT ![b].receipt = TRUE] \in [Backups -> Exposed]
         /\ [s EXCEPT ![b].intact = FALSE] \in [Backups -> Exposed]
  <1>1. /\ [s[b] EXCEPT !.artifacts = TRUE] \in Exposed /\ [s[b] EXCEPT !.manifest = TRUE] \in Exposed
        /\ [s[b] EXCEPT !.receipt = TRUE] \in Exposed /\ [s[b] EXCEPT !.intact = FALSE] \in Exposed
    BY DEF Exposed
  <1> QED
    BY <1>1

LEMMA CopyControlKeeps ==
  ASSUME IInv, NEW b \in Backups, CopyControl(b)
  PROVE  IInv'
  <1>0. FaultCounted
    BY FaultTypes DEF CopyControl
  <1>1. WorldTypes'
    BY <1>0 DEF IInv, WorldTypes, FaultCounted, CopyControl, tenantSide, tenantStores, mutators
  <1>2. BackupTypes'
    <2>1. dump' \in [Backups -> Dumps]
      <3>1. (active /\ barrier = NoBackup) \in BOOLEAN
        OBVIOUS
      <3>2. \A v \in BOOLEAN : [dump EXCEPT ![b].routed = v] \in [Backups -> Dumps]
        BY CopyTypes DEF IInv, BackupTypes
      <3> QED
        BY <3>1, <3>2 DEF CopyControl, IInv, BackupTypes
    <2> QED
      BY <2>1 DEF IInv, BackupTypes, Calls, Capturing, CopyControl, Abort, Goto, tenantSide
  <1>3. Others(b)
    BY DEF IInv, BackupTypes, Others, Captured, CopyControl, Abort, Goto, tenantSide
  <1>4. Captured(b)'
    <2>1. /\ Captured(b) /\ pc[b] = "expected" /\ ~store'[b].manifest /\ lock' = b /\ Quiescent
          /\ expect[b] = pg /\ Applied(pg) # {}
      BY DEF IInv, Captured, Locked, Sealed, Expecting, Dumped, Archived, Capturing, CopyControl, tenantSide
    <2>2. UNCHANGED <<pg, graph>> /\ Quiescent' /\ Applied(pg)' = Applied(pg)
      BY <2>1 DEF CopyControl, Quiescent, Applied, tenantSide, tenantStores
    <2>3. \/ pc'[b] = "control" /\ expect' = expect
          \/ pc'[b] = "exit" /\ ~ok'[b]
      BY DEF IInv, BackupTypes, Dumps, CopyControl, Abort, Goto, tenantSide
    <2> QED
      BY <2>1, <2>2, <2>3 DEF Captured, Locked, Copied, Sealed, Expecting, Dumped, Archived, Leaving,
                  Capturing
  <1> QED
    BY <1>1, <1>2, <1>3, <1>4, BackupSteps DEF CopyControl, tenantSide, tenantStores, mutators

LEMMA CopyTenantKeeps ==
  ASSUME IInv, NEW b \in Backups, CopyTenant(b)
  PROVE  IInv'
  <1>0. FaultCounted
    BY FaultTypes DEF CopyTenant
  <1>1. WorldTypes'
    BY <1>0 DEF IInv, WorldTypes, FaultCounted, CopyTenant, tenantSide, tenantStores, mutators
  <1>2. BackupTypes'
    <2>1. dump' \in [Backups -> Dumps]
      <3>2. [dump EXCEPT ![b].pg = pg] \in [Backups -> Dumps]
        BY CopyTypes DEF IInv, BackupTypes, WorldTypes
      <3> QED
        BY <3>2 DEF CopyTenant, IInv, BackupTypes
    <2> QED
      BY <2>1 DEF IInv, BackupTypes, Calls, Capturing, CopyTenant, Abort, Goto, tenantSide
  <1>3. Others(b)
    BY DEF IInv, BackupTypes, Others, Captured, CopyTenant, Abort, Goto, tenantSide
  <1>4. Captured(b)'
    <2>1. /\ Captured(b) /\ pc[b] = "control" /\ ~store'[b].manifest /\ lock' = b /\ Quiescent
          /\ expect[b] = pg /\ Applied(pg) # {}
      BY DEF IInv, Captured, Locked, Sealed, Expecting, Dumped, Archived, Capturing, CopyTenant, tenantSide
    <2>2. UNCHANGED <<pg, graph>> /\ Quiescent' /\ Applied(pg)' = Applied(pg)
      BY <2>1 DEF CopyTenant, Quiescent, Applied, tenantSide, tenantStores
    <2>3. \/ pc'[b] = "tenant" /\ expect' = expect /\ dump'[b].pg = pg
          \/ pc'[b] = "exit" /\ ~ok'[b]
      BY DEF IInv, BackupTypes, Dumps, CopyTenant, Abort, Goto, tenantSide
    <2> QED
      BY <2>1, <2>2, <2>3 DEF Captured, Locked, Copied, Sealed, Expecting, Dumped, Archived, Leaving,
                  Capturing
  <1> QED
    BY <1>1, <1>2, <1>3, <1>4, BackupSteps DEF CopyTenant, tenantSide, tenantStores, mutators

LEMMA StopGraphKeeps ==
  ASSUME IInv, NEW b \in Backups, StopGraph(b)
  PROVE  IInv'
  <1>0. FaultCounted
    BY FaultTypes DEF StopGraph
  <1>1. WorldTypes'
    BY <1>0 DEF IInv, WorldTypes, FaultCounted, StopGraph, tenantSide, tenantStores, mutators
  <1>2. BackupTypes'
    BY DEF IInv, WorldTypes, BackupTypes, Calls, Capturing, Dumps, StopGraph, Abort, Goto, tenantSide
  <1>3. Others(b)
    BY DEF IInv, BackupTypes, Others, Captured, StopGraph, Abort, Goto, tenantSide
  <1>4. Captured(b)'
    <2>1. /\ Captured(b) /\ pc[b] = "tenant" /\ ~store'[b].manifest /\ lock' = b /\ Quiescent
          /\ expect[b] = pg /\ Applied(pg) # {} /\ dump[b].pg = pg
      BY DEF IInv, Captured, Locked, Sealed, Expecting, Dumped, Archived, Capturing, StopGraph, tenantSide
    <2>2. UNCHANGED <<pg, graph>> /\ Quiescent' /\ Applied(pg)' = Applied(pg)
      BY <2>1 DEF StopGraph, Quiescent, Applied, tenantSide, tenantStores
    <2>3. \/ pc'[b] = "stopped" /\ expect' = expect /\ dump' = dump
          \/ pc'[b] = "exit" /\ ~ok'[b]
      BY DEF IInv, BackupTypes, Dumps, StopGraph, Abort, Goto, tenantSide
    <2> QED
      BY <2>1, <2>2, <2>3 DEF Captured, Locked, Copied, Sealed, Expecting, Dumped, Archived, Leaving,
                  Capturing
  <1> QED
    BY <1>1, <1>2, <1>3, <1>4, BackupSteps DEF StopGraph, tenantSide, tenantStores, mutators

\* Nothing awaits its projection, so the graph has not changed since PostgreSQL was copied.
LEMMA CopyGraphKeeps ==
  ASSUME IInv, NEW b \in Backups, CopyGraph(b)
  PROVE  IInv'
  <1>0. FaultCounted
    BY FaultTypes DEF CopyGraph
  <1>1. WorldTypes'
    BY <1>0 DEF IInv, WorldTypes, FaultCounted, CopyGraph, tenantSide, tenantStores, mutators
  <1>2. BackupTypes'
    BY DEF IInv, WorldTypes, BackupTypes, Calls, Capturing, Dumps, CopyGraph, Abort, Goto, tenantSide
  <1>3. Others(b)
    BY DEF IInv, BackupTypes, Others, Captured, CopyGraph, Abort, Goto, tenantSide
  <1>4. Captured(b)'
    <2>1. /\ Captured(b) /\ pc[b] = "stopped" /\ ~store'[b].manifest /\ lock' = b /\ Quiescent
          /\ expect[b] = pg /\ Applied(pg) # {} /\ dump[b].pg = pg
      BY DEF IInv, Captured, Locked, Sealed, Expecting, Dumped, Archived, Capturing, CopyGraph, tenantSide
    <2>2. UNCHANGED <<pg, graph>> /\ Quiescent' /\ Applied(pg)' = Applied(pg)
      BY <2>1 DEF CopyGraph, Quiescent, Applied, tenantSide, tenantStores
    <2>3. /\ pc'[b] = "copied" /\ expect' = expect /\ dump'[b].pg = pg
          /\ dump'[b].graph = Applied(pg) \/ ~ok'[b]
      BY <2>1, QuietGraph DEF IInv, BackupTypes, Dumps, CopyGraph, Abort, Goto, tenantSide
    <2> QED
      BY <2>1, <2>2, <2>3 DEF Captured, Locked, Copied, Sealed, Expecting, Dumped, Archived, Leaving,
                  Capturing
  <1> QED
    BY <1>1, <1>2, <1>3, <1>4, BackupSteps DEF CopyGraph, tenantSide, tenantStores, mutators

LEMMA StartGraphKeeps ==
  ASSUME IInv, NEW b \in Backups, StartGraph(b)
  PROVE  IInv'
  <1>0. FaultCounted
    BY FaultTypes DEF StartGraph
  <1>1. WorldTypes'
    BY <1>0 DEF IInv, WorldTypes, FaultCounted, StartGraph, tenantSide, tenantStores, mutators
  <1>2. BackupTypes'
    BY DEF IInv, WorldTypes, BackupTypes, Calls, Capturing, Dumps, StartGraph, Abort, Goto, tenantSide
  <1>3. Others(b)
    BY DEF IInv, BackupTypes, Others, Captured, StartGraph, Abort, Goto, tenantSide
  <1>4. Captured(b)'
    <2>1. /\ Captured(b) /\ pc[b] = "copied" /\ ~store'[b].manifest /\ lock' = b /\ Quiescent
          /\ expect[b] = pg /\ Applied(pg) # {} /\ dump[b].pg = pg /\ (ok[b] => dump[b].graph = Applied(pg))
      BY DEF IInv, Captured, Locked, Sealed, Expecting, Dumped, Archived, Capturing, StartGraph, tenantSide
    <2>2. UNCHANGED <<pg, graph>> /\ Quiescent' /\ Applied(pg)' = Applied(pg)
      BY <2>1 DEF StartGraph, Quiescent, Applied, tenantSide, tenantStores
    <2>3. \/ pc'[b] = "exit" /\ expect' = expect /\ dump' = dump /\ ok' = ok
          \/ pc'[b] = "exit" /\ ~ok'[b]
      BY DEF IInv, BackupTypes, Dumps, StartGraph, Abort, Goto, tenantSide
    <2> QED
      BY <2>1, <2>2, <2>3 DEF Captured, Locked, Copied, Sealed, Expecting, Dumped, Archived, Leaving,
                  Capturing
  <1> QED
    BY <1>1, <1>2, <1>3, <1>4, BackupSteps DEF StartGraph, tenantSide, tenantStores, mutators

LEMMA UnlockKeeps ==
  ASSUME IInv, NEW b \in Backups, Unlock(b)
  PROVE  IInv'
  <1>1. WorldTypes'
    BY DEF IInv, WorldTypes, Unlock, tenantSide, tenantStores, mutators
  <1>2. BackupTypes'
    BY DEF IInv, BackupTypes, Calls, Unlock, Goto, tenantSide
  <1>3. Captured(b) /\ pc[b] = "exit" /\ pc'[b] = "resuming" /\ lock = b
    BY DEF IInv, BackupTypes, Captured, Locked, Unlock, Goto
  <1>4. Others(b)
    BY <1>3 DEF IInv, BackupTypes, Others, Unlock, Goto, tenantSide
  <1>5. Captured(b)'
    <2>1. ok[b] => Coherent(b)
      BY <1>3 DEF Captured, Copied, Sealed, Expecting, Dumped, Archived, Coherent, Quiescent
    <2> QED
      BY <1>3, <2>1 DEF Captured, Locked, Copied, Sealed, Expecting, Dumped, Archived, Leaving, Coherent,
                  Capturing, Unlock, tenantSide, tenantStores
  <1> QED
    BY <1>1, <1>2, <1>4, <1>5, BackupSteps DEF Unlock, tenantSide, tenantStores, mutators

\* What is kept of a resumed capture is coherent; what is not kept is never published.
LEMMA ResumeKeeps ==
  ASSUME IInv, NEW b \in Backups, Resume(b)
  PROVE  IInv'
  <1>1. WorldTypes'
    BY Numbers DEF IInv, WorldTypes, Resume, tenantSide, tenantStores, mutators
  <1>2. BackupTypes'
    BY EmptyTypes DEF IInv, BackupTypes, Calls, Resume, Forget, Goto, tenantSide
  <1>3. Captured(b) /\ pc[b] = "resuming" /\ ~store[b].manifest
    BY DEF IInv, Captured, Resume
  <1>4. Others(b)
    BY <1>3 DEF IInv, BackupTypes, Others, Resume, Forget, Goto, tenantSide
  <1>5. Captured(b)'
    <2>1. \/ pc'[b] = "encrypt" /\ ok[b] /\ UNCHANGED <<expect, dump>>
          \/ pc'[b] = "done"
      BY DEF IInv, BackupTypes, Resume, Goto
    <2> QED
      BY <1>3, <2>1 DEF Captured, Locked, Copied, Sealed, Expecting, Dumped, Archived, Leaving, Coherent,
                  Capturing, Applied, Resume, tenantSide, tenantStores
  <1> QED
    BY <1>1, <1>2, <1>4, <1>5, BackupSteps DEF Resume, tenantSide, tenantStores, mutators

LEMMA EncryptKeeps ==
  ASSUME IInv, NEW b \in Backups, Encrypt(b)
  PROVE  IInv'
  <1>0. FaultCounted
    BY FaultTypes DEF Encrypt
  <1>1. WorldTypes'
    BY <1>0 DEF IInv, WorldTypes, FaultCounted, Encrypt, live, tenantStores, mutators
  <1>2. BackupTypes'
    <2>1. pc' \in [Backups -> Calls]
      BY DEF IInv, BackupTypes, Calls, Encrypt, Goto
    <2>2. /\ expect' \in [Backups -> [Items -> States]] /\ dump' \in [Backups -> Dumps]
          /\ ok' \in [Backups -> BOOLEAN]
      BY EmptyTypes DEF IInv, BackupTypes, Encrypt, Forget
    <2>3. store' \in [Backups -> Exposed]
      BY ExposedTypes DEF IInv, BackupTypes, Encrypt
    <2> QED
      BY <2>1, <2>2, <2>3 DEF BackupTypes
  <1>3. Captured(b) /\ Coherent(b) /\ pc[b] = "encrypt"
    BY DEF IInv, Captured, Leaving, Encrypt
  <1>4. Others(b)
    BY <1>3 DEF IInv, BackupTypes, Exposed, Captured, Others, Encrypt, Forget, Goto, live
  <1>5. Captured(b)'
    <2>1. \/ pc'[b] = "encrypted" /\ UNCHANGED <<expect, dump>>
          \/ pc'[b] = "done" /\ store' = store /\ ~store[b].manifest
      BY <1>3 DEF IInv, BackupTypes, Captured, Encrypt, Goto
    <2> QED
      BY <1>3, <2>1 DEF IInv, BackupTypes, Exposed, Captured, Locked, Copied, Sealed, Expecting, Dumped,
                  Archived, Leaving, Coherent, Capturing, Applied, Encrypt, live, tenantStores
  <1> QED
    BY <1>1, <1>2, <1>4, <1>5, BackupSteps DEF Encrypt, live, tenantStores, mutators

LEMMA PublishArtifactsKeeps ==
  ASSUME IInv, NEW b \in Backups, PublishArtifacts(b)
  PROVE  IInv'
  <1>0. FaultCounted
    BY FaultTypes DEF PublishArtifacts
  <1>1. WorldTypes'
    BY <1>0 DEF IInv, WorldTypes, FaultCounted, PublishArtifacts, live, tenantStores, mutators
  <1>2. BackupTypes'
    <2>1. pc' \in [Backups -> Calls]
      BY DEF IInv, BackupTypes, Calls, PublishArtifacts, Goto
    <2>2. /\ expect' \in [Backups -> [Items -> States]] /\ dump' \in [Backups -> Dumps]
          /\ ok' \in [Backups -> BOOLEAN]
      BY EmptyTypes DEF IInv, BackupTypes, PublishArtifacts, Forget
    <2>3. store' \in [Backups -> Exposed]
      <3>1. store \in [Backups -> Exposed]
        BY DEF IInv, BackupTypes
      <3>2. [store EXCEPT ![b].artifacts = TRUE] \in [Backups -> Exposed]
        BY <3>1, ExposedTypes
      <3>3. store' = store \/ store' = [store EXCEPT ![b].artifacts = TRUE]
        BY ZenonT(30) DEF PublishArtifacts
      <3> QED
        BY <3>1, <3>2, <3>3
    <2> QED
      BY <2>1, <2>2, <2>3 DEF BackupTypes
  <1>3. Captured(b) /\ Coherent(b) /\ pc[b] = "encrypted"
    BY DEF IInv, Captured, Leaving, PublishArtifacts
  <1>4. Others(b)
    BY <1>3 DEF IInv, BackupTypes, Exposed, Captured, Others, PublishArtifacts, Forget, Goto, live
  <1>5. Captured(b)'
    <2>1. \/ pc'[b] = "publish" /\ UNCHANGED <<expect, dump>>
          \/ pc'[b] = "done" /\ store' = store /\ ~store[b].manifest
      BY <1>3 DEF IInv, BackupTypes, Captured, PublishArtifacts, Goto
    <2>2. store'[b].manifest = store[b].manifest
      BY DEF IInv, BackupTypes, Exposed, PublishArtifacts
    <2> QED
      BY <1>3, <2>1, <2>2 DEF Captured, Locked, Copied, Sealed, Expecting, Dumped,
                  Archived, Leaving, Coherent, Capturing, Applied, PublishArtifacts, live, tenantStores
  <1> QED
    BY <1>1, <1>2, <1>4, <1>5, BackupSteps DEF PublishArtifacts, live, tenantStores, mutators

LEMMA PublishManifestKeeps ==
  ASSUME IInv, NEW b \in Backups, PublishManifest(b)
  PROVE  IInv'
  <1>0. FaultCounted
    BY FaultTypes DEF PublishManifest
  <1>1. WorldTypes'
    BY <1>0 DEF IInv, WorldTypes, FaultCounted, PublishManifest, live, tenantStores, mutators
  <1>2. BackupTypes'
    <2>1. pc' \in [Backups -> Calls]
      BY DEF IInv, BackupTypes, Calls, PublishManifest, Goto
    <2>2. /\ expect' \in [Backups -> [Items -> States]] /\ dump' \in [Backups -> Dumps]
          /\ ok' \in [Backups -> BOOLEAN]
      BY EmptyTypes DEF IInv, BackupTypes, PublishManifest, Forget
    <2>3. store' \in [Backups -> Exposed]
      <3>1. store \in [Backups -> Exposed]
        BY DEF IInv, BackupTypes
      <3>2. [store EXCEPT ![b].manifest = TRUE] \in [Backups -> Exposed]
        BY <3>1, ExposedTypes
      <3>3. store' = store \/ store' = [store EXCEPT ![b].manifest = TRUE]
        BY ZenonT(30) DEF PublishManifest
      <3> QED
        BY <3>1, <3>2, <3>3
    <2> QED
      BY <2>1, <2>2, <2>3 DEF BackupTypes
  <1>3. Captured(b) /\ Coherent(b) /\ pc[b] = "publish"
    BY DEF IInv, Captured, Leaving, PublishManifest
  <1>4. Others(b)
    BY <1>3 DEF IInv, BackupTypes, Exposed, Captured, Others, PublishManifest, Forget, Goto, live
  <1>5. Captured(b)'
    <2>1. \/ pc'[b] = "evidence" /\ UNCHANGED <<expect, dump>>
          \/ pc'[b] = "done" /\ store' = store /\ ~store[b].manifest
      BY <1>3 DEF IInv, BackupTypes, Captured, PublishManifest, Goto
    <2> QED
      BY <1>3, <2>1 DEF IInv, BackupTypes, Exposed, Captured, Locked, Copied, Sealed, Expecting, Dumped,
                  Archived, Leaving, Coherent, Capturing, Applied, PublishManifest, live, tenantStores
  <1> QED
    BY <1>1, <1>2, <1>4, <1>5, BackupSteps DEF PublishManifest, live, tenantStores, mutators

LEMMA PublishEvidenceKeeps ==
  ASSUME IInv, NEW b \in Backups, PublishEvidence(b)
  PROVE  IInv'
  <1>0. FaultCounted
    BY FaultTypes DEF PublishEvidence
  <1>1. WorldTypes'
    BY <1>0 DEF IInv, WorldTypes, FaultCounted, PublishEvidence, live, tenantStores, mutators
  <1>2. store' = store \/ store' = [store EXCEPT ![b].receipt = TRUE]
    BY ZenonT(30) DEF PublishEvidence
  <1>3. store \in [Backups -> Exposed] /\ store' \in [Backups -> Exposed]
    <2>1. store \in [Backups -> Exposed]
      BY DEF IInv, BackupTypes
    <2>2. [store EXCEPT ![b].receipt = TRUE] \in [Backups -> Exposed]
      BY <2>1, ExposedTypes
    <2> QED
      BY <1>2, <2>1, <2>2
  <1>4. BackupTypes'
    BY <1>3 DEF IInv, BackupTypes, Calls, PublishEvidence, Goto
  <1>5. \A a \in Backups : store'[a].manifest = store[a].manifest /\ (a # b => store'[a] = store[a])
    BY <1>2, <1>3 DEF Exposed
  <1>6. Others(b)
    BY <1>5 DEF IInv, BackupTypes, Others, PublishEvidence, Goto, live
  <1>7. Captured(b)'
    <2>1. Captured(b) /\ pc[b] = "evidence" /\ pc'[b] = "done" /\ UNCHANGED <<expect, dump>>
      BY DEF IInv, BackupTypes, PublishEvidence, Goto
    <2> QED
      BY <1>5, <2>1 DEF Captured, Locked, Copied, Sealed, Expecting, Dumped, Archived, Leaving, Coherent,
                  Capturing, Applied
  <1> QED
    BY <1>1, <1>4, <1>6, <1>7, BackupSteps DEF PublishEvidence, live, tenantStores, mutators

\* A crash may come anywhere; what survives it is what was published.
LEMMA CrashKeeps ==
  ASSUME IInv, NEW b \in Backups, Crash(b)
  PROVE  IInv'
  <1>0. FaultCounted
    BY FaultTypes DEF Crash
  <1>1. WorldTypes'
    BY <1>0 DEF IInv, WorldTypes, FaultCounted, Crash, tenantSide, tenantStores, mutators
  <1>2. BackupTypes'
    BY EmptyTypes DEF IInv, BackupTypes, Calls, Crash, Forget, Goto, tenantSide
  <1>3. Captured(b) /\ pc'[b] = "dead" /\ UNCHANGED <<store, pg>>
    BY DEF IInv, BackupTypes, Crash, Goto, tenantSide, tenantStores
  <1>4. Others(b)
    BY Numbers DEF IInv, BackupTypes, Others, Crash, Forget, Goto, tenantSide
  <1>5. Captured(b)'
    <2>1. store[b].manifest => Coherent(b) /\ UNCHANGED <<expect, dump>>
      BY <1>3 DEF Captured, Leaving, Crash
    <2> QED
      BY <1>3, <2>1 DEF Captured, Locked, Copied, Sealed, Expecting, Dumped, Archived, Leaving, Coherent,
                  Capturing, Applied
  <1> QED
    BY <1>1, <1>2, <1>4, <1>5, BackupSteps DEF Crash, tenantSide, tenantStores, mutators

LEMMA DamageKeeps ==
  ASSUME IInv, NEW b \in Backups, Damage(b)
  PROVE  IInv'
  <1>0. FaultCounted
    BY FaultTypes DEF Damage
  <1>1. WorldTypes'
    BY <1>0 DEF IInv, WorldTypes, FaultCounted, Damage, outside, tenantStores, mutators
  <1>2. store \in [Backups -> Exposed] /\ store' = [store EXCEPT ![b].intact = FALSE]
    BY DEF IInv, BackupTypes, Damage
  <1>3. store' \in [Backups -> Exposed]
    BY <1>2, ExposedTypes
  <1>4. BackupTypes'
    BY <1>3 DEF IInv, BackupTypes, Damage, outside, backup
  <1>5. \A a \in Backups : store'[a].manifest = store[a].manifest /\ (a # b => store'[a] = store[a])
    BY <1>2 DEF Exposed
  <1>6. Others(b)
    BY <1>5 DEF Others, Damage, outside, backup
  <1>7. Captured(b)'
    <2>1. Captured(b) /\ UNCHANGED <<pc, ok, lock, pg, expect, dump>>
      BY DEF IInv, Damage, outside, backup, tenantStores
    <2> QED
      BY <1>5, <2>1 DEF Captured, Locked, Copied, Sealed, Expecting, Dumped, Archived, Leaving, Coherent,
                  Quiescent, Applied
  <1> QED
    BY <1>1, <1>4, <1>6, <1>7, BackupSteps DEF Damage, outside, tenantStores, mutators

\* Recovery takes no part in a capture: it only gives the Tenant back.
LEMMA RecoverKeeps ==
  ASSUME IInv, NEW b \in Backups, RecoverProve(b) \/ RecoverResume(b)
  PROVE  IInv'
  <1>0. UNCHANGED <<lock, neo4j, pg, graph, at, item, drops, backup, store, drills, faults>>
    BY DEF RecoverProve, RecoverResume, tenantStores, mutators
  <1>1. active' \in BOOLEAN /\ barrier' \in Backups \cup {NoBackup} /\ proved' \in Backups \cup {NoBackup}
    BY DEF IInv, WorldTypes, RecoverProve, RecoverResume
  <1>2. WorldTypes'
    BY <1>0, <1>1 DEF IInv, WorldTypes
  <1>3. Projected'
    BY <1>0 DEF IInv, Projected
  <1> QED
    BY <1>0, <1>2, <1>3, MutatorSteps

-----------------------------------------------------------------------------
(* The steps of one drill *)

\* What a step of the drill of t leaves alone.
OtherDrills(t) ==
    /\ UNCHANGED <<outside, store>>
    /\ \A u \in Targets \ {t} : drill'[u] = drill[u] /\ target'[u] = target[u] /\ result'[u] = result[u]

LEMMA DrillSteps ==
  ASSUME IInv, NEW t \in Targets, FaultCounted, DrillTypes', OtherDrills(t), Restored(t)'
  PROVE  IInv'
  <1>0. UNCHANGED <<active, barrier, lock, pg, graph, neo4j, at, item, drops, backup, proved, store>>
    BY DEF OtherDrills, outside, tenantStores, mutators
  <1>1. WorldTypes' /\ BackupTypes' /\ Projected'
    BY <1>0 DEF IInv, WorldTypes, FaultCounted, BackupTypes, Projected, backup
  <1>2. ASSUME NEW b \in Backups PROVE Captured(b)'
    <2>1. Captured(b)
      BY DEF IInv
    <2> QED
      BY <1>0, <2>1 DEF Captured, Locked, Copied, Sealed, Expecting, Dumped, Archived, Leaving, Coherent,
                  Quiescent, Applied, backup
  <1>3. ASSUME NEW u \in Targets PROVE Restored(u)'
    <2>1. CASE u = t
      BY <2>1
    <2>2. CASE u # t
      <3>1. Restored(u)
        BY DEF IInv
      <3> QED
        BY <1>0, <2>2, <3>1 DEF Restored, OtherDrills, backup
    <2> QED
      BY <2>1, <2>2
  <1> QED
    BY <1>1, <1>2, <1>3 DEF IInv

LEMMA StartDrillKeeps ==
  ASSUME IInv, NEW t \in Targets, NEW b \in Backups, StartDrill(t, b)
  PROVE  IInv'
  <1>0. FaultCounted
    BY FaultTypes DEF StartDrill
  <1>1. /\ drill' = [drill EXCEPT ![t] = "workspace"] /\ target' = [target EXCEPT ![t].of = b]
        /\ store[b].manifest /\ UNCHANGED <<result, store, outside>> /\ result[t] = "none"
    BY DEF StartDrill, Phase, Restorable
  <1>2. DrillTypes'
    BY <1>1 DEF IInv, DrillTypes, Phases
  <1>3. OtherDrills(t)
    BY <1>1 DEF IInv, DrillTypes, OtherDrills
  <1>4. Restored(t)'
    BY <1>1 DEF IInv, DrillTypes, Restored
  <1> QED
    BY <1>0, <1>2, <1>3, <1>4, DrillSteps

Underway == Phases \ {"none", "verified", "preserved", "removed"}

\* A step that goes on leaves what the next phase promises; one that fails is the
\* operator's to look at, and no verdict.
LEMMA RestoreStepKeeps ==
  ASSUME IInv, NEW t \in Targets, NEW here \in Underway, NEW next \in Underway, NEW possible \in BOOLEAN,
         NEW loaded \in Dumps, RestoreStep(t, here, next, possible, loaded),
         next \in {"graph", "postgres", "databases", "restored"} =>
             loaded.graph = dump[target[t].of].graph,
         next \in {"databases", "restored"} => loaded.pg = dump[target[t].of].pg /\ loaded.routed
  PROVE  IInv'
  <1>0. FaultCounted
    BY FaultTypes DEF RestoreStep
  <1>1. /\ UNCHANGED <<outside, store, result>>
        /\ \/ drill' = [drill EXCEPT ![t] = next] /\ target' = [target EXCEPT ![t].data = loaded]
           \/ drill' = [drill EXCEPT ![t] = "preserved"] /\ target' = target
    BY DEF RestoreStep, Phase
  <1>2. target[t].of \in Backups /\ store[target[t].of].manifest /\ result[t] # "failed"
    BY DEF IInv, Restored, RestoreStep, Underway
  <1>3. DrillTypes'
    BY <1>1 DEF IInv, DrillTypes, Phases, Underway
  <1>4. OtherDrills(t)
    BY <1>1 DEF IInv, DrillTypes, OtherDrills
  <1>5. Restored(t)'
    <2>1. CASE drill' = [drill EXCEPT ![t] = next] /\ target' = [target EXCEPT ![t].data = loaded]
      <3>1. drill'[t] = next /\ target'[t].of = target[t].of /\ target'[t].data = loaded
        BY <2>1 DEF IInv, DrillTypes
      <3> QED
        BY <1>1, <1>2, <3>1 DEF Restored, outside, backup
    <2>2. CASE drill' = [drill EXCEPT ![t] = "preserved"] /\ target' = target
      BY <1>1, <1>2, <2>2 DEF IInv, DrillTypes, Restored
    <2> QED
      BY <1>1, <2>1, <2>2
  <1> QED
    BY <1>0, <1>3, <1>4, <1>5, DrillSteps

LEMMA RestoreKeeps ==
  ASSUME IInv, NEW t \in Targets,
         \/ DecryptArtifacts(t) \/ CreateResources(t) \/ RestoreGraphOffline(t)
         \/ StartPostgres(t) \/ RestorePostgres(t) \/ StartGraphServer(t)
  PROVE  IInv'
  <1>1. Loaded(t) \in Dumps /\ Restored(t)
    BY DEF IInv, DrillTypes, Loaded
  <1>2. CASE DecryptArtifacts(t)
    <2>1. PICK loaded \in Dumps : loaded = Loaded(t)
      BY <1>1
    <2>2. PICK possible \in BOOLEAN : possible = store[target[t].of].intact
      BY <1>2 DEF IInv, DrillTypes, BackupTypes, Exposed, Restored, DecryptArtifacts, RestoreStep, Phases
    <2>3. RestoreStep(t, "workspace", "decrypted", possible, loaded)
      BY <1>2, <2>1, <2>2 DEF DecryptArtifacts
    <2> QED
      BY <2>3, RestoreStepKeeps DEF Underway, Phases
  <1>3. CASE CreateResources(t)
    <2>1. PICK loaded \in Dumps : loaded = Loaded(t)
      BY <1>1
    <2>2. RestoreStep(t, "decrypted", "created", TRUE, loaded)
      BY <1>3, <2>1 DEF CreateResources
    <2> QED
      BY <2>2, RestoreStepKeeps DEF Underway, Phases
  <1>4. CASE RestoreGraphOffline(t)
    <2>1. Source(t) \in Dumps
      BY <1>1, <1>4 DEF IInv, BackupTypes, Restored, Source, RestoreGraphOffline, RestoreStep, Phases
    <2>2. PICK loaded \in Dumps : loaded = [Loaded(t) EXCEPT !.graph = Source(t).graph]
      BY <1>1, <2>1 DEF Dumps
    <2>3. RestoreStep(t, "created", "graph", TRUE, loaded)
      BY <1>4, <2>2 DEF RestoreGraphOffline
    <2>4. loaded.graph = dump[target[t].of].graph
      BY <1>1, <2>2 DEF Source, Dumps
    <2> QED
      BY <2>3, <2>4, RestoreStepKeeps DEF Underway, Phases
  <1>5. CASE StartPostgres(t)
    <2>1. PICK loaded \in Dumps : loaded = Loaded(t)
      BY <1>1
    <2>2. RestoreStep(t, "graph", "postgres", TRUE, loaded)
      BY <1>5, <2>1 DEF StartPostgres
    <2>3. loaded.graph = dump[target[t].of].graph
      BY <1>1, <2>1, <2>2 DEF Restored, RestoreStep, Loaded
    <2> QED
      BY <2>2, <2>3, RestoreStepKeeps DEF Underway, Phases
  <1>6. CASE RestorePostgres(t)
    <2>1. Source(t) \in Dumps /\ Loaded(t).graph = Source(t).graph
      BY <1>1, <1>6 DEF IInv, BackupTypes, Restored, Source, Loaded, RestorePostgres, RestoreStep, Phases
    <2>2. PICK loaded \in Dumps : loaded = Sanitized([Source(t) EXCEPT !.graph = Loaded(t).graph])
      BY <2>1 DEF Sanitized, Dumps
    <2>3. RestoreStep(t, "postgres", "databases", TRUE, loaded)
      BY <1>6, <2>2 DEF RestorePostgres
    <2>4. /\ loaded.graph = dump[target[t].of].graph /\ loaded.pg = dump[target[t].of].pg
          /\ loaded.routed
      BY <2>1, <2>2 DEF Source, Sanitized, Dumps
    <2> QED
      BY <2>3, <2>4, RestoreStepKeeps DEF Underway, Phases
  <1>7. CASE StartGraphServer(t)
    <2>1. PICK loaded \in Dumps : loaded = Loaded(t)
      BY <1>1
    <2>2. RestoreStep(t, "databases", "restored", TRUE, loaded)
      BY <1>7, <2>1 DEF StartGraphServer
    <2>3. /\ loaded.graph = dump[target[t].of].graph /\ loaded.pg = dump[target[t].of].pg
          /\ loaded.routed
      BY <1>1, <2>1, <2>2 DEF Restored, RestoreStep, Loaded
    <2> QED
      BY <2>2, <2>3, RestoreStepKeeps DEF Underway, Phases
  <1> QED
    BY <1>2, <1>3, <1>4, <1>5, <1>6, <1>7

\* A restored target holds a coherent cut, so its checks pass.
LEMMA VerifyKeeps ==
  ASSUME IInv, NEW t \in Targets, Verify(t)
  PROVE  IInv'
  <1>0. FaultCounted
    BY FaultTypes DEF Verify
  <1>1. ChecksPass(t)
    <2>1. PICK b \in Backups : b = target[t].of /\ store[b].manifest
      BY DEF IInv, Restored, Verify, Phases
    <2>2. Coherent(b)
      BY <2>1 DEF IInv, Captured, Leaving
    <2>3. Loaded(t).routed /\ Loaded(t).pg = dump[b].pg /\ Loaded(t).graph = dump[b].graph
      BY <2>1 DEF IInv, Restored, Verify, Loaded
    <2> QED
      BY <2>1, <2>2, <2>3 DEF ChecksPass, RecallPasses, LedgerMatches, GraphMatches, Coherent
  <1>2. /\ result' = [result EXCEPT ![t] = "passed"] /\ drill' = [drill EXCEPT ![t] = "verified"]
        /\ UNCHANGED <<outside, store, target>>
    BY <1>1 DEF Verify, Phase
  <1>3. DrillTypes'
    BY <1>2 DEF IInv, DrillTypes, Phases
  <1>4. OtherDrills(t)
    BY <1>2 DEF IInv, DrillTypes, OtherDrills
  <1>5. Restored(t)'
    BY <1>2 DEF IInv, DrillTypes, Restored
  <1> QED
    BY <1>0, <1>3, <1>4, <1>5, DrillSteps

LEMMA CleanupKeeps ==
  ASSUME IInv, NEW t \in Targets, Cleanup(t)
  PROVE  IInv'
  <1>0. FaultCounted
    BY FaultTypes DEF Cleanup
  <1>1. PICK next \in {"removed", "preserved"}, held \in [of : Backups \cup {NoBackup}, data : Dumps] :
          /\ drill' = [drill EXCEPT ![t] = next] /\ target' = [target EXCEPT ![t] = held]
          /\ UNCHANGED <<outside, store, result>>
    <2>1. [of |-> NoBackup, data |-> Nothing] \in [of : Backups \cup {NoBackup}, data : Dumps]
      BY EmptyTypes
    <2>2. target[t] \in [of : Backups \cup {NoBackup}, data : Dumps] /\ target = [target EXCEPT ![t] = target[t]]
      BY DEF IInv, DrillTypes
    <2> QED
      BY <2>1, <2>2 DEF Cleanup, Phase
  <1>2. DrillTypes'
    BY <1>1 DEF IInv, DrillTypes, Phases
  <1>3. OtherDrills(t)
    BY <1>1 DEF IInv, DrillTypes, OtherDrills
  <1>4. Restored(t)'
    BY <1>1 DEF IInv, DrillTypes, Restored
  <1> QED
    BY <1>0, <1>2, <1>3, <1>4, DrillSteps

-----------------------------------------------------------------------------
LEMMA NextKeeps == IInv /\ [Next]_vars => IInv'
  <1> SUFFICES ASSUME IInv, [Next]_vars PROVE IInv'
    OBVIOUS
  <1>1. CASE UNCHANGED vars
    <2>1. WorldTypes' /\ Projected'
      BY <1>1 DEF IInv, WorldTypes, Projected, vars, tenantStores, mutators
    <2> QED
      BY <1>1, <2>1, MutatorSteps DEF vars, tenantStores
  <1>2. CASE Mutate
    BY <1>2, MutateKeeps
  <1>3. ASSUME NEW p \in Mutators, Advance(p) PROVE IInv'
    BY <1>3, CommitTxKeeps, WriteGraphKeeps DEF Advance
  <1>4. ASSUME NEW b \in Backups, Suspend(b) \/ Crash(b) \/ Damage(b) \/ RecoverProve(b) \/ RecoverResume(b)
        PROVE  IInv'
    BY <1>4, SuspendKeeps, CrashKeeps, DamageKeeps, RecoverKeeps
  <1>5. ASSUME NEW b \in Backups, Run(b) PROVE IInv'
    BY <1>5, LockKeeps, VerifyQuiescentKeeps, CollectKeeps, CopyControlKeeps, CopyTenantKeeps, StopGraphKeeps,
       CopyGraphKeeps, StartGraphKeeps, UnlockKeeps, ResumeKeeps, EncryptKeeps, PublishArtifactsKeeps,
       PublishManifestKeeps, PublishEvidenceKeeps DEF Run
  <1>6. ASSUME NEW t \in Targets, Drill(t) PROVE IInv'
    BY <1>6, StartDrillKeeps, RestoreKeeps, VerifyKeeps, CleanupKeeps DEF Drill
  <1> QED
    BY <1>1, <1>2, <1>3, <1>4, <1>5, <1>6 DEF Next

\* The invariant holds in every reachable state.
THEOREM Inductive == Spec => []IInv
  BY InitInv, NextKeeps, PTL DEF Spec

\* Every variable stays in its domain, for any number of clients, items and backups.
THEOREM TypeCorrect == Spec => []TypeOK
  BY Inductive, Types, PTL

\* Whatever is published under a manifest (artifacts.py) is one quiescent cut, although
\* the three stores are copied one after the other (host_backup.py), the worker writes
\* the graph without the lock, and any process may crash or be recovered in between.
THEOREM CoherentCut == Spec => []CutIsCoherent
  <1>1. IInv => CutIsCoherent
    BY DEF IInv, Captured, Leaving, Coherent, CutIsCoherent
  <1> QED
    BY <1>1, Inductive, PTL

\* No drill of a complete recovery point (host_restore.py) fails its checks.
THEOREM CompleteRestorable == Spec => []CompleteIsRestorable
  <1>1. IInv => CompleteIsRestorable
    BY DEF IInv, Restored, CompleteIsRestorable
  <1> QED
    BY <1>1, Inductive, PTL

=============================================================================
