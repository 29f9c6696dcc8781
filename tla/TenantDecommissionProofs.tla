----------------------- MODULE TenantDecommissionProofs -----------------------
(***************************************************************************)
(* DestructionIsCommitted for any number of commands, operators and        *)
(* faults. It is not inductive: a command that read its request before a   *)
(* competing save must not be able to save over it, and one that goes on   *)
(* destroying with an old copy must be doing what the record says. IInv    *)
(* adds what each command's copy is worth: Claimed while its revision is   *)
(* the stored one, Destroying and Removed whatever the revision.           *)
(***************************************************************************)
EXTENDS TenantDecommission, TLAPS

Calls == {"idle", "insert", "suspend", "save", "fail", "cancel", "reactivate", "destroy", "bury"}

\* What the record says to a command whose copy r has its revision.
Claimed(call, r) ==
    /\ call = "save" =>
         /\ r.state \in {"suspending", "suspended"} => rec.state = "suspending"
         /\ r.state = "grace" => rec.state = "suspended"
         /\ r.state = "cancelled" => rec.state = "grace"
         /\ r.state = "finalizing" => rec.state \in {"grace", "finalizing"}
         /\ r.state # "none"
    /\ call = "suspend" => rec.state = "suspending"
    /\ call \in {"cancel", "reactivate"} => rec.state = "grace"
    /\ call \in {"destroy", "bury"} => rec.state = "finalizing"
    /\ call \notin {"idle", "insert"} => rec.state # "none"

\* The copy that a call works on has come as far as the call.
Staged(call, r) ==
    /\ call = "insert" => r.state = "suspending" /\ r.dest = 0 /\ r.susp = 0
    /\ call = "suspend" => r.state = "suspending" /\ r.susp < 3
    /\ call \in {"cancel", "reactivate"} => r.state = "grace"
    /\ call \in {"destroy", "bury"} => r.state = "finalizing"
    /\ call = "destroy" => r.dest < Last
    /\ call = "bury" => r.dest = Last

\* A destroying command, even with an outdated copy, works for a request that can no
\* longer be cancelled.
Destroying(call) == call \in {"destroy", "bury"} => tomb \/ rec.state = "finalizing"

\* What a copy lists as removed is removed.
Removed(r, resources) == \A i \in 1..r.dest : Resources[i] \in resources

Copy(call, r, current) ==
    Staged(call, r) /\ Destroying(call) /\ Removed(r, gone) /\ (current => Claimed(call, r))

Copies == \A p \in Processes : Copy(pc[p], my[p], fresh[p])

IInv == TypeOK /\ DestructionIsCommitted /\ Copies

\* TypeOK in two halves: what is stored, and what the commands hold.
StoreTypes ==
    /\ active \in BOOLEAN /\ tokens \in BOOLEAN /\ barrier \in BOOLEAN
    /\ tomb \in BOOLEAN /\ pin \in BOOLEAN /\ artifact \in BOOLEAN
    /\ gone \subseteq All /\ rec \in Records
    /\ retain \in {"idle", "planned", "unpinned"} /\ faults \in 0..MaxFaults
HeldTypes == pc \in [Processes -> Calls] /\ my \in [Processes -> Records] /\ fresh \in [Processes -> BOOLEAN]

-----------------------------------------------------------------------------
(* Operators on records and copies *)

LEMMA Six == Last = 6 /\ Last \in Nat
  BY DEF Last, Resources

LEMMA ResourceAt == \A i \in 1..Last : Resources[i] \in All
  BY DEF All

\* The step after an accepted save has the copy it needs.
LEMMA AfterSave ==
  ASSUME NEW r \in Records
  PROVE  /\ After(r) \in {"idle", "suspend", "save", "destroy", "bury"}
         /\ After(r) = "suspend" => r.state = "suspending" /\ r.susp < 3
         /\ After(r) = "save" => r.state = "suspending" /\ r.susp = 3
         /\ After(r) = "destroy" => r.state = "finalizing" /\ r.dest < Last
         /\ After(r) = "bury" => r.state = "finalizing" /\ r.dest = Last
         /\ Closing(r) \in Records /\ Closing(r).dest = r.dest
         /\ After(r) # "save" => Closing(r) = r
         /\ After(r) = "save" => Closing(r).state = "suspended"
  BY Six DEF Records, After, Closing

-----------------------------------------------------------------------------
LEMMA InitInv == Init => IInv
  <1> SUFFICES ASSUME Init PROVE IInv
    OBVIOUS
  <1>1. NoRecord \in Records
    BY Six DEF NoRecord, Records
  <1>2. TypeOK
    <2>1. active \in BOOLEAN /\ tokens \in BOOLEAN /\ barrier \in BOOLEAN
          /\ tomb \in BOOLEAN /\ pin \in BOOLEAN /\ artifact \in BOOLEAN
      BY DEF Init
    <2>2. gone \subseteq All /\ rec \in Records /\ retain \in {"idle", "planned", "unpinned"}
      BY <1>1 DEF Init
    <2>3. pc \in [Processes -> {"idle", "insert", "suspend", "save", "fail", "cancel",
                               "reactivate", "destroy", "bury"}]
      BY DEF Init
    <2>4. my \in [Processes -> Records] /\ fresh \in [Processes -> BOOLEAN]
      BY <1>1 DEF Init
    <2>5. faults \in 0..MaxFaults
      BY DecommissionAssumption DEF Init
    <2> QED
      BY <2>1, <2>2, <2>3, <2>4, <2>5 DEF TypeOK
  <1> QED
    BY <1>2, Six DEF Init, IInv, DestructionIsCommitted, Copies, Copy, Staged, Destroying,
                       Removed, Claimed, NoRecord

-----------------------------------------------------------------------------
(* One command moves *)

LEMMA Halves == /\ TypeOK <=> StoreTypes /\ HeldTypes
                /\ TypeOK' <=> StoreTypes' /\ HeldTypes'
  <1>1. TypeOK => StoreTypes /\ HeldTypes
    BY Zenon DEF TypeOK, StoreTypes, HeldTypes, Calls
  <1>2. StoreTypes /\ HeldTypes => TypeOK
    BY Zenon DEF TypeOK, StoreTypes, HeldTypes, Calls
  <1>3. TypeOK' => StoreTypes' /\ HeldTypes'
    BY Zenon DEF TypeOK, StoreTypes, HeldTypes, Calls
  <1>4. StoreTypes' /\ HeldTypes' => TypeOK'
    BY Zenon DEF TypeOK, StoreTypes, HeldTypes, Calls
  <1> QED
    BY <1>1, <1>2, <1>3, <1>4

\* What a step leaves of a command's process is the process with itself put in.
LEMMA Same ==
  ASSUME HeldTypes, NEW p \in Processes
  PROVE  /\ pc = [pc EXCEPT ![p] = pc[p]] /\ my = [my EXCEPT ![p] = my[p]]
         /\ fresh = [fresh EXCEPT ![p] = fresh[p]]
         /\ pc[p] \in Calls /\ my[p] \in Records /\ fresh[p] \in BOOLEAN
  BY DEF HeldTypes

\* Command p goes on to call `next` with copy r, and the record stays: the invariant
\* is kept if the copy is as it should be and what is removed may be removed.
LEMMA Move ==
  ASSUME IInv, NEW p \in Processes, NEW next \in Calls, NEW r \in Records, NEW b \in BOOLEAN,
         pc' = [pc EXCEPT ![p] = next], my' = [my EXCEPT ![p] = r], fresh' = [fresh EXCEPT ![p] = b],
         StoreTypes', rec' = rec, tomb' = tomb, gone \subseteq gone',
         gone' = gone \/ tomb \/ rec.state = "finalizing",
         Staged(next, r), Destroying(next), Removed(r, gone'), b => Claimed(next, r)
  PROVE  IInv'
  <1>0. HeldTypes /\ StoreTypes
    BY Halves DEF IInv
  <1>1. HeldTypes'
    BY <1>0 DEF HeldTypes
  <1>2. TypeOK'
    BY <1>1, Halves
  <1>3. DestructionIsCommitted'
    <2>1. gone' # {} => tomb' \/ rec'.state = "finalizing"
      BY DEF IInv, DestructionIsCommitted
    <2>2. \A i \in 1..rec'.dest : Resources[i] \in gone'
      BY DEF IInv, DestructionIsCommitted
    <2>3. tomb' => gone' = All
      BY DEF IInv, DestructionIsCommitted, StoreTypes
    <2> QED
      BY <2>1, <2>2, <2>3 DEF DestructionIsCommitted
  <1>4. ASSUME NEW q \in Processes PROVE Copy(pc[q], my[q], fresh[q])'
    <2>1. CASE q = p
      <3>1. pc'[q] = next /\ my'[q] = r /\ fresh'[q] = b
        BY <2>1, <1>0 DEF HeldTypes
      <3>2. Staged(next, r)' /\ Destroying(next)' /\ (b => Claimed(next, r)')
        BY DEF Staged, Destroying, Claimed
      <3> QED
        BY <3>1, <3>2 DEF Copy, Staged, Destroying, Claimed, Removed
    <2>2. CASE q # p
      <3>1. pc'[q] = pc[q] /\ my'[q] = my[q] /\ fresh'[q] = fresh[q]
        BY <2>2, <1>0 DEF HeldTypes
      <3>2. Copy(pc[q], my[q], fresh[q])
        BY DEF IInv, Copies
      <3> QED
        BY <3>1, <3>2 DEF Copy, Staged, Destroying, Claimed, Removed
    <2> QED
      BY <2>1, <2>2
  <1> QED
    BY <1>2, <1>3, <1>4 DEF IInv, Copies

-----------------------------------------------------------------------------
(* One step per action *)

\* A call fails: its copy is still what it was.
LEMMA FailingKeeps ==
  ASSUME IInv, NEW p \in Processes, Failing(p), pc[p] \notin {"idle", "insert"},
         StoreTypes', rec' = rec, tomb' = tomb, gone' = gone
  PROVE  IInv'
  <1>1. HeldTypes /\ Copy(pc[p], my[p], fresh[p])
    BY Halves DEF IInv, Copies
  <1>2. fresh' = [fresh EXCEPT ![p] = fresh[p]] /\ my' = [my EXCEPT ![p] = my[p]]
        /\ pc' = [pc EXCEPT ![p] = "fail"]
    BY <1>1, Same DEF Failing, Goto
  <1>3. Staged("fail", my[p]) /\ Destroying("fail") /\ Removed(my[p], gone')
    BY <1>1 DEF Copy, Staged, Destroying, Removed
  <1>5. ASSUME fresh[p] PROVE Claimed("fail", my[p])
    <2>1. Claimed(pc[p], my[p])
      BY <1>1, <1>5 DEF Copy
    <2> QED
      BY <2>1 DEF Claimed
  <1>4. "fail" \in Calls /\ my[p] \in Records /\ fresh[p] \in BOOLEAN
    BY <1>1, Same DEF Calls
  <1> QED
    BY <1>2, <1>3, <1>4, <1>5, Move

\* A command ends.
LEMMA EndKeeps ==
  ASSUME IInv, NEW p \in Processes, End(p), StoreTypes', rec' = rec, tomb' = tomb, gone' = gone
  PROVE  IInv'
  <1>1. NoRecord \in Records /\ NoRecord.dest = 0
    BY Six DEF NoRecord, Records
  <1>2. Staged("idle", NoRecord) /\ Destroying("idle") /\ Removed(NoRecord, gone')
    BY <1>1 DEF Staged, Destroying, Removed
  <1>3. "idle" \in Calls
    BY DEF Calls
  <1> QED
    BY <1>1, <1>2, <1>3, Move DEF End, Goto

\* A command starts to work on what it has read or made.
LEMMA WorkKeeps ==
  ASSUME IInv, NEW p \in Processes, NEW next \in Calls, NEW r \in Records, Work(p, next, r),
         StoreTypes', rec' = rec, tomb' = tomb, gone' = gone,
         Staged(next, r), Destroying(next), Removed(r, gone), Claimed(next, r)
  PROVE  IInv'
  <1>1. Removed(r, gone')
    BY DEF Removed
  <1> QED
    BY <1>1, Move DEF Work, Goto

\* A command goes on to save r; everything but its own call stays, or grows.
LEMMA SavingKeeps ==
  ASSUME IInv, NEW p \in Processes, NEW r \in Records, Saving(p, r),
         StoreTypes', rec' = rec, tomb' = tomb, gone \subseteq gone',
         gone' = gone \/ tomb \/ rec.state = "finalizing", Removed(r, gone'),
         fresh[p] => Claimed("save", r)
  PROVE  IInv'
  <1>1. HeldTypes
    BY Halves DEF IInv
  <1>2. fresh' = [fresh EXCEPT ![p] = fresh[p]] /\ fresh[p] \in BOOLEAN
    BY <1>1, Same DEF Saving
  <1>3. "save" \in Calls /\ Staged("save", r) /\ Destroying("save")
    BY DEF Calls, Staged, Destroying
  <1> QED
    BY <1>2, <1>3, Move DEF Saving, Goto

\* The stored values a step leaves alone, or sets within their types.
LEMMA Stored ==
  ASSUME StoreTypes, rec' = rec, tomb' = tomb, pin' = pin, artifact' = artifact, retain' = retain,
         barrier' = barrier, active' \in BOOLEAN, tokens' \in BOOLEAN, gone' \subseteq All,
         faults' = faults \/ Fault
  PROVE  StoreTypes'
  <1>1. faults' \in 0..MaxFaults
    BY DecommissionAssumption DEF StoreTypes, Fault
  <1> QED
    BY <1>1 DEF StoreTypes

LEMMA BeginRequestKeeps ==
  ASSUME IInv, NEW p \in Processes, NEW o \in Operators, BeginRequest(p, o)
  PROVE  IInv'
  <1> DEFINE new == [NoRecord EXCEPT !.state = "suspending", !.by = o]
  <1>1. StoreTypes /\ DestructionIsCommitted
    BY Halves DEF IInv
  <1>2. StoreTypes' /\ rec' = rec /\ tomb' = tomb /\ gone' = gone
    BY <1>1 DEF BeginRequest, elsewhere, tenantFlags, durable, artifacts, StoreTypes
  <1>3. CASE Work(p, "insert", new)
    <2>1. NoRecord \in Records /\ NoRecord.susp = 0 /\ NoRecord.dest = 0
      BY Six DEF NoRecord, Records
    <2>4. new \in Records /\ new.state = "suspending" /\ new.susp = 0 /\ new.dest = 0
      BY <2>1 DEF Records
    <2>2. Staged("insert", new) /\ Destroying("insert") /\ Removed(new, gone) /\ Claimed("insert", new)
      BY <2>4 DEF Staged, Destroying, Removed, Claimed
    <2>3. "insert" \in Calls
      BY DEF Calls
    <2> QED
      BY <1>2, <1>3, <2>2, <2>3, <2>4, WorkKeeps
  <1>4. CASE /\ rec.state = "suspending"
             /\ Work(p, IF rec.susp < 3 THEN "suspend" ELSE "save", Closing(rec))
    <2> DEFINE next == IF rec.susp < 3 THEN "suspend" ELSE "save"
    <2>1. rec \in Records /\ rec.susp \in 0..3
      BY <1>1 DEF StoreTypes, Records
    <2>2. Closing(rec) \in Records /\ Closing(rec).dest = rec.dest /\ After(rec) = next
          /\ (next = "suspend" => Closing(rec) = rec) /\ (next = "save" => Closing(rec).state = "suspended")
      BY <2>1, <1>4, AfterSave DEF After
    <2>3. Staged(next, Closing(rec)) /\ Destroying(next) /\ Removed(Closing(rec), gone) /\ Claimed(next, Closing(rec))
      BY <1>1, <1>4, <2>1, <2>2 DEF Staged, Destroying, Removed, Claimed, DestructionIsCommitted
    <2>4. next \in Calls
      BY DEF Calls
    <2> HIDE DEF next
    <2>5. Work(p, next, Closing(rec))
      BY <1>4 DEF next
    <2> QED
      BY <1>2, <2>2, <2>3, <2>4, <2>5, WorkKeeps
  <1> QED
    BY <1>3, <1>4 DEF BeginRequest

LEMMA BeginConfirmKeeps ==
  ASSUME IInv, NEW p \in Processes, NEW o \in Operators, NEW k \in {"backup", "export"},
         BeginConfirm(p, o, k)
  PROVE  IInv'
  <1>1. StoreTypes /\ DestructionIsCommitted
    BY Halves DEF IInv
  <1>2. StoreTypes' /\ rec' = rec /\ tomb' = tomb /\ gone' = gone
    BY <1>1 DEF BeginConfirm, elsewhere, tenantFlags, durable, artifacts, StoreTypes
  <1>3. Confirmed(o, k) \in Records /\ Confirmed(o, k).state = "grace" /\ Confirmed(o, k).dest = rec.dest
    BY <1>1 DEF Confirmed, StoreTypes, Records
  <1>4. Staged("save", Confirmed(o, k)) /\ Destroying("save") /\ Removed(Confirmed(o, k), gone)
        /\ Claimed("save", Confirmed(o, k))
    BY <1>1, <1>3 DEF Staged, Destroying, Removed, Claimed, DestructionIsCommitted, BeginConfirm
  <1>5. "save" \in Calls /\ Work(p, "save", Confirmed(o, k))
    BY DEF Calls, BeginConfirm
  <1> QED
    BY <1>2, <1>3, <1>4, <1>5, WorkKeeps

LEMMA BeginCancelKeeps ==
  ASSUME IInv, NEW p \in Processes, BeginCancel(p)
  PROVE  IInv'
  <1>1. StoreTypes /\ DestructionIsCommitted
    BY Halves DEF IInv
  <1>2. StoreTypes' /\ rec' = rec /\ tomb' = tomb /\ gone' = gone
    BY <1>1 DEF BeginCancel, elsewhere, tenantFlags, durable, artifacts, StoreTypes
  <1>3. Staged("cancel", rec) /\ Destroying("cancel") /\ Removed(rec, gone) /\ Claimed("cancel", rec)
    BY <1>1 DEF Staged, Destroying, Removed, Claimed, DestructionIsCommitted, BeginCancel
  <1>4. "cancel" \in Calls /\ Work(p, "cancel", rec) /\ rec \in Records
    BY <1>1 DEF Calls, BeginCancel, StoreTypes
  <1> QED
    BY <1>2, <1>3, <1>4, WorkKeeps

LEMMA BeginFinalizeKeeps ==
  ASSUME IInv, NEW p \in Processes, BeginFinalize(p)
  PROVE  IInv'
  <1>1. StoreTypes /\ DestructionIsCommitted
    BY Halves DEF IInv
  <1>2. StoreTypes' /\ rec' = rec /\ tomb' = tomb /\ gone' = gone
    BY <1>1 DEF BeginFinalize, elsewhere, tenantFlags, durable, artifacts, StoreTypes
  <1>3. CASE rec.state = "grace" /\ Work(p, "save", [rec EXCEPT !.state = "finalizing"])
    <2> DEFINE r == [rec EXCEPT !.state = "finalizing"]
    <2>1. r \in Records /\ r.state = "finalizing" /\ r.dest = rec.dest
      BY <1>1 DEF StoreTypes, Records
    <2>2. Staged("save", r) /\ Destroying("save") /\ Removed(r, gone) /\ Claimed("save", r)
      BY <1>1, <1>3, <2>1 DEF Staged, Destroying, Removed, Claimed, DestructionIsCommitted
    <2>3. "save" \in Calls
      BY DEF Calls
    <2> QED
      BY <1>2, <1>3, <2>1, <2>2, <2>3, WorkKeeps
  <1>4. CASE rec.state = "finalizing" /\ Work(p, After(rec), rec)
    <2>1. rec \in Records
      BY <1>1 DEF StoreTypes
    <2>2. After(rec) \in {"destroy", "bury"} /\ After(rec) \in Calls
      BY <2>1, <1>4, Six DEF After, Calls
    <2>3. Staged(After(rec), rec) /\ Destroying(After(rec)) /\ Removed(rec, gone) /\ Claimed(After(rec), rec)
      BY <1>1, <1>4, <2>1, <2>2, AfterSave DEF Staged, Destroying, Removed, Claimed, DestructionIsCommitted
    <2> QED
      BY <1>2, <1>4, <2>1, <2>2, <2>3, WorkKeeps
  <1> QED
    BY <1>3, <1>4 DEF BeginFinalize

LEMMA SuspendKeeps ==
  ASSUME IInv, NEW p \in Processes, Suspend(p)
  PROVE  IInv'
  <1> DEFINE done == [my[p] EXCEPT !.susp = my[p].susp + 1]
  <1>1. StoreTypes /\ HeldTypes /\ Copy(pc[p], my[p], fresh[p]) /\ pc[p] = "suspend"
    BY Halves DEF IInv, Copies, Suspend
  <1>2. rec' = rec /\ tomb' = tomb /\ gone' = gone
    BY DEF Suspend, durable
  <1>3. StoreTypes'
    BY <1>1, <1>2, Stored DEF Suspend, durable, artifacts, StoreTypes
  <1>4. CASE Saving(p, done)
    <2>1. done \in Records /\ done.dest = my[p].dest /\ done.state = "suspending"
      BY <1>1 DEF HeldTypes, Records, Copy, Staged
    <2>2. Removed(done, gone')
      BY <1>1, <1>2, <2>1 DEF Copy, Removed
    <2>3. ASSUME fresh[p] PROVE Claimed("save", done)
      <3>1. Claimed(pc[p], my[p])
        BY <1>1, <2>3 DEF Copy
      <3> QED
        BY <1>1, <2>1, <3>1 DEF Claimed
    <2> QED
      BY <1>2, <1>3, <1>4, <2>1, <2>2, <2>3, SavingKeeps
  <1>5. CASE Failing(p)
    BY <1>1, <1>2, <1>3, <1>5, FailingKeeps
  <1> QED
    BY <1>4, <1>5 DEF Suspend

LEMMA CheckReadinessKeeps ==
  ASSUME IInv, NEW p \in Processes, CheckReadiness(p)
  PROVE  IInv'
  <1>1. StoreTypes /\ HeldTypes /\ Copy(pc[p], my[p], fresh[p]) /\ pc[p] = "cancel"
    BY Halves DEF IInv, Copies, CheckReadiness
  <1>2. /\ rec' = rec /\ tomb' = tomb /\ gone' = gone /\ pin' = pin /\ active' = active
        /\ tokens' = tokens /\ barrier' = barrier /\ artifact' = artifact /\ retain' = retain
    BY DEF CheckReadiness, elsewhere, tenantFlags, durable, artifacts
  <1>3. StoreTypes'
    BY <1>1, <1>2, Stored DEF CheckReadiness, StoreTypes
  <1>4. CASE Goto(p, "reactivate") /\ UNCHANGED <<my, fresh>>
    <2>1. my' = [my EXCEPT ![p] = my[p]] /\ fresh' = [fresh EXCEPT ![p] = fresh[p]]
          /\ pc' = [pc EXCEPT ![p] = "reactivate"]
      BY <1>1, <1>4, Same DEF Goto
    <2>2. Staged("reactivate", my[p]) /\ Destroying("reactivate") /\ Removed(my[p], gone')
      BY <1>1, <1>2 DEF Copy, Staged, Destroying, Removed
    <2>3. ASSUME fresh[p] PROVE Claimed("reactivate", my[p])
      <3>1. Claimed(pc[p], my[p])
        BY <1>1, <2>3 DEF Copy
      <3> QED
        BY <1>1, <3>1 DEF Claimed
    <2>4. "reactivate" \in Calls /\ my[p] \in Records /\ fresh[p] \in BOOLEAN
      BY <1>1, Same DEF Calls
    <2> QED
      BY <1>2, <1>3, <2>1, <2>2, <2>3, <2>4, Move
  <1>5. CASE Failing(p)
    BY <1>1, <1>2, <1>3, <1>5, FailingKeeps
  <1> QED
    BY <1>4, <1>5 DEF CheckReadiness

LEMMA ReactivateKeeps ==
  ASSUME IInv, NEW p \in Processes, Reactivate(p)
  PROVE  IInv'
  <1> DEFINE back == [my[p] EXCEPT !.state = "cancelled"]
  <1>1. StoreTypes /\ HeldTypes /\ Copy(pc[p], my[p], fresh[p]) /\ pc[p] = "reactivate"
    BY Halves DEF IInv, Copies, Reactivate
  <1>2. rec' = rec /\ tomb' = tomb /\ gone' = gone
    BY DEF Reactivate, durable
  <1>3. StoreTypes'
    BY <1>1, <1>2, Stored DEF Reactivate, durable, artifacts, StoreTypes
  <1>4. CASE Saving(p, back)
    <2>1. back \in Records /\ back.dest = my[p].dest /\ back.state = "cancelled"
      BY <1>1 DEF HeldTypes, Records
    <2>2. Removed(back, gone')
      BY <1>1, <1>2, <2>1 DEF Copy, Removed
    <2>3. ASSUME fresh[p] PROVE Claimed("save", back)
      <3>1. Claimed(pc[p], my[p])
        BY <1>1, <2>3 DEF Copy
      <3> QED
        BY <1>1, <2>1, <3>1 DEF Claimed
    <2> QED
      BY <1>2, <1>3, <1>4, <2>1, <2>2, <2>3, SavingKeeps
  <1>5. CASE Failing(p)
    BY <1>1, <1>2, <1>3, <1>5, FailingKeeps
  <1> QED
    BY <1>4, <1>5 DEF Reactivate

\* The resource that is removed is the next one of the copy, and a destroying command
\* works for a request that stays in its destruction.
LEMMA DestroyKeeps ==
  ASSUME IInv, NEW p \in Processes, Destroy(p)
  PROVE  IInv'
  <1> DEFINE i == my[p].dest + 1
             next == Recorded(my[p])
  <1>1. StoreTypes /\ HeldTypes /\ Copy(pc[p], my[p], fresh[p]) /\ pc[p] = "destroy"
    BY Halves DEF IInv, Copies, Destroy
  <1>2. my[p] \in Records /\ my[p].dest \in Nat /\ i \in 1..Last /\ Resources[i] \in All
    BY <1>1, Six, ResourceAt DEF HeldTypes, Records, Copy, Staged
  <1>3. rec' = rec /\ tomb' = tomb /\ pin' = pin /\ barrier' = barrier /\ artifact' = artifact
        /\ retain' = retain
    BY DEF Destroy, durable, artifacts
  <1>4. CASE /\ gone' = gone \cup {Resources[i]} /\ Saving(p, next) /\ UNCHANGED faults
             /\ active' = (active /\ Resources[i] # "domain_records")
             /\ tokens' = (tokens /\ Resources[i] # "domain_records")
    <2>1. gone' \subseteq All /\ gone \subseteq gone' /\ active' \in BOOLEAN /\ tokens' \in BOOLEAN
      BY <1>1, <1>2, <1>4 DEF StoreTypes
    <2>2. StoreTypes'
      BY <1>1, <1>3, <1>4, <2>1, Stored
    <2>3. next \in Records /\ next.dest = i /\ next.state = "finalizing"
      BY <1>1, <1>2, Six DEF Recorded, Records, Copy, Staged
    <2>4. Removed(next, gone')
      BY <1>1, <1>2, <1>4, <2>3 DEF Copy, Removed
    <2>5. tomb \/ rec.state = "finalizing"
      BY <1>1 DEF Copy, Destroying
    <2>6. ASSUME fresh[p] PROVE Claimed("save", next)
      <3>1. Claimed(pc[p], my[p])
        BY <1>1, <2>6 DEF Copy
      <3> QED
        BY <1>1, <2>3, <3>1 DEF Claimed
    <2> QED
      BY <1>3, <1>4, <2>1, <2>2, <2>3, <2>4, <2>5, <2>6, SavingKeeps
  <1>5. CASE Failing(p) /\ gone' = gone /\ active' = active /\ tokens' = tokens
             /\ (faults' = faults \/ Fault)
    <2>1. StoreTypes'
      BY <1>1, <1>3, <1>5, Stored DEF StoreTypes
    <2> QED
      BY <1>1, <1>3, <1>5, <2>1, FailingKeeps
  <1> QED
    BY <1>4, <1>5 DEF Destroy

LEMMA CrashKeeps ==
  ASSUME IInv, NEW p \in Processes, Crash(p)
  PROVE  IInv'
  <1>1. /\ rec' = rec /\ tomb' = tomb /\ gone' = gone /\ pin' = pin /\ active' = active
        /\ tokens' = tokens /\ barrier' = barrier /\ artifact' = artifact /\ retain' = retain
    BY DEF Crash, elsewhere, tenantFlags, durable, artifacts
  <1>2. StoreTypes
    BY Halves DEF IInv
  <1>3. StoreTypes'
    BY <1>1, <1>2, Stored DEF Crash, StoreTypes
  <1> QED
    BY <1>1, <1>3, EndKeeps DEF Crash

-----------------------------------------------------------------------------
(* The record is replaced: every other copy becomes outdated, or needs nothing of it *)

LEMMA Replace ==
  ASSUME IInv, NEW p \in Processes, StoreTypes', HeldTypes',
         \A q \in Processes : q # p =>
            /\ pc'[q] = pc[q] /\ my'[q] = my[q]
            /\ fresh'[q] => fresh[q] /\ pc[q] \in {"idle", "insert"},
         gone' = gone, tomb => tomb', tomb' => tomb \/ gone = All,
         gone # {} => tomb' \/ rec'.state = "finalizing",
         rec.state = "finalizing" => tomb' \/ rec'.state = "finalizing",
         Removed(rec', gone), Copy(pc[p], my[p], fresh[p])'
  PROVE  IInv'
  <1>1. TypeOK'
    BY Halves
  <1>2. DestructionIsCommitted'
    BY DEF IInv, DestructionIsCommitted, Removed
  <1>3. ASSUME NEW q \in Processes, q # p PROVE Copy(pc[q], my[q], fresh[q])'
    <2>1. pc'[q] = pc[q] /\ my'[q] = my[q] /\ fresh'[q] \in BOOLEAN
      BY <1>3 DEF HeldTypes
    <2>2. Staged(pc[q], my[q]) /\ Destroying(pc[q]) /\ Removed(my[q], gone)
      BY <1>3 DEF IInv, Copies, Copy
    <2>3. Staged(pc[q], my[q])' /\ Destroying(pc[q])' /\ Removed(my[q], gone)'
      BY <2>1, <2>2 DEF Staged, Destroying, Removed
    <2>4. ASSUME fresh'[q] PROVE Claimed(pc[q], my[q])'
      <3>1. pc'[q] \in {"idle", "insert"}
        BY <1>3, <2>1, <2>4
      <3> QED
        BY <3>1 DEF Claimed
    <2> QED
      BY <2>3, <2>4 DEF Copy
  <1> QED
    BY <1>1, <1>2, <1>3 DEF IInv, Copies

\* The request is stored while there is none: whatever was destroyed has a tombstone.
LEMMA InsertKeeps ==
  ASSUME IInv, NEW p \in Processes, Insert(p)
  PROVE  IInv'
  <1>1. StoreTypes /\ HeldTypes /\ Copy(pc[p], my[p], fresh[p]) /\ pc[p] = "insert"
    BY Halves DEF IInv, Copies, Insert
  <1>2. /\ tomb' = tomb /\ gone' = gone /\ pin' = pin /\ active' = active /\ tokens' = tokens
        /\ barrier' = barrier /\ artifact' = artifact /\ retain' = retain /\ faults' = faults
    BY DEF Insert, tenantFlags, artifacts
  <1>3. CASE rec.state = "none" /\ rec' = my[p] /\ Goto(p, "suspend") /\ UNCHANGED <<my, fresh>>
    <2>1. my[p] \in Records /\ my[p].state = "suspending" /\ my[p].susp < 3
      BY <1>1 DEF HeldTypes, Copy, Staged
    <2>2. StoreTypes'
      BY <1>1, <1>2, <1>3, <2>1 DEF StoreTypes
    <2>3. pc' = [pc EXCEPT ![p] = "suspend"] /\ my' = my /\ fresh' = fresh
      BY <1>3 DEF Goto
    <2>4. HeldTypes'
      BY <1>1, <2>3 DEF HeldTypes, Calls
    <2>5. ASSUME NEW q \in Processes, q # p, fresh'[q] PROVE fresh[q] /\ pc[q] \in {"idle", "insert"}
      <3>1. Claimed(pc[q], my[q])
        BY <2>3, <2>5 DEF IInv, Copies, Copy
      <3> QED
        BY <1>3, <2>3, <2>5, <3>1 DEF Claimed
    <2>6. \A q \in Processes : q # p => pc'[q] = pc[q] /\ my'[q] = my[q]
      BY <1>1, <2>3 DEF HeldTypes
    <2>7. gone # {} => tomb'
      BY <1>2, <1>3 DEF IInv, DestructionIsCommitted
    <2>8. Copy(pc[p], my[p], fresh[p])'
      <3>1. pc'[p] = "suspend" /\ my'[p] = my[p] /\ rec'.state = "suspending"
        BY <1>1, <1>3, <2>1, <2>3 DEF HeldTypes
      <3>2. Staged(pc[p], my[p])' /\ Destroying(pc[p])' /\ Claimed(pc[p], my[p])'
        BY <2>1, <3>1 DEF Staged, Destroying, Claimed
      <3>3. Removed(my[p], gone)'
        BY <1>1, <1>2, <3>1 DEF Copy, Removed
      <3> QED
        BY <3>2, <3>3 DEF Copy
    <2>9. Removed(rec', gone)
      BY <1>1, <1>3 DEF Copy
    <2> QED
      BY <1>2, <1>3, <2>2, <2>4, <2>5, <2>6, <2>7, <2>8, <2>9, Replace
  <1>4. CASE End(p) /\ UNCHANGED rec
    <2>1. StoreTypes'
      BY <1>1, <1>2, <1>4 DEF StoreTypes
    <2> QED
      BY <1>2, <1>4, <2>1, EndKeeps
  <1> QED
    BY <1>3, <1>4 DEF Insert

\* The save of a copy that has the record's revision, and outdates all others.
LEMMA SaveKeeps ==
  ASSUME IInv, NEW p \in Processes, Save(p)
  PROVE  IInv'
  <1> DEFINE r == my[p]
             next == After(my[p])
  <1>1. StoreTypes /\ HeldTypes /\ Copy(pc[p], r, fresh[p]) /\ pc[p] = "save" /\ r \in Records
    BY Halves, Same DEF IInv, Copies, Save
  <1>2. /\ tomb' = tomb /\ gone' = gone /\ pin' = pin /\ active' = active /\ tokens' = tokens
        /\ barrier' = barrier /\ artifact' = artifact /\ retain' = retain /\ faults' = faults
    BY DEF Save, tenantFlags, artifacts
  <1>3. CASE Matches(p)
    <2>1. /\ rec' = r /\ pc' = [pc EXCEPT ![p] = next]
          /\ my' = [my EXCEPT ![p] = IF next = "idle" THEN NoRecord ELSE Closing(r)]
          /\ fresh' = [q \in Processes |-> q = p /\ next # "idle"]
      BY <1>3 DEF Save, Goto
    <2>2. Claimed("save", r) /\ Removed(r, gone)
      BY <1>1, <1>3 DEF Matches, Copy
    <2>3. NoRecord \in Records /\ NoRecord.dest = 0
      BY Six DEF NoRecord, Records
    <2>4. next \in Calls /\ Closing(r) \in Records
      BY <1>1, AfterSave DEF Calls
    <2>5. StoreTypes'
      BY <1>1, <1>2, <2>1 DEF StoreTypes
    <2>6. HeldTypes'
      BY <1>1, <2>1, <2>3, <2>4 DEF HeldTypes
    <2>7. \A q \in Processes : q # p => pc'[q] = pc[q] /\ my'[q] = my[q] /\ ~fresh'[q]
      BY <1>1, <2>1 DEF HeldTypes
    <2>8. r.state = "finalizing" \/ (rec.state # "finalizing" /\ r.state # "finalizing")
      BY <1>1, <2>2 DEF Claimed, Records
    <2>9. gone # {} => tomb' \/ rec'.state = "finalizing"
      BY <1>2, <2>1, <2>8 DEF IInv, DestructionIsCommitted
    <2>10. Copy(pc[p], my[p], fresh[p])'
      <3>1. pc'[p] = next /\ my'[p] = (IF next = "idle" THEN NoRecord ELSE Closing(r))
        BY <1>1, <2>1 DEF HeldTypes
      <3>2. CASE next = "idle"
        BY <2>3, <3>1, <3>2 DEF Copy, Staged, Destroying, Removed, Claimed
      <3>3. CASE next # "idle"
        <4>1. my'[p] = Closing(r) /\ Closing(r).dest = r.dest
          BY <1>1, <3>1, <3>3, AfterSave
        <4>2. Staged(pc[p], my[p])' /\ Destroying(pc[p])'
          BY <1>1, <2>1, <3>1, <3>3, <4>1, AfterSave DEF Staged, Destroying
        <4>3. Removed(my[p], gone)'
          BY <1>2, <2>2, <4>1 DEF Removed
        <4>4. Claimed(pc[p], my[p])'
          BY <1>1, <2>1, <2>2, <3>1, <3>3, <4>1, AfterSave DEF Claimed
        <4> QED
          BY <4>2, <4>3, <4>4 DEF Copy
      <3> QED
        BY <3>2, <3>3
    <2> QED
      BY <1>2, <2>1, <2>2, <2>5, <2>6, <2>7, <2>8, <2>9, <2>10, Replace
  <1>4. CASE End(p) /\ UNCHANGED rec
    <2>1. StoreTypes'
      BY <1>1, <1>2, <1>4 DEF StoreTypes
    <2> QED
      BY <1>2, <1>4, <2>1, EndKeeps
  <1> QED
    BY <1>3, <1>4 DEF Save

LEMMA SaveFailureKeeps ==
  ASSUME IInv, NEW p \in Processes, SaveFailure(p)
  PROVE  IInv'
  <1>1. StoreTypes /\ HeldTypes /\ DestructionIsCommitted
    BY Halves DEF IInv
  <1>2. /\ rec' = rec /\ tomb' = tomb /\ gone' = gone /\ pin' = pin /\ active' = active
        /\ tokens' = tokens /\ barrier' = barrier /\ artifact' = artifact /\ retain' = retain
        /\ faults' = faults
    BY DEF SaveFailure, tenantFlags, durable, artifacts
  <1>3. StoreTypes'
    BY <1>1, <1>2 DEF StoreTypes
  <1>4. CASE /\ Goto(p, "idle") /\ my' = [my EXCEPT ![p] = NoRecord]
             /\ fresh' = [q \in Processes |-> FALSE]
    <2>1. NoRecord \in Records /\ NoRecord.dest = 0
      BY Six DEF NoRecord, Records
    <2>2. HeldTypes'
      BY <1>1, <1>4, <2>1 DEF HeldTypes, Goto, Calls
    <2>3. \A q \in Processes : q # p => pc'[q] = pc[q] /\ my'[q] = my[q] /\ ~fresh'[q]
      BY <1>1, <1>4 DEF HeldTypes, Goto
    <2>4. pc'[p] = "idle" /\ my'[p] = NoRecord /\ ~fresh'[p]
      BY <1>1, <1>4 DEF HeldTypes, Goto
    <2>5. Copy(pc[p], my[p], fresh[p])'
      BY <2>1, <2>4 DEF Copy, Staged, Destroying, Removed
    <2>6. Removed(rec', gone)
      BY <1>1, <1>2 DEF Removed, DestructionIsCommitted
    <2> QED
      BY <1>1, <1>2, <1>3, <2>2, <2>3, <2>5, <2>6, Replace DEF DestructionIsCommitted
  <1>5. CASE End(p)
    BY <1>2, <1>3, <1>5, EndKeeps
  <1> QED
    BY <1>4, <1>5 DEF SaveFailure

\* The tombstone takes the record's place when everything is gone.
LEMMA BuryKeeps ==
  ASSUME IInv, NEW p \in Processes, Bury(p)
  PROVE  IInv'
  <1>1. StoreTypes /\ HeldTypes /\ Copy(pc[p], my[p], fresh[p]) /\ pc[p] = "bury"
    BY Halves DEF IInv, Copies, Bury
  <1>2. /\ gone' = gone /\ active' = active /\ tokens' = tokens /\ barrier' = barrier
        /\ artifact' = artifact /\ retain' = retain /\ faults' = faults
    BY DEF Bury, tenantFlags, artifacts
  <1>3. CASE Matches(p)
    <2>1. /\ rec' = NoRecord /\ tomb' = TRUE /\ pin' = (my[p].evidence = "backup")
          /\ pc' = [pc EXCEPT ![p] = "idle"] /\ my' = [my EXCEPT ![p] = NoRecord]
          /\ fresh' = [q \in Processes |-> FALSE]
      BY <1>3 DEF Bury
    <2>2. NoRecord \in Records /\ NoRecord.dest = 0
      BY Six DEF NoRecord, Records
    <2>3. gone = All
      <3>1. \A i \in 1..Last : Resources[i] \in gone
        BY <1>1 DEF Copy, Staged, Removed
      <3> QED
        BY <1>1, <3>1 DEF StoreTypes, All
    <2>4. StoreTypes'
      BY <1>1, <1>2, <2>1, <2>2 DEF StoreTypes
    <2>5. HeldTypes'
      BY <1>1, <2>1, <2>2 DEF HeldTypes, Calls
    <2>6. \A q \in Processes : q # p => pc'[q] = pc[q] /\ my'[q] = my[q] /\ ~fresh'[q]
      BY <1>1, <2>1 DEF HeldTypes
    <2>7. pc'[p] = "idle" /\ my'[p] = NoRecord /\ ~fresh'[p]
      BY <1>1, <2>1 DEF HeldTypes
    <2>8. Copy(pc[p], my[p], fresh[p])'
      BY <2>2, <2>7 DEF Copy, Staged, Destroying, Removed
    <2>9. Removed(rec', gone)
      BY <2>1, <2>2 DEF Removed
    <2> QED
      BY <1>2, <2>1, <2>3, <2>4, <2>5, <2>6, <2>8, <2>9, Replace
  <1>4. CASE End(p) /\ UNCHANGED durable
    <2>1. rec' = rec /\ tomb' = tomb /\ pin' = pin
      BY <1>4 DEF durable
    <2>2. StoreTypes'
      BY <1>1, <1>2, <2>1 DEF StoreTypes
    <2> QED
      BY <1>2, <1>4, <2>1, <2>2, EndKeeps
  <1> QED
    BY <1>3, <1>4 DEF Bury

\* What backups, token issue and retention do touches no request and removes nothing.
LEMMA OthersKeep ==
  ASSUME IInv, StoreTypes', UNCHANGED <<gone, rec, tomb, process>>
  PROVE  IInv'
  <1>1. pc' = pc /\ my' = my /\ fresh' = fresh /\ rec' = rec /\ tomb' = tomb /\ gone' = gone
    BY DEF process
  <1>2. TypeOK'
    <2>1. HeldTypes'
      BY <1>1, Halves DEF IInv, HeldTypes
    <2> QED
      BY <2>1, Halves
  <1>3. DestructionIsCommitted'
    BY <1>1 DEF IInv, DestructionIsCommitted
  <1>4. Copies'
    BY <1>1 DEF IInv, Copies, Copy, Staged, Destroying, Removed, Claimed
  <1> QED
    BY <1>2, <1>3, <1>4 DEF IInv

LEMMA NextKeeps ==
  ASSUME IInv, [Next]_vars
  PROVE  IInv'
  <1>1. StoreTypes
    BY Halves DEF IInv
  <1>2. ASSUME NEW p \in Processes, Begin(p) PROVE IInv'
    BY <1>2, BeginRequestKeeps, BeginConfirmKeeps, BeginCancelKeeps, BeginFinalizeKeeps DEF Begin
  <1>3. ASSUME NEW p \in Processes, Continue(p) PROVE IInv'
    BY <1>3, SaveKeeps, SaveFailureKeeps, InsertKeeps, SuspendKeeps, CheckReadinessKeeps,
       ReactivateKeeps, DestroyKeeps, BuryKeeps DEF Continue
  <1>4. ASSUME NEW p \in Processes, Crash(p) PROVE IInv'
    BY <1>4, CrashKeeps
  <1>5. CASE BackupEnter \/ BackupExit \/ IssueToken
    <2>1. StoreTypes' /\ UNCHANGED <<gone, rec, tomb, process>>
      BY <1>1, <1>5 DEF BackupEnter, BackupExit, IssueToken, rest, durable, artifacts, StoreTypes
    <2> QED
      BY <2>1, OthersKeep
  <1>6. CASE RetentionPlan \/ RetentionCheck \/ RetentionDelete \/ PinExpires
    <2>1. StoreTypes' /\ UNCHANGED <<gone, rec, tomb, process>>
      BY <1>1, <1>6 DEF RetentionPlan, RetentionCheck, RetentionDelete, PinExpires, rest, durable,
                       artifacts, tenantFlags, StoreTypes
    <2> QED
      BY <2>1, OthersKeep
  <1>7. CASE UNCHANGED vars
    <2>1. StoreTypes' /\ UNCHANGED <<gone, rec, tomb, process>>
      BY <1>1, <1>7 DEF vars, durable, artifacts, tenantFlags, StoreTypes
    <2> QED
      BY <2>1, OthersKeep
  <1> QED
    BY <1>2, <1>3, <1>4, <1>5, <1>6, <1>7 DEF Next

-----------------------------------------------------------------------------
(* Theorems *)

\* Every command's copy of its request is as its next call needs it, and worth what
\* its revision says, in every reachable state (decommission.py, the revision-checked
\* saves of _suspend, confirm, cancel and finalize).
THEOREM Inductive == Spec => []IInv
  <1>1. Init => IInv
    BY InitInv
  <1>2. IInv /\ [Next]_vars => IInv'
    BY NextKeeps
  <1> QED
    BY <1>1, <1>2, PTL DEF Spec

\* The stored request, the flags and the commands' copies are always values of the
\* program's types: the counters of completed steps never pass the step lists.
THEOREM TypeCorrect == Spec => []TypeOK
  <1>1. IInv => TypeOK
    BY DEF IInv
  <1> QED
    BY <1>1, Inductive, PTL

\* A resource of the Tenant is removed only for a request that has left its grace
\* period for good, and the record and the tombstone claim no removal that did not
\* happen, whatever commands race, fail or die.
THEOREM DestructionCommitted == Spec => []DestructionIsCommitted
  <1>1. IInv => DestructionIsCommitted
    BY DEF IInv
  <1> QED
    BY <1>1, Inductive, PTL

=============================================================================
