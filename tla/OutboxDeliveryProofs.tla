------------------------ MODULE OutboxDeliveryProofs ------------------------
(***************************************************************************)
(* Proofs about OutboxDelivery, for any sets of events, relays, handlers   *)
(* and messages and any bounds. The dead-letter queue must not reach its   *)
(* own delivery limit: every redrive returns the other dead letters to it, *)
(* which counts, so MaxRedrives <= DeadLetterLimit is a hypothesis.        *)
(***************************************************************************)
EXTENDS OutboxDelivery, TLAPS

\* Initially nothing is committed and the broker is empty.
LEMMA InitIInv == Init => IInv
  BY BoundsAssumption, NoneAssumption
     DEF Init, IInv, TypeOK, Places, Referenced, Owned, Processed, Counted, Kept,
         Live, Held, Stored

\* Rows: inserting one, and the passing of time.
LEMMA RowSteps ==
  ASSUME IInv, NEW e \in Events, Commit(e) \/ Elapse(e)
  PROVE  IInv'
  <1> USE DEF IInv, ledger, relays, broker, workers, operator, bounds
  <1>1. CASE Commit(e)
    BY <1>1 DEF Commit, TypeOK, Referenced, Owned, Processed, Counted, Kept, Live, Held
  <1>2. CASE Elapse(e)
    BY <1>2 DEF Elapse, LeaseExpires, BackoffElapses, TypeOK, Referenced, Owned,
                Processed, Counted, Kept, Live, Held
  <1> QED BY <1>1, <1>2

\* A stored message keeps its envelope: nothing republishes under its identity.
LEMMA EnqueueIInv ==
  ASSUME IInv, NEW m \in Msgs, NEW e \in committed, Enqueue(m, e)
  PROVE  /\ at' \in [Msgs -> Places] /\ evOf' \in [Msgs -> Events \cup {NoEvent}]
         /\ \A n \in Msgs : at[n] # "free" => at'[n] = at[n] /\ evOf'[n] = evOf[n]
         /\ \A n \in Msgs : at'[n] # "free" => evOf'[n] \in committed
         /\ at'[m] = "queue" /\ evOf'[m] = e /\ at[m] = "free"
         /\ \A n \in Msgs : n # m => at'[n] = at[n] /\ evOf'[n] = evOf[n]
  BY DEF IInv, TypeOK, Places, Referenced, Enqueue

\* Relays: claiming, publishing, releasing, marking and crashing.
LEMMA RelaySteps ==
  ASSUME IInv, NEW r \in Relays,
         Relay(r) \/ RelayPublishError(r) \/ RelayCrash(r) \/ LeaseOverrun(r)
  PROVE  IInv'
  <1> USE NoneAssumption, BoundsAssumption
          DEF IInv, ledger, relays, broker, workers, operator, bounds
  <1>1. CASE RelayClaim(r)
    BY <1>1 DEF RelayClaim, Claimable, TypeOK, Referenced, Owned, Processed, Counted,
                Kept, Live, Held
  <1>2. CASE RelayPublish(r)
    <2> PICK m \in Msgs : Enqueue(m, rev[r])
      BY <1>2 DEF RelayPublish
    <2> rev[r] \in committed /\ returns' = returns
      BY <1>2 DEF RelayPublish, Referenced, Enqueue
    <2>1. TypeOK'
      BY <1>2, EnqueueIInv DEF RelayPublish, TypeOK
    <2>2. Referenced' /\ Owned' /\ Processed'
      BY <1>2, EnqueueIInv DEF RelayPublish, TypeOK, Referenced, Owned, Processed, Held
    <2>3. Counted'
      BY <1>2, EnqueueIInv DEF RelayPublish, TypeOK, Counted
    <2>4. Kept'
      BY <1>2, EnqueueIInv DEF RelayPublish, TypeOK, Referenced, Kept, Live, Stored
    <2> QED BY <2>1, <2>2, <2>3, <2>4
  <1>3. CASE RelayPublishError(r)
    <2>1. CASE \E m \in Msgs : Enqueue(m, rev[r])
      <3> PICK m \in Msgs : Enqueue(m, rev[r])
        BY <2>1
      <3> rev[r] \in committed /\ returns' = returns
        BY <1>3 DEF RelayPublishError, Referenced, Enqueue
      <3>1. TypeOK'
        BY <1>3, EnqueueIInv DEF RelayPublishError, Fault, TypeOK
      <3>2. Referenced' /\ Owned' /\ Processed'
        BY <1>3, EnqueueIInv
           DEF RelayPublishError, Fault, TypeOK, Referenced, Owned, Processed, Held
      <3>3. Counted'
        BY <1>3, EnqueueIInv DEF RelayPublishError, Fault, TypeOK, Counted
      <3>4. Kept'
        BY <1>3, EnqueueIInv DEF RelayPublishError, TypeOK, Referenced, Kept, Live, Stored
      <3> QED BY <3>1, <3>2, <3>3, <3>4
    <2>2. CASE UNCHANGED broker
      BY <1>3, <2>2 DEF RelayPublishError, Fault, TypeOK, Referenced, Owned, Processed,
                        Counted, Kept, Live, Held
    <2> QED BY <1>3, <2>1, <2>2 DEF RelayPublishError
  <1>4. CASE RelayRelease(r)
    BY <1>4 DEF RelayRelease, RelayDone, OwnsRow, TypeOK, Referenced, Owned, Processed,
                Counted, Kept, Live, Held
  <1>5. CASE RelayMarkDispatched(r)
    BY <1>5 DEF RelayMarkDispatched, RelayDone, OwnsRow, TypeOK, Referenced, Owned,
                Processed, Counted, Kept, Live, Held
  <1>6. CASE RelayCrash(r)
    BY <1>6 DEF RelayCrash, RelayDone, Fault, TypeOK, Referenced, Owned, Processed,
                Counted, Kept, Live, Held
  <1>7. CASE LeaseOverrun(r)
    BY <1>7 DEF LeaseOverrun, Fault, TypeOK, Referenced, Owned, Processed, Counted,
                Kept, Live, Held
  <1> QED BY <1>1, <1>2, <1>3, <1>4, <1>5, <1>6, <1>7 DEF Relay

\* A message given back by a live handler stays in the broker, on either queue.
LEMMA ReturnIInv ==
  ASSUME IInv, NEW h \in Handlers, hpc[h] # "idle", hlive[h],
         NEW counted \in {0, 1}, ReturnToQueue(hmsg[h], counted)
  PROVE  /\ hmsg[h] \in Msgs /\ at[hmsg[h]] = "unacked"
         /\ at' \in [Msgs -> Places]
         /\ returns' \in [Msgs -> 0..(RetryLimit + MaxRedrives)]
         /\ at'[hmsg[h]] \in {"queue", "dead"}
         /\ at'[hmsg[h]] = "queue" => returns'[hmsg[h]] <= RetryLimit
         /\ at'[hmsg[h]] = "dead" => returns'[hmsg[h]] = 0
         /\ \A n \in Msgs : n # hmsg[h] => at'[n] = at[n] /\ returns'[n] = returns[n]
  <1>1. hmsg[h] \in Msgs /\ at[hmsg[h]] = "unacked" /\ returns[hmsg[h]] \in Nat
    BY BoundsAssumption DEF IInv, TypeOK, Referenced, Owned
  <1> QED
    BY <1>1, BoundsAssumption DEF IInv, TypeOK, Places, ReturnToQueue

\* What a step must leave as it was for the giving back of h's message to be safe.
LEMMA ReturnStep ==
  ASSUME IInv, NEW h \in Handlers, hpc[h] # "idle", hlive[h],
         NEW counted \in {0, 1}, ReturnToQueue(hmsg[h], counted),
         UNCHANGED <<ledger, relays, evOf, operator, redrives>>,
         faults' \in 0..MaxFaults,
         hpc' \in [Handlers -> {"idle", "work", "ack", "reject"}],
         hmsg' \in [Handlers -> Msgs \cup {NoMsg}],
         hlive' \in [Handlers -> BOOLEAN],
         hpc'[h] = "idle" \/ (~hlive'[h] /\ hpc'[h] = hpc[h] /\ hmsg'[h] = hmsg[h]),
         \A g \in Handlers : g # h =>
           hpc'[g] = hpc[g] /\ hmsg'[g] = hmsg[g] /\ hlive'[g] = hlive[g]
  PROVE  IInv'
  <1> USE BoundsAssumption, ReturnIInv DEF IInv, ledger, relays, operator
  <1>1. TypeOK'
    BY DEF TypeOK
  <1>2. Referenced'
    BY DEF Referenced, Held, TypeOK
  <1>3. Owned'
    BY DEF Owned, TypeOK, Referenced
  <1>4. Processed'
    BY DEF Processed, TypeOK, Referenced
  <1>5. Counted'
    BY DEF Counted, TypeOK
  <1>6. Kept'
    BY DEF Kept, Live, Stored, TypeOK, Referenced
  <1> QED BY <1>1, <1>2, <1>3, <1>4, <1>5, <1>6

\* Handlers: delivery, processing, failing, acknowledging, giving back, crashing.
LEMMA HandlerSteps ==
  ASSUME IInv, NEW h \in Handlers,
         Handle(h) \/ HandleError(h) \/ ConnectionLost(h) \/ HandlerCrash(h)
  PROVE  IInv'
  <1> USE NoneAssumption, BoundsAssumption
          DEF IInv, ledger, relays, broker, workers, operator, bounds
  <1>1. CASE Deliver(h)
    <2> PICK m \in Msgs : at[m] = "queue" /\ at' = [at EXCEPT ![m] = "unacked"]
                          /\ hmsg' = [hmsg EXCEPT ![h] = m]
      BY <1>1 DEF Deliver
    <2>1. TypeOK'
      BY <1>1 DEF Deliver, TypeOK, Places
    <2>2. Referenced' /\ Processed'
      BY <1>1 DEF Deliver, TypeOK, Referenced, Processed, Held
    <2>3. Owned'
      BY <1>1 DEF Deliver, TypeOK, Owned, Referenced
    <2>4. Counted' /\ Kept'
      BY <1>1 DEF Deliver, TypeOK, Counted, Kept, Live, Stored
    <2> QED BY <2>1, <2>2, <2>3, <2>4
  <1>2. CASE HandleProcess(h)
    <2> hmsg[h] \in Msgs /\ evOf[hmsg[h]] \in Events
      BY <1>2 DEF HandleProcess, Referenced, TypeOK
    <2>1. TypeOK'
      BY <1>2 DEF HandleProcess, TypeOK
    <2>2. Referenced' /\ Owned' /\ Processed'
      BY <1>2 DEF HandleProcess, TypeOK, Referenced, Owned, Processed, Held
    <2>3. Counted' /\ Kept'
      BY <1>2 DEF HandleProcess, TypeOK, Counted, Kept, Live, Referenced
    <2> QED BY <2>1, <2>2, <2>3
  <1>3. CASE HandleError(h)
    BY <1>3 DEF HandleError, Fault, TypeOK, Referenced, Owned, Processed, Counted,
                Kept, Live, Held
  <1>4. CASE HandleAck(h)
    <2> hmsg[h] \in Msgs /\ evOf[hmsg[h]] \in processed
      BY <1>4 DEF HandleAck, Referenced, Processed
    <2>1. TypeOK'
      BY <1>4 DEF HandleAck, HandlerDone, TypeOK, Places
    <2>2. Referenced' /\ Processed'
      BY <1>4 DEF HandleAck, HandlerDone, TypeOK, Referenced, Processed, Held, Owned
    <2>3. Owned'
      BY <1>4 DEF HandleAck, HandlerDone, TypeOK, Owned, Referenced
    <2>4. Counted'
      BY <1>4 DEF HandleAck, HandlerDone, TypeOK, Counted
    <2>5. Kept'
      BY <1>4 DEF HandleAck, HandlerDone, TypeOK, Kept, Live, Processed, Referenced
    <2> QED BY <2>1, <2>2, <2>3, <2>4, <2>5
  <1>5. ASSUME HandlerDone(h)
        PROVE  /\ hpc' \in [Handlers -> {"idle", "work", "ack", "reject"}]
               /\ hmsg' \in [Handlers -> Msgs \cup {NoMsg}]
               /\ hlive' \in [Handlers -> BOOLEAN] /\ hpc'[h] = "idle"
               /\ \A g \in Handlers : g # h =>
                    hpc'[g] = hpc[g] /\ hmsg'[g] = hmsg[g] /\ hlive'[g] = hlive[g]
    BY <1>5 DEF HandlerDone, TypeOK
  <1>6. CASE HandleReject(h)
    <2>1. CASE hlive[h]
      BY <1>5, <1>6, <2>1, ReturnStep DEF HandleReject, TypeOK
    <2>2. CASE ~hlive[h]
      BY <1>6, <2>2 DEF HandleReject, HandlerDone, TypeOK, Referenced, Owned, Processed,
                        Counted, Kept, Live, Held
    <2> QED BY <2>1, <2>2
  <1>7. CASE ConnectionLost(h)
    <2> PICK counted \in {0, 1} : ReturnToQueue(hmsg[h], counted)
      BY <1>7 DEF ConnectionLost
    <2>1. /\ UNCHANGED <<ledger, relays, evOf, operator, redrives, hpc, hmsg>>
          /\ faults' \in 0..MaxFaults /\ hpc[h] # "idle" /\ hlive[h]
      BY <1>7 DEF ConnectionLost, Fault, TypeOK
    <2>2. /\ hlive' \in [Handlers -> BOOLEAN] /\ ~hlive'[h]
          /\ \A g \in Handlers : g # h => hlive'[g] = hlive[g]
      BY <1>7 DEF ConnectionLost, TypeOK
    <2> QED BY <2>1, <2>2, ReturnStep DEF TypeOK
  <1>8. CASE HandlerCrash(h)
    <2>1. CASE hlive[h]
      <3> PICK counted \in {0, 1} : ReturnToQueue(hmsg[h], counted)
        BY <1>8, <2>1 DEF HandlerCrash
      <3> QED BY <1>5, <1>8, <2>1, ReturnStep DEF HandlerCrash, Fault, TypeOK
    <2>2. CASE ~hlive[h]
      BY <1>8, <2>2 DEF HandlerCrash, HandlerDone, Fault, TypeOK, Referenced, Owned,
                        Processed, Counted, Kept, Live, Held
    <2> QED BY <2>1, <2>2
  <1> QED BY <1>1, <1>2, <1>3, <1>4, <1>6, <1>7, <1>8 DEF Handle

\* While the redrives stay within the dead-letter queue's limit, giving held
\* messages back to it drops none of them.
LEMMA DeadLettersReturn ==
  ASSUME IInv, MaxRedrives <= DeadLetterLimit, dpc # "idle",
         NEW acked, acked = NoMsg \/ (acked = dmsg /\ dpc = "scheduled"),
         ReturnToDeadLetters(Held, acked), RedriveDone,
         UNCHANGED <<ledger, relays, workers, redrives>>, faults' \in 0..MaxFaults
  PROVE  IInv'
  <1> USE NoneAssumption, BoundsAssumption DEF IInv, ledger, relays, workers
  <1>1. /\ \A m \in Msgs : m # acked /\ at[m] = "held" =>
             at'[m] = "dead" /\ returns'[m] = returns[m] + 1 /\ returns'[m] <= redrives
        /\ \A m \in Msgs : m # acked /\ at[m] # "held" =>
             at'[m] = at[m] /\ returns'[m] = returns[m]
        /\ \A m \in Msgs : m = acked => at'[m] = "gone" /\ returns'[m] = returns[m]
    BY DEF ReturnToDeadLetters, Held, TypeOK, Counted
  <1>2. /\ at' \in [Msgs -> Places] /\ evOf' = evOf
        /\ returns' \in [Msgs -> 0..(RetryLimit + MaxRedrives)]
    <2>1. \A m \in Msgs : at'[m] \in Places /\ returns'[m] \in 0..(RetryLimit + MaxRedrives)
      BY <1>1 DEF TypeOK, Places
    <2> QED BY <2>1 DEF ReturnToDeadLetters
  <1>3. dpc' = "idle" /\ dev' = NoEvent /\ dmsg' = NoMsg
    BY DEF RedriveDone
  <1>4. TypeOK'
    BY <1>2, <1>3 DEF TypeOK
  <1>5. Referenced'
    BY <1>1, <1>2, <1>3 DEF Referenced, Held, TypeOK
  <1>6. Owned'
    BY <1>1, <1>2 DEF Owned, Referenced, TypeOK
  <1>7. Processed'
    BY <1>2 DEF Processed
  <1>8. Counted'
    BY <1>1, <1>2, <1>3 DEF Counted, TypeOK
  <1>9. Kept'
    <2>1. \A e \in Events : Live(e) => Live(e)'
      BY <1>1, <1>2, <1>3 DEF Live, Stored
    <2>2. /\ UNCHANGED <<dispatched, processed, lock, rpc, rev>>
          /\ dispatched \subseteq Events /\ \A r \in Relays : rpc[r] # "idle" => rev[r] \in Events
      BY DEF TypeOK, Referenced
    <2> HIDE DEF Live
    <2> QED BY <2>1, <2>2 DEF Kept
  <1> QED BY <1>4, <1>5, <1>6, <1>7, <1>8, <1>9

\* The redriver's steps.
LEMMA RedriveSteps ==
  ASSUME IInv, MaxRedrives <= DeadLetterLimit,
         Redrive \/ RedriveCrash \/ \E e \in Events : RedriveBegin(e)
  PROVE  IInv'
  <1> USE NoneAssumption, BoundsAssumption
          DEF IInv, ledger, relays, broker, workers, operator, bounds
  <1>1. CASE \E e \in Events : RedriveBegin(e)
    <2> PICK e \in Events : RedriveBegin(e)
      BY <1>1
    <2>1. TypeOK'
      BY DEF RedriveBegin, TypeOK
    <2>2. Referenced' /\ Owned' /\ Processed' /\ Kept'
      BY DEF RedriveBegin, Referenced, Owned, Processed, Kept, Live, Held
    <2>3. Counted'
      BY DEF RedriveBegin, Counted, TypeOK
    <2> QED BY <2>1, <2>2, <2>3
  <1>2. CASE RedriveGet
    <2> PICK m \in Msgs : /\ at[m] = "dead" /\ at' = [at EXCEPT ![m] = "held"]
                          /\ IF evOf[m] = dev THEN dpc' = "found" /\ dmsg' = m
                             ELSE UNCHANGED <<dpc, dmsg>>
      BY <1>2 DEF RedriveGet
    <2>1. TypeOK'
      BY <1>2 DEF RedriveGet, TypeOK, Places
    <2>2. Referenced' /\ Owned' /\ Processed'
      BY <1>2 DEF RedriveGet, TypeOK, Referenced, Owned, Processed, Held
    <2>3. Counted'
      BY <1>2 DEF RedriveGet, TypeOK, Counted
    <2>4. Kept'
      BY <1>2 DEF RedriveGet, TypeOK, Kept, Live, Stored
    <2> QED BY <2>1, <2>2, <2>3, <2>4
  <1>3. CASE RedriveMiss
    BY <1>3 DEF RedriveMiss, TypeOK, Referenced, Owned, Processed, Counted, Kept, Live, Held
  <1>4. CASE RedriveSchedule
    <2>1. TypeOK'
      BY <1>4 DEF RedriveSchedule, Reopen, TypeOK, Referenced
    <2>2. Referenced' /\ Owned' /\ Processed' /\ Counted'
      BY <1>4 DEF RedriveSchedule, Reopen, TypeOK, Referenced, Owned, Processed, Counted, Held
    <2>3. Kept'
      BY <1>4 DEF RedriveSchedule, Reopen, TypeOK, Referenced, Kept, Live
    <2> QED BY <2>1, <2>2, <2>3
  <1>5. CASE RedriveAck
    BY <1>5, DeadLettersReturn DEF RedriveAck, Referenced, TypeOK
  <1>6. CASE RedriveClose
    <2>1. /\ dpc # "idle" /\ ReturnToDeadLetters(Held, NoMsg) /\ RedriveDone
          /\ UNCHANGED <<ledger, relays, workers, redrives>> /\ faults' \in 0..MaxFaults
      BY <1>6 DEF RedriveClose, TypeOK
    <2> QED BY <2>1, DeadLettersReturn
  <1>7. CASE RedriveCrash
    BY <1>7, DeadLettersReturn DEF RedriveCrash, Fault, TypeOK
  <1> QED BY <1>1, <1>2, <1>3, <1>4, <1>5, <1>6, <1>7 DEF Redrive

\* The invariant is inductive.
THEOREM Inductive ==
  ASSUME MaxRedrives <= DeadLetterLimit
  PROVE  Spec => []IInv
  <1>1. IInv /\ [Next]_vars => IInv'
    <2> SUFFICES ASSUME IInv, [Next]_vars PROVE IInv'
      OBVIOUS
    <2>1. CASE UNCHANGED vars
      BY <2>1 DEF vars, ledger, relays, broker, workers, operator, bounds, IInv, TypeOK,
                  Referenced, Owned, Processed, Counted, Kept, Live, Held
    <2>2. CASE Next
      BY <2>2, RowSteps, RelaySteps, HandlerSteps, RedriveSteps DEF Next
    <2> QED BY <2>1, <2>2
  <1> QED BY <1>1, InitIInv, PTL DEF Spec

\* Every variable keeps its type; in particular neither queue returns a message
\* more often than its limit and the number of redrives allow.
THEOREM TypeCorrect ==
  ASSUME MaxRedrives <= DeadLetterLimit
  PROVE  Spec => []TypeOK
  <1>1. IInv => TypeOK
    BY DEF IInv
  <1> QED BY <1>1, Inductive, PTL

\* No dispatched event is lost: whatever crashes, lease overruns, failed
\* publishes, dropped connections and redrives happen, an event whose row no relay
\* will claim again is processed or still has a message in the broker.
THEOREM NothingLost ==
  ASSUME MaxRedrives <= DeadLetterLimit
  PROVE  Spec => []NoLostEvent
  <1>1. IInv => NoLostEvent
    BY DEF IInv, Kept, Live, Stored, NoLostEvent, Copies
  <1> QED BY <1>1, Inductive, PTL

\* A relay that still owns its row holds unprocessed, stored work, so a late
\* mark_outbox_dispatched can hide neither an unpublished nor a redriven event.
THEOREM ClaimsAreFenced ==
  ASSUME MaxRedrives <= DeadLetterLimit
  PROVE  Spec => []ClaimFence
  <1>1. IInv => ClaimFence
    BY NoneAssumption
       DEF IInv, TypeOK, Referenced, Processed, Kept, Live, Stored, ClaimFence, Copies, OwnsRow
  <1> QED BY <1>1, Inductive, PTL

\* Every message handed out is in exactly one pair of hands.
THEOREM CustodyKept ==
  ASSUME MaxRedrives <= DeadLetterLimit
  PROVE  Spec => []Custody
  <1>1. IInv => Custody
    BY DEF IInv, TypeOK, Owned, Referenced, Custody, Attached
  <1> QED BY <1>1, Inductive, PTL

\* Only an acknowledgement, or the end of a redrive, takes a message away, and neither
\* touches the rows.
LEMMA RemovalSteps ==
  ASSUME IInv, [Next]_vars, NEW m \in Msgs, at[m] # "gone", at'[m] = "gone"
  PROVE  UNCHANGED <<dispatched, processed, evOf>>
  <1> USE DEF IInv, TypeOK, ledger, relays, broker, workers, operator, bounds
  <1>1. CASE UNCHANGED vars
    BY <1>1 DEF vars
  <1>2. CASE \E e \in Events : Commit(e) \/ Elapse(e) \/ RedriveBegin(e)
    BY <1>2 DEF Commit, Elapse, LeaseExpires, BackoffElapses, RedriveBegin
  <1>3. CASE \E r \in Relays :
               Relay(r) \/ RelayPublishError(r) \/ RelayCrash(r) \/ LeaseOverrun(r)
    BY <1>3 DEF Relay, RelayClaim, RelayPublish, RelayRelease, RelayMarkDispatched,
                RelayPublishError, RelayCrash, LeaseOverrun, Enqueue
  <1>4. CASE \E h \in Handlers :
               Handle(h) \/ HandleError(h) \/ ConnectionLost(h) \/ HandlerCrash(h)
    BY <1>4 DEF Handle, Deliver, HandleProcess, HandleAck, HandleReject, HandleError,
                ConnectionLost, HandlerCrash, ReturnToQueue
  <1>5. CASE Redrive \/ RedriveCrash
    BY <1>5 DEF Redrive, RedriveGet, RedriveMiss, RedriveSchedule, RedriveAck,
                RedriveClose, RedriveCrash, ReturnToDeadLetters
  <1> QED BY <1>1, <1>2, <1>3, <1>4, <1>5 DEF Next

\* A message leaves the broker only when its event is processed, or its row is open
\* again, or another copy is left: acknowledging never loses the last copy of open work.
THEOREM RemovalsProved ==
  ASSUME MaxRedrives <= DeadLetterLimit
  PROVE  Spec => RemovalsAreSafe
  <1> DEFINE Safe == \A m \in Msgs : at[m] \notin {"free", "gone"} /\ at'[m] = "gone" =>
                       \/ evOf[m] \in processed
                       \/ evOf[m] \notin dispatched
                       \/ Copies(evOf[m])' # {}
  <1>1. IInv /\ IInv' /\ [Next]_vars => [Safe]_vars
    <2> SUFFICES ASSUME IInv, IInv', [Next]_vars, NEW m \in Msgs,
                        at[m] # "gone", at'[m] = "gone",
                        evOf[m] \notin processed, evOf[m] \in dispatched
                 PROVE  Copies(evOf[m])' # {}
      OBVIOUS
    <2>1. UNCHANGED <<dispatched, processed, evOf>>
      BY RemovalSteps
    <2>2. evOf[m] \in dispatched' \ processed'
      BY <2>1
    <2>3. \E n \in Msgs : evOf'[n] = evOf[m] /\ at'[n] \in Stored
      BY <2>1, <2>2 DEF IInv, Kept, Live
    <2> QED BY <2>1, <2>3 DEF Copies, Stored
  <1> QED BY <1>1, Inductive, PTL DEF Spec, RemovalsAreSafe

\* One step of the outbox is one step, or none, of the promised delivery.
LEMMA StepRefines ==
  ASSUME IInv, [Next]_vars
  PROVE  [Delivery!Next]_(Delivery!vars)
  <1> USE NoneAssumption
          DEF IInv, ledger, relays, broker, workers, operator, bounds, holding, Delivery!vars
  <1>1. CASE UNCHANGED <<committed, processed, holding>>
    BY <1>1
  <1>2. CASE \E e \in Events : Commit(e)
    BY <1>2 DEF Commit, Delivery!Next, Delivery!Commit
  <1>3. ASSUME NEW h \in Handlers, Deliver(h) PROVE Delivery!Start(h)
    <2> PICK m \in Msgs : at[m] = "queue" /\ hmsg' = [hmsg EXCEPT ![h] = m]
      BY <1>3 DEF Deliver
    <2>1. hpc[h] = "idle" /\ UNCHANGED <<committed, processed, evOf>>
          /\ hpc' = [hpc EXCEPT ![h] = "work"]
      BY <1>3 DEF Deliver
    <2>2. evOf[m] \in committed
      BY DEF Referenced
    <2>3. holding' = [holding EXCEPT ![h] = evOf[m]]
      BY <2>1 DEF TypeOK
    <2> QED BY <2>1, <2>2, <2>3 DEF Delivery!Start
  <1>4. ASSUME NEW h \in Handlers, HandleProcess(h) PROVE Delivery!Process(h)
    <2>1. hpc[h] = "work" /\ evOf[hmsg[h]] \in Events
      BY <1>4 DEF HandleProcess, Referenced, TypeOK
    <2>2. holding' = holding
      BY <1>4 DEF HandleProcess, TypeOK
    <2> QED BY <1>4, <2>1, <2>2 DEF HandleProcess, Delivery!Process
  <1>5. ASSUME NEW h \in Handlers, hpc[h] # "idle", HandlerDone(h),
               UNCHANGED <<committed, processed, evOf>>
        PROVE  Delivery!Finish(h)
    <2>1. evOf[hmsg[h]] \in Events
      BY <1>5 DEF Referenced, TypeOK
    <2>2. holding' = [holding EXCEPT ![h] = NoEvent]
      BY <1>5 DEF HandlerDone, TypeOK
    <2> QED BY <1>5, <2>1, <2>2 DEF Delivery!Finish
  <1>6. ASSUME NEW h \in Handlers, HandleError(h) \/ ConnectionLost(h)
        PROVE  UNCHANGED <<committed, processed, holding>>
    BY <1>6 DEF HandleError, ConnectionLost, TypeOK
  <1>7. ASSUME NEW r \in Relays,
               Relay(r) \/ RelayPublishError(r) \/ RelayCrash(r) \/ LeaseOverrun(r)
        PROVE  UNCHANGED <<committed, processed, holding>>
    <2>1. /\ UNCHANGED <<committed, processed, hpc, hmsg>>
          /\ \A m \in Msgs : at[m] # "free" => evOf'[m] = evOf[m]
      BY <1>7 DEF Relay, RelayClaim, RelayPublish, RelayRelease, RelayMarkDispatched,
                  RelayPublishError, RelayCrash, LeaseOverrun, RelayDone, Enqueue, TypeOK
    <2> QED BY <2>1 DEF Referenced
  <1>8. ASSUME Redrive \/ RedriveCrash \/ \E e \in Events : RedriveBegin(e) \/ Elapse(e)
        PROVE  UNCHANGED <<committed, processed, holding>>
    BY <1>8 DEF Redrive, RedriveGet, RedriveMiss, RedriveSchedule, Reopen, RedriveAck,
                RedriveClose, RedriveCrash, RedriveBegin, ReturnToDeadLetters, Elapse,
                LeaseExpires, BackoffElapses
  <1>9. CASE UNCHANGED vars
    BY <1>9 DEF vars
  <1>10. ASSUME NEW h \in Handlers,
                Handle(h) \/ HandleError(h) \/ ConnectionLost(h) \/ HandlerCrash(h)
         PROVE  \/ Delivery!Start(h) \/ Delivery!Process(h) \/ Delivery!Finish(h)
                \/ UNCHANGED <<committed, processed, holding>>
    <2>1. CASE HandleAck(h) \/ HandleReject(h) \/ HandlerCrash(h)
      <3>1. hpc[h] # "idle" /\ HandlerDone(h) /\ UNCHANGED <<committed, processed, evOf>>
        BY <2>1 DEF HandleAck, HandleReject, HandlerCrash
      <3> QED BY <3>1, <1>5
    <2> QED BY <1>10, <2>1, <1>3, <1>4, <1>6 DEF Handle
  <1>11. CASE Next
    BY <1>11, <1>1, <1>2, <1>7, <1>8, <1>10 DEF Next, Delivery!Next
  <1> QED BY <1>1, <1>9, <1>11

\* The outbox implements EventDelivery: handlers only ever hold committed events,
\* an event is processed only by a handler that holds it, and never undone.
THEOREM RefinesDelivery ==
  ASSUME MaxRedrives <= DeadLetterLimit
  PROVE  Spec => DeliverySpec
  <1>1. Init => Delivery!Init
    BY DEF Init, Delivery!Init, holding
  <1> QED BY <1>1, StepRefines, Inductive, PTL DEF Spec, DeliverySpec, Delivery!Spec
=============================================================================
