--------------------------- MODULE OutboxDelivery ---------------------------
(***************************************************************************)
(* The transactional outbox of one Tenant database: the rows of            *)
(* memory.outbox, the relays that publish them under a lease, the RabbitMQ *)
(* work and dead-letter queues, the consumers that apply an event and      *)
(* acknowledge its message, and the operator's redrive of one dead letter. *)
(*                                                                         *)
(* Applying an event is one step here (the transaction that sets           *)
(* processed_at): PrivateMemory and KnowledgePromotion model its inside.   *)
(***************************************************************************)
EXTENDS Naturals, FiniteSets

CONSTANTS
    Events,           \* outbox rows
    Relays,           \* OutboxRelay loops, one per worker process
    Handlers,         \* tasks that can run PublicationWorker.handle
    Msgs,             \* identities of broker messages; each publish takes one
    Consumers,        \* open consumer channels: each has prefetch_count = 1
    RetryLimit,       \* x-delivery-limit of the work queue
    DeadLetterLimit,  \* the broker's delivery limit of the dead-letter queue
    MaxScan,          \* max_scan of redrive_exact
    MaxFaults,        \* bound: failures of any kind
    MaxRedrives,      \* bound: operator redrives
    NoEvent, NoRelay, NoMsg

ASSUME BoundsAssumption ==
    /\ Consumers \in Nat /\ RetryLimit \in Nat /\ DeadLetterLimit \in Nat
    /\ MaxScan \in Nat /\ MaxFaults \in Nat /\ MaxRedrives \in Nat

ASSUME NoneAssumption ==
    NoEvent \notin Events /\ NoRelay \notin Relays /\ NoMsg \notin Msgs

VARIABLES
    committed, dispatched, processed,  \* sets of rows: inserted, dispatched_at, processed_at
    lock,       \* lock_id of a row: the relay whose claim it is, or NoRelay
    expired,    \* rows whose locked_at is older than the lease
    delayed,    \* rows whose available_at is in the future
    rpc, rev,   \* each relay: where it is in relay_once, and its record
    at,         \* where each message is
    evOf,       \* the event_id in a message's envelope
    returns,    \* how often its queue has taken a message back
    hpc, hmsg,  \* each handler: where it is in handle, and its message
    hlive,      \* its channel is still open (else acknowledging has no effect)
    dpc, dev, dmsg,    \* the redriver: its step, its event, the exact message
    faults, redrives   \* what the bounds have used

ledger   == <<committed, dispatched, processed, lock, expired, delayed>>
relays   == <<rpc, rev>>
broker   == <<at, evOf, returns>>
workers  == <<hpc, hmsg, hlive>>
operator == <<dpc, dev, dmsg>>
bounds   == <<faults, redrives>>
vars     == <<ledger, relays, broker, workers, operator, bounds>>

Places == {"free", "queue", "unacked", "dead", "held", "gone"}

TypeOK ==
    /\ committed \subseteq Events /\ dispatched \subseteq Events
    /\ processed \subseteq Events
    /\ lock \in [Events -> Relays \cup {NoRelay}]
    /\ expired \subseteq Events /\ delayed \subseteq Events
    /\ rpc \in [Relays -> {"idle", "claimed", "published", "failed"}]
    /\ rev \in [Relays -> Events \cup {NoEvent}]
    /\ at \in [Msgs -> Places]
    /\ evOf \in [Msgs -> Events \cup {NoEvent}]
    /\ returns \in [Msgs -> 0..(RetryLimit + MaxRedrives)]
    /\ hpc \in [Handlers -> {"idle", "work", "ack", "reject"}]
    /\ hmsg \in [Handlers -> Msgs \cup {NoMsg}]
    /\ hlive \in [Handlers -> BOOLEAN]
    /\ dpc \in {"idle", "scan", "found", "scheduled", "close"}
    /\ dev \in Events \cup {NoEvent} /\ dmsg \in Msgs \cup {NoMsg}
    /\ faults \in 0..MaxFaults /\ redrives \in 0..MaxRedrives

Init ==
    /\ committed = {} /\ dispatched = {} /\ processed = {}
    /\ lock = [e \in Events |-> NoRelay] /\ expired = {} /\ delayed = {}
    /\ rpc = [r \in Relays |-> "idle"] /\ rev = [r \in Relays |-> NoEvent]
    /\ at = [m \in Msgs |-> "free"] /\ evOf = [m \in Msgs |-> NoEvent]
    /\ returns = [m \in Msgs |-> 0]
    /\ hpc = [h \in Handlers |-> "idle"] /\ hmsg = [h \in Handlers |-> NoMsg]
    /\ hlive = [h \in Handlers |-> FALSE]
    /\ dpc = "idle" /\ dev = NoEvent /\ dmsg = NoMsg
    /\ faults = 0 /\ redrives = 0

\* A failure of the environment; their number is bounded.
Fault == faults < MaxFaults /\ faults' = faults + 1 /\ UNCHANGED redrives

-----------------------------------------------------------------------------
(* The rows of memory.outbox *)

\* A command, or an approved review, commits together with its outbox row.
Commit(e) ==
    /\ e \notin committed
    /\ committed' = committed \cup {e}
    /\ UNCHANGED <<dispatched, processed, lock, expired, delayed,
                   relays, broker, workers, operator, bounds>>

\* Mutants: a stale lock is never taken over; the row is visible before its commit.
ClaimableOnce(e) ==
    e \in committed \ (dispatched \cup processed \cup delayed) /\ lock[e] = NoRelay
ClaimableEarly(e) ==
    /\ e \notin dispatched \cup processed \cup delayed
    /\ lock[e] = NoRelay \/ e \in expired

\* The WHERE clause of claim_outbox. SKIP LOCKED may hide an older row, so any
\* eligible row can be the one returned.
Claimable(e) ==
    /\ e \in committed \ (dispatched \cup processed)
    /\ e \notin delayed
    /\ lock[e] = NoRelay \/ e \in expired

\* The WHERE clause shared by mark_outbox_dispatched and release_outbox.
OwnsRow(r, e) == lock[e] = r /\ e \notin dispatched

\* Sixty seconds pass on a claim whose relay has gone.
LeaseExpires(e) ==
    /\ lock[e] # NoRelay /\ e \notin expired
    /\ \A r \in Relays : ~(lock[e] = r /\ rev[r] = e /\ rpc[r] # "idle")
    /\ expired' = expired \cup {e}
    /\ UNCHANGED <<committed, dispatched, processed, lock, delayed,
                   relays, broker, workers, operator, bounds>>

\* They pass while the relay is still at work: a stalled publish.
LeaseOverrun(r) ==
    /\ rpc[r] # "idle" /\ lock[rev[r]] = r /\ rev[r] \notin expired
    /\ Fault
    /\ expired' = expired \cup {rev[r]}
    /\ UNCHANGED <<committed, dispatched, processed, lock, delayed,
                   relays, broker, workers, operator>>

\* The five seconds of available_at after a release pass.
BackoffElapses(e) ==
    /\ e \in delayed
    /\ delayed' = delayed \ {e}
    /\ UNCHANGED <<committed, dispatched, processed, lock, expired,
                   relays, broker, workers, operator, bounds>>

-----------------------------------------------------------------------------
(* OutboxRelay.relay_once *)

RelayClaim(r) ==
    /\ rpc[r] = "idle"
    /\ \E e \in Events :
         /\ Claimable(e)
         /\ lock' = [lock EXCEPT ![e] = r]
         /\ expired' = expired \ {e}
         /\ rev' = [rev EXCEPT ![r] = e]
    /\ rpc' = [rpc EXCEPT ![r] = "claimed"]
    /\ UNCHANGED <<committed, dispatched, processed, delayed,
                   broker, workers, operator, bounds>>

\* The broker stores a persistent message with the event's envelope.
Enqueue(m, e) ==
    /\ at[m] = "free"
    /\ at' = [at EXCEPT ![m] = "queue"]
    /\ evOf' = [evOf EXCEPT ![m] = e]
    /\ UNCHANGED returns

\* publish returns after the publisher confirm.
RelayPublish(r) ==
    /\ rpc[r] = "claimed"
    /\ \E m \in Msgs : Enqueue(m, rev[r])
    /\ rpc' = [rpc EXCEPT ![r] = "published"]
    /\ UNCHANGED <<ledger, rev, workers, operator, bounds>>

\* publish raises; the broker may have stored the message all the same.
RelayPublishError(r) ==
    /\ rpc[r] = "claimed"
    /\ Fault
    /\ (\E m \in Msgs : Enqueue(m, rev[r])) \/ UNCHANGED broker
    /\ rpc' = [rpc EXCEPT ![r] = "failed"]
    /\ UNCHANGED <<ledger, rev, workers, operator>>

\* The relay forgets its record: relay_once returns, raises or claims anew.
RelayDone(r) ==
    /\ rpc' = [rpc EXCEPT ![r] = "idle"]
    /\ rev' = [rev EXCEPT ![r] = NoEvent]

\* release_outbox; when no row matches it raises LookupError and changes nothing.
RelayRelease(r) ==
    /\ rpc[r] = "failed"
    /\ IF OwnsRow(r, rev[r])
       THEN /\ lock' = [lock EXCEPT ![rev[r]] = NoRelay]
            /\ expired' = expired \ {rev[r]}
            /\ delayed' = delayed \cup {rev[r]}
       ELSE UNCHANGED <<lock, expired, delayed>>
    /\ RelayDone(r)
    /\ UNCHANGED <<committed, dispatched, processed, broker, workers,
                   operator, bounds>>

\* mark_outbox_dispatched, with the same LookupError.
RelayMarkDispatched(r) ==
    /\ rpc[r] = "published"
    /\ IF OwnsRow(r, rev[r])
       THEN /\ dispatched' = dispatched \cup {rev[r]}
            /\ lock' = [lock EXCEPT ![rev[r]] = NoRelay]
            /\ expired' = expired \ {rev[r]}
       ELSE UNCHANGED <<dispatched, lock, expired>>
    /\ RelayDone(r)
    /\ UNCHANGED <<committed, processed, delayed, broker, workers,
                   operator, bounds>>

\* The worker process dies, or is cancelled, between any two steps.
RelayCrash(r) ==
    /\ rpc[r] # "idle"
    /\ Fault
    /\ RelayDone(r)
    /\ UNCHANGED <<ledger, broker, workers, operator>>

-----------------------------------------------------------------------------
(* The quorum queues (RabbitMQ) *)

\* Mutant: no x-delivery-limit.
ReturnToQueueForever(m, counted) ==
    /\ at' = [at EXCEPT ![m] = "queue"]
    /\ returns' = [returns EXCEPT ![m] = @ + counted]

\* The work queue takes message m back; past the delivery limit it moves to the
\* dead-letter queue, which counts afresh.
ReturnToQueue(m, counted) ==
    IF returns[m] + counted > RetryLimit
    THEN /\ at' = [at EXCEPT ![m] = "dead"]
         /\ returns' = [returns EXCEPT ![m] = 0]
    ELSE /\ at' = [at EXCEPT ![m] = "queue"]
         /\ returns' = [returns EXCEPT ![m] = @ + counted]

\* The dead-letter queue takes back the messages `back`, and drops the ones past
\* its own limit; `acked` is removed (NoMsg: nothing is).
ReturnToDeadLetters(back, acked) ==
    /\ at' = [m \in Msgs |->
                IF m = acked THEN "gone"
                ELSE IF m \notin back THEN at[m]
                ELSE IF returns[m] + 1 > DeadLetterLimit THEN "gone" ELSE "dead"]
    /\ returns' = [m \in Msgs |->
                     IF m \in back \ {acked} THEN returns[m] + 1 ELSE returns[m]]
    /\ UNCHANGED evOf

-----------------------------------------------------------------------------
(* PublicationWorker.handle *)

Attached == {h \in Handlers : hpc[h] # "idle" /\ hlive[h]}

Deliver(h) ==
    /\ hpc[h] = "idle"
    /\ Cardinality(Attached) < Consumers
    /\ \E m \in Msgs :
         /\ at[m] = "queue"
         /\ at' = [at EXCEPT ![m] = "unacked"]
         /\ hmsg' = [hmsg EXCEPT ![h] = m]
    /\ hpc' = [hpc EXCEPT ![h] = "work"]
    /\ hlive' = [hlive EXCEPT ![h] = TRUE]
    /\ UNCHANGED <<ledger, relays, evOf, returns, operator, bounds>>

\* Mutant: the claim survives processing.
HandleProcessKeepsLock(h) ==
    /\ hpc[h] = "work"
    /\ processed' = processed \cup {evOf[hmsg[h]]}
    /\ hpc' = [hpc EXCEPT ![h] = "ack"]
    /\ UNCHANGED <<committed, dispatched, lock, expired, delayed, relays, broker,
                   hmsg, hlive, operator, bounds>>

\* The event is applied and marked in one transaction, which also clears the
\* claim; an event that is already processed is left alone.
HandleProcess(h) ==
    /\ hpc[h] = "work"
    /\ LET e == evOf[hmsg[h]] IN
         /\ processed' = processed \cup {e}
         /\ lock' = IF e \in processed THEN lock ELSE [lock EXCEPT ![e] = NoRelay]
         /\ expired' = IF e \in processed THEN expired ELSE expired \ {e}
    /\ hpc' = [hpc EXCEPT ![h] = "ack"]
    /\ UNCHANGED <<committed, dispatched, delayed, relays, broker, hmsg, hlive,
                   operator, bounds>>

\* Mutant: the message of a failed attempt is acknowledged.
HandleErrorAcks(h) ==
    /\ hpc[h] = "work"
    /\ Fault
    /\ hpc' = [hpc EXCEPT ![h] = "ack"]
    /\ UNCHANGED <<ledger, relays, broker, hmsg, hlive, operator>>

\* Any Exception: a dependency is down, or the event cannot be applied.
HandleError(h) ==
    /\ hpc[h] = "work"
    /\ Fault
    /\ hpc' = [hpc EXCEPT ![h] = "reject"]
    /\ UNCHANGED <<ledger, relays, broker, hmsg, hlive, operator>>

HandlerDone(h) ==
    /\ hpc' = [hpc EXCEPT ![h] = "idle"]
    /\ hmsg' = [hmsg EXCEPT ![h] = NoMsg]
    /\ hlive' = [hlive EXCEPT ![h] = FALSE]

\* message.ack(); on a closed channel it raises and the broker sees nothing.
HandleAck(h) ==
    /\ hpc[h] = "ack"
    /\ at' = IF hlive[h] THEN [at EXCEPT ![hmsg[h]] = "gone"] ELSE at
    /\ HandlerDone(h)
    /\ UNCHANGED <<ledger, relays, evOf, returns, operator, bounds>>

\* message.reject(requeue=True).
HandleReject(h) ==
    /\ hpc[h] = "reject"
    /\ IF hlive[h] THEN ReturnToQueue(hmsg[h], 1) ELSE UNCHANGED <<at, returns>>
    /\ HandlerDone(h)
    /\ UNCHANGED <<ledger, relays, evOf, operator, bounds>>

\* The robust connection drops and comes back: the broker takes the message back
\* while the handler task runs on. Whether it counts depends on the broker.
ConnectionLost(h) ==
    /\ hpc[h] # "idle" /\ hlive[h]
    /\ Fault
    /\ \E counted \in {0, 1} : ReturnToQueue(hmsg[h], counted)
    /\ hlive' = [hlive EXCEPT ![h] = FALSE]
    /\ UNCHANGED <<ledger, relays, evOf, hpc, hmsg, operator>>

\* The process dies, or the handler is cancelled: neither ack nor reject.
HandlerCrash(h) ==
    /\ hpc[h] # "idle"
    /\ Fault
    /\ IF hlive[h]
       THEN \E counted \in {0, 1} : ReturnToQueue(hmsg[h], counted)
       ELSE UNCHANGED <<at, returns>>
    /\ HandlerDone(h)
    /\ UNCHANGED <<ledger, relays, evOf, operator>>

-----------------------------------------------------------------------------
(* DeadLetterRedriver.redrive_exact *)

Held == {m \in Msgs : at[m] = "held"}

RedriveBegin(e) ==
    /\ dpc = "idle" /\ redrives < MaxRedrives
    /\ dpc' = "scan" /\ dev' = e /\ dmsg' = NoMsg
    /\ redrives' = redrives + 1
    /\ UNCHANGED <<ledger, relays, broker, workers, faults>>

\* Mutant: the first dead letter is taken for the exact one.
RedriveGetFirst ==
    /\ dpc = "scan" /\ Cardinality(Held) < MaxScan
    /\ \E m \in Msgs : at[m] = "dead" /\ at' = [at EXCEPT ![m] = "held"] /\ dmsg' = m
    /\ dpc' = "found"
    /\ UNCHANGED <<ledger, relays, evOf, returns, workers, dev, bounds>>

\* queue.get: the exact event's message ends the scan, any other one is held.
RedriveGet ==
    /\ dpc = "scan" /\ Cardinality(Held) < MaxScan
    /\ \E m \in Msgs :
         /\ at[m] = "dead"
         /\ at' = [at EXCEPT ![m] = "held"]
         /\ IF evOf[m] = dev
            THEN dpc' = "found" /\ dmsg' = m
            ELSE UNCHANGED <<dpc, dmsg>>
    /\ UNCHANGED <<ledger, relays, evOf, returns, workers, dev, bounds>>

\* The queue is empty or the scan limit is reached: LookupError.
RedriveMiss ==
    /\ dpc = "scan"
    /\ Cardinality(Held) >= MaxScan \/ \A m \in Msgs : at[m] # "dead"
    /\ dpc' = "close"
    /\ UNCHANGED <<ledger, relays, broker, workers, dev, dmsg, bounds>>

\* Mutant: dispatched_at survives.
ReopenStaysDispatched(e) ==
    /\ lock' = [lock EXCEPT ![e] = NoRelay]
    /\ expired' = expired \ {e}
    /\ delayed' = delayed \ {e}
    /\ UNCHANGED dispatched

\* The UPDATE of schedule_outbox_redelivery, which also voids a relay's claim.
Reopen(e) ==
    /\ dispatched' = dispatched \ {e}
    /\ lock' = [lock EXCEPT ![e] = NoRelay]
    /\ expired' = expired \ {e}
    /\ delayed' = delayed \ {e}

\* schedule_outbox_redelivery raises LookupError when the event is processed.
RedriveSchedule ==
    /\ dpc = "found"
    /\ IF dev \in processed
       THEN dpc' = "close" /\ UNCHANGED <<dispatched, lock, expired, delayed>>
       ELSE dpc' = "scheduled" /\ Reopen(dev)
    /\ UNCHANGED <<committed, processed, relays, broker, workers, dev, dmsg,
                   bounds>>

RedriveDone == dpc' = "idle" /\ dev' = NoEvent /\ dmsg' = NoMsg

\* The exact message is acknowledged and the finally block returns the others.
RedriveAck ==
    /\ dpc = "scheduled"
    /\ ReturnToDeadLetters(Held, dmsg)
    /\ RedriveDone
    /\ UNCHANGED <<ledger, relays, workers, bounds>>

\* An error path: the exact message, if there is one, is requeued as well.
RedriveClose ==
    /\ dpc = "close"
    /\ ReturnToDeadLetters(Held, NoMsg)
    /\ RedriveDone
    /\ UNCHANGED <<ledger, relays, workers, bounds>>

\* The command is interrupted; the broker takes back what its channel holds.
RedriveCrash ==
    /\ dpc # "idle"
    /\ Fault
    /\ ReturnToDeadLetters(Held, NoMsg)
    /\ RedriveDone
    /\ UNCHANGED <<ledger, relays, workers>>

-----------------------------------------------------------------------------
Relay(r) == RelayClaim(r) \/ RelayPublish(r) \/ RelayRelease(r) \/ RelayMarkDispatched(r)
Handle(h) == Deliver(h) \/ HandleProcess(h) \/ HandleAck(h) \/ HandleReject(h)
Redrive == RedriveGet \/ RedriveMiss \/ RedriveSchedule \/ RedriveAck \/ RedriveClose
Elapse(e) == LeaseExpires(e) \/ BackoffElapses(e)

Next ==
    \/ \E e \in Events : Commit(e) \/ Elapse(e) \/ RedriveBegin(e)
    \/ \E r \in Relays :
         Relay(r) \/ RelayPublishError(r) \/ RelayCrash(r) \/ LeaseOverrun(r)
    \/ \E h \in Handlers :
         Handle(h) \/ HandleError(h) \/ ConnectionLost(h) \/ HandlerCrash(h)
    \/ Redrive \/ RedriveCrash

Spec == Init /\ [][Next]_vars

\* The worker loop, the consumer and the clock keep going; operators and
\* failures need not happen, but a started redrive runs on.
Fairness ==
    /\ \A r \in Relays : WF_vars(Relay(r))
    /\ \A h \in Handlers : WF_vars(Handle(h))
    /\ \A e \in Events : WF_vars(Elapse(e))
    /\ WF_vars(Redrive)

FairSpec == Spec /\ Fairness

-----------------------------------------------------------------------------
(* Properties *)

Copies(e) == {m \in Msgs : evOf[m] = e /\ at[m] \in {"queue", "unacked", "dead", "held"}}

\* An event that the outbox considers dispatched, and that is not processed, is
\* still in the broker: no claim will ever look at its row again, so a lost
\* message would be a lost command.
NoLostEvent == \A e \in dispatched \ processed : Copies(e) # {}

\* A message the broker has handed out is in the hands of exactly one live handler,
\* or of a redrive in progress: an acknowledgement or a rejection can only settle
\* the handler's own delivery, and a redrive only removes the dead letter it asked for.
Custody ==
    /\ \A m \in Msgs : at[m] = "unacked" => \E h \in Attached : hmsg[h] = m
    /\ \A h, g \in Attached : hmsg[h] = hmsg[g] => h = g
    /\ Held # {} => dpc # "idle"
    /\ dpc \in {"found", "scheduled"} => at[dmsg] = "held" /\ evOf[dmsg] = dev

\* A relay that still owns its row holds unprocessed work, and once publish has
\* returned the message is in the broker: the consumer that wins the race, and the
\* redrive that takes the message away, both void the claim, so that the late
\* mark_outbox_dispatched finds no row.
ClaimFence ==
    \A r \in Relays : rpc[r] # "idle" /\ OwnsRow(r, rev[r]) =>
        /\ rev[r] \notin processed
        /\ rpc[r] = "published" => Copies(rev[r]) # {}

\* A message leaves the broker only for an event that is processed, or whose row
\* is open again so that a relay republishes it, or that has another copy.
RemovalsAreSafe ==
    [][\A m \in Msgs : at[m] \notin {"free", "gone"} /\ at'[m] = "gone" =>
         \/ evOf[m] \in processed
         \/ evOf[m] \notin dispatched
         \/ Copies(evOf[m])' # {}]_vars

\* Committed work is applied or ends up as a visible dead letter, whatever
\* (finitely many) failures happen on the way.
EventuallySettled ==
    \A e \in Events :
        e \in committed ~> (e \in processed \/ \E m \in Copies(e) : at[m] = "dead")

\* The promise of EventDelivery is kept.
holding == [h \in Handlers |-> IF hpc[h] = "idle" THEN NoEvent ELSE evOf[hmsg[h]]]
Delivery == INSTANCE EventDelivery WITH holding <- holding
DeliverySpec == Delivery!Spec

-----------------------------------------------------------------------------
(* The inductive invariant behind NoLostEvent and TypeOK; OutboxDeliveryProofs  *)
(* shows that every step preserves it.                                         *)

Stored == {"queue", "unacked", "dead", "held"}

\* A copy that is not about to be acknowledged by the redrive that reopened the row.
Live(e) == \E m \in Msgs : /\ evOf[m] = e /\ at[m] \in Stored
                           /\ ~(dpc = "scheduled" /\ m = dmsg)

\* Whoever works on an event works on a committed one.
Referenced ==
    /\ \A r \in Relays : rpc[r] # "idle" => rev[r] \in committed
    /\ \A m \in Msgs : at[m] # "free" => evOf[m] \in committed
    /\ \A h \in Handlers : hpc[h] # "idle" => hmsg[h] \in Msgs /\ at[hmsg[h]] # "free"
    /\ dpc # "idle" => dev \in Events
    /\ dpc \in {"found", "scheduled"} =>
         dmsg \in Msgs /\ at[dmsg] = "held" /\ evOf[dmsg] = dev
    /\ dpc = "idle" => Held = {}

\* Live handlers own the messages they were given, each its own.
Owned ==
    /\ \A h \in Handlers : hpc[h] # "idle" /\ hlive[h] =>
        /\ at[hmsg[h]] = "unacked"
        /\ \A g \in Handlers : hpc[g] # "idle" /\ hlive[g] /\ hmsg[g] = hmsg[h] => g = h
    /\ \A m \in Msgs : at[m] = "unacked" =>
         \E h \in Handlers : hpc[h] # "idle" /\ hlive[h] /\ hmsg[h] = m

\* An acknowledgement and a completed claim follow the transaction.
Processed ==
    /\ \A h \in Handlers : hpc[h] = "ack" => evOf[hmsg[h]] \in processed
    /\ \A e \in processed : lock[e] = NoRelay

\* The delivery limits: the work queue's, and one return per redrive.
Counted ==
    /\ dpc # "idle" => redrives > 0
    /\ \A m \in Msgs :
        /\ at[m] \in {"free", "queue", "unacked"} => returns[m] <= RetryLimit
        /\ at[m] \in {"dead", "held"} =>
             returns[m] <= redrives /\ (dpc # "idle" => returns[m] < redrives)

Kept ==
    /\ \A e \in dispatched \ processed : Live(e)
    /\ \A r \in Relays : rpc[r] = "published" /\ lock[rev[r]] = r => Live(rev[r])

IInv == TypeOK /\ Referenced /\ Owned /\ Processed /\ Counted /\ Kept
=============================================================================
