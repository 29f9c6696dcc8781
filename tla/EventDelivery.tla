--------------------------- MODULE EventDelivery ---------------------------
(***************************************************************************)
(* What the transactional outbox promises to the code that applies events, *)
(* without relays, leases, messages or dead letters: an event that a       *)
(* transaction has committed is given to handlers any number of times,     *)
(* possibly to several at once and after it has been processed; it becomes *)
(* processed only through a handler that holds it, and then stays so.      *)
(* OutboxDelivery implements this specification.                           *)
(***************************************************************************)
CONSTANTS Events, Handlers, NoEvent

VARIABLES committed,  \* events whose transaction has committed
          processed,  \* events whose effect is committed
          holding     \* the event each handler works on, or NoEvent

vars == <<committed, processed, holding>>

Init ==
    /\ committed = {}
    /\ processed = {}
    /\ holding = [h \in Handlers |-> NoEvent]

Commit(e) ==
    /\ e \notin committed
    /\ committed' = committed \cup {e}
    /\ UNCHANGED <<processed, holding>>

Start(h) ==
    /\ holding[h] = NoEvent
    /\ \E e \in committed : holding' = [holding EXCEPT ![h] = e]
    /\ UNCHANGED <<committed, processed>>

Process(h) ==
    /\ holding[h] # NoEvent
    /\ processed' = processed \cup {holding[h]}
    /\ UNCHANGED <<committed, holding>>

Finish(h) ==
    /\ holding[h] # NoEvent
    /\ holding' = [holding EXCEPT ![h] = NoEvent]
    /\ UNCHANGED <<committed, processed>>

Next ==
    \/ \E e \in Events : Commit(e)
    \/ \E h \in Handlers : Start(h) \/ Process(h) \/ Finish(h)

Spec == Init /\ [][Next]_vars
=============================================================================
