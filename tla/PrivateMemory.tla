---------------------------- MODULE PrivateMemory ----------------------------
(***************************************************************************)
(* Private Memory of one Principal in one Tenant: the ledger in PostgreSQL *)
(* (items, commands, erasure requests), the graph in Neo4j that recall     *)
(* reads, and the handlers that project accepted commands to it. Commands  *)
(* are delivered as EventDelivery says: at least once, in any order, also  *)
(* after they were applied, and to several handlers when there are several.*)
(*                                                                         *)
(* Every item is created by exactly one command (retain, correct, import), *)
(* so that command is named by its item; an erase command is named by its  *)
(* request. Repeating a call with its idempotency key changes nothing and  *)
(* is a stuttering step.                                                   *)
(***************************************************************************)
EXTENDS Naturals, FiniteSets

CONSTANTS
    Items,          \* Memory Item identifiers
    Legacy,         \* items in the graph from before the ledger existed
    Archive,        \* items in a Memory Archive that can be imported
    Supersedes,     \* supersedes_id of the archived items
    Tombstoned,     \* items with an Erasure Tombstone that can be imported
    MaxRequests,    \* bound: erasure requests, numbered by creation time
    Handlers,       \* PublicationWorker.handle tasks that can run at once
    MaxFails,       \* bound: failed, crashed or cancelled attempts
    NoItem, LegacyWriter

Requests == 1..MaxRequests
NoRequest == 0
Writers == Handlers \cup {LegacyWriter}
Fresh == Items \ (Legacy \cup Archive \cup Tombstoned)

ASSUME PrivateMemoryAssumption ==
    /\ NoItem \notin Items /\ LegacyWriter \notin Handlers
    /\ Legacy \subseteq Items /\ Archive \subseteq Items /\ Tombstoned \subseteq Items
    /\ Supersedes \in [Archive -> Items \cup {NoItem}]
    /\ MaxRequests \in Nat /\ MaxFails \in Nat

VARIABLES
    item,      \* state column of private_memory_items; "absent": no row
    parent,    \* supersedes_id of an item
    redacted,  \* items whose creating command has lost its result_item
    created,   \* state of the creating command of an item
    erasing,   \* state of the erase command of a request
    request,   \* status of a request
    target,    \* memory_id of a request
    graph,     \* messages in Neo4j: <<platform_id, who added it>>
    hpc, hitem, hreq, hnode,  \* each handler: step, item, request, message found
    ppc, preq, \* the polling loop's erase_next
    fails

ledger  == <<item, parent, redacted, created, erasing, request, target>>
workers == <<hpc, hitem, hreq, hnode>>
poller  == <<ppc, preq>>
vars    == <<ledger, graph, workers, poller, fails>>

ItemStates == {"absent", "active", "superseded", "erasure_pending", "erased"}
CommandStates == {"none", "accepted", "applied"}

TypeOK ==
    /\ item \in [Items -> ItemStates]
    /\ parent \in [Items -> Items \cup {NoItem}]
    /\ redacted \subseteq Items
    /\ created \in [Items -> CommandStates]
    /\ erasing \in [Requests -> CommandStates]
    /\ request \in [Requests -> {"none", "requested", "approved", "rejected", "completed"}]
    /\ target \in [Requests -> Items \cup {NoItem}]
    /\ graph \subseteq Items \X Writers
    /\ hpc \in [Handlers -> {"idle", "find", "add", "applied", "locate", "delete", "erased"}]
    /\ hitem \in [Handlers -> Items \cup {NoItem}]
    /\ \A h \in Handlers : hpc[h] = "idle" <=> hitem[h] = NoItem
    /\ hreq \in [Handlers -> Requests \cup {NoRequest}]
    /\ hnode \in [Handlers -> Writers]
    /\ ppc \in {"idle", "erase", "complete"} /\ preq \in Requests \cup {NoRequest}
    /\ fails \in 0..MaxFails

Init ==
    /\ item = [i \in Items |-> "absent"] /\ parent = [i \in Items |-> NoItem]
    /\ redacted = {} /\ created = [i \in Items |-> "none"]
    /\ erasing = [q \in Requests |-> "none"] /\ request = [q \in Requests |-> "none"]
    /\ target = [q \in Requests |-> NoItem]
    /\ graph = Legacy \X {LegacyWriter}
    /\ hpc = [h \in Handlers |-> "idle"] /\ hitem = [h \in Handlers |-> NoItem]
    /\ hreq = [h \in Handlers |-> NoRequest] /\ hnode = [h \in Handlers |-> LegacyWriter]
    /\ ppc = "idle" /\ preq = NoRequest /\ fails = 0

-----------------------------------------------------------------------------
(* What the graph shows *)

Copies(i) == {n \in graph : n[1] = i}

\* _superseded_ids: the ids that some message in the graph supersedes.
SupersededIds == {parent[n[1]] : n \in graph}

\* recall returns the messages whose derived state is ACTIVE.
Recallable(i) == Copies(i) # {} /\ i \notin SupersededIds

-----------------------------------------------------------------------------
(* Accepting commands: PostgreSQL transactions *)

\* Mutant: the corrected item is not marked superseded.
InsertCommandKeepsParent(i, p, state) ==
    /\ created' = [created EXCEPT ![i] = "accepted"]
    /\ parent' = [parent EXCEPT ![i] = p]
    /\ item' = [item EXCEPT ![i] = state]

\* _insert_memory_command (the command, its item, its outbox event) together with
\* the UPDATE that supersedes an active parent.
InsertCommand(i, p, state) ==
    /\ created' = [created EXCEPT ![i] = "accepted"]
    /\ parent' = [parent EXCEPT ![i] = p]
    /\ item' = [j \in Items |-> IF j = i THEN state
                                ELSE IF j = p /\ item[j] = "active" THEN "superseded"
                                ELSE item[j]]

AcceptRetain(i) ==
    /\ i \in Fresh /\ item[i] = "absent"
    /\ InsertCommand(i, NoItem, "active")
    /\ UNCHANGED <<redacted, erasing, request, target, graph, workers, poller, fails>>

\* Only an active item can be corrected; the row lock serialises corrections.
AcceptCorrection(i, p) ==
    /\ i \in Fresh /\ item[i] = "absent" /\ item[p] = "active"
    /\ InsertCommand(i, p, "active")
    /\ UNCHANGED <<redacted, erasing, request, target, graph, workers, poller, fails>>

\* An archived item that another archived item supersedes is archived superseded.
ArchivedState(i) ==
    IF \E j \in Archive : Supersedes[j] = i THEN "superseded" ELSE "active"

\* Mutant: the ledger row of an erased item does not stop its import.
AcceptImportErased(i) ==
    /\ i \in Archive /\ item[i] \in {"absent", "erased"}
    /\ InsertCommand(i, Supersedes[i], ArchivedState(i))
    /\ UNCHANGED <<redacted, erasing, request, target, graph, workers, poller, fails>>

\* import_private goes through the records, ancestors first, one transaction for
\* each; an identifier with a row is skipped, or refused when it is erased, which
\* ends the import before the item's descendants.
AcceptImport(i) ==
    /\ i \in Archive /\ item[i] = "absent"
    /\ Supersedes[i] \in Archive => item[Supersedes[i]] \notin {"absent", "erased"}
    /\ InsertCommand(i, Supersedes[i], ArchivedState(i))
    /\ UNCHANGED <<redacted, erasing, request, target, graph, workers, poller, fails>>

\* A tombstone becomes a completed request; it leaves no row in the ledger.
ImportTombstone(q, i) ==
    /\ i \in Tombstoned /\ request[q] = "none"
    /\ \A r \in Requests : r < q => request[r] # "none"
    /\ \A r \in Requests : ~(request[r] = "completed" /\ target[r] = i)
    /\ item[i] \in {"absent", "erased"}
    /\ request' = [request EXCEPT ![q] = "completed"]
    /\ target' = [target EXCEPT ![q] = i]
    /\ UNCHANGED <<item, parent, redacted, created, erasing, graph, workers, poller, fails>>

\* request_erasure: the item must be visible and active in the graph.
RequestErasure(q, i) ==
    /\ request[q] = "none"
    /\ \A r \in Requests : r < q => request[r] # "none"
    /\ Recallable(i)
    /\ request' = [request EXCEPT ![q] = "requested"]
    /\ target' = [target EXCEPT ![q] = i]
    /\ UNCHANGED <<item, parent, redacted, created, erasing, graph, workers, poller, fails>>

\* Approving an item that has a ledger row also accepts an erase command; without
\* a row the request waits for erase_next. An erased row makes it fail.
ApproveErasure(q) ==
    /\ request[q] = "requested" /\ item[target[q]] # "erased"
    /\ request' = [request EXCEPT ![q] = "approved"]
    /\ IF item[target[q]] = "absent"
       THEN UNCHANGED <<erasing, item>>
       ELSE /\ erasing' = [erasing EXCEPT ![q] = "accepted"]
            /\ item' = [item EXCEPT ![target[q]] = "erasure_pending"]
    /\ UNCHANGED <<parent, redacted, created, target, graph, workers, poller, fails>>

RejectErasure(q) ==
    /\ request[q] = "requested"
    /\ request' = [request EXCEPT ![q] = "rejected"]
    /\ UNCHANGED <<item, parent, redacted, created, erasing, target, graph, workers,
                   poller, fails>>

-----------------------------------------------------------------------------
(* _handle_memory: each step is one call to PostgreSQL or Neo4j *)

\* Mutant: a finished handler keeps its command.
HandlerDoneKeepsItem(h) ==
    /\ hpc' = [hpc EXCEPT ![h] = "idle"]
    /\ UNCHANGED <<hitem, hreq, hnode>>

HandlerDone(h) ==
    /\ hpc' = [hpc EXCEPT ![h] = "idle"]
    /\ hitem' = [hitem EXCEPT ![h] = NoItem]
    /\ hreq' = [hreq EXCEPT ![h] = NoRequest]
    /\ hnode' = [hnode EXCEPT ![h] = LegacyWriter]

\* get_memory_command for a creating command. An applied one needs nothing more; a
\* redacted one raises "no projection result", so its message is rejected again and
\* again: neither changes any state.
LoadCreate(h, i) ==
    /\ hpc[h] = "idle" /\ created[i] = "accepted" /\ i \notin redacted
    /\ hpc' = [hpc EXCEPT ![h] = "find"]
    /\ hitem' = [hitem EXCEPT ![h] = i]
    /\ UNCHANGED <<ledger, graph, hreq, hnode, poller, fails>>

\* get_memory_command for an erase command.
LoadErase(h, q) ==
    /\ hpc[h] = "idle" /\ erasing[q] = "accepted"
    /\ hpc' = [hpc EXCEPT ![h] = "locate"]
    /\ hitem' = [hitem EXCEPT ![h] = target[q]]
    /\ hreq' = [hreq EXCEPT ![h] = q]
    /\ UNCHANGED <<ledger, graph, hnode, poller, fails>>

\* _apply_private_item first looks for the item among the messages ...
FindItem(h) ==
    /\ hpc[h] = "find"
    /\ hpc' = [hpc EXCEPT ![h] = IF Copies(hitem[h]) = {} THEN "add" ELSE "applied"]
    /\ UNCHANGED <<ledger, graph, hitem, hreq, hnode, poller, fails>>

\* Mutant: the item is not written.
AddItemLost(h) ==
    /\ hpc[h] = "add"
    /\ hpc' = [hpc EXCEPT ![h] = "applied"]
    /\ UNCHANGED <<ledger, graph, hitem, hreq, hnode, poller, fails>>

\* ... and adds it when the list it read did not hold it.
AddItem(h) ==
    /\ hpc[h] = "add"
    /\ graph' = graph \cup {<<hitem[h], h>>}
    /\ hpc' = [hpc EXCEPT ![h] = "applied"]
    /\ UNCHANGED <<ledger, hitem, hreq, hnode, poller, fails>>

\* Mutant: a message that an earlier attempt has deleted is an error.
LocateItemStrict(h) ==
    /\ hpc[h] = "locate"
    /\ IF Copies(hitem[h]) = {}
       THEN HandlerDone(h)
       ELSE /\ hpc' = [hpc EXCEPT ![h] = "delete"]
            /\ \E n \in Copies(hitem[h]) : hnode' = [hnode EXCEPT ![h] = n[2]]
            /\ UNCHANGED <<hitem, hreq>>
    /\ UNCHANGED <<ledger, graph, poller, fails>>

\* erase_private looks for the first message of the item; a missing one is success.
LocateItem(h) ==
    /\ hpc[h] = "locate"
    /\ IF Copies(hitem[h]) = {}
       THEN hpc' = [hpc EXCEPT ![h] = "erased"] /\ UNCHANGED hnode
       ELSE /\ hpc' = [hpc EXCEPT ![h] = "delete"]
            /\ \E n \in Copies(hitem[h]) : hnode' = [hnode EXCEPT ![h] = n[2]]
    /\ UNCHANGED <<ledger, graph, hitem, hreq, poller, fails>>

\* It deletes that message by its own id.
DeleteItem(h) ==
    /\ hpc[h] = "delete"
    /\ graph' = graph \ {<<hitem[h], hnode[h]>>}
    /\ hpc' = [hpc EXCEPT ![h] = "erased"]
    /\ UNCHANGED <<ledger, hitem, hreq, hnode, poller, fails>>

\* mark_memory_command_applied for a creating command.
MarkApplied(h) ==
    /\ hpc[h] = "applied"
    /\ created' = [created EXCEPT ![hitem[h]] = "applied"]
    /\ HandlerDone(h)
    /\ UNCHANGED <<item, parent, redacted, erasing, request, target, graph, poller, fails>>

\* Mutant: the creating command keeps the content.
CompleteErasureKeepsContent(q) ==
    /\ item' = [item EXCEPT ![target[q]] = "erased"]
    /\ request' = [request EXCEPT ![q] = "completed"]
    /\ UNCHANGED redacted

\* _complete_erasure_command: the row is emptied, the creating command loses its
\* content, the request is completed.
CompleteErasure(q) ==
    /\ item' = [item EXCEPT ![target[q]] = "erased"]
    /\ redacted' = redacted \cup {target[q]}
    /\ request' = [request EXCEPT ![q] = "completed"]

\* mark_memory_command_applied for an erase command; applied already: no change.
MarkErased(h) ==
    /\ hpc[h] = "erased"
    /\ IF erasing[hreq[h]] = "applied"
       THEN UNCHANGED <<item, redacted, request, erasing>>
       ELSE /\ CompleteErasure(hreq[h])
            /\ erasing' = [erasing EXCEPT ![hreq[h]] = "applied"]
    /\ HandlerDone(h)
    /\ UNCHANGED <<parent, created, target, graph, poller, fails>>

\* A dependency fails, the task is cancelled or the process dies before the next
\* step; the message will be delivered again.
HandlerFails(h) ==
    /\ hpc[h] # "idle" /\ fails < MaxFails
    /\ fails' = fails + 1
    /\ HandlerDone(h)
    /\ UNCHANGED <<ledger, graph, poller>>

-----------------------------------------------------------------------------
(* erase_next: the polling path of items that have no ledger row *)

PollDone == ppc' = "idle" /\ preq' = NoRequest

\* next_approved: the oldest approved request without an erase command.
PollNext ==
    /\ ppc = "idle"
    /\ \E q \in Requests :
         /\ request[q] = "approved" /\ erasing[q] = "none"
         /\ \A r \in Requests : r < q => ~(request[r] = "approved" /\ erasing[r] = "none")
         /\ preq' = q
    /\ ppc' = "erase"
    /\ UNCHANGED <<ledger, graph, workers, fails>>

\* erase_private; nothing to delete raises LookupError.
PollErase ==
    /\ ppc = "erase"
    /\ IF Copies(target[preq]) = {}
       THEN PollDone /\ UNCHANGED graph
       ELSE /\ \E n \in Copies(target[preq]) : graph' = graph \ {n}
            /\ ppc' = "complete" /\ UNCHANGED preq
    /\ UNCHANGED <<ledger, workers, fails>>

\* mark_completed.
PollComplete ==
    /\ ppc = "complete"
    /\ request' = [request EXCEPT ![preq] = "completed"]
    /\ PollDone
    /\ UNCHANGED <<item, parent, redacted, created, erasing, target, graph, workers, fails>>

PollFails ==
    /\ ppc # "idle" /\ fails < MaxFails
    /\ fails' = fails + 1
    /\ PollDone
    /\ UNCHANGED <<ledger, graph, workers>>

-----------------------------------------------------------------------------
Handle(h) ==
    \/ \E i \in Items : LoadCreate(h, i)
    \/ \E q \in Requests : LoadErase(h, q)
    \/ FindItem(h) \/ AddItem(h) \/ MarkApplied(h)
    \/ LocateItem(h) \/ DeleteItem(h) \/ MarkErased(h)

Poll == PollNext \/ PollErase \/ PollComplete

Next ==
    \/ \E i \in Items : AcceptRetain(i) \/ AcceptImport(i)
    \/ \E i, p \in Items : AcceptCorrection(i, p)
    \/ \E q \in Requests :
         \/ \E i \in Items : RequestErasure(q, i) \/ ImportTombstone(q, i)
         \/ ApproveErasure(q) \/ RejectErasure(q)
    \/ \E h \in Handlers : Handle(h) \/ HandlerFails(h)
    \/ Poll \/ PollFails

Spec == Init /\ [][Next]_vars

\* The handlers and the polling loop keep running, and every accepted command is
\* delivered until it is applied (OutboxDelivery!EventuallySettled, redrives
\* included); users and administrators need not act.
Fairness ==
    /\ \A h \in Handlers :
         /\ WF_vars(FindItem(h) \/ AddItem(h) \/ MarkApplied(h)
                      \/ LocateItem(h) \/ DeleteItem(h) \/ MarkErased(h))
         /\ \A i \in Items : SF_vars(LoadCreate(h, i))
         /\ \A q \in Requests : SF_vars(LoadErase(h, q))
    /\ WF_vars(Poll)

FairSpec == Spec /\ Fairness

-----------------------------------------------------------------------------
(* Properties *)

\* An erased item is gone everywhere: its content is in no graph message, not in
\* the command that created it, and in no handler that is about to write it. The
\* same holds of the item of a completed request, on the ledger path of the
\* handlers and on the polling path of erase_next.
ErasedIsGone ==
    /\ \A i \in Items : item[i] = "erased" =>
         /\ Copies(i) = {} /\ i \in redacted
         /\ \A h \in Handlers : hpc[h] \in {"find", "add"} => hitem[h] # i
    /\ \A q \in Requests : request[q] = "completed" => Copies(target[q]) = {}

\* What the receipt says is true: an applied command has its effect in the graph
\* until an erasure of the item is approved.
AppliedIsProjected ==
    \A i \in Items : created[i] = "applied" /\ item[i] \in {"active", "superseded"} =>
        Cardinality(Copies(i)) = 1

\* Erasure is final: no later import, correction or late delivery gives the
\* identifier a new life.
ErasureIsFinal ==
    [][\A i \in Items : item[i] = "erased" => item'[i] = "erased" /\ Copies(i)' = {}]_vars

\* Nothing is left to project, and no import has stopped halfway.
Quiet ==
    /\ \A h \in Handlers : hpc[h] = "idle"
    /\ ppc = "idle"
    /\ \A i \in Archive : Supersedes[i] \in Archive /\ item[Supersedes[i]] # "absent" =>
         item[i] # "absent"
    /\ \A i \in Items : created[i] = "accepted" => i \in redacted
    /\ \A q \in Requests : erasing[q] # "accepted"

\* When everything that can be projected is projected, recall shows exactly the
\* active items of the ledger; the exception is an item whose correction has been
\* erased (SupersededIsHidden has no exception and does not hold).
Converged ==
    Quiet => \A i \in Items : item[i] # "absent" =>
        \/ Recallable(i) <=> item[i] = "active"
        \/ item[i] = "superseded" /\ \E j \in Items : parent[j] = i /\ item[j] = "erased"

\* The next two state what the documents say and do not hold of the code; README.md
\* ("Known differences") gives the behaviours.

\* "Superseded content remains auditable but is excluded from normal recall": once
\* everything is projected, an item the ledger calls superseded is not recalled.
SupersededIsHidden ==
    Quiet => \A i \in Items : item[i] = "superseded" => ~Recallable(i)

\* "failed or interrupted work remains visible and retryable": an accepted command
\* still has what a retry projects.
AcceptedIsRetryable ==
    \A i \in Items : created[i] = "accepted" => i \notin redacted

\* An approved erasure of a ledger item is carried out.
ErasureCompletes ==
    \A q \in Requests : erasing[q] = "accepted" ~> request[q] = "completed"
=============================================================================
