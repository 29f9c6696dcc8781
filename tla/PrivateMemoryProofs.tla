-------------------------- MODULE PrivateMemoryProofs --------------------------
(***************************************************************************)
(* Erasure and projection for any number of items, requests and failures.  *)
(* The types need nothing; the rest holds as deployed: one handler at a    *)
(* time works on commands, and an item comes from one source, a command,   *)
(* an archive, a tombstone or the time before the ledger. IInv says what a *)
(* handler and the polling loop know about their item between two calls;   *)
(* Lineages adds which items were corrected, and by what.                  *)
(***************************************************************************)
EXTENDS PrivateMemory, FiniteSetTheorems, TLAPS

\* Requests and those who work on them refer to something.
Linked ==
    /\ \A q \in Requests : request[q] # "none" => target[q] \in Items
    /\ \A q \in Requests : erasing[q] # "none" => request[q] # "none"
    /\ \A h \in Handlers : hpc[h] \in {"locate", "delete", "erased"} =>
         hreq[h] \in Requests /\ erasing[hreq[h]] # "none"
    /\ ppc # "idle" => preq \in Requests /\ request[preq] # "none"

TInv == TypeOK /\ Linked

\* The consumer's prefetch is one; archives and tombstones are not of items that were
\* in the graph before the ledger, nor of one another's.
OneHandler == \A h, k \in Handlers : h = k
Sources == Archive \cap (Legacy \cup Tombstoned) = {} /\ Legacy \cap Tombstoned = {}
Deployed == OneHandler /\ Sources

\* _validate_private_archive: what an archived item supersedes is in the archive too, or
\* has a tombstone there.
Complete == \A i \in Archive : Supersedes[i] \in Archive \cup Tombstoned \cup {NoItem}

\* The items that have a message in the graph.
Shown == {n[1] : n \in graph}

OneMessage == \A m, n \in graph : m[1] = n[1] => m = n

\* An item with a row was accepted; a message is of such an item or of an old one.
Item(i) ==
    /\ item[i] # "absent" <=> created[i] # "none"
    /\ item[i] # "absent" => i \notin Legacy \cup Tombstoned
    /\ i \in Shown => item[i] # "absent" \/ i \in Legacy
    /\ item[i] = "erased" => i \notin Shown /\ i \in redacted
    /\ created[i] = "applied" /\ item[i] \in {"active", "superseded"} => i \in Shown

\* A request is carried out on the path of its item, and completed when that is gone.
Erasure(q) ==
    /\ request[q] \in {"requested", "approved"} => item[target[q]] # "absent" \/ target[q] \in Legacy
    /\ request[q] = "approved" /\ erasing[q] = "none" => target[q] \in Legacy
    /\ erasing[q] = "accepted" =>
         request[q] = "approved" /\ item[target[q]] \in {"erasure_pending", "erased"}
    /\ request[q] = "completed" =>
         \/ item[target[q]] = "erased"
         \/ target[q] \in Legacy \cup Tombstoned /\ target[q] \notin Shown

\* What a handler has found is still so at its next call.
Handling(h) ==
    /\ hpc[h] \in {"find", "add", "applied"} =>
         created[hitem[h]] = "accepted" /\ item[hitem[h]] # "erased"
    /\ hpc[h] = "add" => hitem[h] \notin Shown
    /\ hpc[h] = "applied" => hitem[h] \in Shown
    /\ hpc[h] \in {"locate", "delete", "erased"} =>
         hitem[h] = target[hreq[h]] /\ erasing[hreq[h]] = "accepted"
    /\ hpc[h] = "delete" => \A n \in graph : n[1] = hitem[h] => n[2] = hnode[h]
    /\ hpc[h] = "erased" => hitem[h] \notin Shown

Polling ==
    /\ ppc # "idle" => request[preq] = "approved" /\ target[preq] \in Legacy
    /\ ppc = "complete" => target[preq] \notin Shown

Known ==
    /\ OneMessage /\ Polling
    /\ \A i \in Items : Item(i)
    /\ \A q \in Requests : Erasure(q)
    /\ \A h \in Handlers : Handling(h)

IInv == TInv /\ Known

\* What the ledger's columns say of an item's erasure and of its correction.
Lineage(i) ==
    /\ i \in redacted => item[i] = "erased"
    /\ item[i] = "erasure_pending" => \E q \in Requests : target[q] = i /\ erasing[q] = "accepted"
    /\ item[i] = "absent" => parent[i] = NoItem
    /\ i \in Archive /\ item[i] # "absent" => parent[i] = Supersedes[i]
    /\ \A j \in Items : parent[j] = i =>
         item[i] # "active" /\ (item[i] = "absent" => i \in Legacy \cup Tombstoned)
    /\ item[i] = "superseded" =>
         \/ \E j \in Items : parent[j] = i
         \/ i \in Archive /\ \E j \in Archive : Supersedes[j] = i

Lineages == \A i \in Items : Lineage(i)

-----------------------------------------------------------------------------
(* Types *)

LEMMA InitTypes == Init => TInv
  <1> SUFFICES ASSUME Init PROVE TInv
    OBVIOUS
  <1>1. Legacy \X {LegacyWriter} \subseteq Items \X Writers
    BY PrivateMemoryAssumption DEF Writers
  <1>2. TypeOK
    BY <1>1, PrivateMemoryAssumption DEF Init, TypeOK, ItemStates, CommandStates, Writers
  <1>3. Linked
    BY DEF Init, Linked
  <1> QED
    BY <1>2, <1>3 DEF TInv

\* What the ledger's transactions do to the types; nobody is interrupted by them.
LEMMA AcceptTypes ==
  ASSUME TInv, NEW i \in Items, NEW p \in Items \cup {NoItem}, NEW state \in ItemStates,
         InsertCommand(i, p, state),
         UNCHANGED <<redacted, erasing, request, target, graph, workers, poller, fails>>
  PROVE  TInv'
  <1>1. TypeOK'
    BY DEF TInv, TypeOK, InsertCommand, ItemStates, CommandStates, workers, poller
  <1>2. Linked'
    BY DEF TInv, Linked, workers, poller
  <1> QED
    BY <1>1, <1>2 DEF TInv

LEMMA RequestTypes ==
  ASSUME TInv, NEW q \in Requests,
         \/ \E i \in Items : RequestErasure(q, i) \/ ImportTombstone(q, i)
         \/ ApproveErasure(q) \/ RejectErasure(q)
  PROVE  TInv'
  <1>0. UNCHANGED <<parent, redacted, created, graph, workers, poller, fails>>
    BY DEF RequestErasure, ImportTombstone, ApproveErasure, RejectErasure
  <1>1. /\ request' \in [Requests -> {"none", "requested", "approved", "rejected", "completed"}]
        /\ target' \in [Requests -> Items \cup {NoItem}]
    BY DEF TInv, TypeOK, RequestErasure, ImportTombstone, ApproveErasure, RejectErasure
  <1>2. item' \in [Items -> ItemStates] /\ erasing' \in [Requests -> CommandStates]
    BY DEF TInv, TypeOK, RequestErasure, ImportTombstone, ApproveErasure, RejectErasure, ItemStates,
           CommandStates
  <1>3. TypeOK'
    BY <1>0, <1>1, <1>2 DEF TInv, TypeOK, workers, poller
  <1>4. Linked'
    BY <1>0 DEF TInv, TypeOK, Linked, RequestErasure, ImportTombstone, ApproveErasure, RejectErasure,
                workers, poller
  <1> QED
    BY <1>3, <1>4 DEF TInv

LEMMA DoneTypes ==
  ASSUME TInv, NEW h \in Handlers, HandlerDone(h)
  PROVE  /\ hpc' = [hpc EXCEPT ![h] = "idle"] /\ hitem' = [hitem EXCEPT ![h] = NoItem]
         /\ hreq' \in [Handlers -> Requests \cup {NoRequest}] /\ hnode' \in [Handlers -> Writers]
         /\ \A k \in Handlers \ {h} : hreq'[k] = hreq[k]
  BY DEF TInv, TypeOK, HandlerDone, Writers

LEMMA HandlerTypes ==
  ASSUME TInv, NEW h \in Handlers, Handle(h) \/ HandlerFails(h)
  PROVE  TInv'
  <1>0. UNCHANGED <<parent, target, poller>>
    BY DEF Handle, HandlerFails, LoadCreate, LoadErase, FindItem, AddItem, MarkApplied, LocateItem, DeleteItem,
           MarkErased, ledger
  <1>1. /\ hpc' \in [Handlers -> {"idle", "find", "add", "applied", "locate", "delete", "erased"}]
        /\ hitem' \in [Handlers -> Items \cup {NoItem}]
        /\ \A k \in Handlers : hpc'[k] = "idle" <=> hitem'[k] = NoItem
        /\ hreq' \in [Handlers -> Requests \cup {NoRequest}]
        /\ \A k \in Handlers : hpc'[k] \in {"locate", "delete", "erased"} =>
             hreq'[k] \in Requests /\ erasing[hreq'[k]] # "none"
    <2>1. CASE HandlerDone(h)
      BY <2>1, DoneTypes DEF TInv, TypeOK, Linked
    <2>2. CASE \E i \in Items : LoadCreate(h, i)
      BY <2>2, PrivateMemoryAssumption DEF TInv, TypeOK, Linked, LoadCreate
    <2>3. CASE \E q \in Requests : LoadErase(h, q)
      BY <2>3, PrivateMemoryAssumption DEF TInv, TypeOK, Linked, LoadErase
    <2>4. CASE FindItem(h) \/ AddItem(h) \/ LocateItem(h) \/ DeleteItem(h)
      BY <2>4 DEF TInv, TypeOK, Linked, FindItem, AddItem, LocateItem, DeleteItem
    <2> QED
      BY <2>1, <2>2, <2>3, <2>4 DEF Handle, HandlerFails, MarkApplied, MarkErased
  <1>2. hnode' \in [Handlers -> Writers]
    <2>1. CASE HandlerDone(h)
      BY <2>1, DoneTypes
    <2>2. CASE LocateItem(h)
      <3>1. \A n \in Copies(hitem[h]) : n[2] \in Writers
        BY DEF TInv, TypeOK, Copies
      <3> QED
        BY <2>2, <3>1 DEF TInv, TypeOK, LocateItem
    <2> QED
      BY <2>1, <2>2 DEF TInv, TypeOK, Handle, HandlerFails, LoadCreate, LoadErase, FindItem, AddItem, MarkApplied,
                  DeleteItem, MarkErased
  <1>3. graph' \subseteq Items \X Writers
    <2>1. CASE AddItem(h)
      <3>1. hitem[h] \in Items /\ h \in Writers
        BY <2>1 DEF TInv, TypeOK, AddItem, Writers
      <3> QED
        BY <2>1, <3>1 DEF TInv, TypeOK, AddItem
    <2>2. CASE DeleteItem(h)
      BY <2>2 DEF TInv, TypeOK, DeleteItem
    <2>3. CASE graph' = graph
      BY <2>3 DEF TInv, TypeOK
    <2> QED
      BY <2>1, <2>2, <2>3 DEF Handle, HandlerFails, LoadCreate, LoadErase, FindItem, MarkApplied, LocateItem,
                              MarkErased
  <1>4. /\ item' \in [Items -> ItemStates] /\ redacted' \subseteq Items
        /\ created' \in [Items -> CommandStates] /\ erasing' \in [Requests -> CommandStates]
        /\ request' \in [Requests -> {"none", "requested", "approved", "rejected", "completed"}]
        /\ \A q \in Requests : request[q] # "none" => request'[q] # "none"
        /\ \A q \in Requests : erasing[q] # "none" => erasing'[q] # "none"
        /\ \A q \in Requests : erasing'[q] # "none" => request'[q] # "none"
    <2>1. CASE MarkErased(h)
      <3>1. hreq[h] \in Requests
        BY <2>1 DEF TInv, Linked, MarkErased
      <3>2. target[hreq[h]] \in Items /\ request[hreq[h]] # "none"
        BY <2>1, <3>1 DEF TInv, Linked, MarkErased
      <3> QED
        BY <2>1, <3>1, <3>2 DEF TInv, TypeOK, Linked, MarkErased, CompleteErasure, ItemStates, CommandStates
    <2>2. CASE MarkApplied(h)
      BY <2>2 DEF TInv, TypeOK, Linked, MarkApplied, CommandStates
    <2>3. CASE UNCHANGED ledger
      BY <2>3 DEF TInv, TypeOK, Linked, ledger
    <2> QED
      BY <2>1, <2>2, <2>3 DEF Handle, HandlerFails, LoadCreate, LoadErase, FindItem, AddItem, LocateItem,
                              DeleteItem
  <1>5. fails' \in 0..MaxFails
    BY PrivateMemoryAssumption DEF TInv, TypeOK, Handle, HandlerFails, LoadCreate, LoadErase, FindItem, AddItem,
       MarkApplied, LocateItem, DeleteItem, MarkErased
  <1>6. TypeOK'
    <2>1. /\ parent' \in [Items -> Items \cup {NoItem}] /\ target' \in [Requests -> Items \cup {NoItem}]
          /\ ppc' \in {"idle", "erase", "complete"} /\ preq' \in Requests \cup {NoRequest}
      BY <1>0 DEF TInv, TypeOK, poller
    <2> QED
      BY ONLY <2>1, <1>1, <1>2, <1>3, <1>4, <1>5 DEF TypeOK
  <1>7. Linked'
    <2>1. ASSUME NEW q \in Requests, request'[q] # "none" PROVE target'[q] \in Items
      <3>1. CASE MarkErased(h)
        <4>1. hreq[h] \in Requests /\ target[hreq[h]] \in Items
          BY <3>1 DEF TInv, Linked, MarkErased
        <4>2. q = hreq[h] \/ request'[q] = request[q]
          BY <3>1, <4>1 DEF TInv, TypeOK, MarkErased, CompleteErasure
        <4> QED
          BY <1>0, <2>1, <4>1, <4>2 DEF TInv, Linked
      <3>2. CASE UNCHANGED request
        BY <1>0, <2>1, <3>2 DEF TInv, Linked
      <3> QED
        BY <3>1, <3>2 DEF Handle, HandlerFails, LoadCreate, LoadErase, FindItem, AddItem, LocateItem, DeleteItem,
                          MarkApplied, ledger
    <2>2. ppc' # "idle" => preq' \in Requests /\ request'[preq'] # "none"
      BY <1>0, <1>4 DEF TInv, Linked, poller
    <2> QED
      BY <2>1, <2>2, <1>1, <1>4 DEF Linked
  <1> QED
    BY <1>6, <1>7 DEF TInv

LEMMA PollTypes ==
  ASSUME TInv, Poll \/ PollFails
  PROVE  TInv'
  <1>1. UNCHANGED <<item, parent, redacted, created, erasing, target, workers>>
    BY DEF Poll, PollNext, PollErase, PollComplete, PollFails, ledger
  <1>2. /\ ppc' \in {"idle", "erase", "complete"} /\ preq' \in Requests \cup {NoRequest}
        /\ graph' \subseteq Items \X Writers
        /\ fails' \in 0..MaxFails
    BY PrivateMemoryAssumption DEF TInv, TypeOK, Poll, PollNext, PollErase, PollComplete, PollFails, PollDone
  <1>3. /\ request' \in [Requests -> {"none", "requested", "approved", "rejected", "completed"}]
        /\ \A q \in Requests : request'[q] = "none" <=> request[q] = "none"
    BY DEF TInv, TypeOK, Linked, Poll, PollNext, PollErase, PollComplete, PollFails, ledger
  <1>4. ppc' # "idle" => preq' \in Requests /\ request'[preq'] # "none"
    BY <1>3 DEF TInv, Linked, Poll, PollNext, PollErase, PollComplete, PollFails, PollDone
  <1>5. TypeOK'
    BY <1>1, <1>2, <1>3 DEF TInv, TypeOK, workers
  <1>6. Linked'
    BY <1>1, <1>3, <1>4 DEF TInv, Linked, workers
  <1> QED
    BY <1>5, <1>6 DEF TInv

LEMMA TypesKept == TInv /\ [Next]_vars => TInv'
  <1> SUFFICES ASSUME TInv, [Next]_vars PROVE TInv'
    OBVIOUS
  <1>1. ASSUME NEW i \in Items, AcceptRetain(i) PROVE TInv'
    BY <1>1, AcceptTypes DEF AcceptRetain, ItemStates
  <1>2. ASSUME NEW i \in Items, AcceptImport(i) PROVE TInv'
    <2>1. Supersedes[i] \in Items \cup {NoItem} /\ ArchivedState(i) \in ItemStates
      BY <1>2, PrivateMemoryAssumption DEF AcceptImport, ArchivedState, ItemStates
    <2> QED
      BY <1>2, <2>1, AcceptTypes DEF AcceptImport
  <1>3. ASSUME NEW i \in Items, NEW p \in Items, AcceptCorrection(i, p) PROVE TInv'
    BY <1>3, AcceptTypes DEF AcceptCorrection, ItemStates
  <1>4. CASE UNCHANGED vars
    BY <1>4 DEF TInv, TypeOK, Linked, vars, ledger, workers, poller
  <1> QED
    BY <1>1, <1>2, <1>3, <1>4, RequestTypes, HandlerTypes, PollTypes DEF Next

-----------------------------------------------------------------------------
(* What is known is kept *)

LEMMA CopiesShown ==
  ASSUME NEW i
  PROVE  Copies(i) = {} <=> i \notin Shown
  BY DEF Copies, Shown

LEMMA InitKnown == Init /\ Deployed => Known
  <1> SUFFICES ASSUME Init, Deployed PROVE Known
    OBVIOUS
  <1>1. Shown \subseteq Legacy /\ OneMessage
    BY DEF Init, Shown, OneMessage
  <1>2. \A i \in Items : Item(i)
    BY <1>1 DEF Init, Item
  <1> QED
    BY <1>1, <1>2 DEF Init, Known, Polling, Erasure, Handling

LEMMA AcceptKnown ==
  ASSUME IInv, NEW i \in Items, NEW p \in Items \cup {NoItem}, NEW state \in {"active", "superseded"},
         InsertCommand(i, p, state), item[i] = "absent", i \notin Legacy \cup Tombstoned,
         UNCHANGED <<redacted, erasing, request, target, graph, workers, poller, fails>>
  PROVE  Known'
  <1>1. Shown' = Shown /\ OneMessage'
    BY DEF IInv, Known, Shown, OneMessage
  <1>2. /\ created' \in [Items -> CommandStates] /\ item' \in [Items -> ItemStates]
        /\ created'[i] = "accepted" /\ item'[i] = state
        /\ \A j \in Items \ {i} :
             /\ created'[j] = created[j]
             /\ item'[j] = item[j] \/ (item[j] = "active" /\ item'[j] = "superseded")
    <2>1. item \in [Items -> ItemStates] /\ created \in [Items -> CommandStates]
      BY DEF IInv, TInv, TypeOK
    <2>2. created' \in [Items -> CommandStates] /\ created'[i] = "accepted"
          /\ \A j \in Items \ {i} : created'[j] = created[j]
      BY <2>1 DEF InsertCommand, CommandStates
    <2>3. item' \in [Items -> ItemStates] /\ item'[i] = state
      BY <2>1 DEF InsertCommand, ItemStates
    <2>4. ASSUME NEW j \in Items \ {i}
          PROVE  item'[j] = item[j] \/ (item[j] = "active" /\ item'[j] = "superseded")
      BY <2>1 DEF InsertCommand
    <2> QED
      BY <2>2, <2>3, <2>4
  <1>3. ASSUME NEW j \in Items PROVE Item(j)'
    <2>1. Item(j)
      BY DEF IInv, Known
    <2> QED
      BY <1>1, <1>2, <2>1 DEF Item
  <1>4. ASSUME NEW q \in Requests PROVE Erasure(q)'
    <2>1. Erasure(q) /\ (request[q] # "none" => target[q] \in Items)
          /\ (erasing[q] # "none" => request[q] # "none")
      BY DEF IInv, Known, TInv, Linked
    <2> QED
      BY <1>1, <1>2, <2>1 DEF Erasure
  <1>5. ASSUME NEW h \in Handlers PROVE Handling(h)'
    <2>1. Handling(h) /\ (hpc[h] # "idle" => hitem[h] \in Items /\ Item(hitem[h]))
      BY DEF IInv, Known, TInv, TypeOK
    <2> QED
      BY <1>1, <1>2, <2>1 DEF Handling, Item, workers
  <1>6. Polling'
    BY <1>1 DEF IInv, Known, Polling, poller
  <1> QED
    BY <1>1, <1>3, <1>4, <1>5, <1>6 DEF Known

LEMMA RequestKnown ==
  ASSUME IInv, Deployed, NEW q \in Requests,
         \/ \E i \in Items : RequestErasure(q, i) \/ ImportTombstone(q, i)
         \/ ApproveErasure(q) \/ RejectErasure(q)
  PROVE  Known'
  <1>0. UNCHANGED <<redacted, created, graph, workers, poller>>
    BY DEF RequestErasure, ImportTombstone, ApproveErasure, RejectErasure
  <1>1. Shown' = Shown /\ OneMessage'
    BY <1>0 DEF IInv, Known, Shown, OneMessage
  <1>2. ASSUME NEW j \in Items
        PROVE  \/ item'[j] = item[j]
               \/ item[j] \notin {"absent", "erased"} /\ item'[j] = "erasure_pending"
    BY DEF IInv, TInv, TypeOK, RequestErasure, ImportTombstone, ApproveErasure, RejectErasure
  <1>3. ASSUME NEW j \in Items PROVE Item(j)'
    <2>1. Item(j)
      BY DEF IInv, Known
    <2> QED
      BY <1>0, <1>1, <1>2, <2>1 DEF Item
  <1>4. ASSUME NEW r \in Requests, r # q
        PROVE  request'[r] = request[r] /\ target'[r] = target[r] /\ erasing'[r] = erasing[r]
    BY <1>4 DEF IInv, TInv, TypeOK, RequestErasure, ImportTombstone, ApproveErasure, RejectErasure
  <1>5. ASSUME NEW r \in Requests, r # q PROVE Erasure(r)'
    <2>1. Erasure(r) /\ (request[r] # "none" => target[r] \in Items)
          /\ (erasing[r] # "none" => request[r] # "none")
      BY DEF IInv, Known, TInv, Linked
    <2> QED
      BY <1>1, <1>2, <1>4, <1>5, <2>1 DEF Erasure
  <1>6. /\ request \in [Requests -> {"none", "requested", "approved", "rejected", "completed"}]
        /\ erasing \in [Requests -> CommandStates] /\ target \in [Requests -> Items \cup {NoItem}]
        /\ item \in [Items -> ItemStates]
        /\ Erasure(q) /\ (request[q] # "none" => target[q] \in Items /\ Item(target[q]))
        /\ (erasing[q] # "none" => request[q] # "none")
    BY DEF IInv, Known, TInv, TypeOK, Linked
  <1>7. Erasure(q)'
    <2>1. ASSUME NEW i \in Items, RequestErasure(q, i) PROVE Erasure(q)'
      <3>1. Item(i) /\ i \in Shown
        BY <2>1, CopiesShown DEF IInv, Known, RequestErasure, Recallable
      <3> QED
        BY <1>1, <1>6, <2>1, <3>1 DEF Erasure, Item, RequestErasure
    <2>2. ASSUME NEW i \in Items, ImportTombstone(q, i) PROVE Erasure(q)'
      <3>1. Item(i)
        BY DEF IInv, Known
      <3> QED
        BY <1>1, <1>6, <2>2, <3>1 DEF Erasure, Item, ImportTombstone, Deployed, Sources
    <2>3. CASE ApproveErasure(q)
      BY <1>1, <1>6, <2>3 DEF Erasure, Item, ApproveErasure, CommandStates
    <2>4. CASE RejectErasure(q)
      BY <1>1, <1>6, <2>4 DEF Erasure, Item, RejectErasure
    <2> QED
      BY <2>1, <2>2, <2>3, <2>4
  <1>8. \A r \in Requests : /\ request[r] = "approved" => request'[r] = "approved"
                            /\ request[r] # "none" => target'[r] = target[r]
                            /\ erasing[r] = "accepted" => erasing'[r] = "accepted"
    BY <1>4, <1>6 DEF RequestErasure, ImportTombstone, ApproveErasure, RejectErasure
  <1>9. ASSUME NEW h \in Handlers PROVE Handling(h)'
    <2>1. Handling(h) /\ (hpc[h] # "idle" => hitem[h] \in Items)
          /\ (hpc[h] \in {"locate", "delete", "erased"} => hreq[h] \in Requests /\ request[hreq[h]] # "none")
      BY DEF IInv, Known, TInv, TypeOK, Linked
    <2> QED
      BY <1>0, <1>1, <1>2, <1>8, <2>1 DEF Handling, workers
  <1>10. Polling'
    BY <1>0, <1>1, <1>8 DEF IInv, Known, TInv, Linked, Polling, poller
  <1> QED
    BY <1>1, <1>3, <1>5, <1>7, <1>9, <1>10 DEF Known

\* With one handler, what is kept is its own knowledge.
LEMMA HandlerKnown ==
  ASSUME IInv, Deployed, NEW h \in Handlers, Handle(h) \/ HandlerFails(h)
  PROVE  Known'
  <1>0. /\ Handlers = {h}
        /\ UNCHANGED <<target, poller>>
    BY DEF Deployed, OneHandler, Handle, HandlerFails, LoadCreate, LoadErase, FindItem, AddItem, MarkApplied,
           LocateItem, DeleteItem, MarkErased, ledger
  <1>1. /\ item \in [Items -> ItemStates] /\ created \in [Items -> CommandStates]
        /\ erasing \in [Requests -> CommandStates] /\ target \in [Requests -> Items \cup {NoItem}]
        /\ request \in [Requests -> {"none", "requested", "approved", "rejected", "completed"}]
        /\ hpc \in [Handlers -> {"idle", "find", "add", "applied", "locate", "delete", "erased"}]
        /\ hitem \in [Handlers -> Items \cup {NoItem}] /\ hreq \in [Handlers -> Requests \cup {NoRequest}]
        /\ hnode \in [Handlers -> Writers] /\ graph \subseteq Items \X Writers
        /\ hpc[h] # "idle" => hitem[h] \in Items
        /\ hpc[h] \in {"locate", "delete", "erased"} => hreq[h] \in Requests
        /\ \A q \in Requests : request[q] # "none" => target[q] \in Items
        /\ \A q \in Requests : erasing[q] # "none" => request[q] # "none"
        /\ ppc # "idle" => preq \in Requests /\ request[preq] # "none"
    BY DEF IInv, TInv, TypeOK, Linked
  <1>2. /\ Handling(h) /\ OneMessage /\ Polling
        /\ \A i \in Items : Item(i)
        /\ \A q \in Requests : Erasure(q)
    BY DEF IInv, Known
  <1>3. CASE UNCHANGED <<ledger, graph>> /\ ~AddItem(h) /\ ~DeleteItem(h)
    <2>1. Shown' = Shown /\ OneMessage'
      BY <1>2, <1>3 DEF Shown, OneMessage
    <2>2. Handling(h)'
      <3>1. ASSUME NEW i \in Items, LoadCreate(h, i) PROVE Handling(h)'
        BY <1>1, <1>2, <1>3, <2>1, <3>1 DEF Handling, Item, LoadCreate, ledger
      <3>2. ASSUME NEW q \in Requests, LoadErase(h, q) PROVE Handling(h)'
        BY <1>1, <1>2, <1>3, <2>1, <3>2 DEF Handling, LoadErase, ledger
      <3>3. CASE FindItem(h)
        BY <1>1, <1>2, <1>3, <2>1, <3>3, CopiesShown DEF Handling, FindItem, ledger
      <3>4. CASE LocateItem(h)
        <4>1. CASE Copies(hitem[h]) = {}
          BY <1>1, <1>2, <1>3, <2>1, <3>4, <4>1, CopiesShown DEF Handling, LocateItem, ledger
        <4>2. CASE Copies(hitem[h]) # {}
          <5>1. PICK n \in Copies(hitem[h]) : hnode' = [hnode EXCEPT ![h] = n[2]]
            BY <3>4, <4>2 DEF LocateItem
          <5>2. hnode'[h] = n[2] /\ n \in graph /\ n[1] = hitem[h] /\ hpc' = [hpc EXCEPT ![h] = "delete"]
            BY <1>1, <3>4, <4>2, <5>1 DEF Copies, LocateItem
          <5>3. \A m \in graph : m[1] = hitem[h] => m[2] = hnode'[h]
            BY <1>2, <5>2 DEF OneMessage
          <5> QED
            BY <1>1, <1>2, <1>3, <2>1, <3>4, <5>2, <5>3 DEF Handling, LocateItem, ledger
        <4> QED
          BY <4>1, <4>2
      <3>5. CASE HandlerDone(h)
        BY <1>1, <3>5 DEF Handling, HandlerDone
      <3> QED
        BY <1>3, <3>1, <3>2, <3>3, <3>4, <3>5 DEF Handle, HandlerFails, MarkApplied, MarkErased
    <2>3. (\A i \in Items : Item(i)') /\ (\A q \in Requests : Erasure(q)') /\ Polling'
      BY <1>0, <1>2, <1>3, <2>1 DEF Item, Erasure, Polling, ledger, poller
    <2> QED
      BY <1>0, <2>1, <2>2, <2>3 DEF Known
  <1>4. CASE AddItem(h)
    <2>1. hitem[h] \in Items /\ hitem[h] \notin Shown /\ Item(hitem[h])
      BY <1>1, <1>2, <1>4 DEF AddItem, Handling
    <2>2. Shown' = Shown \cup {hitem[h]}
      <3> DEFINE n == <<hitem[h], h>>
      <3>1. graph' = graph \cup {n} /\ n[1] = hitem[h]
        BY <1>4 DEF AddItem
      <3> HIDE DEF n
      <3> QED
        BY <3>1 DEF Shown
    <2>3. OneMessage'
      BY <1>2, <1>4, <2>1 DEF AddItem, OneMessage, Shown
    <2>4. item[hitem[h]] \notin {"absent", "erased"} /\ hitem[h] \notin Legacy \cup Tombstoned
      BY <1>1, <1>2, <1>4, <2>1 DEF AddItem, Handling, Item
    <2>5. ASSUME NEW i \in Items PROVE Item(i)'
      BY <1>2, <1>4, <2>2, <2>4 DEF AddItem, Item, ledger
    <2>6. ASSUME NEW q \in Requests PROVE Erasure(q)'
      BY <1>0, <1>2, <1>4, <2>2, <2>4 DEF AddItem, Erasure, ledger
    <2>7. Handling(h)'
      BY <1>1, <1>2, <1>4, <2>2 DEF AddItem, Handling, ledger
    <2>8. Polling'
      BY <1>0, <1>2, <1>4, <2>2, <2>4 DEF AddItem, Polling, ledger, poller
    <2> QED
      BY <1>0, <2>3, <2>5, <2>6, <2>7, <2>8 DEF Known
  <1>5. CASE DeleteItem(h)
    <2>1. /\ hitem[h] \in Items /\ hreq[h] \in Requests /\ hitem[h] = target[hreq[h]]
          /\ erasing[hreq[h]] = "accepted" /\ \A n \in graph : n[1] = hitem[h] => n[2] = hnode[h]
      BY <1>1, <1>2, <1>5 DEF DeleteItem, Handling
    <2>2. Shown' = Shown \ {hitem[h]}
      <3>1. \A n \in graph : n = <<n[1], n[2]>>
        BY <1>1
      <3> QED
        BY <1>5, <2>1, <3>1 DEF DeleteItem, Shown
    <2>3. OneMessage'
      BY <1>2, <1>5 DEF DeleteItem, OneMessage
    <2>4. item[hitem[h]] \in {"erasure_pending", "erased"}
      BY <1>2, <2>1 DEF Erasure
    <2>5. ASSUME NEW i \in Items PROVE Item(i)'
      BY <1>2, <1>5, <2>2, <2>4 DEF DeleteItem, Item, ledger
    <2>6. ASSUME NEW q \in Requests PROVE Erasure(q)'
      BY <1>0, <1>2, <1>5, <2>2 DEF DeleteItem, Erasure, ledger
    <2>7. Handling(h)'
      BY <1>1, <1>2, <1>5, <2>1, <2>2 DEF DeleteItem, Handling, ledger
    <2>8. Polling'
      BY <1>0, <1>2, <1>5, <2>2 DEF DeleteItem, Polling, ledger, poller
    <2> QED
      BY <1>0, <2>3, <2>5, <2>6, <2>7, <2>8 DEF Known
  <1>6. CASE MarkApplied(h)
    <2>1. /\ hitem[h] \in Items /\ hitem[h] \in Shown /\ Shown' = Shown /\ OneMessage'
          /\ created[hitem[h]] = "accepted"
      BY <1>1, <1>2, <1>6 DEF MarkApplied, Handling, OneMessage, Shown
    <2>2. ASSUME NEW i \in Items PROVE Item(i)'
      BY <1>1, <1>2, <1>6, <2>1 DEF MarkApplied, Item
    <2>3. Handling(h)'
      BY <1>1, <1>6 DEF MarkApplied, HandlerDone, Handling
    <2>4. (\A q \in Requests : Erasure(q)') /\ Polling'
      BY <1>0, <1>2, <1>6, <2>1 DEF MarkApplied, Erasure, Polling, poller
    <2> QED
      BY <1>0, <2>1, <2>2, <2>3, <2>4 DEF Known
  <1>7. CASE MarkErased(h)
    <2>1. /\ hitem[h] \in Items /\ hreq[h] \in Requests /\ hitem[h] = target[hreq[h]]
          /\ erasing[hreq[h]] = "accepted" /\ hitem[h] \notin Shown /\ Shown' = Shown /\ OneMessage'
      BY <1>1, <1>2, <1>7 DEF MarkErased, Handling, OneMessage, Shown
    <2>2. item[hitem[h]] \in {"erasure_pending", "erased"} /\ request[hreq[h]] = "approved"
      BY <1>2, <2>1 DEF Erasure
    <2>3. /\ item' = [item EXCEPT ![hitem[h]] = "erased"] /\ redacted' = redacted \cup {hitem[h]}
          /\ request' = [request EXCEPT ![hreq[h]] = "completed"]
          /\ erasing' = [erasing EXCEPT ![hreq[h]] = "applied"]
          /\ UNCHANGED created
      BY <1>7, <2>1 DEF MarkErased, CompleteErasure
    <2>4. ASSUME NEW i \in Items PROVE Item(i)'
      BY <1>1, <1>2, <2>1, <2>2, <2>3 DEF Item
    <2>5. ASSUME NEW q \in Requests PROVE Erasure(q)'
      <3>1. CASE q = hreq[h]
        BY <1>0, <1>1, <2>1, <2>3, <3>1 DEF Erasure
      <3>2. CASE q # hreq[h]
        BY <1>0, <1>1, <1>2, <2>1, <2>2, <2>3, <3>2 DEF Erasure
      <3> QED
        BY <3>1, <3>2
    <2>6. Handling(h)'
      BY <1>1, <1>7 DEF MarkErased, HandlerDone, Handling
    <2>7. Polling'
      <3>1. hitem[h] \notin Legacy
        BY <1>2, <2>1, <2>2 DEF Item
      <3> QED
        BY <1>0, <1>1, <1>2, <2>1, <2>3, <3>1 DEF Polling, poller
    <2> QED
      BY <1>0, <2>1, <2>4, <2>5, <2>6, <2>7 DEF Known
  <1> QED
    BY <1>3, <1>4, <1>5, <1>6, <1>7 DEF Handle, HandlerFails, LoadCreate, LoadErase, FindItem, LocateItem

LEMMA PollKnown ==
  ASSUME IInv, Deployed, Poll \/ PollFails
  PROVE  Known'
  <1>0. UNCHANGED <<item, redacted, created, erasing, target, workers>>
    BY DEF Poll, PollNext, PollErase, PollComplete, PollFails, ledger
  <1>1. /\ OneMessage /\ Polling
        /\ \A i \in Items : Item(i)
        /\ \A q \in Requests : Erasure(q) /\ (request[q] # "none" => target[q] \in Items)
        /\ \A h \in Handlers : Handling(h)
        /\ request \in [Requests -> {"none", "requested", "approved", "rejected", "completed"}]
        /\ ppc # "idle" => preq \in Requests
    BY DEF IInv, Known, TInv, TypeOK, Linked
  <1>2. OneMessage' /\ Shown' \subseteq Shown /\ graph' \subseteq graph
        /\ (graph' = graph => Shown' = Shown)
    BY <1>1 DEF OneMessage, Shown, Poll, PollNext, PollErase, PollComplete, PollFails
  <1>3. ASSUME UNCHANGED <<graph, request>>, Polling'
        PROVE  Known'
    <2>1. (\A i \in Items : Item(i)') /\ (\A q \in Requests : Erasure(q)')
      BY <1>0, <1>1, <1>2, <1>3 DEF Item, Erasure
    <2>2. \A h \in Handlers : Handling(h)'
      BY <1>0, <1>1, <1>2, <1>3 DEF Handling, workers
    <2> QED
      BY <1>2, <1>3, <2>1, <2>2 DEF Known
  <1>4. CASE PollNext
    <2>1. Polling'
      BY <1>0, <1>1, <1>4 DEF Polling, Erasure, PollNext, ledger
    <2> QED
      BY <1>3, <1>4, <2>1 DEF PollNext, ledger
  <1>5. CASE PollFails \/ (PollErase /\ graph' = graph /\ PollDone)
    BY <1>3, <1>5 DEF Polling, PollFails, PollErase, PollDone, ledger
  <1>6. CASE PollComplete
    <2>1. /\ Shown' = Shown /\ request[preq] = "approved" /\ target[preq] \in Legacy
          /\ target[preq] \notin Shown /\ preq \in Requests
          /\ request' = [request EXCEPT ![preq] = "completed"]
      BY <1>1, <1>2, <1>6 DEF PollComplete, Polling
    <2>2. erasing[preq] # "accepted"
      BY <1>1, <2>1 DEF Erasure, Item
    <2>3. ASSUME NEW q \in Requests PROVE Erasure(q)'
      BY <1>0, <1>1, <2>1, <2>2 DEF Erasure
    <2>4. ASSUME NEW i \in Items PROVE Item(i)'
      BY <1>0, <1>1, <2>1 DEF Item
    <2>5. ASSUME NEW h \in Handlers PROVE Handling(h)'
      <3>1. Handling(h)
        BY <1>1
      <3> QED
        BY <1>0, <1>2, <2>1, <3>1 DEF Handling, workers
    <2>6. Polling'
      BY <1>6 DEF PollComplete, PollDone, Polling
    <2> QED
      BY <1>2, <2>3, <2>4, <2>5, <2>6 DEF Known
  <1>7. CASE PollErase /\ ~PollDone
    <2>1. /\ request[preq] = "approved" /\ target[preq] \in Legacy /\ preq \in Requests
          /\ ppc' = "complete" /\ UNCHANGED <<preq, request>>
      BY <1>1, <1>7 DEF PollErase, Polling, ledger
    <2>2. PICK n \in graph : n[1] = target[preq] /\ graph' = graph \ {n}
      BY <1>7 DEF PollErase, Copies
    <2>3. Shown' = Shown \ {target[preq]}
      BY <1>1, <2>2 DEF OneMessage, Shown
    <2>4. item[target[preq]] = "absent" /\ target[preq] \in Items
      BY <1>1, <2>1 DEF Item
    <2>5. ASSUME NEW q \in Requests PROVE Erasure(q)'
      BY <1>0, <1>1, <2>1, <2>3 DEF Erasure
    <2>6. ASSUME NEW i \in Items PROVE Item(i)'
      BY <1>0, <1>1, <2>1, <2>3, <2>4 DEF Item
    <2>7. ASSUME NEW h \in Handlers PROVE Handling(h)'
      <3>1. Handling(h) /\ (hpc[h] = "applied" => hitem[h] \in Items /\ Item(hitem[h]))
        BY <1>1 DEF IInv, TInv, TypeOK
      <3>2. hpc[h] = "applied" => hitem[h] # target[preq]
        BY <2>4, <3>1 DEF Handling, Item
      <3> QED
        BY <1>0, <1>2, <2>1, <2>3, <3>1, <3>2 DEF Handling, workers
    <2>8. Polling'
      BY <1>0, <2>1, <2>3 DEF Polling
    <2> QED
      BY <1>2, <2>5, <2>6, <2>7, <2>8 DEF Known
  <1> QED
    BY <1>4, <1>5, <1>6, <1>7 DEF Poll, PollErase, PollDone

LEMMA KnownKept == Deployed /\ IInv /\ [Next]_vars => Known'
  <1> SUFFICES ASSUME Deployed, IInv, [Next]_vars PROVE Known'
    OBVIOUS
  <1>1. ASSUME NEW i \in Items, AcceptRetain(i) PROVE Known'
    <2>1. i \notin Legacy \cup Tombstoned /\ item[i] = "absent"
      BY <1>1 DEF AcceptRetain, Fresh
    <2> QED
      BY <1>1, <2>1, AcceptKnown DEF AcceptRetain
  <1>2. ASSUME NEW i \in Items, AcceptImport(i) PROVE Known'
    <2>1. /\ Supersedes[i] \in Items \cup {NoItem} /\ ArchivedState(i) \in {"active", "superseded"}
          /\ i \notin Legacy \cup Tombstoned
      BY <1>2, PrivateMemoryAssumption DEF AcceptImport, ArchivedState, Deployed, Sources
    <2> QED
      BY <1>2, <2>1, AcceptKnown DEF AcceptImport
  <1>3. ASSUME NEW i \in Items, NEW p \in Items, AcceptCorrection(i, p) PROVE Known'
    <2>1. i \notin Legacy \cup Tombstoned /\ item[i] = "absent"
      BY <1>3 DEF AcceptCorrection, Fresh
    <2> QED
      BY <1>3, <2>1, AcceptKnown DEF AcceptCorrection
  <1>4. CASE UNCHANGED vars
    BY <1>4 DEF IInv, Known, OneMessage, Polling, Shown, Item, Erasure, Handling, vars, ledger, workers, poller
  <1> QED
    BY <1>1, <1>2, <1>3, <1>4, RequestKnown, HandlerKnown, PollKnown DEF Next

-----------------------------------------------------------------------------
(* Lineages *)

LEMMA InsertLineages ==
  ASSUME IInv, Lineages, NEW i \in Items, NEW p \in Items \cup {NoItem}, NEW state \in {"active", "superseded"},
         InsertCommand(i, p, state), item[i] = "absent", i \notin Legacy \cup Tombstoned,
         p \in Items => item[p] # "absent" \/ p \in Legacy \cup Tombstoned,
         i \in Archive => p = Supersedes[i],
         state = "superseded" => i \in Archive /\ \E j \in Archive : Supersedes[j] = i,
         UNCHANGED <<redacted, erasing, request, target>>
  PROVE  Lineages'
  <1>0. /\ item \in [Items -> ItemStates] /\ parent \in [Items -> Items \cup {NoItem}]
        /\ NoItem \notin Items /\ \A k \in Items : Lineage(k)
    BY PrivateMemoryAssumption DEF IInv, TInv, TypeOK, Lineages
  <1>1. /\ item'[i] = state /\ parent'[i] = p /\ p # i
        /\ \A k \in Items \ {i} : parent'[k] = parent[k]
        /\ \A k \in Items \ {i} : IF k = p /\ item[k] = "active" THEN item'[k] = "superseded" ELSE item'[k] = item[k]
    BY <1>0 DEF InsertCommand
  <1>2. ASSUME NEW k \in Items PROVE parent[k] # i
    BY <1>0, <1>2 DEF Lineage
  <1>3. Lineage(i)'
    <2>1. i \notin redacted /\ \A j \in Items : parent'[j] # i
      BY <1>0, <1>1, <1>2 DEF Lineage
    <2> QED
      BY <1>1, <2>1 DEF Lineage
  <1>4. ASSUME NEW k \in Items \ {i} PROVE Lineage(k)'
    <2>0. Lineage(k)
      BY <1>0
    <2>1. /\ k \in redacted => item'[k] = "erased"
          /\ item'[k] = "erasure_pending" => \E q \in Requests : target[q] = k /\ erasing[q] = "accepted"
          /\ item'[k] = "absent" => parent'[k] = NoItem
          /\ k \in Archive /\ item'[k] # "absent" => parent'[k] = Supersedes[k]
      BY <1>1, <2>0 DEF Lineage
    <2>2. ASSUME NEW j \in Items, parent'[j] = k
          PROVE  item'[k] # "active" /\ (item'[k] = "absent" => k \in Legacy \cup Tombstoned)
      <3>1. CASE j = i
        BY <1>1, <2>2, <3>1
      <3>2. CASE j # i
        BY <1>1, <2>0, <2>2, <3>2 DEF Lineage
      <3> QED
        BY <3>1, <3>2
    <2>3. item'[k] = "superseded" =>
            \/ \E j \in Items : parent'[j] = k
            \/ k \in Archive /\ \E j \in Archive : Supersedes[j] = k
      <3>1. CASE k = p
        BY <1>1, <3>1
      <3>2. CASE k # p
        BY <1>1, <1>2, <2>0, <3>2, <1>0 DEF Lineage
      <3> QED
        BY <3>1, <3>2
    <2> QED
      BY <2>1, <2>2, <2>3 DEF Lineage
  <1> QED
    BY <1>3, <1>4 DEF Lineages

\* The other transactions of the ledger: an erasure is approved, or carried out.
LEMMA ErasureLineages ==
  ASSUME IInv, Lineages, NEW q \in Requests, NEW i \in Items, UNCHANGED <<parent, target>>, target[q] = i,
         \/ /\ item' = [item EXCEPT ![i] = "erasure_pending"] /\ item[i] \notin {"absent", "erased"}
            /\ erasing' = [erasing EXCEPT ![q] = "accepted"] /\ UNCHANGED redacted
         \/ /\ item' = [item EXCEPT ![i] = "erased"] /\ redacted' = redacted \cup {i} /\ item[i] # "absent"
            /\ erasing' = [erasing EXCEPT ![q] = "applied"]
  PROVE  Lineages'
  <1>0. /\ item \in [Items -> ItemStates] /\ erasing \in [Requests -> CommandStates]
        /\ \A k \in Items : Lineage(k)
    BY DEF IInv, TInv, TypeOK, Lineages
  <1>1. item'[i] \in {"erasure_pending", "erased"} /\ (item'[i] = "erasure_pending" => i \notin redacted')
    BY <1>0 DEF Lineage
  <1>2. Lineage(i)'
    <2>1. item'[i] = "erasure_pending" => target'[q] = i /\ erasing'[q] = "accepted"
      BY <1>0
    <2>2. i \in Archive => parent[i] = Supersedes[i]
      BY <1>0 DEF Lineage
    <2> QED
      BY <1>1, <2>1, <2>2 DEF Lineage
  <1>3. ASSUME NEW k \in Items \ {i} PROVE Lineage(k)'
    <2>1. item'[k] = item[k] /\ (k \in redacted' => k \in redacted) /\ Lineage(k)
      BY <1>0
    <2>2. ASSUME NEW r \in Requests, target[r] = k PROVE erasing'[r] = erasing[r]
      BY <1>0, <2>2
    <2> QED
      BY <2>1, <2>2 DEF Lineage
  <1> QED
    BY <1>2, <1>3 DEF Lineages

LEMMA LineagesKept ==
  ASSUME Deployed, Complete, IInv, Lineages, [Next]_vars
  PROVE  Lineages'
  <1>0. NoItem \notin Items
    BY PrivateMemoryAssumption
  <1>1. ASSUME NEW i \in Items, AcceptRetain(i) PROVE Lineages'
    <2>1. i \notin Legacy \cup Tombstoned /\ i \notin Archive /\ item[i] = "absent"
      BY <1>1 DEF AcceptRetain, Fresh
    <2> QED
      BY <1>0, <1>1, <2>1, InsertLineages DEF AcceptRetain
  <1>2. ASSUME NEW i \in Items, AcceptImport(i) PROVE Lineages'
    <2>1. /\ i \in Archive /\ Supersedes[i] \in Items \cup {NoItem} /\ item[i] = "absent"
          /\ i \notin Legacy \cup Tombstoned
          /\ Supersedes[i] \in Items => item[Supersedes[i]] # "absent" \/ Supersedes[i] \in Legacy \cup Tombstoned
      BY <1>0, <1>2, PrivateMemoryAssumption DEF AcceptImport, Deployed, Sources, Complete
    <2>2. /\ ArchivedState(i) \in {"active", "superseded"}
          /\ ArchivedState(i) = "superseded" => \E j \in Archive : Supersedes[j] = i
      BY DEF ArchivedState
    <2> QED
      BY <1>2, <2>1, <2>2, InsertLineages DEF AcceptImport
  <1>3. ASSUME NEW i \in Items, NEW p \in Items, AcceptCorrection(i, p) PROVE Lineages'
    <2>1. i \notin Legacy \cup Tombstoned /\ i \notin Archive /\ item[i] = "absent" /\ item[p] = "active"
      BY <1>3 DEF AcceptCorrection, Fresh
    <2> QED
      BY <1>3, <2>1, InsertLineages DEF AcceptCorrection
  <1>4. ASSUME NEW q \in Requests, ApproveErasure(q) PROVE Lineages'
    <2>1. target[q] \in Items
      BY <1>4 DEF ApproveErasure, IInv, TInv, Linked
    <2>2. CASE item[target[q]] = "absent"
      BY <1>4, <2>2 DEF ApproveErasure, Lineages, Lineage
    <2>3. CASE item[target[q]] # "absent"
      BY <1>4, <2>1, <2>3, ErasureLineages DEF ApproveErasure
    <2> QED
      BY <2>2, <2>3
  <1>5. ASSUME NEW q \in Requests, NEW i \in Items, RequestErasure(q, i) \/ ImportTombstone(q, i) PROVE Lineages'
    <2>1. /\ UNCHANGED <<item, parent, redacted, erasing>> /\ request[q] = "none"
          /\ \A r \in Requests \ {q} : target'[r] = target[r]
      BY <1>5 DEF RequestErasure, ImportTombstone, IInv, TInv, TypeOK
    <2>2. erasing[q] # "accepted"
      BY <2>1 DEF IInv, TInv, Linked
    <2> QED
      BY <2>1, <2>2 DEF Lineages, Lineage
  <1>6. ASSUME NEW h \in Handlers, MarkErased(h) PROVE Lineages'
    <2>1. /\ hreq[h] \in Requests /\ erasing[hreq[h]] = "accepted" /\ hitem[h] \in Items
          /\ hitem[h] = target[hreq[h]]
      BY <1>6 DEF MarkErased, IInv, TInv, TypeOK, Linked, Known, Handling
    <2>2. item[target[hreq[h]]] # "absent"
      BY <2>1 DEF IInv, Known, Erasure
    <2>3. /\ item' = [item EXCEPT ![target[hreq[h]]] = "erased"] /\ redacted' = redacted \cup {target[hreq[h]]}
          /\ erasing' = [erasing EXCEPT ![hreq[h]] = "applied"] /\ UNCHANGED <<parent, target>>
      BY <1>6, <2>1 DEF MarkErased, CompleteErasure
    <2> QED
      BY <2>1, <2>2, <2>3, ErasureLineages
  <1>7. CASE UNCHANGED <<item, parent, redacted, erasing, target>>
    BY <1>7 DEF Lineages, Lineage
  <1> QED
    BY <1>1, <1>2, <1>3, <1>4, <1>5, <1>6, <1>7 DEF Next, vars, ledger, RejectErasure, Handle, HandlerFails,
       LoadCreate, LoadErase, FindItem, AddItem, MarkApplied, LocateItem, DeleteItem, Poll, PollNext, PollErase,
       PollComplete, PollFails

-----------------------------------------------------------------------------
(* Theorems *)

\* Ledger, graph, handlers and polling loop keep their types, with any number of
\* handlers and with identifiers from any source.
THEOREM TypeCorrect == Spec => []TypeOK
  <1>1. TInv => TypeOK
    BY DEF TInv
  <1> QED
    BY InitTypes, TypesKept, <1>1, PTL DEF Spec

\* As deployed, IInv holds in every state: between two of its calls a handler knows
\* whether its item is in the graph, and no other path can change that.
THEOREM Inductive == Deployed => (Spec => []IInv)
  <1> SUFFICES ASSUME Deployed PROVE Spec => []IInv
    OBVIOUS
  <1>1. Init => IInv
    BY InitTypes, InitKnown DEF IInv
  <1>2. IInv /\ [Next]_vars => IInv'
    BY TypesKept, KnownKept DEF IInv
  <1> QED
    BY <1>1, <1>2, PTL DEF Spec

\* As deployed, what is erased is gone: from the graph, from its command and from
\* the handlers.
THEOREM ErasedGone == Deployed => (Spec => []ErasedIsGone)
  <1> SUFFICES ASSUME Deployed PROVE Spec => []ErasedIsGone
    OBVIOUS
  <1>1. ASSUME IInv PROVE ErasedIsGone
    <2>1. ASSUME NEW i \in Items, item[i] = "erased"
          PROVE  /\ Copies(i) = {} /\ i \in redacted
                 /\ \A h \in Handlers : hpc[h] \in {"find", "add"} => hitem[h] # i
      BY <1>1, <2>1, CopiesShown DEF IInv, Known, Item, Handling
    <2>2. ASSUME NEW q \in Requests, request[q] = "completed" PROVE Copies(target[q]) = {}
      <3>1. Erasure(q) /\ Item(target[q])
        BY <1>1, <2>2 DEF IInv, Known, TInv, Linked
      <3> QED
        BY <2>2, <3>1, CopiesShown DEF Erasure, Item
    <2> QED
      BY <2>1, <2>2 DEF ErasedIsGone
  <1> QED
    BY <1>1, Inductive, PTL

\* As deployed, an applied command has exactly one message in the graph until an
\* erasure of its item is approved.
THEOREM AppliedProjected == Deployed => (Spec => []AppliedIsProjected)
  <1> SUFFICES ASSUME Deployed PROVE Spec => []AppliedIsProjected
    OBVIOUS
  <1>1. ASSUME IInv PROVE AppliedIsProjected
    <2> SUFFICES ASSUME NEW i \in Items, created[i] = "applied", item[i] \in {"active", "superseded"}
                 PROVE  Cardinality(Copies(i)) = 1
      BY DEF AppliedIsProjected
    <2>1. PICK n \in Copies(i) : TRUE
      BY <1>1, CopiesShown DEF IInv, Known, Item
    <2>2. Copies(i) = {n}
      BY <1>1, <2>1 DEF IInv, Known, OneMessage, Copies
    <2> QED
      BY <2>2, FS_Singleton
  <1> QED
    BY <1>1, Inductive, PTL

\* As deployed, no later step gives an erased identifier a new life.
THEOREM ErasureFinal == Deployed => (Spec => ErasureIsFinal)
  <1> SUFFICES ASSUME Deployed PROVE Spec => ErasureIsFinal
    OBVIOUS
  <1>1. ASSUME IInv, IInv', [Next]_vars, NEW i \in Items, item[i] = "erased"
        PROVE  item'[i] = "erased" /\ Copies(i)' = {}
    <2>1. item'[i] = "erased"
      <3>0. item \in [Items -> ItemStates]
        BY <1>1 DEF IInv, TInv, TypeOK
      <3>1. ASSUME NEW j \in Items, NEW p \in Items \cup {NoItem}, NEW state \in ItemStates,
                   item[j] = "absent", InsertCommand(j, p, state)
            PROVE  item'[i] = "erased"
        BY <1>1, <3>0, <3>1 DEF InsertCommand
      <3>2. CASE \E j \in Items : AcceptRetain(j) \/ AcceptImport(j)
        BY <3>1, <3>2, PrivateMemoryAssumption DEF AcceptRetain, AcceptImport, ArchivedState, ItemStates
      <3>3. CASE \E j, p \in Items : AcceptCorrection(j, p)
        BY <3>1, <3>3 DEF AcceptCorrection, ItemStates
      <3>4. ASSUME NEW q \in Requests, ApproveErasure(q) PROVE item'[i] = "erased"
        BY <1>1, <3>0, <3>4 DEF ApproveErasure
      <3>5. ASSUME NEW h \in Handlers, MarkErased(h) PROVE item'[i] = "erased"
        BY <1>1, <3>0, <3>5 DEF MarkErased, CompleteErasure
      <3>6. CASE UNCHANGED item
        BY <1>1, <3>6
      <3> QED
        BY <1>1, <3>2, <3>3, <3>4, <3>5, <3>6 DEF Next, vars, ledger, RequestErasure, ImportTombstone,
           RejectErasure, Handle, HandlerFails, LoadCreate, LoadErase, FindItem, AddItem, MarkApplied, LocateItem,
           DeleteItem, Poll, PollNext, PollErase, PollComplete, PollFails
    <2>2. Copies(i)' = {}
      BY <1>1, <2>1 DEF IInv, Known, Item, Copies, Shown
    <2> QED
      BY <2>1, <2>2
  <1>2. IInv /\ IInv' /\ [Next]_vars
          => [\A i \in Items : item[i] = "erased" => item'[i] = "erased" /\ Copies(i)' = {}]_vars
    BY <1>1
  <1> QED
    BY <1>2, Inductive, PTL DEF Spec, ErasureIsFinal

\* As deployed, and for archives that the import accepts, recall agrees with the ledger
\* once everything is projected: it shows the active items, and of the others at most
\* one whose correction was erased.
THEOREM RecallConverges == Deployed /\ Complete => (Spec => []Converged)
  <1> SUFFICES ASSUME Deployed, Complete PROVE Spec => []Converged
    OBVIOUS
  <1>1. Init => Lineages
    BY PrivateMemoryAssumption DEF Init, Lineages, Lineage
  <1>2. IInv /\ Lineages /\ [Next]_vars => Lineages'
    BY LineagesKept
  <1>3. ASSUME IInv, Lineages, Quiet, NEW i \in Items, item[i] # "absent"
        PROVE  \/ Recallable(i) <=> item[i] = "active"
               \/ item[i] = "superseded" /\ \E j \in Items : parent[j] = i /\ item[j] = "erased"
    <2>0. /\ item \in [Items -> ItemStates] /\ created \in [Items -> CommandStates]
          /\ \A j \in Items : Item(j) /\ Lineage(j)
      BY <1>3 DEF IInv, TInv, TypeOK, Known, Lineages
    <2>1. ASSUME NEW j \in Items, item[j] \in {"active", "superseded"} PROVE j \in Shown
      BY <1>3, <2>0, <2>1 DEF Quiet, Item, Lineage, CommandStates
    <2>2. ASSUME NEW j \in Items, item[j] \notin {"absent", "erased"} PROVE item[j] \in {"active", "superseded"}
      BY <1>3, <2>0, <2>2 DEF Quiet, Lineage, ItemStates
    <2>3. i \in SupersededIds <=> \E j \in Shown : parent[j] = i
      BY DEF SupersededIds, Shown
    <2>4. Recallable(i) <=> i \in Shown /\ i \notin SupersededIds
      BY CopiesShown DEF Recallable
    <2>5. CASE item[i] = "active"
      <3>1. \A j \in Shown : j \in Items
        BY <1>3 DEF IInv, TInv, TypeOK, Shown
      <3>2. \A j \in Items : parent[j] # i
        BY <2>0, <2>5 DEF Lineage
      <3> QED
        BY <2>1, <2>3, <2>4, <2>5, <3>1, <3>2
    <2>6. CASE item[i] = "superseded"
      <3>1. PICK j \in Items : parent[j] = i
        <4>1. ASSUME i \in Archive, NEW j \in Archive, Supersedes[j] = i PROVE j \in Items /\ parent[j] = i
          <5>1. j \in Items /\ item[j] # "absent"
            BY <1>3, <4>1, PrivateMemoryAssumption DEF Quiet
          <5> QED
            BY <2>0, <4>1, <5>1 DEF Lineage
        <4> QED
          BY <2>0, <2>6, <4>1 DEF Lineage
      <3>2. CASE item[j] = "erased"
        BY <2>6, <3>1, <3>2
      <3>3. CASE item[j] # "erased"
        <4>1. item[j] # "absent"
          BY <2>0, <3>1, PrivateMemoryAssumption DEF Lineage
        <4>2. j \in Shown
          BY <2>1, <2>2, <3>3, <4>1
        <4> QED
          BY <2>3, <2>4, <2>6, <3>1, <4>2
      <3> QED
        BY <3>2, <3>3
    <2>7. CASE item[i] = "erased"
      BY <2>0, <2>4, <2>7 DEF Item
    <2> QED
      BY <1>3, <2>2, <2>5, <2>6, <2>7
  <1>4. IInv /\ Lineages => Converged
    BY <1>3 DEF Converged
  <1>5. Spec => []IInv
    BY Inductive
  <1> QED
    BY <1>1, <1>2, <1>4, <1>5, PTL DEF Spec
=============================================================================
