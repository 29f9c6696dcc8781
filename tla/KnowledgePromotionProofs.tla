------------------------ MODULE KnowledgePromotionProofs ------------------------
(***************************************************************************)
(* The safety of promotion for any number of members, candidates and       *)
(* failures. A review is decided with what was read when it was admitted,  *)
(* and a projection goes on with a candidate it loaded: IInv says what     *)
(* remains true of both until they commit.                                 *)
(***************************************************************************)
EXTENDS KnowledgePromotion, TLAPS

Decided == {"publishing", "published", "rejected"}
Approved == {"publishing", "published"}

\* An admitted review is of a proposed candidate, and of one's own only by a sole
\* Administrator; the proposer cannot change any more.
Admission(v) ==
    vpc[v] = "admitted" =>
        /\ vcand[v] \in Candidates /\ status[vcand[v]] # "none"
        /\ proposer[vcand[v]] = v => v \in Admins /\ vread[v] = {v}

\* What a handler works on was approved.
Handling(h) == hpc[h] # "idle" => status[hcand[h]] \in Approved

Candidate(c) ==
    /\ reviewer[c] # Nobody <=> status[c] \in Decided
    /\ graph[c] > 0 => status[c] \in Approved
    /\ reviewer[c] # Nobody /\ reviewer[c] = proposer[c] => reviewer[c] \in Admins /\ basis[c] = {reviewer[c]}

\* With one handler at a time, what it found in the graph is still so.
OneHandler == \A h, k \in Handlers : h = k

Once(c) ==
    /\ \A h \in Handlers : hcand[h] = c =>
         /\ hpc[h] = "add" => graph[c] = 0
         /\ hpc[h] = "mark" => graph[c] = 1
    /\ graph[c] \in {0, 1}
    /\ status[c] = "published" => graph[c] = 1 /\ c \in processed

IInv ==
    /\ TypeOK
    /\ \A v \in Reviewers : Admission(v)
    /\ \A h \in Handlers : Handling(h)
    /\ \A c \in Candidates : Candidate(c) /\ (OneHandler => Once(c))

-----------------------------------------------------------------------------
LEMMA InitInv == Init => IInv
  <1> SUFFICES ASSUME Init PROVE IInv
    OBVIOUS
  <1>1. TypeOK
    BY KnowledgeAssumption DEF Init, TypeOK, Humans, Statuses
  <1> QED
    BY <1>1 DEF Init, IInv, Admission, Handling, Candidate, Once, Decided

-----------------------------------------------------------------------------
(* Memberships, proposals and reviews *)

\* A Membership changes nothing that was read or decided.
LEMMA MoveKeeps ==
  ASSUME IInv, NEW u \in Humans, Join(u) \/ Leave(u)
  PROVE  IInv'
  <1>1. UNCHANGED <<ledger, graph, reviews, workers, fails>>
    BY DEF Join, Leave
  <1>2. TypeOK'
    BY <1>1, KnowledgeAssumption DEF IInv, TypeOK, Join, Leave, Move, ledger, reviews, workers
  <1> QED
    BY <1>1, <1>2 DEF IInv, Admission, Handling, Candidate, Once, ledger, reviews, workers

LEMMA ProposeKeeps ==
  ASSUME IInv, NEW c \in Candidates, NEW u \in Proposers, Propose(c, u) \/ ImportCandidate(c, u)
  PROVE  IInv'
  <1>1. /\ status[c] = "none" /\ status' = [status EXCEPT ![c] = "submitted"]
        /\ proposer' = [proposer EXCEPT ![c] = u]
        /\ UNCHANGED <<members, reviewer, basis, processed, graph, reviews, workers, fails, moves>>
    BY DEF Propose, ImportCandidate
  <1>2. TypeOK'
    BY <1>1 DEF IInv, TypeOK, Statuses, reviews, workers
  <1>3. \A v \in Reviewers : Admission(v)'
    BY <1>1 DEF IInv, TypeOK, Admission, reviews
  <1>4. \A h \in Handlers : Handling(h)'
    BY <1>1 DEF IInv, TypeOK, Handling, Approved, workers
  <1>5. \A d \in Candidates : Candidate(d)' /\ (OneHandler => Once(d)')
    BY <1>1 DEF IInv, TypeOK, Candidate, Once, Decided, Approved, workers
  <1> QED
    BY <1>2, <1>3, <1>4, <1>5 DEF IInv

LEMMA AdmitKeeps ==
  ASSUME IInv, NEW c \in Candidates, NEW v \in Reviewers,
         status[c] # "none", proposer[c] = v => PermitsSelfApproval(v),
         vpc' = [vpc EXCEPT ![v] = "admitted"], vcand' = [vcand EXCEPT ![v] = c],
         vread' = [vread EXCEPT ![v] = members],
         UNCHANGED <<members, ledger, graph, workers, fails, moves>>
  PROVE  IInv'
  <1>1. TypeOK'
    BY DEF IInv, TypeOK, ledger, workers
  <1>2. \A w \in Reviewers : Admission(w)'
    BY DEF IInv, TypeOK, Admission, PermitsSelfApproval, ledger
  <1>3. \A h \in Handlers : Handling(h)'
    BY DEF IInv, Handling, ledger, workers
  <1>4. \A d \in Candidates : Candidate(d)' /\ (OneHandler => Once(d)')
    BY DEF IInv, Candidate, Once, ledger, workers
  <1> QED
    BY <1>1, <1>2, <1>3, <1>4 DEF IInv

\* The decision is taken for a submitted candidate only, so no handler is at it.
LEMMA CommitReviewKeeps ==
  ASSUME IInv, NEW v \in Reviewers, NEW decision \in {"publishing", "rejected"}, CommitReview(v, decision)
  PROVE  IInv'
  <1> DEFINE c == vcand[v]
  <1>1. c \in Candidates /\ Admission(v) /\ v # Nobody
    BY KnowledgeAssumption DEF IInv, Admission, CommitReview
  <1>2. /\ vpc' = [vpc EXCEPT ![v] = "idle"] /\ vcand' = [vcand EXCEPT ![v] = NoCandidate]
        /\ vread' = [vread EXCEPT ![v] = {}]
        /\ UNCHANGED <<members, proposer, processed, graph, workers, fails, moves>>
    BY DEF CommitReview, ReviewDone
  <1>3. CASE /\ status[c] = "submitted" /\ status' = [status EXCEPT ![c] = decision]
             /\ reviewer' = [reviewer EXCEPT ![c] = v] /\ basis' = [basis EXCEPT ![c] = vread[v]]
    <2>1. TypeOK'
      BY <1>1, <1>2, <1>3 DEF IInv, TypeOK, Statuses, workers
    <2>2. \A w \in Reviewers : Admission(w)'
      BY <1>1, <1>2, <1>3 DEF IInv, TypeOK, Admission
    <2>3. \A h \in Handlers : Handling(h)'
      BY <1>1, <1>2, <1>3 DEF IInv, TypeOK, Handling, Approved, workers
    <2>4. \A d \in Candidates : Candidate(d)'
      BY <1>1, <1>2, <1>3 DEF IInv, TypeOK, Candidate, Admission, CommitReview, Decided, Approved
    <2>5. ASSUME OneHandler, NEW d \in Candidates PROVE Once(d)'
      BY <1>1, <1>2, <1>3, <2>5 DEF IInv, TypeOK, Once, workers
    <2> QED
      BY <2>1, <2>2, <2>3, <2>4, <2>5 DEF IInv
  <1>4. CASE UNCHANGED <<status, reviewer, basis>>
    <2>1. TypeOK'
      BY <1>2, <1>4 DEF IInv, TypeOK, workers
    <2>2. \A w \in Reviewers : Admission(w)'
      BY <1>2, <1>4 DEF IInv, TypeOK, Admission
    <2> QED
      BY <1>2, <1>4, <2>1, <2>2 DEF IInv, Handling, Candidate, Once, workers
  <1> QED
    BY <1>3, <1>4 DEF CommitReview

-----------------------------------------------------------------------------
(* Projection *)

LEMMA LoadKeeps ==
  ASSUME IInv, NEW h \in Handlers, NEW c \in Candidates, LoadCandidate(h, c)
  PROVE  IInv'
  <1>1. /\ status[c] = "publishing" /\ hpc' = [hpc EXCEPT ![h] = "find"] /\ hcand' = [hcand EXCEPT ![h] = c]
        /\ UNCHANGED <<members, ledger, graph, reviews, fails, moves>>
    BY DEF LoadCandidate
  <1>2. TypeOK'
    BY <1>1, KnowledgeAssumption DEF IInv, TypeOK, ledger, reviews
  <1>3. \A v \in Reviewers : Admission(v)'
    BY <1>1 DEF IInv, Admission, ledger, reviews
  <1>4. \A k \in Handlers : Handling(k)'
    BY <1>1 DEF IInv, TypeOK, Handling, Approved, ledger
  <1>5. \A d \in Candidates : Candidate(d)'
    BY <1>1 DEF IInv, Candidate, ledger
  <1>6. ASSUME OneHandler, NEW d \in Candidates PROVE Once(d)'
    BY <1>1, <1>6 DEF IInv, TypeOK, Once, ledger
  <1> QED
    BY <1>2, <1>3, <1>4, <1>5, <1>6 DEF IInv

LEMMA FindKeeps ==
  ASSUME IInv, NEW h \in Handlers, FindKnowledge(h)
  PROVE  IInv'
  <1>1. /\ hpc[h] = "find" /\ hpc' = [hpc EXCEPT ![h] = IF graph[hcand[h]] = 0 THEN "add" ELSE "mark"]
        /\ UNCHANGED <<members, ledger, graph, hcand, reviews, fails, moves>>
    BY DEF FindKnowledge
  <1>2. TypeOK'
    BY <1>1 DEF IInv, TypeOK, ledger, reviews
  <1>3. \A v \in Reviewers : Admission(v)'
    BY <1>1 DEF IInv, Admission, ledger, reviews
  <1>4. \A k \in Handlers : Handling(k)'
    BY <1>1 DEF IInv, TypeOK, Handling, ledger
  <1>5. \A d \in Candidates : Candidate(d)'
    BY <1>1 DEF IInv, Candidate, ledger
  <1>6. ASSUME OneHandler, NEW d \in Candidates PROVE Once(d)'
    BY <1>1, <1>6 DEF IInv, TypeOK, Once, ledger
  <1> QED
    BY <1>2, <1>3, <1>4, <1>5, <1>6 DEF IInv

LEMMA AddKeeps ==
  ASSUME IInv, NEW h \in Handlers, AddKnowledge(h)
  PROVE  IInv'
  <1>1. /\ hpc[h] = "add" /\ hpc' = [hpc EXCEPT ![h] = "mark"]
        /\ graph' = [graph EXCEPT ![hcand[h]] = graph[hcand[h]] + 1]
        /\ UNCHANGED <<members, ledger, hcand, reviews, fails, moves>>
    BY DEF AddKnowledge
  <1>2. hcand[h] \in Candidates /\ status[hcand[h]] \in Approved
    BY <1>1 DEF IInv, TypeOK, Handling
  <1>3. TypeOK'
    BY <1>1, <1>2 DEF IInv, TypeOK, ledger, reviews
  <1>4. \A v \in Reviewers : Admission(v)'
    BY <1>1 DEF IInv, Admission, ledger, reviews
  <1>5. \A k \in Handlers : Handling(k)'
    BY <1>1 DEF IInv, TypeOK, Handling, ledger
  <1>6. \A d \in Candidates : Candidate(d)'
    BY <1>1, <1>2 DEF IInv, TypeOK, Candidate, ledger
  <1>7. ASSUME OneHandler, NEW d \in Candidates PROVE Once(d)'
    <2>1. \A k \in Handlers : k = h
      BY <1>7 DEF OneHandler
    <2> QED
      BY <1>1, <1>2, <1>7, <2>1 DEF IInv, TypeOK, Once, ledger
  <1> QED
    BY <1>3, <1>4, <1>5, <1>6, <1>7 DEF IInv

LEMMA MarkKeeps ==
  ASSUME IInv, NEW h \in Handlers, MarkPublished(h)
  PROVE  IInv'
  <1> DEFINE c == hcand[h]
  <1>1. /\ hpc[h] = "mark" /\ status' = [status EXCEPT ![c] = "published"] /\ processed' = processed \cup {c}
        /\ hpc' = [hpc EXCEPT ![h] = "idle"] /\ hcand' = [hcand EXCEPT ![h] = NoCandidate]
        /\ UNCHANGED <<members, proposer, reviewer, basis, graph, reviews, fails, moves>>
    BY DEF MarkPublished, HandlerDone
  <1>2. c \in Candidates /\ status[c] \in Approved
    BY <1>1 DEF IInv, TypeOK, Handling
  <1>3. TypeOK'
    BY <1>1, <1>2 DEF IInv, TypeOK, Statuses, reviews
  <1>4. \A v \in Reviewers : Admission(v)'
    BY <1>1, <1>2 DEF IInv, TypeOK, Admission, reviews
  <1>5. \A k \in Handlers : Handling(k)'
    BY <1>1, <1>2 DEF IInv, TypeOK, Handling, Approved
  <1>6. \A d \in Candidates : Candidate(d)'
    BY <1>1, <1>2 DEF IInv, TypeOK, Candidate, Approved, Decided
  <1>7. ASSUME OneHandler, NEW d \in Candidates PROVE Once(d)'
    <2>1. \A k \in Handlers : k = h
      BY <1>7 DEF OneHandler
    <2> QED
      BY <1>1, <1>2, <1>7, <2>1, KnowledgeAssumption DEF IInv, TypeOK, Once
  <1> QED
    BY <1>3, <1>4, <1>5, <1>6, <1>7 DEF IInv

LEMMA FailsKeeps ==
  ASSUME IInv, NEW h \in Handlers, HandlerFails(h)
  PROVE  IInv'
  <1>1. /\ hpc' = [hpc EXCEPT ![h] = "idle"] /\ hcand' = [hcand EXCEPT ![h] = NoCandidate]
        /\ UNCHANGED <<members, ledger, graph, reviews, moves>>
    BY DEF HandlerFails, HandlerDone
  <1>2. TypeOK'
    BY <1>1, KnowledgeAssumption DEF IInv, TypeOK, HandlerFails, ledger, reviews
  <1>3. \A v \in Reviewers : Admission(v)'
    BY <1>1 DEF IInv, Admission, ledger, reviews
  <1>4. \A k \in Handlers : Handling(k)'
    BY <1>1 DEF IInv, TypeOK, Handling, ledger
  <1>5. \A d \in Candidates : Candidate(d)'
    BY <1>1 DEF IInv, Candidate, ledger
  <1>6. ASSUME OneHandler, NEW d \in Candidates PROVE Once(d)'
    BY <1>1, <1>6, KnowledgeAssumption DEF IInv, TypeOK, Once, ledger
  <1> QED
    BY <1>2, <1>3, <1>4, <1>5, <1>6 DEF IInv

LEMMA NextKeeps ==
  ASSUME IInv, [Next]_vars
  PROVE  IInv'
  <1>1. ASSUME NEW u \in Humans, Join(u) \/ Leave(u) PROVE IInv'
    BY <1>1, MoveKeeps
  <1>2. ASSUME NEW c \in Candidates, NEW u \in Proposers, Propose(c, u) \/ ImportCandidate(c, u)
        PROVE  IInv'
    BY <1>2, ProposeKeeps
  <1>3. ASSUME NEW c \in Candidates, NEW v \in Humans, AdmitReview(v, c) PROVE IInv'
    <2>1. v \in Reviewers
      BY DEF Reviewers
    <2> QED
      BY <1>3, <2>1, AdmitKeeps DEF AdmitReview
  <1>4. ASSUME NEW c \in Candidates, AdmitOperatorReview(c) PROVE IInv'
    <2>1. Operator \in Reviewers
      BY DEF Reviewers
    <2>2. proposer[c] # Operator
      BY KnowledgeAssumption, <2>1 DEF IInv, TypeOK
    <2> QED
      BY <1>4, <2>1, <2>2, AdmitKeeps DEF AdmitOperatorReview
  <1>5. ASSUME NEW v \in Reviewers, NEW decision \in {"publishing", "rejected"}, CommitReview(v, decision)
        PROVE  IInv'
    BY <1>5, CommitReviewKeeps
  <1>6. ASSUME NEW h \in Handlers, NEW c \in Candidates, LoadCandidate(h, c) PROVE IInv'
    BY <1>6, LoadKeeps
  <1>7. ASSUME NEW h \in Handlers, Project(h) \/ HandlerFails(h) PROVE IInv'
    BY <1>7, FindKeeps, AddKeeps, MarkKeeps, FailsKeeps DEF Project
  <1>8. CASE UNCHANGED vars
    <2>1. TypeOK'
      BY <1>8 DEF IInv, TypeOK, vars, ledger, reviews, workers
    <2> QED
      BY <1>8, <2>1 DEF IInv, Admission, Handling, Candidate, Once, vars, ledger, reviews, workers
  <1> QED
    BY <1>1, <1>2, <1>3, <1>4, <1>5, <1>6, <1>7, <1>8 DEF Next

-----------------------------------------------------------------------------
(* Theorems *)

\* What a review was admitted with and what a handler has loaded stays good until they
\* commit (control.py review_knowledge, worker.py PublicationWorker.handle).
THEOREM Inductive == Spec => []IInv
  <1>1. Init => IInv
    BY InitInv
  <1>2. IInv /\ [Next]_vars => IInv'
    BY NextKeeps
  <1> QED
    BY <1>1, <1>2, PTL DEF Spec

\* Rows, admitted reviews and handlers always hold values of their types; a handler
\* that is not idle has a candidate.
THEOREM TypeCorrect == Spec => []TypeOK
  <1>1. IInv => TypeOK
    BY DEF IInv
  <1> QED
    BY <1>1, Inductive, PTL

\* Nobody decides on their own proposal except an Administrator who was alone when the
\* review was admitted, however many reviewers work on it at once.
THEOREM DutiesAreSeparated == Spec => []DutiesSeparated
  <1>1. IInv => DutiesSeparated
    BY DEF IInv, Candidate, DutiesSeparated
  <1> QED
    BY <1>1, Inductive, PTL

\* If one delivery of an approval is handled at a time, as the consumer's prefetch of
\* one makes it, any number of failed attempts leaves one message of the candidate in
\* the graph, and none without an approval.
THEOREM SharedOnce ==
  ASSUME OneHandler
  PROVE  Spec => []OnlyApprovedIsShared
  <1>1. IInv => OnlyApprovedIsShared
    BY OneHandler DEF IInv, Candidate, Once, OnlyApprovedIsShared, Approved, Decided
  <1> QED
    BY <1>1, Inductive, PTL

\* A step never reopens a decided candidate or takes back what was shared: a reviewer
\* that committed stays the reviewer, a late projection changes nothing it should not.
THEOREM DecisionsAreFinal == Spec => DecisionsStand
  <1>1. IInv /\ [Next]_vars =>
          [\A c \in Candidates :
             /\ reviewer[c] # Nobody => reviewer'[c] = reviewer[c]
             /\ status[c] = "rejected" => status'[c] = "rejected"
             /\ status[c] \in {"publishing", "published"} => status'[c] \in {status[c], "published"}
             /\ graph'[c] >= graph[c]]_vars
    <2> SUFFICES ASSUME IInv, [Next]_vars, NEW c \in Candidates
                 PROVE  /\ reviewer[c] # Nobody => reviewer'[c] = reviewer[c]
                        /\ status[c] = "rejected" => status'[c] = "rejected"
                        /\ status[c] \in {"publishing", "published"} => status'[c] \in {status[c], "published"}
                        /\ graph'[c] >= graph[c]
      BY Zenon
    <2> DEFINE Stands == /\ reviewer[c] # Nobody => reviewer'[c] = reviewer[c]
                         /\ status[c] = "rejected" => status'[c] = "rejected"
                         /\ status[c] \in {"publishing", "published"} => status'[c] \in {status[c], "published"}
                         /\ graph'[c] >= graph[c]
    <2>1. TypeOK /\ Candidate(c) /\ graph[c] \in Nat
      BY DEF IInv, TypeOK
    <2>2. CASE UNCHANGED <<status, reviewer, graph>>
      BY <2>1, <2>2
    <2>3. ASSUME NEW d \in Candidates, NEW u \in Proposers, Propose(d, u) \/ ImportCandidate(d, u)
          PROVE  Stands
      BY <2>1, <2>3 DEF TypeOK, Propose, ImportCandidate
    <2>4. ASSUME NEW v \in Reviewers, NEW decision \in {"publishing", "rejected"}, CommitReview(v, decision)
          PROVE  Stands
      BY <2>1, <2>4 DEF TypeOK, Candidate, CommitReview, Decided
    <2>5. ASSUME NEW h \in Handlers, AddKnowledge(h) PROVE Stands
      BY <2>1, <2>5 DEF TypeOK, AddKnowledge, ledger
    <2>6. ASSUME NEW h \in Handlers, MarkPublished(h) PROVE Stands
      <3>1. hcand[h] \in Candidates /\ status[hcand[h]] \in Approved
        BY <2>6 DEF IInv, TypeOK, Handling, MarkPublished
      <3> QED
        BY <2>1, <2>6, <3>1 DEF TypeOK, MarkPublished, Approved
    <2>7. UNCHANGED <<status, reviewer, graph>>
          \/ (\E d \in Candidates, u \in Proposers : Propose(d, u) \/ ImportCandidate(d, u))
          \/ (\E v \in Reviewers, decision \in {"publishing", "rejected"} : CommitReview(v, decision))
          \/ (\E h \in Handlers : AddKnowledge(h) \/ MarkPublished(h))
      BY DEF Next, Project, Join, Leave, AdmitReview, AdmitOperatorReview, LoadCandidate, FindKnowledge,
             HandlerFails, ledger, vars
    <2> QED
      BY <2>2, <2>3, <2>4, <2>5, <2>6, <2>7
  <1> QED
    BY <1>1, Inductive, PTL DEF Spec, DecisionsStand

=============================================================================
