-------------------------- MODULE KnowledgePromotion --------------------------
(***************************************************************************)
(* Promotion of Private Memory to Tenant Knowledge in one Tenant: members  *)
(* propose Knowledge Candidates, human curators review them, and a worker  *)
(* projects the approved ones to the shared session of the graph, where    *)
(* every member recalls them. The Control Store (who is a member), the     *)
(* ledger and the graph are three databases: a review reads the first and  *)
(* writes the second, a projection reads the second and writes the third.  *)
(*                                                                         *)
(* The event of an approval is delivered as EventDelivery says. A repeated *)
(* idempotency key changes nothing and is a stuttering step.               *)
(***************************************************************************)
EXTENDS Naturals

CONSTANTS
    Candidates,
    Admins,      \* humans with the tenant_administrator role
    Curators,    \* humans with the knowledge_curator role only
    Agents,      \* agent Principals: they may propose
    Operator,    \* reviewer of the Operator admin plane
    Handlers,    \* PublicationWorker.handle tasks that can run at once
    MaxFails,    \* bound: failed, crashed or cancelled attempts
    MaxMoves,    \* bound: memberships created or disabled
    Nobody, NoCandidate

Humans == Admins \cup Curators
Reviewers == Humans \cup {Operator}
Proposers == Humans \cup Agents

ASSUME KnowledgeAssumption ==
    /\ Admins \cap Curators = {} /\ Humans \cap Agents = {}
    /\ Operator \notin Proposers /\ Nobody \notin Reviewers \cup Proposers
    /\ NoCandidate \notin Candidates
    /\ MaxFails \in Nat /\ MaxMoves \in Nat

VARIABLES
    members,     \* humans with an active Membership (Control Store)
    status,      \* status of a candidate; "none": no row
    proposer, reviewer,  \* its proposer_id and reviewed_by
    basis,       \* the member list a review was admitted with
    processed,   \* candidates whose knowledge.approved event is processed
    graph,       \* how many Tenant Knowledge messages carry a candidate_id
    vpc, vcand, vread,  \* each reviewer: step, candidate, member list read
    hpc, hcand,  \* each handler: step, candidate
    fails, moves

ledger  == <<status, proposer, reviewer, basis, processed>>
reviews == <<vpc, vcand, vread>>
workers == <<hpc, hcand>>
vars    == <<members, ledger, graph, reviews, workers, fails, moves>>

Statuses == {"none", "submitted", "publishing", "published", "rejected"}

TypeOK ==
    /\ members \subseteq Humans
    /\ status \in [Candidates -> Statuses]
    /\ proposer \in [Candidates -> Proposers \cup {Nobody}]
    /\ reviewer \in [Candidates -> Reviewers \cup {Nobody}]
    /\ basis \in [Candidates -> SUBSET Humans]
    /\ processed \subseteq Candidates
    /\ graph \in [Candidates -> Nat]
    /\ vpc \in [Reviewers -> {"idle", "admitted"}]
    /\ vcand \in [Reviewers -> Candidates \cup {NoCandidate}]
    /\ vread \in [Reviewers -> SUBSET Humans]
    /\ hpc \in [Handlers -> {"idle", "find", "add", "mark"}]
    /\ hcand \in [Handlers -> Candidates \cup {NoCandidate}]
    /\ \A h \in Handlers : hpc[h] = "idle" <=> hcand[h] = NoCandidate
    /\ fails \in 0..MaxFails /\ moves \in 0..MaxMoves

Init ==
    /\ \E a \in Admins : members = {a}
    /\ status = [c \in Candidates |-> "none"]
    /\ proposer = [c \in Candidates |-> Nobody]
    /\ reviewer = [c \in Candidates |-> Nobody]
    /\ basis = [c \in Candidates |-> {}]
    /\ processed = {} /\ graph = [c \in Candidates |-> 0]
    /\ vpc = [v \in Reviewers |-> "idle"] /\ vcand = [v \in Reviewers |-> NoCandidate]
    /\ vread = [v \in Reviewers |-> {}]
    /\ hpc = [h \in Handlers |-> "idle"] /\ hcand = [h \in Handlers |-> NoCandidate]
    /\ fails = 0 /\ moves = 0

-----------------------------------------------------------------------------
(* The Control Store *)

Move == moves < MaxMoves /\ moves' = moves + 1

\* A human's Membership is created, or disabled.
Join(u) ==
    /\ Move /\ u \notin members
    /\ members' = members \cup {u}
    /\ UNCHANGED <<ledger, graph, reviews, workers, fails>>

Leave(u) ==
    /\ Move /\ u \in members
    /\ members' = members \ {u}
    /\ UNCHANGED <<ledger, graph, reviews, workers, fails>>

-----------------------------------------------------------------------------
(* Proposal and review *)

\* propose, by a member or an Agent.
Propose(c, u) ==
    /\ status[c] = "none" /\ u \in members \cup Agents
    /\ status' = [status EXCEPT ![c] = "submitted"]
    /\ proposer' = [proposer EXCEPT ![c] = u]
    /\ UNCHANGED <<members, reviewer, basis, processed, graph, reviews, workers, fails, moves>>

\* import_candidate: an archived item enters as a submitted candidate; the
\* identifier of one that exists, whatever its status, is left alone.
ImportCandidate(c, u) ==
    /\ status[c] = "none" /\ u \in members \cap Admins
    /\ status' = [status EXCEPT ![c] = "submitted"]
    /\ proposer' = [proposer EXCEPT ![c] = u]
    /\ UNCHANGED <<members, reviewer, basis, processed, graph, reviews, workers, fails, moves>>

\* permits_self_approval: an Administrator who is the only active human.
PermitsSelfApproval(u) == u \in Admins /\ members = {u}

\* Mutant: the proposer is not looked at.
AdmitReviewOfOwn(v, c) ==
    /\ vpc[v] = "idle" /\ status[c] # "none" /\ v \in members
    /\ vpc' = [vpc EXCEPT ![v] = "admitted"]
    /\ vcand' = [vcand EXCEPT ![v] = c]
    /\ vread' = [vread EXCEPT ![v] = members]
    /\ UNCHANGED <<members, ledger, graph, workers, fails, moves>>

\* review_knowledge up to its call of review: the session's roles, then the
\* candidate's proposer, then the Control Store.
AdmitReview(v, c) ==
    /\ vpc[v] = "idle" /\ status[c] # "none"
    /\ v \in members
    /\ proposer[c] = v => PermitsSelfApproval(v)
    /\ vpc' = [vpc EXCEPT ![v] = "admitted"]
    /\ vcand' = [vcand EXCEPT ![v] = c]
    /\ vread' = [vread EXCEPT ![v] = members]
    /\ UNCHANGED <<members, ledger, graph, workers, fails, moves>>

\* review_operator_knowledge needs no Membership.
AdmitOperatorReview(c) ==
    /\ vpc[Operator] = "idle" /\ status[c] # "none"
    /\ vpc' = [vpc EXCEPT ![Operator] = "admitted"]
    /\ vcand' = [vcand EXCEPT ![Operator] = c]
    /\ vread' = [vread EXCEPT ![Operator] = members]
    /\ UNCHANGED <<members, ledger, graph, workers, fails, moves>>

ReviewDone(v) ==
    /\ vpc' = [vpc EXCEPT ![v] = "idle"]
    /\ vcand' = [vcand EXCEPT ![v] = NoCandidate]
    /\ vread' = [vread EXCEPT ![v] = {}]

\* Mutant: the last review wins.
CommitReviewAnyTime(v, decision) ==
    /\ vpc[v] = "admitted"
    /\ status' = [status EXCEPT ![vcand[v]] = decision]
    /\ reviewer' = [reviewer EXCEPT ![vcand[v]] = v]
    /\ basis' = [basis EXCEPT ![vcand[v]] = vread[v]]
    /\ ReviewDone(v)
    /\ UNCHANGED <<members, proposer, processed, graph, workers, fails, moves>>

\* _review_knowledge: under the row's lock, only a submitted candidate is decided
\* (else ValueError); an approval commits its outbox event with the status.
CommitReview(v, decision) ==
    /\ vpc[v] = "admitted"
    /\ IF status[vcand[v]] = "submitted"
       THEN /\ status' = [status EXCEPT ![vcand[v]] = decision]
            /\ reviewer' = [reviewer EXCEPT ![vcand[v]] = v]
            /\ basis' = [basis EXCEPT ![vcand[v]] = vread[v]]
       ELSE UNCHANGED <<status, reviewer, basis>>
    /\ ReviewDone(v)
    /\ UNCHANGED <<members, proposer, processed, graph, workers, fails, moves>>

-----------------------------------------------------------------------------
(* PublicationWorker.handle for knowledge.approved *)

HandlerDone(h) ==
    /\ hpc' = [hpc EXCEPT ![h] = "idle"]
    /\ hcand' = [hcand EXCEPT ![h] = NoCandidate]

\* Mutant: a candidate with a message in the graph counts as done.
LoadCandidateOnce(h, c) ==
    /\ hpc[h] = "idle" /\ status[c] = "publishing" /\ graph[c] = 0
    /\ hpc' = [hpc EXCEPT ![h] = "find"]
    /\ hcand' = [hcand EXCEPT ![h] = c]
    /\ UNCHANGED <<members, ledger, graph, reviews, fails, moves>>

\* get_publication and get_candidate; a published candidate is acknowledged
\* without effect. The event exists once the candidate is publishing.
LoadCandidate(h, c) ==
    /\ hpc[h] = "idle" /\ status[c] = "publishing"
    /\ hpc' = [hpc EXCEPT ![h] = "find"]
    /\ hcand' = [hcand EXCEPT ![h] = c]
    /\ UNCHANGED <<members, ledger, graph, reviews, fails, moves>>

\* Mutant: a retry does not look for what an earlier attempt added.
FindKnowledgeBlind(h) ==
    /\ hpc[h] = "find"
    /\ hpc' = [hpc EXCEPT ![h] = "add"]
    /\ UNCHANGED <<members, ledger, graph, hcand, reviews, fails, moves>>

\* publish_tenant_knowledge first looks for the candidate's message ...
FindKnowledge(h) ==
    /\ hpc[h] = "find"
    /\ hpc' = [hpc EXCEPT ![h] = IF graph[hcand[h]] = 0 THEN "add" ELSE "mark"]
    /\ UNCHANGED <<members, ledger, graph, hcand, reviews, fails, moves>>

\* ... and adds it when there is none.
AddKnowledge(h) ==
    /\ hpc[h] = "add"
    /\ graph' = [graph EXCEPT ![hcand[h]] = @ + 1]
    /\ hpc' = [hpc EXCEPT ![h] = "mark"]
    /\ UNCHANGED <<members, ledger, hcand, reviews, fails, moves>>

\* mark_published: the status and the event in one transaction; a candidate that
\* is published already is returned as it is.
MarkPublished(h) ==
    /\ hpc[h] = "mark"
    /\ status' = [status EXCEPT ![hcand[h]] = "published"]
    /\ processed' = processed \cup {hcand[h]}
    /\ HandlerDone(h)
    /\ UNCHANGED <<members, proposer, reviewer, basis, graph, reviews, fails, moves>>

\* A dependency fails, the task is cancelled or the process dies before the next
\* step; the message will be delivered again.
HandlerFails(h) ==
    /\ hpc[h] # "idle" /\ fails < MaxFails
    /\ fails' = fails + 1
    /\ HandlerDone(h)
    /\ UNCHANGED <<members, ledger, graph, reviews, moves>>

-----------------------------------------------------------------------------
Project(h) == FindKnowledge(h) \/ AddKnowledge(h) \/ MarkPublished(h)

Next ==
    \/ \E u \in Humans : Join(u) \/ Leave(u)
    \/ \E c \in Candidates :
         \/ \E u \in Proposers : Propose(c, u) \/ ImportCandidate(c, u)
         \/ \E v \in Humans : AdmitReview(v, c)
         \/ AdmitOperatorReview(c)
         \/ \E h \in Handlers : LoadCandidate(h, c)
    \/ \E v \in Reviewers, decision \in {"publishing", "rejected"} : CommitReview(v, decision)
    \/ \E h \in Handlers : Project(h) \/ HandlerFails(h)

Spec == Init /\ [][Next]_vars

\* The handlers keep running and every approval is delivered until it is processed
\* (OutboxDelivery!EventuallySettled, redrives included); people need not act.
Fairness ==
    \A h \in Handlers :
        /\ WF_vars(Project(h))
        /\ \A c \in Candidates : SF_vars(LoadCandidate(h, c))

FairSpec == Spec /\ Fairness

-----------------------------------------------------------------------------
(* Properties *)

\* Nothing is shared without an approving review, and what is published is in the
\* graph exactly once, although attempts fail between any two steps.
OnlyApprovedIsShared ==
    \A c \in Candidates :
        /\ graph[c] > 0 => status[c] \in {"publishing", "published"} /\ reviewer[c] # Nobody
        /\ status[c] = "published" => graph[c] = 1 /\ c \in processed

\* A proposer decides on their own candidate only as an Administrator who was the
\* only human in the Tenant when the review was admitted.
DutiesSeparated ==
    \A c \in Candidates : reviewer[c] # Nobody /\ reviewer[c] = proposer[c] =>
        reviewer[c] \in Admins /\ basis[c] = {reviewer[c]}

\* The first committed decision stands: concurrent reviews, retries and late
\* deliveries never reopen a candidate nor take published knowledge away.
DecisionsStand ==
    [][\A c \in Candidates :
         /\ reviewer[c] # Nobody => reviewer'[c] = reviewer[c]
         /\ status[c] = "rejected" => status'[c] = "rejected"
         /\ status[c] \in {"publishing", "published"} => status'[c] \in {status[c], "published"}
         /\ graph'[c] >= graph[c]]_vars

\* Stated by the documents; it does not hold of the code, see README.md ("Known
\* differences"): "Recall includes shared knowledge only after `published`."
RecalledIsPublished ==
    \A c \in Candidates : graph[c] > 0 => status[c] = "published"

\* An approved candidate is published.
PublicationCompletes ==
    \A c \in Candidates : status[c] = "publishing" ~> status[c] = "published"
=============================================================================
