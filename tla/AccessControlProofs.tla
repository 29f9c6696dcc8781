--------------------------- MODULE AccessControlProofs ---------------------------
(***************************************************************************)
(* A token that is locked out stays locked out, for any number of clients. *)
(* With several of them a decision may be written long after it was made,  *)
(* and some properties of AccessControl fail; this one does not, because   *)
(* every write that takes something away revokes in the same transaction,  *)
(* and none revives a token. What it rests on is that a delegated token is *)
(* the agent's, however late it is issued: Decision says so of the changes *)
(* that wait to be written.                                                *)
(*                                                                         *)
(* With one client, what was true when a change was decided is still true  *)
(* when it is written (Current), and the other three properties hold, too. *)
(***************************************************************************)
EXTENDS AccessControl, TLAPS

Rows == [state : TokenStates, of : People \cup {None}, roles : SUBSET Roles, delegated : BOOLEAN]

TenantTypes ==
    /\ tenant \in BOOLEAN /\ principal \in [People -> BOOLEAN]
    /\ membership \in [People -> Memberships]
    /\ delegation \in {"none", "active", "inactive"} /\ binding \in {"none", "active", "inactive"}
    /\ token \in [Tokens -> Rows]

OperatorTypes ==
    /\ operator \in [Operators -> [roles : SUBSET OperatorRoles, active : BOOLEAN]]
    /\ credential \in [Operators -> Credentials]

PendingTypes == plane \in {"tenant", "operators"} /\ pending \in [Clients -> Changes]

\* A live token is somebody's, a delegated one the agent's.
Row(row) ==
    /\ row.state = "live" => row.of \in People
    /\ row.delegated => row.of = Agent

\* What a decided change is about, and what it will issue.
Decision(change) ==
    /\ change.kind \in {"grant", "membership"} => change.on \in People /\ change.roles \subseteq Roles
    /\ change.kind = "issue" =>
         change.on \in People /\ change.roles \subseteq Roles /\ (change.active => change.on = Agent)
    /\ change.kind = "rotate" =>
         /\ change.on \in Tokens /\ change.roles \subseteq Roles
         /\ token[change.on].state # "unused"
         /\ token[change.on].state = "live" => change.active = token[change.on].delegated
    /\ change.kind \in {"operator", "operator_token", "session"} =>
         change.on \in Operators /\ change.roles \subseteq OperatorRoles

IInv ==
    /\ TenantTypes /\ OperatorTypes /\ PendingTypes
    /\ \A t \in Tokens : Row(token[t])
    /\ \A c \in Clients : Decision(pending[c])

-----------------------------------------------------------------------------
(* Facts about the operators *)

LEMMA Types == IInv => TypeOK
  BY Zenon DEF IInv, TenantTypes, OperatorTypes, PendingTypes, TypeOK, Rows

LEMMA Constants == User \in People /\ Agent \in People /\ User # Agent /\ None \notin People
  BY AccessAssumption DEF People

\* Revoking makes the live tokens of the set dead, and nothing else.
LEMMA Revoking ==
  ASSUME TenantTypes, NEW these \in SUBSET Tokens
  PROVE  /\ Revoked(these) \in [Tokens -> Rows]
         /\ \A t \in Tokens :
              IF t \in these /\ token[t].state = "live"
              THEN Revoked(these)[t].state = "dead" /\ ~Revoked(these)[t].delegated
              ELSE Revoked(these)[t] = token[t]
  <1>1. [Unissued EXCEPT !.state = "dead"] \in Rows
    BY DEF Unissued, Rows, TokenStates
  <1>2. [Unissued EXCEPT !.state = "dead"].state = "dead" /\ ~[Unissued EXCEPT !.state = "dead"].delegated
    BY DEF Unissued
  <1> QED
    BY <1>1, <1>2 DEF Revoked, TenantTypes

LEMMA InitInv == Init => IInv
  <1> SUFFICES ASSUME Init PROVE IInv
    OBVIOUS
  <1>1. Unissued \in Rows /\ Row(Unissued)
    BY DEF Unissued, Rows, TokenStates, Row
  <1>2. [roles |-> {}, active |-> FALSE] \in Memberships
    BY DEF Memberships
  <1>3. TenantTypes
    BY <1>1, <1>2 DEF Init, TenantTypes
  <1>4. PICK first \in Operators :
          operator = [o \in Operators |->
                        [roles |-> IF o = first THEN {"operator_admin"} ELSE {}, active |-> TRUE]]
    BY DEF Init
  <1>5. OperatorTypes
    <2>1. NoCredential \in Credentials
      BY DEF NoCredential, Credentials
    <2>2. \A o \in Operators : (IF o = first THEN {"operator_admin"} ELSE {}) \in SUBSET OperatorRoles
      BY DEF OperatorRoles
    <2> QED
      BY <1>4, <2>1, <2>2 DEF Init, OperatorTypes
  <1>6. Nothing \in Changes /\ Decision(Nothing)
    BY DEF Nothing, Change, Changes, Decision
  <1> QED
    BY <1>1, <1>3, <1>5, <1>6 DEF Init, IInv, PendingTypes

-----------------------------------------------------------------------------
(* Decisions *)

LEMMA DecidedInTenant ==
  ASSUME IInv, NEW change \in TenantChanges
  PROVE  change \in Changes /\ Decision(change)
  <1>1. CASE change \in Grants
    <2>1. PICK p \in People, role \in Roles :
            change = Change("grant", p, membership[p].roles \cup {role}, TRUE)
      <3>1. \A p \in People : RolesFor(p) \subseteq Roles
        BY DEF RolesFor, Roles
      <3> QED
        BY <1>1, <3>1 DEF Grants
    <2>2. membership[p].roles \cup {role} \subseteq Roles
      BY <2>1 DEF IInv, TenantTypes, Memberships
    <2> QED
      BY <2>1, <2>2 DEF Change, Changes, Decision
  <1>2. CASE change \in MembershipChanges
    <2>1. PICK p \in People, roles \in SUBSET Roles, active \in BOOLEAN :
            change = Change("membership", p, roles, active)
      BY <1>2 DEF MembershipChanges
    <2> QED
      BY <2>1 DEF Change, Changes, Decision
  <1>3. CASE change \in Delegations \cup Bindings
    <2>1. PICK kind \in {"delegation", "binding"}, active \in BOOLEAN : change = Change(kind, None, {}, active)
      BY <1>3 DEF Delegations, Bindings
    <2> QED
      BY <2>1 DEF Change, Changes, Decision
  <1>4. CASE change \in Issues
    <2>1. PICK p \in People : change = Change("issue", p, membership[p].roles, FALSE)
      BY <1>4 DEF Issues
    <2>2. membership[p].roles \subseteq Roles
      BY <2>1 DEF IInv, TenantTypes, Memberships
    <2> QED
      BY <2>1, <2>2 DEF Change, Changes, Decision
  <1>5. CASE change \in DelegatedIssues
    <2>1. change = Change("issue", Agent, membership[Agent].roles, TRUE)
      BY <1>5 DEF DelegatedIssues
    <2>2. membership[Agent].roles \subseteq Roles
      BY Constants DEF IInv, TenantTypes, Memberships
    <2> QED
      BY <2>1, <2>2, Constants DEF Change, Changes, Decision
  <1>6. CASE change \in Rotations
    <2>1. PICK t \in Tokens :
            /\ Rotatable(t)
            /\ change = Change("rotate", t, membership[token[t].of].roles, token[t].delegated)
      BY <1>6 DEF Rotations
    <2>2. token[t].state = "live" /\ token[t].of \in People /\ token[t].delegated \in BOOLEAN
      BY <2>1 DEF Rotatable, Authenticates, IInv, Row, TenantTypes, Rows
    <2>3. membership[token[t].of].roles \subseteq Roles
      BY <2>2 DEF IInv, TenantTypes, Memberships
    <2> QED
      BY <2>1, <2>2, <2>3 DEF Change, Changes, Decision
  <1> QED
    BY <1>1, <1>2, <1>3, <1>4, <1>5, <1>6 DEF TenantChanges

LEMMA DecidedOfOperators ==
  ASSUME IInv, NEW change \in OperatorChanges \cup OperatorIssues \cup Logins
  PROVE  change \in Changes /\ Decision(change)
  <1>1. ASSUME NEW kind \in {"operator", "operator_token", "session"}, NEW o \in Operators,
               NEW roles \in SUBSET OperatorRoles, NEW active \in BOOLEAN,
               change = Change(kind, o, roles, active)
        PROVE  change \in Changes /\ Decision(change)
    BY <1>1 DEF Change, Changes, Decision
  <1>2. \A o \in Operators : operator[o].roles \in SUBSET OperatorRoles
    BY DEF IInv, OperatorTypes
  <1>3. CASE change \in OperatorChanges
    <2>1. PICK o \in Operators, roles \in SUBSET OperatorRoles, active \in BOOLEAN :
            change = Change("operator", o, roles, active)
      BY <1>3 DEF OperatorChanges
    <2> QED
      BY <1>1, <2>1
  <1>4. CASE change \in OperatorIssues
    <2>1. PICK o \in Operators : change = Change("operator_token", o, operator[o].roles, TRUE)
      BY <1>4 DEF OperatorIssues
    <2> QED
      BY <1>1, <1>2, <2>1
  <1>5. CASE change \in Logins
    <2>1. PICK o \in Operators : change = Change("session", o, operator[o].roles, TRUE)
      BY <1>5 DEF Logins
    <2> QED
      BY <1>1, <1>2, <2>1
  <1> QED
    BY <1>3, <1>4, <1>5

-----------------------------------------------------------------------------
(* Writes to the Tenant *)

\* A token that is issued changes only by dying.
Evolves == \A t \in Tokens : token[t].state # "unused" => token'[t] = token[t] \/ token'[t].state = "dead"

Locks == \A t \in Tokens : Usable(t) /\ ~Usable(t)' => token'[t].state = "dead"

TenantStep == TenantTypes' /\ (\A t \in Tokens : Row(token[t])') /\ Evolves /\ Locks

\* A step after which Principals, memberships and the delegation allow all that they
\* allowed, and some tokens are dead.
LEMMA NothingTaken ==
  ASSUME IInv, TenantTypes', NEW these \in SUBSET Tokens, token' = Revoked(these) \/ token' = token,
         \A p \in People : InGoodStanding(p) => InGoodStanding(p)',
         delegation = "active" => delegation' = "active"
  PROVE  TenantStep
  <1>1. \A t \in Tokens : token'[t] = token[t] \/ (token'[t].state = "dead" /\ ~token'[t].delegated)
    BY Revoking DEF IInv
  <1>2. \A t \in Tokens : Row(token[t])'
    BY <1>1 DEF IInv, Row
  <1>3. ASSUME NEW t \in Tokens, Usable(t), token'[t] = token[t] PROVE Usable(t)'
    <2>1. InGoodStanding(token[t].of)'
      BY <1>3 DEF IInv, Row, Usable, InGoodStanding, Member
    <2> QED
      BY <1>3, <2>1 DEF Usable, InGoodStanding, Member
  <1> QED
    BY <1>1, <1>2, <1>3 DEF TenantStep, Evolves, Locks

\* What _disable_membership takes from p it takes from its tokens, too.
LEMMA Disabling ==
  ASSUME IInv, TenantTypes', NEW p \in People,
         \A t \in Tokens : token'[t] = token[t] \/ (token'[t].state = "dead" /\ ~token'[t].delegated),
         \A t \in Tokens : Concerns(p, token[t]) /\ token[t].state = "live" => token'[t].state = "dead",
         \A q \in People : q # p /\ InGoodStanding(q) => InGoodStanding(q)'
  PROVE  TenantStep
  <1>1. \A t \in Tokens : Row(token[t])'
    BY DEF IInv, Row
  <1>2. ASSUME NEW t \in Tokens, Usable(t), token'[t] = token[t] PROVE Usable(t)'
    <2>1. ~Concerns(p, token[t]) /\ token[t].of \in People /\ token[t].state = "live"
      BY <1>2 DEF IInv, Row, Usable
    <2>2. token[t].of # p /\ ~token[t].delegated
      BY <2>1, Constants DEF Concerns, IInv, Row, People
    <2>3. InGoodStanding(token[t].of)'
      BY <1>2, <2>1, <2>2 DEF Usable, InGoodStanding, Member
    <2> QED
      BY <1>2, <2>2, <2>3 DEF Usable, InGoodStanding, Member
  <1> QED
    BY <1>1, <1>2 DEF TenantStep, Evolves, Locks

\* One unused token is issued, to somebody, and delegated only to the agent.
LEMMA Issuing ==
  ASSUME IInv, NEW u \in Tokens, token[u].state = "unused",
         NEW of \in People, NEW roles \in SUBSET Roles, NEW delegated \in BOOLEAN,
         delegated => of = Agent, token' = [token EXCEPT ![u] = Live(of, roles, delegated)],
         UNCHANGED <<tenant, principal, membership, delegation, binding>>
  PROVE  TenantStep
  <1>1. Live(of, roles, delegated) \in Rows /\ Row(Live(of, roles, delegated))
    BY DEF Live, Rows, TokenStates, Row
  <1>2. TenantTypes'
    BY <1>1 DEF IInv, TenantTypes
  <1>3. token'[u] = Live(of, roles, delegated) /\ \A t \in Tokens : t # u => token'[t] = token[t]
    BY DEF IInv, TenantTypes
  <1>4. \A t \in Tokens : Row(token[t])'
    BY <1>1, <1>3 DEF IInv, Row
  <1>5. ASSUME NEW t \in Tokens, Usable(t) PROVE Usable(t)'
    BY <1>3, <1>5 DEF Usable, InGoodStanding, Member
  <1> QED
    BY <1>2, <1>3, <1>4, <1>5 DEF TenantStep, Evolves, Locks

\* The row of p's Membership is disabled, with the delegation and the tokens, while the
\* Principals are as they were or p is disabled, too.
LEMMA DisablingRow ==
  ASSUME IInv, NEW p \in People, DisableMembershipRow(p), tenant' = tenant,
         principal' = principal \/ principal' = [principal EXCEPT ![p] = FALSE]
  PROVE  TenantStep
  <1> DEFINE these == {t \in Tokens : Concerns(p, token[t])}
  <1>1. token' = Revoked(these) /\ these \in SUBSET Tokens
    BY DEF DisableMembershipRow
  <1>2. /\ token' \in [Tokens -> Rows]
        /\ \A t \in Tokens : IF Concerns(p, token[t]) /\ token[t].state = "live"
                             THEN token'[t].state = "dead" /\ ~token'[t].delegated
                             ELSE token'[t] = token[t]
    BY <1>1, Revoking DEF IInv
  <1>3. TenantTypes'
    BY <1>2 DEF IInv, TenantTypes, Memberships, DisableMembershipRow, Deactivated
  <1>4. \A q \in People : q # p /\ InGoodStanding(q) => InGoodStanding(q)'
    BY DEF IInv, TenantTypes, InGoodStanding, Member, DisableMembershipRow
  <1> QED
    BY <1>2, <1>3, <1>4, Disabling

LEMMA PrincipalSteps ==
  ASSUME IInv, NEW c \in Clients, NEW p \in People,
         DisablePrincipal(c, p) \/ EnablePrincipal(c, p) \/ DisableMembership(c, p)
  PROVE  TenantStep
  <1>1. CASE DisablePrincipal(c, p) \/ DisableMembership(c, p)
    BY <1>1, DisablingRow DEF DisablePrincipal, DisableMembership
  <1>2. CASE EnablePrincipal(c, p)
    <2>1. TenantTypes'
      BY <1>2 DEF IInv, TenantTypes, EnablePrincipal
    <2>2. \A q \in People : InGoodStanding(q) => InGoodStanding(q)'
      BY <1>2 DEF IInv, TenantTypes, InGoodStanding, Member, EnablePrincipal
    <2> QED
      BY <1>2, <2>1, <2>2, NothingTaken DEF EnablePrincipal
  <1> QED
    BY <1>1, <1>2

LEMMA RoleSteps ==
  ASSUME IInv, NEW c \in Clients, NEW p \in People, RevokeMembershipRole(c, p)
  PROVE  TenantStep
  <1>1. tenant' = tenant /\ principal' = principal
    BY DEF RevokeMembershipRole
  <1>2. PICK role \in membership[p].roles :
          IF membership[p].roles \ {role} = {} THEN DisableMembershipRow(p)
          ELSE /\ membership' = [membership EXCEPT ![p].roles = membership[p].roles \ {role}]
               /\ RevokeOwn(p) /\ UNCHANGED <<delegation, binding>>
    BY DEF RevokeMembershipRole
  <1>3. CASE DisableMembershipRow(p)
    BY <1>1, <1>3, DisablingRow
  <1>4. CASE /\ membership' = [membership EXCEPT ![p].roles = membership[p].roles \ {role}]
             /\ RevokeOwn(p) /\ UNCHANGED <<delegation, binding>>
    <2> DEFINE these == {t \in Tokens : token[t].of = p}
    <2>1. token' = Revoked(these) /\ token' \in [Tokens -> Rows]
      BY <1>4, Revoking DEF IInv, RevokeOwn
    <2>2. TenantTypes'
      BY <1>1, <1>4, <2>1 DEF IInv, TenantTypes, Memberships
    <2>3. \A q \in People : InGoodStanding(q) => InGoodStanding(q)'
      BY <1>1, <1>4 DEF IInv, TenantTypes, Memberships, InGoodStanding, Member
    <2> QED
      BY <1>4, <2>1, <2>2, <2>3, NothingTaken
  <1> QED
    BY <1>2, <1>3, <1>4

LEMMA DelegationSteps ==
  ASSUME IInv, NEW c \in Clients, RevokeDelegation(c) \/ CloseBinding(c)
  PROVE  TenantStep
  <1>1. CASE RevokeDelegation(c)
    <2> DEFINE these == {t \in Tokens : token[t].delegated}
    <2>1. /\ token' = Revoked(these) /\ delegation' = "inactive" /\ binding' = Deactivated(binding)
          /\ UNCHANGED <<tenant, principal, membership>>
      BY <1>1 DEF RevokeDelegation
    <2>2. /\ token' \in [Tokens -> Rows]
          /\ \A t \in Tokens : IF token[t].delegated /\ token[t].state = "live"
                               THEN token'[t].state = "dead" /\ ~token'[t].delegated
                               ELSE token'[t] = token[t]
      BY <2>1, Revoking DEF IInv
    <2>3. TenantTypes'
      BY <2>1, <2>2 DEF IInv, TenantTypes, Deactivated
    <2>4. \A t \in Tokens : Row(token[t])'
      BY <2>2 DEF IInv, Row
    <2>5. ASSUME NEW t \in Tokens, Usable(t), token'[t] = token[t] PROVE Usable(t)'
      BY <2>1, <2>2, <2>5 DEF Usable, InGoodStanding, Member
    <2> QED
      BY <2>2, <2>3, <2>4, <2>5 DEF TenantStep, Evolves, Locks
  <1>2. CASE CloseBinding(c)
    <2>1. binding' \in {"inactive", "none"} /\ UNCHANGED <<tenant, principal, membership, delegation, token>>
      BY <1>2 DEF CloseBinding
    <2>2. TenantTypes'
      BY <2>1 DEF IInv, TenantTypes
    <2>3. \A q \in People : InGoodStanding(q) => InGoodStanding(q)'
      BY <2>1 DEF InGoodStanding, Member
    <2> QED
      BY <2>1, <2>2, <2>3, NothingTaken
  <1> QED
    BY <1>1, <1>2

\* A token is revoked or expires.
LEMMA Dying ==
  ASSUME IInv, NEW u \in Tokens, token' = [token EXCEPT ![u] = [Unissued EXCEPT !.state = "dead"]],
         UNCHANGED <<tenant, principal, membership, delegation, binding>>
  PROVE  TenantStep
  <1>1. [Unissued EXCEPT !.state = "dead"] \in Rows /\ Row([Unissued EXCEPT !.state = "dead"])
        /\ [Unissued EXCEPT !.state = "dead"].state = "dead"
    BY DEF Unissued, Rows, TokenStates, Row
  <1>2. TenantTypes'
    BY <1>1 DEF IInv, TenantTypes
  <1>3. \A t \in Tokens : token'[t] = IF t = u THEN [Unissued EXCEPT !.state = "dead"] ELSE token[t]
    BY DEF IInv, TenantTypes
  <1>4. \A t \in Tokens : Row(token[t])'
    BY <1>1, <1>3 DEF IInv, Row
  <1>5. ASSUME NEW t \in Tokens, Usable(t), token'[t] = token[t] PROVE Usable(t)'
    BY <1>5 DEF Usable, InGoodStanding, Member
  <1> QED
    BY <1>1, <1>2, <1>3, <1>4, <1>5 DEF TenantStep, Evolves, Locks

-----------------------------------------------------------------------------
(* Changes that were decided earlier *)

\* A change that was read against other rows is written all the same.
LEMMA WriteSteps ==
  ASSUME IInv, NEW change \in Changes, Decision(change), UNCHANGED <<tenant, principal>>,
         \/ change.kind = "grant" /\ WriteGrant(change)
         \/ change.kind = "membership" /\ WriteMembership(change)
         \/ change.kind = "delegation" /\ WriteDelegation(change)
         \/ change.kind = "binding" /\ WriteBinding(change)
         \/ change.kind = "issue" /\ WriteIssue(change)
         \/ change.kind = "rotate" /\ WriteRotate(change)
  PROVE  TenantStep
  <1>0. change.active \in BOOLEAN
    BY DEF Changes
  <1>1. CASE change.kind = "grant" /\ WriteGrant(change)
    <2>1. change.on \in People /\ [roles |-> change.roles, active |-> TRUE] \in Memberships
      BY <1>1 DEF Decision, Memberships
    <2>2. TenantTypes'
      BY <1>1, <2>1 DEF IInv, TenantTypes, WriteGrant
    <2>3. \A q \in People : InGoodStanding(q) => InGoodStanding(q)'
      BY <1>1, <2>1 DEF IInv, TenantTypes, InGoodStanding, Member, WriteGrant
    <2> QED
      BY <1>1, <2>2, <2>3, NothingTaken DEF WriteGrant
  <1>2. CASE change.kind = "membership" /\ WriteMembership(change)
    <2> DEFINE p == change.on
               row == [roles |-> change.roles, active |-> change.active]
               these == {t \in Tokens : (membership[p] # row /\ token[t].of = p)
                                        \/ (~change.active /\ Concerns(p, token[t]))}
    <2>1. p \in People /\ row \in Memberships
      BY <1>0, <1>2 DEF Decision, Memberships
    <2>2. /\ membership' = [membership EXCEPT ![p] = row] /\ token' = Revoked(these)
          /\ IF change.active THEN UNCHANGED <<delegation, binding>>
             ELSE delegation' = Deactivated(delegation) /\ binding' = Deactivated(binding)
      BY <1>2 DEF WriteMembership
    <2>3. /\ token' \in [Tokens -> Rows]
          /\ \A t \in Tokens : IF t \in these /\ token[t].state = "live"
                               THEN token'[t].state = "dead" /\ ~token'[t].delegated
                               ELSE token'[t] = token[t]
      BY <2>2, Revoking DEF IInv
    <2>4. TenantTypes'
      BY <1>0, <2>1, <2>2, <2>3 DEF IInv, TenantTypes, Deactivated
    <2>5. CASE change.active
      <3>1. \A q \in People : InGoodStanding(q) => InGoodStanding(q)'
        BY <2>1, <2>2, <2>5 DEF IInv, TenantTypes, InGoodStanding, Member
      <3>2. delegation' = delegation
        BY <2>2, <2>5
      <3> QED
        BY <2>2, <2>4, <3>1, <3>2, NothingTaken
    <2>6. CASE ~change.active
      <3>1. \A q \in People : q # p /\ InGoodStanding(q) => InGoodStanding(q)'
        BY <2>1, <2>2 DEF IInv, TenantTypes, InGoodStanding, Member
      <3>2. \A t \in Tokens : Concerns(p, token[t]) => t \in these
        BY <2>6
      <3>3. \A t \in Tokens : token'[t] = token[t] \/ (token'[t].state = "dead" /\ ~token'[t].delegated)
        BY <2>3
      <3>4. \A t \in Tokens : Concerns(p, token[t]) /\ token[t].state = "live" => token'[t].state = "dead"
        BY <2>3, <3>2
      <3> QED
        BY <2>1, <2>4, <3>1, <3>3, <3>4, Disabling
    <2> QED
      BY <2>5, <2>6
  <1>3. CASE change.kind = "delegation" /\ WriteDelegation(change)
    <2>1. TenantTypes' /\ (delegation = "active" => delegation' = "active")
      BY <1>3 DEF IInv, TenantTypes, WriteDelegation
    <2>2. \A q \in People : InGoodStanding(q) => InGoodStanding(q)'
      BY <1>3 DEF InGoodStanding, Member, WriteDelegation
    <2> QED
      BY <1>3, <2>1, <2>2, NothingTaken DEF WriteDelegation
  <1>4. CASE change.kind = "binding" /\ WriteBinding(change)
    <2>1. TenantTypes'
      BY <1>4 DEF IInv, TenantTypes, WriteBinding
    <2>2. \A q \in People : InGoodStanding(q) => InGoodStanding(q)'
      BY <1>4 DEF InGoodStanding, Member, WriteBinding
    <2> QED
      BY <1>4, <2>1, <2>2, NothingTaken DEF WriteBinding
  <1>5. CASE change.kind = "issue" /\ WriteIssue(change)
    <2>1. change.on \in People /\ change.roles \in SUBSET Roles /\ (change.active => change.on = Agent)
      BY <1>5 DEF Decision
    <2>2. PICK u \in Tokens : /\ token[u].state = "unused"
                              /\ token' = [token EXCEPT ![u] = Live(change.on, change.roles, change.active)]
      BY <1>5 DEF WriteIssue
    <2> QED
      BY <1>0, <1>5, <2>1, <2>2, Issuing DEF WriteIssue
  <1>6. CASE change.kind = "rotate" /\ WriteRotate(change)
    <2>1. UNCHANGED <<membership, delegation, binding>> /\ change.on \in Tokens
          /\ change.roles \in SUBSET Roles
      BY <1>6 DEF WriteRotate, Decision
    <2>2. CASE UNCHANGED token
      <3>1. TenantTypes'
        BY <2>1, <2>2 DEF IInv, TenantTypes
      <3>2. \A q \in People : InGoodStanding(q) => InGoodStanding(q)'
        BY <2>1 DEF InGoodStanding, Member
      <3> QED
        BY <2>1, <2>2, <3>1, <3>2, NothingTaken
    <2>3. CASE Rotatable(change.on)
      <3>1. token[change.on].state = "live" /\ token[change.on].of \in People
            /\ (change.active => token[change.on].of = Agent)
        BY <1>6, <2>1, <2>3 DEF Rotatable, Authenticates, Decision, IInv, Row
      <3>2. PICK u \in Tokens :
              /\ token[u].state = "unused"
              /\ token' = [token EXCEPT ![u] = Live(token[change.on].of, change.roles, change.active)]
        BY <1>6, <2>3 DEF WriteRotate
      <3> QED
        BY <1>0, <2>1, <3>1, <3>2, Issuing
    <2> QED
      BY <1>6, <2>2, <2>3 DEF WriteRotate
  <1> QED
    BY <1>1, <1>2, <1>3, <1>4, <1>5, <1>6

-----------------------------------------------------------------------------
(* All steps *)

\* Decisions that wait stay good while tokens only die.
LEMMA Waiting ==
  ASSUME IInv, TenantStep, OperatorTypes', PendingTypes',
         \A c \in Clients : pending'[c] = pending[c] \/ pending'[c] = Nothing
  PROVE  IInv' /\ Evolves /\ Locks
  <1>1. ASSUME NEW c \in Clients PROVE Decision(pending[c])'
    <2>1. CASE pending'[c] = Nothing
      BY <2>1 DEF Decision, Nothing, Change
    <2>2. CASE pending'[c] = pending[c]
      <3>1. Decision(pending[c])
        BY DEF IInv
      <3>2. pending[c].kind = "rotate" => token[pending[c].on].state # "unused" /\ pending[c].on \in Tokens
        BY <3>1 DEF Decision
      <3> QED
        BY <2>2, <3>1, <3>2 DEF Decision, TenantStep, Evolves
    <2> QED
      BY <1>1, <2>1, <2>2
  <1> QED
    BY <1>1 DEF IInv, TenantStep

\* Steps of the operators' plane and of the Tenant's flag leave every token alone.
LEMMA TokensUntouched ==
  ASSUME IInv, tenant' \in BOOLEAN, UNCHANGED <<principal, membership, delegation, binding, token>>
  PROVE  TenantStep
  <1>1. TenantTypes'
    BY DEF IInv, TenantTypes
  <1>2. \A q \in People : InGoodStanding(q) => InGoodStanding(q)'
    BY DEF InGoodStanding, Member
  <1> QED
    BY <1>1, <1>2, NothingTaken

LEMMA NextKeeps ==
  ASSUME IInv, [Next]_vars
  PROVE  IInv' /\ Evolves /\ Locks
  <1>0. tenant \in BOOLEAN /\ OperatorTypes /\ PendingTypes
    BY DEF IInv, TenantTypes
  <1>1. ASSUME NEW c \in Clients, Begin(c) PROVE IInv' /\ Evolves /\ Locks
    <2>1. /\ UNCHANGED <<plane, tenant, principal, membership, delegation, binding, token, operator, credential>>
          /\ \E change \in TenantChanges \cup (OperatorChanges \cup OperatorIssues \cup Logins) :
               pending' = [pending EXCEPT ![c] = change]
      BY <1>1 DEF Begin, access, operation
    <2>2. PICK change : /\ change \in Changes /\ Decision(change)
                        /\ pending' = [pending EXCEPT ![c] = change]
      BY <2>1, DecidedInTenant, DecidedOfOperators
    <2>3. TenantStep
      BY <1>0, <2>1, TokensUntouched
    <2>4. OperatorTypes' /\ PendingTypes'
      BY <1>0, <2>1, <2>2 DEF OperatorTypes, PendingTypes
    <2>5. ASSUME NEW d \in Clients PROVE Decision(pending[d])'
      <3>1. Decision(pending'[d])
        BY <1>0, <2>2 DEF PendingTypes, IInv
      <3> QED
        BY <2>1, <3>1 DEF Decision
    <2> QED
      BY <2>3, <2>4, <2>5 DEF IInv, TenantStep
  <1>2. ASSUME NEW c \in Clients, Abandon(c) PROVE IInv' /\ Evolves /\ Locks
    <2>1. /\ UNCHANGED <<plane, tenant, principal, membership, delegation, binding, token, operator, credential>>
          /\ pending' = [pending EXCEPT ![c] = Nothing]
      BY <1>2 DEF Abandon, access, operation
    <2>2. Nothing \in Changes
      BY DEF Nothing, Change, Changes
    <2>3. OperatorTypes' /\ PendingTypes' /\ \A d \in Clients : pending'[d] = pending[d] \/ pending'[d] = Nothing
      BY <1>0, <2>1, <2>2 DEF OperatorTypes, PendingTypes
    <2> QED
      BY <1>0, <2>1, <2>3, TokensUntouched, Waiting
  <1>3. ASSUME NEW c \in Clients, Commit(c) PROVE IInv' /\ Evolves /\ Locks
    <2> DEFINE change == pending[c]
    <2>1. change \in Changes /\ Decision(change) /\ Nothing \in Changes
      BY DEF IInv, PendingTypes, Nothing, Change, Changes
    <2>2. pending' = [pending EXCEPT ![c] = Nothing] /\ plane' = plane
      BY <1>3 DEF Commit
    <2>3. PendingTypes' /\ \A d \in Clients : pending'[d] = pending[d] \/ pending'[d] = Nothing
      BY <1>0, <2>1, <2>2 DEF PendingTypes
    <2>4. CASE /\ \/ change.kind = "grant" /\ WriteGrant(change)
                  \/ change.kind = "membership" /\ WriteMembership(change)
                  \/ change.kind = "delegation" /\ WriteDelegation(change)
                  \/ change.kind = "binding" /\ WriteBinding(change)
                  \/ change.kind = "issue" /\ WriteIssue(change)
                  \/ change.kind = "rotate" /\ WriteRotate(change)
               /\ UNCHANGED <<tenant, principal, operator, credential>>
      <3>1. TenantStep
        BY <2>1, <2>4, WriteSteps
      <3>2. OperatorTypes'
        BY <1>0, <2>4 DEF OperatorTypes
      <3> QED
        BY <2>3, <3>1, <3>2, Waiting
    <2>5. CASE /\ \/ change.kind = "operator" /\ WriteOperator(change)
                  \/ change.kind = "operator_token" /\ WriteOperatorToken(change)
                  \/ change.kind = "session" /\ WriteSession(change)
               /\ UNCHANGED <<tenant, principal, membership, delegation, binding, token>>
      <3>1. change.on \in Operators /\ change.roles \subseteq OperatorRoles /\ change.active \in BOOLEAN
        BY <2>1, <2>5 DEF Decision, Changes
      <3>2. NoCredential \in Credentials
        BY DEF NoCredential, Credentials
      <3>3. [roles |-> change.roles, active |-> change.active] \in [roles : SUBSET OperatorRoles, active : BOOLEAN]
        BY <3>1
      <3>4. OperatorTypes'
        <4>1. CASE WriteOperator(change)
          <5>1. operator' = [operator EXCEPT ![change.on] = [roles |-> change.roles, active |-> change.active]]
            BY <4>1 DEF WriteOperator
          <5>2. credential' = credential \/ credential' = [credential EXCEPT ![change.on] = NoCredential]
            BY <4>1 DEF WriteOperator
          <5> QED
            BY <1>0, <3>2, <3>3, <5>1, <5>2 DEF OperatorTypes
        <4>2. CASE WriteOperatorToken(change)
          BY <1>0, <3>1, <4>2 DEF OperatorTypes, Credentials, WriteOperatorToken
        <4>3. CASE WriteSession(change)
          BY <1>0, <3>1, <4>3 DEF OperatorTypes, Credentials, WriteSession
        <4> QED
          BY <2>5, <4>1, <4>2, <4>3
      <3> QED
        BY <1>0, <2>3, <2>5, <3>4, TokensUntouched, Waiting
    <2> QED
      BY <1>3, <2>4, <2>5 DEF Commit, operation, access
  <1>4. ASSUME NEW c \in Clients, NEW p \in People,
               \/ DisablePrincipal(c, p) \/ EnablePrincipal(c, p) \/ DisableMembership(c, p)
               \/ RevokeMembershipRole(c, p) \/ RevokeDelegation(c) \/ CloseBinding(c)
        PROVE  IInv' /\ Evolves /\ Locks
    <2>1. TenantStep
      BY <1>4, PrincipalSteps, RoleSteps, DelegationSteps
    <2>2. UNCHANGED <<plane, pending, operator, credential>>
      BY <1>4 DEF DisablePrincipal, EnablePrincipal, DisableMembership, RevokeMembershipRole,
                 RevokeDelegation, CloseBinding, Idle, operation
    <2>3. OperatorTypes' /\ PendingTypes'
      BY <1>0, <2>2 DEF OperatorTypes, PendingTypes
    <2> QED
      BY <2>1, <2>2, <2>3, Waiting
  <1>5. ASSUME NEW t \in Tokens, Expire(t) \/ \E c \in Clients : RevokeToken(c, t)
        PROVE  IInv' /\ Evolves /\ Locks
    <2>1. TenantStep
      BY <1>5, Dying DEF Expire, RevokeToken
    <2>2. UNCHANGED <<plane, pending, operator, credential>>
      BY <1>5 DEF Expire, RevokeToken, Idle, operation
    <2>3. OperatorTypes' /\ PendingTypes'
      BY <1>0, <2>2 DEF OperatorTypes, PendingTypes
    <2> QED
      BY <2>1, <2>2, <2>3, Waiting
  <1>6. ASSUME NEW o \in Operators, EndCredential(o) PROVE IInv' /\ Evolves /\ Locks
    <2>1. UNCHANGED <<plane, tenant, principal, membership, delegation, binding, token, operator, pending>>
      BY <1>6 DEF EndCredential, access
    <2>2. OperatorTypes'
      <3>1. credential' = [credential EXCEPT ![o].token = {}] \/ credential' = [credential EXCEPT ![o].session = {}]
        BY <1>6 DEF EndCredential
      <3> QED
        BY <1>0, <2>1, <3>1 DEF OperatorTypes, Credentials
    <2>3. PendingTypes'
      BY <1>0, <2>1 DEF PendingTypes
    <2> QED
      BY <1>0, <2>1, <2>2, <2>3, TokensUntouched, Waiting
  <1>7. CASE FlipTenant \/ UNCHANGED vars
    <2>1. UNCHANGED <<plane, principal, membership, delegation, binding, token, operator, credential, pending>>
      BY <1>7 DEF FlipTenant, operation, access, vars
    <2>2. tenant' \in BOOLEAN
      BY <1>0, <1>7 DEF FlipTenant, access, vars
    <2>3. OperatorTypes' /\ PendingTypes'
      BY <1>0, <2>1 DEF OperatorTypes, PendingTypes
    <2> QED
      BY <2>1, <2>2, <2>3, TokensUntouched, Waiting
  <1>8. User \in People
    BY Constants
  <1> QED
    BY <1>1, <1>2, <1>3, <1>4, <1>5, <1>6, <1>7, <1>8 DEF Next

-----------------------------------------------------------------------------
(* Theorems *)

\* Whatever is decided and not yet written, a delegated token is the agent's and a
\* rotation is of a token that was issued (control.py issue_delegated_access_token,
\* rotate_access_token; postgres_control.py rotate).
THEOREM Inductive == Spec => []IInv
  <1>1. Init => IInv
    BY InitInv
  <1>2. IInv /\ [Next]_vars => IInv'
    BY NextKeeps
  <1> QED
    BY <1>1, <1>2, PTL DEF Spec

\* Every row of the Control Store has its type under all interleavings of the clients.
THEOREM TypeCorrect == Spec => []TypeOK
  <1>1. IInv => TypeOK
    BY Types
  <1> QED
    BY <1>1, Inductive, PTL

\* A token that stops being usable is dead for good: no interleaving of administrators,
\* with changes decided long before they are written, gives it back.
THEOREM LockedOut == Spec => LockedOutStaysOut
  <1>1. IInv /\ [Next]_vars =>
          [\A t \in Tokens : /\ Usable(t) /\ ~Usable(t)' => token'[t].state = "dead"
                             /\ token[t].state = "dead" => token'[t].state = "dead"]_vars
    <2> SUFFICES ASSUME IInv, [Next]_vars, NEW t \in Tokens
                 PROVE  /\ Usable(t) /\ ~Usable(t)' => token'[t].state = "dead"
                        /\ token[t].state = "dead" => token'[t].state = "dead"
      BY Zenon
    <2> QED
      BY NextKeeps DEF Evolves, Locks
  <1> QED
    BY <1>1, Inductive, PTL DEF Spec, LockedOutStaysOut

-----------------------------------------------------------------------------
(* One client at a time *)

\* The service by itself: its admin handlers do not await between what they read and
\* what they write, so one of them is at work at a time.
OneClient == \A c, d \in Clients : c = d

\* No membership outlives its Principal, no delegation its members, no binding its
\* delegation.
Standing ==
    /\ \A p \in People : Member(p) => principal[p]
    /\ delegation = "active" => Member(User) /\ Member(Agent)
    /\ binding = "active" => delegation = "active"

\* What a live token carries is there.
Covered(t) ==
    token[t].state = "live" =>
      /\ token[t].roles \subseteq membership[token[t].of].roles
      /\ token[t].delegated => delegation = "active"

InOrder == Standing /\ \A t \in Tokens : Covered(t)

Issued(o) ==
    /\ credential[o].token # {} => operator[o] = [roles |-> credential[o].token, active |-> TRUE]
    /\ credential[o].session # {} => operator[o] = [roles |-> credential[o].session, active |-> TRUE]

\* What was true when the change was decided.
Current(change) ==
    /\ change.kind = "grant" => principal[change.on] /\ membership[change.on].roles \subseteq change.roles
    /\ change.kind = "membership" => (change.active => principal[change.on])
    /\ change.kind = "delegation" => Member(User) /\ Member(Agent)
    /\ change.kind = "binding" => delegation = "active"
    /\ change.kind = "issue" =>
         /\ change.roles \subseteq membership[change.on].roles
         /\ change.active => delegation = "active"
    /\ change.kind = "rotate" /\ token[change.on].state = "live" =>
         change.roles \subseteq membership[token[change.on].of].roles
    /\ change.kind = "operator" /\ FinalAdmin(change.on) =>
         change.active /\ "operator_admin" \in change.roles
    /\ change.kind \in {"operator_token", "session"} =>
         operator[change.on] = [roles |-> change.roles, active |-> TRUE]

Authority ==
    /\ InOrder
    /\ (\A o \in Operators : Issued(o)) /\ FinalAdminStays
    /\ \A c \in Clients : Current(pending[c])

LEMMA InitAuthority == Init => Authority
  <1> SUFFICES ASSUME Init PROVE Authority
    OBVIOUS
  <1>1. PICK first \in Operators :
          operator = [o \in Operators |->
                        [roles |-> IF o = first THEN {"operator_admin"} ELSE {}, active |-> TRUE]]
    BY DEF Init
  <1>2. FinalAdminStays
    BY <1>1 DEF FinalAdminStays, Administers
  <1>3. \A o \in Operators : Issued(o)
    BY DEF Init, NoCredential, Issued
  <1>4. Standing
    BY DEF Init, Standing, Member
  <1>5. \A t \in Tokens : Covered(t)
    BY DEF Init, Unissued, Covered
  <1>6. \A c \in Clients : Current(pending[c])
    BY DEF Init, Nothing, Change, Current
  <1> QED
    BY <1>2, <1>3, <1>4, <1>5, <1>6 DEF Authority, InOrder

\* Tokens stay covered when what they carry is taken only together with them.
LEMMA Covering ==
  ASSUME IInv, InOrder, Standing',
         \A t \in Tokens : token'[t] = token[t] \/ token'[t].state = "dead",
         \A t \in Tokens : token[t].state = "live" =>
           \/ token'[t].state = "dead"
           \/ /\ membership[token[t].of].roles \subseteq membership'[token[t].of].roles
              /\ token[t].delegated /\ delegation = "active" => delegation' = "active"
  PROVE  InOrder'
  <1>1. ASSUME NEW t \in Tokens, token'[t].state = "live" PROVE Covered(t)'
    <2>1. token'[t] = token[t] /\ token[t].state = "live"
      BY <1>1
    <2>2. Covered(t)
      BY DEF InOrder
    <2> QED
      BY <1>1, <2>1, <2>2 DEF Covered
  <1>2. \A t \in Tokens : Covered(t)'
    BY <1>1 DEF Covered
  <1> QED
    BY <1>2 DEF InOrder

LEMMA DisablingInOrder ==
  ASSUME IInv, InOrder, NEW p \in People, DisableMembershipRow(p),
         principal' = principal \/ principal' = [principal EXCEPT ![p] = FALSE]
  PROVE  InOrder'
  <1> DEFINE these == {t \in Tokens : Concerns(p, token[t])}
  <1>1. token' = Revoked(these) /\ these \in SUBSET Tokens
    BY DEF DisableMembershipRow
  <1>2. \A t \in Tokens : IF Concerns(p, token[t]) /\ token[t].state = "live"
                          THEN token'[t].state = "dead" ELSE token'[t] = token[t]
    BY <1>1, Revoking DEF IInv
  <1>3. delegation' # "active" /\ binding' # "active"
    BY DEF DisableMembershipRow, Deactivated, IInv, TenantTypes
  <1>4. /\ \A q \in People : membership'[q].roles = membership[q].roles
        /\ ~membership'[p].active
        /\ \A q \in People : q # p => membership'[q].active = membership[q].active
    BY DEF DisableMembershipRow, IInv, TenantTypes, Memberships
  <1>5. Standing'
    <2>1. \A q \in People : q # p => principal'[q] = principal[q]
      BY DEF IInv, TenantTypes
    <2>2. ASSUME NEW q \in People, membership'[q].active PROVE principal'[q]
      <3>1. q # p
        BY <1>4, <2>2
      <3> QED
        BY Zenon, <1>4, <2>1, <2>2, <3>1 DEF InOrder, Standing, Member
    <2> QED
      BY <1>3, <2>2 DEF Standing, Member
  <1>6. ASSUME NEW t \in Tokens, token[t].state = "live", token'[t].state # "dead"
        PROVE  token[t].of \in People /\ ~token[t].delegated
    BY <1>2, <1>6, Constants DEF Concerns, IInv, Row, People
  <1> QED
    BY <1>2, <1>4, <1>5, <1>6, Covering

\* Nothing is taken from the Tenant, and tokens may die.
LEMMA StandingInOrder ==
  ASSUME IInv, InOrder, Standing', NEW these \in SUBSET Tokens,
         token' = Revoked(these) \/ token' = token,
         \A t \in Tokens : token[t].state = "live" =>
           \/ t \in these /\ token' = Revoked(these)
           \/ /\ membership[token[t].of].roles \subseteq membership'[token[t].of].roles
              /\ token[t].delegated /\ delegation = "active" => delegation' = "active"
  PROVE  InOrder'
  <1>1. \A t \in Tokens : IF t \in these /\ token[t].state = "live"
                          THEN Revoked(these)[t].state = "dead" ELSE Revoked(these)[t] = token[t]
    BY Revoking DEF IInv
  <1> QED
    BY <1>1, Covering

LEMMA PeopleInOrder ==
  ASSUME IInv, InOrder, NEW c \in Clients, NEW p \in People,
         DisablePrincipal(c, p) \/ EnablePrincipal(c, p) \/ DisableMembership(c, p)
         \/ RevokeMembershipRole(c, p)
  PROVE  InOrder'
  <1>1. CASE DisablePrincipal(c, p) \/ DisableMembership(c, p)
    BY <1>1, DisablingInOrder DEF DisablePrincipal, DisableMembership
  <1>2. CASE EnablePrincipal(c, p)
    <2>1. UNCHANGED <<membership, delegation, binding, token>> /\ principal' = [principal EXCEPT ![p] = TRUE]
      BY <1>2 DEF EnablePrincipal
    <2>2. \A q \in People : principal[q] => principal'[q]
      BY <2>1 DEF IInv, TenantTypes
    <2>3. Standing'
      BY <2>1, <2>2 DEF InOrder, Standing, Member
    <2> QED
      BY <2>1, <2>3, Covering
  <1>3. CASE RevokeMembershipRole(c, p)
    <2>1. PICK role \in membership[p].roles :
            IF membership[p].roles \ {role} = {} THEN DisableMembershipRow(p)
            ELSE /\ membership' = [membership EXCEPT ![p].roles = membership[p].roles \ {role}]
                 /\ RevokeOwn(p) /\ UNCHANGED <<delegation, binding>>
      BY <1>3 DEF RevokeMembershipRole
    <2>2. principal' = principal
      BY <1>3 DEF RevokeMembershipRole
    <2>3. CASE DisableMembershipRow(p)
      BY <2>2, <2>3, DisablingInOrder
    <2>4. CASE /\ membership' = [membership EXCEPT ![p].roles = membership[p].roles \ {role}]
               /\ RevokeOwn(p) /\ UNCHANGED <<delegation, binding>>
      <3> DEFINE these == {t \in Tokens : token[t].of = p}
      <3>1. \A q \in People : /\ membership'[q].active = membership[q].active
                              /\ q # p => membership'[q] = membership[q]
        BY <2>4 DEF IInv, TenantTypes, Memberships
      <3>2. Standing'
        BY <2>2, <2>4, <3>1, Constants DEF InOrder, Standing, Member
      <3>3. token' = Revoked(these) /\ these \in SUBSET Tokens
        BY <2>4 DEF RevokeOwn
      <3>4. ASSUME NEW t \in Tokens, token[t].state = "live", t \notin these
            PROVE  membership[token[t].of].roles \subseteq membership'[token[t].of].roles
        BY <3>1, <3>4 DEF IInv, Row
      <3> QED
        BY <2>4, <3>2, <3>3, <3>4, StandingInOrder
    <2> QED
      BY <2>1, <2>3, <2>4
  <1> QED
    BY <1>1, <1>2, <1>3

LEMMA DelegationInOrder ==
  ASSUME IInv, InOrder, NEW c \in Clients, RevokeDelegation(c) \/ CloseBinding(c)
  PROVE  InOrder'
  <1>1. CASE RevokeDelegation(c)
    <2> DEFINE these == {u \in Tokens : token[u].delegated}
    <2>1. /\ token' = Revoked(these) /\ delegation' = "inactive" /\ binding' = Deactivated(binding)
          /\ UNCHANGED <<principal, membership>>
      BY <1>1 DEF RevokeDelegation
    <2>2. Standing'
      BY <2>1 DEF InOrder, Standing, Member, Deactivated
    <2> QED
      BY <2>1, <2>2, StandingInOrder
  <1>2. CASE CloseBinding(c)
    <2>1. binding' # "active" /\ UNCHANGED <<principal, membership, delegation, token>>
      BY <1>2 DEF CloseBinding
    <2>2. Standing'
      BY <2>1 DEF InOrder, Standing, Member
    <2> QED
      BY <2>1, <2>2, Covering
  <1> QED
    BY <1>1, <1>2

LEMMA DyingInOrder ==
  ASSUME IInv, InOrder, NEW t \in Tokens,
         token' = [token EXCEPT ![t] = [Unissued EXCEPT !.state = "dead"]],
         UNCHANGED <<principal, membership, delegation, binding>>
  PROVE  InOrder'
  <1>1. Standing'
    BY DEF InOrder, Standing, Member
  <1>2. [Unissued EXCEPT !.state = "dead"].state = "dead"
    BY DEF Unissued
  <1>3. \A u \in Tokens : token'[u] = token[u] \/ token'[u].state = "dead"
    BY <1>2 DEF IInv, TenantTypes
  <1> QED
    BY <1>1, <1>3, Covering

LEMMA IssuingInOrder ==
  ASSUME IInv, InOrder, NEW u \in Tokens, NEW of \in People, NEW roles \in SUBSET Roles,
         NEW delegated \in BOOLEAN, token' = [token EXCEPT ![u] = Live(of, roles, delegated)],
         roles \subseteq membership[of].roles, delegated => delegation = "active",
         UNCHANGED <<principal, membership, delegation, binding>>
  PROVE  InOrder'
  <1>1. Standing'
    BY DEF InOrder, Standing, Member
  <1>2. token'[u] = Live(of, roles, delegated) /\ \A t \in Tokens : t # u => token'[t] = token[t]
    BY DEF IInv, TenantTypes
  <1>3. Covered(u)'
    BY <1>2 DEF Covered, Live
  <1>4. ASSUME NEW t \in Tokens, t # u PROVE Covered(t)'
    <2>1. Covered(t)
      BY DEF InOrder
    <2> QED
      BY <1>2, <1>4, <2>1 DEF Covered
  <1> QED
    BY <1>1, <1>3, <1>4 DEF InOrder

\* A decision that is still true when it is written keeps the order.
LEMMA WritesInOrder ==
  ASSUME IInv, InOrder, NEW change \in Changes, Decision(change), Current(change), UNCHANGED principal,
         \/ change.kind = "grant" /\ WriteGrant(change)
         \/ change.kind = "membership" /\ WriteMembership(change)
         \/ change.kind = "delegation" /\ WriteDelegation(change)
         \/ change.kind = "binding" /\ WriteBinding(change)
         \/ change.kind = "issue" /\ WriteIssue(change)
         \/ change.kind = "rotate" /\ WriteRotate(change)
  PROVE  InOrder'
  <1>0. change.active \in BOOLEAN
    BY DEF Changes
  <1>1. CASE change.kind = "grant" /\ WriteGrant(change)
    <2>1. /\ change.on \in People /\ principal[change.on]
          /\ membership[change.on].roles \subseteq change.roles
      BY <1>1 DEF Decision, Current
    <2>2. /\ membership' = [membership EXCEPT ![change.on] = [roles |-> change.roles, active |-> TRUE]]
          /\ UNCHANGED <<delegation, binding, token>>
      BY <1>1 DEF WriteGrant
    <2>3. \A q \in People : /\ Member(q) => membership'[q].active
                            /\ membership[q].roles \subseteq membership'[q].roles
                            /\ q # change.on => membership'[q] = membership[q]
      BY <2>1, <2>2 DEF IInv, TenantTypes, Member
    <2>4. Standing'
      BY <2>1, <2>2, <2>3, Constants DEF InOrder, Standing, Member
    <2> QED
      BY <2>2, <2>3, <2>4, Covering DEF IInv, Row
  <1>2. CASE change.kind = "membership" /\ WriteMembership(change)
    <2> DEFINE p == change.on
               row == [roles |-> change.roles, active |-> change.active]
               these == {t \in Tokens : (membership[p] # row /\ token[t].of = p)
                                        \/ (~change.active /\ Concerns(p, token[t]))}
    <2>1. p \in People /\ (change.active => principal[p])
      BY <1>2 DEF Decision, Current
    <2>2. /\ membership' = [membership EXCEPT ![p] = row] /\ token' = Revoked(these)
          /\ IF change.active THEN UNCHANGED <<delegation, binding>>
             ELSE delegation' = Deactivated(delegation) /\ binding' = Deactivated(binding)
      BY <1>2 DEF WriteMembership
    <2>3. membership'[p] = row /\ \A q \in People : q # p => membership'[q] = membership[q]
      BY <2>1, <2>2 DEF IInv, TenantTypes
    <2>4. ~change.active => delegation' # "active" /\ binding' # "active"
      BY <2>2 DEF Deactivated, IInv, TenantTypes
    <2>5. \A q \in People : membership'[q].active => principal[q]
      BY <2>1, <2>3 DEF InOrder, Standing, Member
    <2>6. Standing'
      <3>1. CASE change.active
        <4>1. \A q \in People : membership[q].active => membership'[q].active
          BY <2>3, <3>1
        <4> QED
          BY <2>2, <2>5, <3>1, <4>1, Constants DEF InOrder, Standing, Member
      <3>2. CASE ~change.active
        BY <2>4, <2>5, <3>2 DEF Standing, Member
      <3> QED
        BY <3>1, <3>2
    <2>7. ASSUME NEW t \in Tokens, token[t].state = "live", t \notin these
          PROVE  /\ membership[token[t].of].roles \subseteq membership'[token[t].of].roles
                 /\ token[t].delegated /\ delegation = "active" => delegation' = "active"
      <3>1. token[t].of \in People /\ (token[t].delegated => token[t].of = Agent)
        BY <2>7 DEF IInv, Row
      <3>2. membership'[token[t].of] = membership[token[t].of]
        BY <2>3, <2>7, <3>1
      <3>3. token[t].delegated => change.active
        BY <2>1, <2>7, <3>1 DEF Concerns, People
      <3> QED
        BY <2>2, <3>2, <3>3
    <2> QED
      BY <2>2, <2>6, <2>7, StandingInOrder
  <1>3. CASE change.kind = "delegation" /\ WriteDelegation(change)
    <2>1. Member(User) /\ Member(Agent)
      BY <1>3 DEF Current
    <2>2. /\ delegation' = "active" \/ delegation' = delegation
          /\ UNCHANGED <<membership, binding, token>>
      BY <1>3 DEF WriteDelegation
    <2>3. Standing'
      BY <2>1, <2>2 DEF InOrder, Standing, Member
    <2> QED
      BY <2>2, <2>3, Covering
  <1>4. CASE change.kind = "binding" /\ WriteBinding(change)
    <2>1. delegation = "active" /\ UNCHANGED <<membership, delegation, token>>
      BY <1>4 DEF Current, WriteBinding
    <2>2. Standing'
      BY <2>1 DEF InOrder, Standing, Member
    <2> QED
      BY <2>1, <2>2, Covering
  <1>5. CASE change.kind = "issue" /\ WriteIssue(change)
    <2>1. /\ change.on \in People /\ change.roles \in SUBSET Roles
          /\ change.roles \subseteq membership[change.on].roles /\ (change.active => delegation = "active")
      BY <1>5 DEF Decision, Current
    <2>2. PICK u \in Tokens : token' = [token EXCEPT ![u] = Live(change.on, change.roles, change.active)]
      BY <1>5 DEF WriteIssue
    <2> QED
      BY <1>0, <1>5, <2>1, <2>2, IssuingInOrder DEF WriteIssue
  <1>6. CASE change.kind = "rotate" /\ WriteRotate(change)
    <2>1. UNCHANGED <<membership, delegation, binding>> /\ change.on \in Tokens
          /\ change.roles \in SUBSET Roles
      BY <1>6 DEF WriteRotate, Decision
    <2>2. CASE UNCHANGED token
      <3>1. Standing'
        BY <2>1 DEF InOrder, Standing, Member
      <3> QED
        BY <2>1, <2>2, <3>1, Covering
    <2>3. CASE Rotatable(change.on)
      <3>1. /\ token[change.on].state = "live" /\ token[change.on].of \in People
            /\ change.roles \subseteq membership[token[change.on].of].roles
            /\ change.active => delegation = "active"
        BY <1>6, <2>1, <2>3 DEF Rotatable, Authenticates, Decision, Current, IInv, Row
      <3>2. PICK u \in Tokens :
              token' = [token EXCEPT ![u] = Live(token[change.on].of, change.roles, change.active)]
        BY <1>6, <2>3 DEF WriteRotate
      <3> QED
        BY <1>0, <2>1, <3>1, <3>2, IssuingInOrder
    <2> QED
      BY <1>6, <2>2, <2>3 DEF WriteRotate
  <1> QED
    BY <1>1, <1>2, <1>3, <1>4, <1>5, <1>6

\* What Begin decides is true at that moment.
LEMMA DecidedCurrent ==
  ASSUME IInv, NEW change \in TenantChanges \cup (OperatorChanges \cup OperatorIssues \cup Logins)
  PROVE  Current(change)
  <1>1. CASE change \in Grants
    <2>1. PICK p \in People : /\ principal[p]
                              /\ \E role \in RolesFor(p) :
                                   change = Change("grant", p, membership[p].roles \cup {role}, TRUE)
      BY <1>1 DEF Grants
    <2> QED
      BY <2>1 DEF Change, Current
  <1>2. CASE change \in MembershipChanges
    <2>1. change.kind = "membership" /\ (change.active => principal[change.on])
      BY <1>2 DEF MembershipChanges, Change
    <2> QED
      BY <2>1 DEF Current
  <1>3. CASE change \in Delegations \cup Bindings
    <2>1. \/ change.kind = "delegation" /\ DelegationAllowed
          \/ change.kind = "binding" /\ delegation = "active"
      BY <1>3 DEF Delegations, Bindings, Change
    <2> QED
      BY <2>1 DEF Current, DelegationAllowed, InGoodStanding
  <1>4. CASE change \in Issues \cup DelegatedIssues
    <2>1. /\ change.kind = "issue" /\ change.roles = membership[change.on].roles
          /\ change.active => delegation = "active"
      BY <1>4 DEF Issues, DelegatedIssues, Change
    <2> QED
      BY <2>1 DEF Current
  <1>5. CASE change \in Rotations
    <2>1. change.kind = "rotate" /\ change.roles = membership[token[change.on].of].roles
      BY <1>5 DEF Rotations, Change
    <2> QED
      BY <2>1 DEF Current
  <1>6. CASE change \in OperatorChanges
    <2>1. /\ change.kind = "operator"
          /\ FinalAdmin(change.on) => change.active /\ "operator_admin" \in change.roles
      BY <1>6 DEF OperatorChanges, Change
    <2> QED
      BY <2>1 DEF Current
  <1>7. CASE change \in OperatorIssues \cup Logins
    <2>1. PICK o \in Operators, kind \in {"operator_token", "session"} :
            operator[o].active /\ change = Change(kind, o, operator[o].roles, TRUE)
      BY <1>7 DEF OperatorIssues, Logins
    <2>2. operator[o] = [roles |-> operator[o].roles, active |-> TRUE]
      BY <2>1 DEF IInv, OperatorTypes
    <2> QED
      BY <2>1, <2>2 DEF Change, Current
  <1> QED
    BY <1>1, <1>2, <1>3, <1>4, <1>5, <1>6, <1>7 DEF TenantChanges

\* An operator is changed: an administrator is left, and no credential is for other roles.
LEMMA OperatorWrites ==
  ASSUME IInv, Authority, NEW change \in Changes, Decision(change), Current(change),
         \/ change.kind = "operator" /\ WriteOperator(change)
         \/ change.kind = "operator_token" /\ WriteOperatorToken(change)
         \/ change.kind = "session" /\ WriteSession(change)
  PROVE  (\A o \in Operators : Issued(o)') /\ FinalAdminStays'
  <1>0. /\ change.on \in Operators /\ operator \in [Operators -> [roles : SUBSET OperatorRoles, active : BOOLEAN]]
        /\ credential \in [Operators -> Credentials] /\ \A o \in Operators : Issued(o)
    BY DEF Decision, IInv, OperatorTypes, Authority
  <1>1. CASE change.kind = "operator" /\ WriteOperator(change)
    <2> DEFINE row == [roles |-> change.roles, active |-> change.active]
    <2>1. /\ operator' = [operator EXCEPT ![change.on] = row]
          /\ credential' = IF operator[change.on] = row THEN credential
                           ELSE [credential EXCEPT ![change.on] = NoCredential]
      BY <1>1 DEF WriteOperator
    <2>2. operator'[change.on] = row /\ \A o \in Operators : o # change.on => operator'[o] = operator[o]
      BY <1>0, <2>1
    <2>3. \A o \in Operators : o # change.on => credential'[o] = credential[o]
      BY <1>0, <2>1
    <2>4. Issued(change.on)'
      <3>1. CASE operator[change.on] = row
        <4>1. operator'[change.on] = operator[change.on] /\ credential'[change.on] = credential[change.on]
          BY <2>1, <2>2, <3>1
        <4> QED
          BY <1>0, <4>1 DEF Issued
      <3>2. CASE operator[change.on] # row
        <4>1. credential'[change.on] = NoCredential
          BY <1>0, <2>1, <3>2
        <4> QED
          BY <4>1 DEF Issued, NoCredential
      <3> QED
        BY <3>1, <3>2
    <2>5. ASSUME NEW o \in Operators, o # change.on PROVE Issued(o)'
      BY <1>0, <2>2, <2>3, <2>5 DEF Issued
    <2>6. FinalAdminStays'
      <3>1. PICK o \in Operators : Administers(o)
        BY DEF Authority, FinalAdminStays
      <3>2. CASE \E p \in Operators : p # change.on /\ Administers(p)
        BY <2>2, <3>2 DEF FinalAdminStays, Administers
      <3>3. CASE \A p \in Operators : Administers(p) => p = change.on
        <4>1. FinalAdmin(change.on)
          BY <1>0, <3>1, <3>3 DEF FinalAdmin
        <4>2. change.active /\ "operator_admin" \in change.roles
          BY <1>1, <4>1 DEF Current
        <4>3. Administers(change.on)'
          BY <2>2, <4>2 DEF Administers
        <4> QED
          BY <1>0, <4>3 DEF FinalAdminStays
      <3> QED
        BY <3>2, <3>3
    <2> QED
      BY <2>4, <2>5, <2>6
  <1>2. CASE change.kind \in {"operator_token", "session"} /\ (WriteOperatorToken(change) \/ WriteSession(change))
    <2>1. operator' = operator /\ operator[change.on] = [roles |-> change.roles, active |-> TRUE]
      BY <1>2 DEF WriteOperatorToken, WriteSession, Current
    <2>2. \A o \in Operators :
            /\ \/ credential'[o].token = credential[o].token
               \/ o = change.on /\ credential'[o].token = change.roles
            /\ \/ credential'[o].session = credential[o].session
               \/ o = change.on /\ credential'[o].session = change.roles
      BY <1>0, <1>2 DEF WriteOperatorToken, WriteSession, Credentials
    <2>3. ASSUME NEW o \in Operators PROVE Issued(o)'
      BY <1>0, <2>1, <2>2 DEF Issued
    <2>4. FinalAdminStays'
      BY <2>1 DEF Authority, FinalAdminStays, Administers
    <2> QED
      BY <2>3, <2>4
  <1> QED
    BY <1>1, <1>2

\* What happens around an undecided or undisturbed client.
LEMMA Waits ==
  ASSUME IInv, Authority, Evolves, UNCHANGED <<principal, membership, delegation, operator, pending>>
  PROVE  \A c \in Clients : Current(pending[c])'
  <1> SUFFICES ASSUME NEW c \in Clients PROVE Current(pending[c])'
    OBVIOUS
  <1>1. Current(pending[c]) /\ Decision(pending[c]) /\ pending'[c] = pending[c]
    BY DEF IInv, Authority
  <1>2. pending[c].kind = "rotate" =>
          /\ pending[c].on \in Tokens /\ token[pending[c].on].state # "unused"
          /\ \/ token'[pending[c].on] = token[pending[c].on]
             \/ token'[pending[c].on].state # "live"
    BY <1>1 DEF Decision, Evolves
  <1>3. FinalAdmin(pending[c].on)' => FinalAdmin(pending[c].on)
    BY <1>1 DEF FinalAdmin, Administers
  <1> QED
    BY <1>1, <1>2, <1>3 DEF Current, Member

LEMMA NothingCurrent ==
  ASSUME NEW c \in Clients, pending'[c] = Nothing
  PROVE  Current(pending[c])'
  BY DEF Current, Nothing, Change

LEMMA AuthorityKept ==
  ASSUME OneClient, IInv, Authority, [Next]_vars
  PROVE  Authority'
  <1>0. /\ InOrder /\ (\A o \in Operators : Issued(o)) /\ FinalAdminStays
        /\ PendingTypes /\ Evolves
    BY NextKeeps DEF Authority, IInv
  <1>1. ASSUME UNCHANGED <<operator, credential>>
        PROVE  (\A o \in Operators : Issued(o)') /\ FinalAdminStays'
    BY <1>0, <1>1 DEF Issued, FinalAdminStays, Administers
  <1>2. ASSUME UNCHANGED <<principal, membership, delegation, binding, token>> PROVE InOrder'
    <2>1. Standing'
      BY <1>0, <1>2 DEF InOrder, Standing, Member
    <2> QED
      BY <1>0, <1>2, <2>1, Covering
  <1>3. ASSUME NEW c \in Clients, pending' = [pending EXCEPT ![c] = Nothing] \/ (pending[c] = Nothing /\ pending' = pending)
        PROVE  \A d \in Clients : Current(pending[d])'
    <2>1. \A d \in Clients : pending'[d] = Nothing
      BY <1>0, <1>3 DEF PendingTypes, OneClient
    <2> QED
      BY <2>1, NothingCurrent
  <1>4. ASSUME NEW c \in Clients, Begin(c) PROVE Authority'
    <2>1. /\ UNCHANGED <<plane, tenant, principal, membership, delegation, binding, token, operator, credential>>
          /\ \E change \in TenantChanges \cup (OperatorChanges \cup OperatorIssues \cup Logins) :
               pending' = [pending EXCEPT ![c] = change]
      BY <1>4 DEF Begin, access, operation
    <2>2. PICK change : Current(change) /\ pending' = [pending EXCEPT ![c] = change]
      BY <2>1, DecidedCurrent
    <2>3. ASSUME NEW d \in Clients PROVE Current(pending[d])'
      <3>1. pending'[d] = change
        BY <1>0, <2>2 DEF PendingTypes, OneClient
      <3>2. Current(pending'[d])
        BY <2>2, <3>1
      <3> QED
        BY <2>1, <3>2 DEF Current, Member, FinalAdmin, Administers
    <2> QED
      BY <1>1, <1>2, <2>1, <2>3 DEF Authority
  <1>5. ASSUME NEW c \in Clients, Abandon(c) PROVE Authority'
    <2>1. /\ UNCHANGED <<principal, membership, delegation, binding, token, operator, credential>>
          /\ pending' = [pending EXCEPT ![c] = Nothing]
      BY <1>5 DEF Abandon, access, operation
    <2> QED
      BY <1>1, <1>2, <1>3, <2>1 DEF Authority
  <1>6. ASSUME NEW c \in Clients, Commit(c) PROVE Authority'
    <2> DEFINE change == pending[c]
    <2>1. change \in Changes /\ Decision(change) /\ Current(change)
      BY <1>0 DEF IInv, PendingTypes, Authority
    <2>2. pending' = [pending EXCEPT ![c] = Nothing]
      BY <1>6 DEF Commit
    <2>3. CASE /\ \/ change.kind = "grant" /\ WriteGrant(change)
                  \/ change.kind = "membership" /\ WriteMembership(change)
                  \/ change.kind = "delegation" /\ WriteDelegation(change)
                  \/ change.kind = "binding" /\ WriteBinding(change)
                  \/ change.kind = "issue" /\ WriteIssue(change)
                  \/ change.kind = "rotate" /\ WriteRotate(change)
               /\ UNCHANGED <<principal, operator, credential>>
      <3>1. InOrder'
        BY <1>0, <2>1, <2>3, WritesInOrder
      <3> QED
        BY <1>1, <1>3, <2>2, <2>3, <3>1 DEF Authority
    <2>4. CASE /\ \/ change.kind = "operator" /\ WriteOperator(change)
                  \/ change.kind = "operator_token" /\ WriteOperatorToken(change)
                  \/ change.kind = "session" /\ WriteSession(change)
               /\ UNCHANGED <<principal, membership, delegation, binding, token>>
      <3>1. (\A o \in Operators : Issued(o)') /\ FinalAdminStays'
        BY <2>1, <2>4, OperatorWrites
      <3> QED
        BY <1>2, <1>3, <2>2, <2>4, <3>1 DEF Authority
    <2> QED
      BY <1>6, <2>3, <2>4 DEF Commit, operation, access
  <1>7. ASSUME NEW c \in Clients, NEW p \in People,
               \/ DisablePrincipal(c, p) \/ EnablePrincipal(c, p) \/ DisableMembership(c, p)
               \/ RevokeMembershipRole(c, p) \/ RevokeDelegation(c) \/ CloseBinding(c)
        PROVE  Authority'
    <2>1. InOrder'
      BY <1>0, <1>7, PeopleInOrder, DelegationInOrder
    <2>2. pending[c] = Nothing /\ UNCHANGED <<pending, operator, credential>>
      BY <1>7 DEF DisablePrincipal, EnablePrincipal, DisableMembership, RevokeMembershipRole,
                 RevokeDelegation, CloseBinding, Idle, operation
    <2> QED
      BY <1>1, <1>3, <2>1, <2>2 DEF Authority
  <1>8. ASSUME NEW t \in Tokens, Expire(t) \/ \E c \in Clients : RevokeToken(c, t) PROVE Authority'
    <2>1. /\ token' = [token EXCEPT ![t] = [Unissued EXCEPT !.state = "dead"]]
          /\ UNCHANGED <<principal, membership, delegation, binding, operator, credential, pending>>
      BY <1>8 DEF Expire, RevokeToken, Idle, operation
    <2>2. InOrder'
      BY <1>0, <2>1, DyingInOrder
    <2> QED
      BY <1>0, <1>1, <2>1, <2>2, Waits DEF Authority
  <1>9. ASSUME NEW o \in Operators, EndCredential(o) PROVE Authority'
    <2>1. /\ UNCHANGED <<principal, membership, delegation, binding, token, operator, pending>>
          /\ \/ credential' = [credential EXCEPT ![o].token = {}]
             \/ credential' = [credential EXCEPT ![o].session = {}]
      BY <1>9 DEF EndCredential, access
    <2>2. \A p \in Operators : /\ credential'[p].token \in {credential[p].token, {}}
                              /\ credential'[p].session \in {credential[p].session, {}}
      BY <2>1 DEF IInv, OperatorTypes, Credentials
    <2>3. \A p \in Operators : Issued(p)'
      BY <1>0, <2>1, <2>2 DEF Issued
    <2>4. FinalAdminStays'
      BY <1>0, <2>1 DEF FinalAdminStays, Administers
    <2> QED
      BY <1>0, <1>2, <2>1, <2>3, <2>4, Waits DEF Authority
  <1>10. CASE FlipTenant \/ UNCHANGED vars
    <2>1. UNCHANGED <<principal, membership, delegation, binding, token, operator, credential, pending>>
      BY <1>10 DEF FlipTenant, operation, access, vars
    <2> QED
      BY <1>0, <1>1, <1>2, <2>1, Waits DEF Authority
  <1>11. User \in People
    BY Constants
  <1> QED
    BY <1>4, <1>5, <1>6, <1>7, <1>8, <1>9, <1>10, <1>11 DEF Next

\* With one client at work at a time, what it decided is still true when it writes, and
\* Authority holds in every state (admin_http.py's handlers, control.py).
THEOREM AuthorityInductive == OneClient => (Spec => [](IInv /\ Authority))
  <1> SUFFICES ASSUME OneClient PROVE Spec => [](IInv /\ Authority)
    OBVIOUS
  <1>1. Init => IInv /\ Authority
    BY InitInv, InitAuthority
  <1>2. IInv /\ Authority /\ [Next]_vars => (IInv /\ Authority)'
    BY NextKeeps, AuthorityKept
  <1> QED
    BY <1>1, <1>2, PTL DEF Spec

\* With one client, a token that authenticates carries no more than its Principal, and
\* the user behind its delegation, hold now; so does an operator's credential.
THEOREM AuthenticatedAuthorized == OneClient => (Spec => []AuthenticatedIsAuthorized)
  <1> SUFFICES ASSUME OneClient PROVE Spec => []AuthenticatedIsAuthorized
    OBVIOUS
  <1>1. ASSUME IInv, Authority PROVE AuthenticatedIsAuthorized
    <2>1. ASSUME NEW t \in Tokens, Authenticates(t)
          PROVE  /\ Reauthorizes(token[t].of, token[t].delegated)
                 /\ token[t].roles \subseteq membership[token[t].of].roles
      <3>1. Covered(t) /\ Standing /\ token[t].state = "live"
        BY <1>1, <2>1 DEF Authority, InOrder, Authenticates
      <3>2. token[t].delegated => delegation = "active" /\ InGoodStanding(User)
        BY <3>1, Constants DEF Covered, Standing, InGoodStanding
      <3> QED
        BY <2>1, <3>1, <3>2 DEF Authenticates, Covered, Reauthorizes
    <2>2. ASSUME NEW o \in Operators, NEW roles \in {credential[o].token, credential[o].session} \ {{}}
          PROVE  operator[o] = [roles |-> roles, active |-> TRUE]
      <3>1. Issued(o)
        BY <1>1 DEF Authority
      <3> QED
        BY <2>2, <3>1 DEF Issued
    <2> QED
      BY <2>1, <2>2 DEF AuthenticatedIsAuthorized
  <1> QED
    BY <1>1, AuthorityInductive, PTL

\* With one client, a channel identity resolves only while the agent, the user and the
\* delegation are in order (control.py resolve_channel_session reads neither Principal).
THEOREM ChannelAuthorized == OneClient => (Spec => []ChannelIsAuthorized)
  <1> SUFFICES ASSUME OneClient PROVE Spec => []ChannelIsAuthorized
    OBVIOUS
  <1>1. ASSUME IInv, Authority PROVE ChannelIsAuthorized
    BY <1>1, Constants DEF Authority, InOrder, Standing, ChannelIsAuthorized, ChannelResolves, Reauthorizes,
                           InGoodStanding
  <1> QED
    BY <1>1, AuthorityInductive, PTL

\* With one client, an active operator_admin is left whatever the operators change.
THEOREM FinalAdmins == OneClient => (Spec => []FinalAdminStays)
  <1> SUFFICES ASSUME OneClient PROVE Spec => []FinalAdminStays
    OBVIOUS
  <1>1. IInv /\ Authority => FinalAdminStays
    BY DEF Authority
  <1> QED
    BY <1>1, AuthorityInductive, PTL
===============================================================================
