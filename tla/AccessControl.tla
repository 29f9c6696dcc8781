---------------------------- MODULE AccessControl ----------------------------
(***************************************************************************)
(* Who may do what in the Control Store: one Tenant with a user and an     *)
(* agent, their memberships, the delegation and the channel binding        *)
(* between them and the access tokens issued to them; and, apart from it,  *)
(* the operators of the platform with their tokens and admin sessions.     *)
(*                                                                         *)
(* A client is a process that administers the store: the HTTP service,     *)
(* whose admin handlers reach the database without awaiting and so run one *)
(* after the other, and each memoryctl command. An operation that only     *)
(* writes is one transaction, hence one step. One that reads before it     *)
(* writes does so in separate transactions, and its client may die in      *)
(* between: Begin reads and decides, Write commits.                        *)
(*                                                                         *)
(* The two planes share no table. Each behaviour is of one of them, since  *)
(* interleaving independent steps adds nothing.                            *)
(***************************************************************************)
EXTENDS FiniteSets

CONSTANTS
    Clients,
    User, Agent,  \* the Tenant's two Principals
    Tokens,       \* access tokens that may be issued, a bound
    Operators,
    None

People == {User, Agent}
ASSUME AccessAssumption ==
    /\ User # Agent /\ None \notin People \cup Tokens \cup Operators
    /\ People \cap Tokens = {} /\ IsFiniteSet(Operators) /\ Operators # {}

Roles == {"tenant_member", "tenant_administrator"}
OperatorRoles == {"operator_admin", "auditor"}

VARIABLES
    plane,       \* "tenant" or "operators"
    tenant,      \* control.tenants.active
    principal,   \* control.principals.active
    membership,  \* control.memberships; no roles: no row
    delegation,  \* control.delegations, one: the agent acts for the user
    binding,     \* control.channel_bindings, one, on the delegation
    token,       \* control.access_tokens
    operator,    \* control.operators
    credential,  \* control.operator_access_tokens and admin_sessions
    pending      \* each client: the change it has decided and not yet written

access == <<tenant, principal, membership, delegation, binding, token>>
operation == <<operator, credential>>
vars == <<plane, access, operation, pending>>

Memberships == [roles : SUBSET Roles, active : BOOLEAN]
TokenStates == {"unused", "live", "dead"}
Unissued == [state |-> "unused", of |-> None, roles |-> {}, delegated |-> FALSE]
Live(of, roles, delegated) ==
    [state |-> "live", of |-> of, roles |-> roles, delegated |-> delegated]
\* A credential in use and the roles it was issued with; {}: none in use.
Credentials == [token : SUBSET OperatorRoles, session : SUBSET OperatorRoles]
NoCredential == [token |-> {}, session |-> {}]

Change(kind, on, roles, active) ==
    [kind |-> kind, on |-> on, roles |-> roles, active |-> active]
Nothing == Change("none", None, {}, FALSE)
Changes == [kind : {"none", "grant", "membership", "delegation", "binding", "issue", "rotate",
                    "operator", "operator_token", "session"},
            on : People \cup Tokens \cup Operators \cup {None},
            roles : SUBSET (Roles \cup OperatorRoles), active : BOOLEAN]

TypeOK ==
    /\ plane \in {"tenant", "operators"}
    /\ tenant \in BOOLEAN
    /\ principal \in [People -> BOOLEAN]
    /\ membership \in [People -> Memberships]
    /\ delegation \in {"none", "active", "inactive"}
    /\ binding \in {"none", "active", "inactive"}
    /\ token \in [Tokens -> [state : TokenStates, of : People \cup {None},
                             roles : SUBSET Roles, delegated : BOOLEAN]]
    /\ operator \in [Operators -> [roles : SUBSET OperatorRoles, active : BOOLEAN]]
    /\ credential \in [Operators -> Credentials]
    /\ pending \in [Clients -> Changes]

\* bootstrap_operator: the first operator is an administrator; the others may be added.
Init ==
    /\ plane \in {"tenant", "operators"}
    /\ tenant = TRUE /\ principal = [p \in People |-> TRUE]
    /\ membership = [p \in People |-> [roles |-> {}, active |-> FALSE]]
    /\ delegation = "none" /\ binding = "none"
    /\ token = [t \in Tokens |-> Unissued]
    /\ \E first \in Operators :
         operator = [o \in Operators |->
                       [roles |-> IF o = first THEN {"operator_admin"} ELSE {}, active |-> TRUE]]
    /\ credential = [o \in Operators |-> NoCredential]
    /\ pending = [c \in Clients |-> Nothing]

-----------------------------------------------------------------------------
(* What the checks read *)

Member(p) == membership[p].active
InGoodStanding(p) == principal[p] /\ Member(p)

\* PostgresControlStore.get: the joins that make a token usable, and its revocation.
Authenticates(t) ==
    /\ token[t].state = "live"
    /\ tenant /\ InGoodStanding(token[t].of)
    /\ token[t].delegated => delegation = "active"

\* reauthorize_session
Reauthorizes(of, delegated) ==
    /\ tenant /\ InGoodStanding(of)
    /\ delegated => delegation = "active" /\ InGoodStanding(User)

\* resolve_channel_session
ChannelResolves == binding = "active" /\ delegation = "active" /\ Member(Agent)

\* _require_active_delegation_bindings
DelegationAllowed == tenant /\ InGoodStanding(User) /\ InGoodStanding(Agent)

-----------------------------------------------------------------------------
(* The cascades *)

Deactivated(row) == IF row = "none" THEN "none" ELSE "inactive"

\* The tokens of the set that are live are revoked.
Revoked(these) ==
    [t \in Tokens |-> IF t \in these /\ token[t].state = "live"
                      THEN [Unissued EXCEPT !.state = "dead"] ELSE token[t]]

\* Mutant: the tokens issued in the user's name are forgotten.
ConcernsActor(p, row) == row.of = p

\* Both Principals are party to the one delegation and the one binding on it.
Concerns(p, row) == row.of = p \/ (row.delegated /\ p = User)

\* Mutant: the delegation outlives its parties.
DisableMembershipRowOnly(p) ==
    /\ membership' = [membership EXCEPT ![p].active = FALSE]
    /\ token' = Revoked({t \in Tokens : Concerns(p, token[t])})
    /\ UNCHANGED <<delegation, binding>>

\* _disable_membership
DisableMembershipRow(p) ==
    /\ membership' = [membership EXCEPT ![p].active = FALSE]
    /\ delegation' = Deactivated(delegation) /\ binding' = Deactivated(binding)
    /\ token' = Revoked({t \in Tokens : Concerns(p, token[t])})

\* Mutant: a change of roles leaves the tokens with the old ones.
RevokeNone(p) == UNCHANGED token

\* What a change of roles or of the active flag does to the member's own tokens.
RevokeOwn(p) == token' = Revoked({t \in Tokens : token[t].of = p})

-----------------------------------------------------------------------------
(* Operations that are one transaction *)

Idle(c) == pending[c] = Nothing /\ UNCHANGED <<plane, pending, operation>>

\* disable_principal, and update_principal with active = False
DisablePrincipal(c, p) ==
    /\ Idle(c)
    /\ principal' = [principal EXCEPT ![p] = FALSE]
    /\ DisableMembershipRow(p)
    /\ UNCHANGED tenant

\* update_principal with active = True: nothing the disabling took is given back.
EnablePrincipal(c, p) ==
    /\ Idle(c)
    /\ principal' = [principal EXCEPT ![p] = TRUE]
    /\ UNCHANGED <<tenant, membership, delegation, binding, token>>

DisableMembership(c, p) ==
    /\ Idle(c)
    /\ membership[p].roles # {}
    /\ DisableMembershipRow(p)
    /\ UNCHANGED <<tenant, principal>>

\* revoke_membership_role: the last role stays in the row, which is disabled.
RevokeMembershipRole(c, p) ==
    /\ Idle(c)
    /\ \E role \in membership[p].roles :
         LET remaining == membership[p].roles \ {role} IN
         IF remaining = {} THEN DisableMembershipRow(p)
         ELSE /\ membership' = [membership EXCEPT ![p].roles = remaining]
              /\ RevokeOwn(p)
              /\ UNCHANGED <<delegation, binding>>
    /\ UNCHANGED <<tenant, principal>>

RevokeDelegation(c) ==
    /\ Idle(c)
    /\ delegation # "none"
    /\ delegation' = "inactive" /\ binding' = Deactivated(binding)
    /\ token' = Revoked({t \in Tokens : token[t].delegated})
    /\ UNCHANGED <<tenant, principal, membership>>

\* disable_channel_binding and remove_channel_binding
CloseBinding(c) ==
    /\ Idle(c)
    /\ binding # "none"
    /\ binding' \in {"inactive", "none"}
    /\ UNCHANGED <<tenant, principal, membership, delegation, token>>

RevokeToken(c, t) ==
    /\ Idle(c)
    /\ token[t].state = "live"
    /\ token' = [token EXCEPT ![t] = [Unissued EXCEPT !.state = "dead"]]
    /\ UNCHANGED <<tenant, principal, membership, delegation, binding>>

-----------------------------------------------------------------------------
(* Operations that read first: the changes their checks admit *)

\* An agent can only be a member.
RolesFor(p) == IF p = Agent THEN {"tenant_member"} ELSE Roles

\* grant_membership: the role is added to the row read, active or not.
Grants ==
    UNION {{Change("grant", p, membership[p].roles \cup {role}, TRUE) : role \in RolesFor(p)} :
             p \in {q \in People : tenant /\ principal[q]}}

\* ControlModule.update_membership
MembershipChanges ==
    {change \in {Change("membership", p, roles, active) :
                   p \in People, roles \in SUBSET Roles \ {{}}, active \in BOOLEAN} :
       /\ membership[change.on].roles # {} /\ change.roles \subseteq RolesFor(change.on)
       /\ change.active => tenant /\ principal[change.on]}

\* create_delegation, and update_delegation with active = True
Delegations ==
    {change \in {Change("delegation", None, {}, delegation # "none")} : DelegationAllowed}

Bindings == {change \in {Change("binding", None, {}, TRUE)} : delegation = "active"}

\* issue_access_token
Issues ==
    {Change("issue", p, membership[p].roles, FALSE) :
       p \in {q \in People : tenant /\ InGoodStanding(q)}}

\* issue_delegated_access_token: the delegation stands for the user.
DelegatedIssues ==
    {change \in {Change("issue", Agent, membership[Agent].roles, TRUE)} :
       delegation = "active" /\ Member(Agent)}

\* rotate_access_token, and again in PostgresControlStore.rotate
Rotatable(t) == Authenticates(t) /\ (token[t].delegated => InGoodStanding(User))

Rotations ==
    {Change("rotate", t, membership[token[t].of].roles, token[t].delegated) :
       t \in {u \in Tokens : Rotatable(u)}}

\* update_operator: the administrators are counted before the update.
Administers(o) == operator[o].active /\ "operator_admin" \in operator[o].roles
\* Mutant: operators that are no longer active count too.
FinalAdminOnPaper(o) == {p \in Operators : "operator_admin" \in operator[p].roles} = {o}
FinalAdmin(o) == {p \in Operators : Administers(p)} = {o}

OperatorChanges ==
    {change \in {Change("operator", o, roles, active) :
                   o \in Operators, roles \in SUBSET OperatorRoles, active \in BOOLEAN} :
       FinalAdmin(change.on) => change.active /\ "operator_admin" \in change.roles}

\* issue_operator_access_token and rotate_operator_access_token
OperatorIssues ==
    {Change("operator_token", o, operator[o].roles, TRUE) :
       o \in {p \in Operators : operator[p].active /\ operator[p].roles # {}}}

\* create_admin_session, from an operator token that authenticates
Logins ==
    {Change("session", o, operator[o].roles, TRUE) :
       o \in {p \in Operators : /\ credential[p].token # {}
                                 /\ operator[p].active /\ operator[p].roles # {}}}

TenantChanges ==
    Grants \cup MembershipChanges \cup Delegations \cup Bindings \cup
    (IF \E t \in Tokens : token[t].state = "unused"
     THEN Issues \cup DelegatedIssues \cup Rotations ELSE {})

Begin(c) ==
    /\ pending[c] = Nothing
    /\ \E change \in IF plane = "tenant" THEN TenantChanges
                     ELSE OperatorChanges \cup OperatorIssues \cup Logins :
         pending' = [pending EXCEPT ![c] = change]
    /\ UNCHANGED <<plane, access, operation>>

\* The request fails or its process ends before the write.
Abandon(c) ==
    /\ pending[c] # Nothing
    /\ pending' = [pending EXCEPT ![c] = Nothing]
    /\ UNCHANGED <<plane, access, operation>>

-----------------------------------------------------------------------------
(* and then write *)

WriteGrant(change) ==
    /\ membership' = [membership EXCEPT ![change.on] = [roles |-> change.roles, active |-> TRUE]]
    /\ UNCHANGED <<delegation, binding, token>>

\* PostgresControlStore.update_membership
WriteMembership(change) ==
    LET p == change.on
        row == [roles |-> change.roles, active |-> change.active] IN
    /\ membership' = [membership EXCEPT ![p] = row]
    /\ IF change.active
       THEN UNCHANGED <<delegation, binding>>
       ELSE delegation' = Deactivated(delegation) /\ binding' = Deactivated(binding)
    /\ token' = Revoked({t \in Tokens :
                           (membership[p] # row /\ token[t].of = p)
                           \/ (~change.active /\ Concerns(p, token[t]))})

\* An INSERT conflicts with an existing row; an UPDATE makes it active.
WriteDelegation(change) ==
    /\ delegation' = IF (delegation # "none") = change.active THEN "active" ELSE delegation
    /\ UNCHANGED <<membership, binding, token>>

WriteBinding(change) ==
    /\ binding' = IF binding = "none" THEN "active" ELSE binding
    /\ UNCHANGED <<membership, delegation, token>>

WriteIssue(change) ==
    /\ \E t \in Tokens :
         /\ token[t].state = "unused"
         /\ token' = [token EXCEPT ![t] = Live(change.on, change.roles, change.active)]
    /\ UNCHANGED <<membership, delegation, binding>>

\* The previous token stays usable until its overlap ends.
WriteRotate(change) ==
    /\ IF Rotatable(change.on)
       THEN \E t \in Tokens :
              /\ token[t].state = "unused"
              /\ token' = [token EXCEPT ![t] = Live(token[change.on].of, change.roles,
                                                    change.active)]
       ELSE UNCHANGED token
    /\ UNCHANGED <<membership, delegation, binding>>

WriteOperator(change) ==
    LET row == [roles |-> change.roles, active |-> change.active] IN
    /\ operator' = [operator EXCEPT ![change.on] = row]
    /\ credential' = IF operator[change.on] = row THEN credential
                     ELSE [credential EXCEPT ![change.on] = NoCredential]

WriteOperatorToken(change) ==
    /\ credential' = [credential EXCEPT ![change.on].token = change.roles]
    /\ UNCHANGED operator

WriteSession(change) ==
    /\ credential' = [credential EXCEPT ![change.on].session = change.roles]
    /\ UNCHANGED operator

Commit(c) ==
    LET change == pending[c] IN
    /\ pending' = [pending EXCEPT ![c] = Nothing]
    /\ \/ /\ \/ change.kind = "grant" /\ WriteGrant(change)
             \/ change.kind = "membership" /\ WriteMembership(change)
             \/ change.kind = "delegation" /\ WriteDelegation(change)
             \/ change.kind = "binding" /\ WriteBinding(change)
             \/ change.kind = "issue" /\ WriteIssue(change)
             \/ change.kind = "rotate" /\ WriteRotate(change)
          /\ UNCHANGED <<plane, tenant, principal, operation>>
       \/ /\ \/ change.kind = "operator" /\ WriteOperator(change)
             \/ change.kind = "operator_token" /\ WriteOperatorToken(change)
             \/ change.kind = "session" /\ WriteSession(change)
          /\ UNCHANGED <<plane, access>>

-----------------------------------------------------------------------------
(* The operators' own transactions, and what happens around the store *)

\* revoke_operator_access_token, revoke_admin_session, and the end of a lifetime
EndCredential(o) ==
    /\ credential[o] # NoCredential
    /\ \/ credential' = [credential EXCEPT ![o].token = {}]
       \/ credential' = [credential EXCEPT ![o].session = {}]
    /\ UNCHANGED <<plane, access, operator, pending>>

\* A backup or a decommission suspends the Tenant, and may give it back.
FlipTenant ==
    /\ plane = "tenant"
    /\ tenant' = ~tenant
    /\ UNCHANGED <<plane, principal, membership, delegation, binding, token, operation, pending>>

\* TokenService.authenticate refuses a token past expires_at.
Expire(t) ==
    /\ token[t].state = "live"
    /\ token' = [token EXCEPT ![t] = [Unissued EXCEPT !.state = "dead"]]
    /\ UNCHANGED <<plane, tenant, principal, membership, delegation, binding, operation, pending>>

Next ==
    \/ \E c \in Clients :
         \/ Begin(c) \/ Commit(c) \/ Abandon(c)
         \/ /\ plane = "tenant"
            /\ \/ \E p \in People : \/ DisablePrincipal(c, p) \/ EnablePrincipal(c, p)
                                   \/ DisableMembership(c, p) \/ RevokeMembershipRole(c, p)
               \/ RevokeDelegation(c) \/ CloseBinding(c)
               \/ \E t \in Tokens : RevokeToken(c, t)
    \/ \E o \in Operators : EndCredential(o)
    \/ \E t \in Tokens : Expire(t)
    \/ FlipTenant

Spec == Init /\ [][Next]_vars

-----------------------------------------------------------------------------
(* Properties *)

\* A token that authenticates carries no more than its Principal holds now: the check at
\* the door, which knows nothing of the user behind a delegation, agrees with the one
\* that delayed work goes through, and the roles kept in the token are still held. An
\* operator's token and admin session, too, were issued for the roles the operator has.
AuthenticatedIsAuthorized ==
    /\ \A t \in Tokens : Authenticates(t) =>
         /\ Reauthorizes(token[t].of, token[t].delegated)
         /\ token[t].roles \subseteq membership[token[t].of].roles
    /\ \A o \in Operators : \A roles \in {credential[o].token, credential[o].session} \ {{}} :
         operator[o] = [roles |-> roles, active |-> TRUE]

\* A channel identity resolves to a session only while the agent, the user it acts for
\* and the delegation are all in order, although it reads neither Principal.
ChannelIsAuthorized == ChannelResolves /\ tenant => Reauthorizes(Agent, TRUE)

\* A token that stops being usable, other than by its Tenant's suspension, is dead for
\* good: no later grant or activation brings it back.
Usable(t) ==
    /\ token[t].state = "live" /\ InGoodStanding(token[t].of)
    /\ token[t].delegated => delegation = "active"
LockedOutStaysOut ==
    [][\A t \in Tokens : /\ Usable(t) /\ ~Usable(t)' => token'[t].state = "dead"
                         /\ token[t].state = "dead" => token'[t].state = "dead"]_vars

\* The platform never loses its last active operator_admin, whatever the operators do to
\* one another and to themselves.
FinalAdminStays == \E o \in Operators : Administers(o)
=============================================================================
