--------------------------- MODULE AccessControl ---------------------------
(***************************************************************************)
(* src/access_control.rs: roles with expiry, permissions, a role           *)
(* hierarchy, delegation, the emergency mode, and proposals that several   *)
(* signers approve and anyone executes after a time lock.  Ledger sequence *)
(* and timestamp advance together, as now.                                 *)
(***************************************************************************)
EXTENDS Naturals, FiniteSets, Sequences, Functions, TLC

CONSTANTS Account, Role, Action,
          Expiry,          \* expiries that are asked for; 0 stands for none
          Batch,           \* batches of grantees, of at most BatchGrantLimit
          BatchGrantLimit,
          TemplateGrants,  \* the permissions of init_role_templates
          TemplateParent,  \* its hierarchy
          Switch,          \* values passed to the setters of a flag
          SignerLists, Required, Timelock,  \* settings of the multisig
          Operations,      \* operations that are proposed
          MaxProposals, MaxTime   \* bounds

VARIABLES now,
          admin,          \* the set of the admin, empty before init_roles
          members,        \* RoleMember: <<role, account>> -> expiry
          permissions,    \* RolePermission
          knownRoles,
          parent,         \* RoleParent
          delegations,    \* RoleDelegation: <<role, account>> -> delegator, expiry
          emergency,      \* EmergencyMode, and the roles that count in it
          multisig,       \* MultiSigConfig and AdminSigners; empty before init_multisig
          proposals,      \* Proposal
          approvals       \* ProposalApproval: who approved each proposal

roleVars == <<admin, members, permissions, knownRoles, parent, delegations, emergency>>
signerVars == <<multisig, proposals, approvals>>

AccessInit ==
  /\ now = 0
  /\ admin = {}
  /\ members = << >> /\ permissions = {} /\ knownRoles = {}
  /\ parent = << >> /\ delegations = << >>
  /\ emergency = [mode |-> FALSE, roles |-> {}]
  /\ multisig = {} /\ proposals = << >> /\ approvals = << >>

Without(f, keys) == Restrict(f, DOMAIN f \ keys)
InForce(expiry) == expiry = 0 \/ now < expiry

\* has_role: a record decides, even an expired one; a delegation counts only
\* where there is no record.
HasRole(r, a) ==
  IF <<r, a>> \in DOMAIN members THEN InForce(members[<<r, a>>])
  ELSE <<r, a>> \in DOMAIN delegations /\ now < delegations[<<r, a>>].expiry

\* init_roles, once
InitRoles(a) ==
  /\ admin = {}
  /\ admin' = {a}
  /\ knownRoles' = knownRoles \cup {"admin", "nomad", "indexer"}
  /\ members' = (<<"admin", a>> :> 0) @@ members
  /\ UNCHANGED <<now, permissions, parent, delegations, emergency, signerVars>>

\* grant_role_batch
GrantRoleBatch(caller, r, grantees, expiry) ==
  /\ caller \in admin
  /\ Cardinality(grantees) <= BatchGrantLimit
  /\ InForce(expiry)
  /\ knownRoles' = knownRoles \cup {r}
  /\ members' = [k \in {r} \X grantees |-> expiry] @@ members
  /\ UNCHANGED <<now, admin, permissions, parent, delegations, emergency, signerVars>>

GrantRole(caller, r, a, expiry) == GrantRoleBatch(caller, r, {a}, expiry)

\* revoke_role
RevokeRole(caller, r, a) ==
  /\ caller \in admin
  /\ members' = Without(members, {<<r, a>>})
  /\ UNCHANGED <<now, admin, permissions, knownRoles, parent, delegations, emergency, signerVars>>

\* grant_permission, revoke_permission
SetPermission(caller, r, action, granted) ==
  /\ caller \in admin
  /\ permissions' = IF granted THEN permissions \cup {<<r, action>>} ELSE permissions \ {<<r, action>>}
  /\ UNCHANGED <<now, admin, members, knownRoles, parent, delegations, emergency, signerVars>>

\* transfer_admin: revoke_role, grant_role, then the new admin is stored.
TransferAdmin(caller, a) ==
  /\ caller \in admin
  /\ members' = (<<"admin", a>> :> 0) @@ Without(members, {<<"admin", caller>>})
  /\ knownRoles' = knownRoles \cup {"admin"}
  /\ admin' = {a}
  /\ UNCHANGED <<now, permissions, parent, delegations, emergency, signerVars>>

\* set_role_parent
SetRoleParent(caller, r, p) ==
  /\ caller \in admin
  /\ r # p
  /\ knownRoles' = knownRoles \cup {r, p}
  /\ parent' = (r :> p) @@ parent
  /\ UNCHANGED <<now, admin, members, permissions, delegations, emergency, signerVars>>

\* set_emergency_mode, set_emergency_role
SetEmergencyMode(caller, enabled) ==
  /\ caller \in admin
  /\ emergency' = [emergency EXCEPT !.mode = enabled]
  /\ UNCHANGED <<now, admin, members, permissions, knownRoles, parent, delegations, signerVars>>

SetEmergencyRole(caller, r, counts) ==
  /\ caller \in admin
  /\ knownRoles' = knownRoles \cup {r}
  /\ emergency' = [emergency EXCEPT !.roles = IF counts THEN @ \cup {r} ELSE @ \ {r}]
  /\ UNCHANGED <<now, admin, members, permissions, parent, delegations, signerVars>>

\* delegate_role: the role may itself be held by delegation; one record per
\* delegatee and role.
DelegateRole(a, b, r, expiry) ==
  /\ HasRole(r, a)
  /\ expiry > now
  /\ delegations' = (<<r, b>> :> [delegator |-> a, expiry |-> expiry]) @@ delegations
  /\ UNCHANGED <<now, admin, members, permissions, knownRoles, parent, emergency, signerVars>>

\* revoke_delegation: of anyone, by anyone.
RevokeDelegation(r, b) ==
  /\ <<r, b>> \in DOMAIN delegations
  /\ delegations' = Without(delegations, {<<r, b>>})
  /\ UNCHANGED <<now, admin, members, permissions, knownRoles, parent, emergency, signerVars>>

\* init_role_templates
InitRoleTemplates(caller) ==
  /\ caller \in admin
  /\ knownRoles' = knownRoles \cup {"readonly", "operator", "admin"}
  /\ permissions' = permissions \cup TemplateGrants
  /\ parent' = TemplateParent @@ parent
  /\ UNCHANGED <<now, admin, members, delegations, emergency, signerVars>>
-----------------------------------------------------------------------------
\* init_multisig: may be repeated; pending proposals and their approvals stay.
InitMultisig(caller, signers, required, timelock) ==
  /\ caller \in admin
  /\ required > 0 /\ required <= Len(signers)
  /\ multisig' = {[required |-> required, timelock |-> timelock, enabled |-> TRUE, signers |-> signers]}
  /\ UNCHANGED <<now, roleVars, proposals, approvals>>

\* create_proposal, approved by the proposer
CreateProposal(a, operation) ==
  \E m \in multisig :
    /\ m.enabled
    /\ a \in Range(m.signers)
    /\ Len(proposals) < MaxProposals
    /\ proposals' = Append(proposals, [proposer |-> a, operation |-> operation, execution_time |-> now + m.timelock,
                                       executed |-> FALSE, approval_count |-> 1])
    /\ approvals' = Append(approvals, {a})
    /\ UNCHANGED <<now, roleVars, multisig>>

\* Mutant: an approval may be repeated.
ApproveProposalAgain(a, id) ==
  \E m \in multisig :
    /\ a \in Range(m.signers)
    /\ ~proposals[id].executed
    /\ approvals' = [approvals EXCEPT ![id] = @ \cup {a}]
    /\ proposals' = [proposals EXCEPT ![id].approval_count = @ + 1]
    /\ UNCHANGED <<now, roleVars, multisig>>

\* approve_proposal
ApproveProposal(a, id) ==
  \E m \in multisig :
    /\ a \in Range(m.signers)
    /\ ~proposals[id].executed
    /\ a \notin approvals[id]
    /\ approvals' = [approvals EXCEPT ![id] = @ \cup {a}]
    /\ proposals' = [proposals EXCEPT ![id].approval_count = @ + 1]
    /\ UNCHANGED <<now, roleVars, multisig>>

\* The operation of a proposal: the admin role is taken from its proposer, who
\* need not be the admin, and a new configuration keeps the signers.
Apply(p) ==
  LET o == p.operation
  IN  \/ /\ o.kind = "GrantRole"
         /\ members' = (<<o.role, o.account>> :> o.expiry) @@ members
         /\ knownRoles' = knownRoles \cup {o.role}
         /\ UNCHANGED <<admin, permissions, multisig>>
      \/ /\ o.kind = "RevokeRole"
         /\ members' = Without(members, {<<o.role, o.account>>})
         /\ UNCHANGED <<admin, permissions, knownRoles, multisig>>
      \/ /\ o.kind = "GrantPermission"
         /\ permissions' = permissions \cup {<<o.role, o.action>>}
         /\ UNCHANGED <<admin, members, knownRoles, multisig>>
      \/ /\ o.kind = "RevokePermission"
         /\ permissions' = permissions \ {<<o.role, o.action>>}
         /\ UNCHANGED <<admin, members, knownRoles, multisig>>
      \/ /\ o.kind = "TransferAdmin"
         /\ admin' = {o.account}
         /\ members' = (<<"admin", o.account>> :> 0) @@ Without(members, {<<"admin", p.proposer>>})
         /\ UNCHANGED <<permissions, knownRoles, multisig>>
      \/ /\ o.kind = "UpdateMultiSig"
         /\ multisig' = {[o.config EXCEPT !.signers = m.signers] : m \in multisig}
         /\ UNCHANGED <<admin, members, permissions, knownRoles>>

\* execute_proposal, by anyone
ExecuteProposal(id) ==
  \E m \in multisig :
    /\ ~proposals[id].executed
    /\ proposals[id].approval_count >= m.required
    /\ now >= proposals[id].execution_time
    /\ Apply(proposals[id])
    /\ proposals' = [proposals EXCEPT ![id].executed = TRUE]
    /\ UNCHANGED <<now, approvals, parent, delegations, emergency>>

AccessTick == now < MaxTime /\ now' = now + 1 /\ UNCHANGED <<roleVars, signerVars>>

AccessNext ==
  \/ \E a \in Account :
       \/ InitRoles(a) \/ InitRoleTemplates(a)
       \/ \E b \in Account : TransferAdmin(a, b)
       \/ \E r \in Role :
            \/ \E grantees \in Batch, e \in Expiry : GrantRoleBatch(a, r, grantees, e)
            \/ \E b \in Account :
                 RevokeRole(a, r, b) \/ \E e \in Expiry : GrantRole(a, r, b, e) \/ DelegateRole(a, b, r, e)
            \/ \E action \in Action, granted \in Switch : SetPermission(a, r, action, granted)
            \/ \E p \in Role : SetRoleParent(a, r, p)
            \/ \E counts \in Switch : SetEmergencyRole(a, r, counts)
       \/ \E enabled \in Switch : SetEmergencyMode(a, enabled)
       \/ \E signers \in SignerLists, n \in Required, t \in Timelock : InitMultisig(a, signers, n, t)
       \/ \E o \in Operations : CreateProposal(a, o)
       \/ \E id \in DOMAIN proposals : ApproveProposal(a, id)
  \/ \E r \in Role, b \in Account : RevokeDelegation(r, b)
  \/ \E id \in DOMAIN proposals : ExecuteProposal(id)
  \/ AccessTick

AccessSpec == AccessInit /\ [][AccessNext]_<<now, roleVars, signerVars>>
-----------------------------------------------------------------------------
\* Type invariant.
AccessTypeOK ==
  /\ now \in 0 .. MaxTime
  /\ Cardinality(admin) <= 1 /\ admin \subseteq Account
  /\ Cardinality(multisig) <= 1
  /\ Len(proposals) = Len(approvals)

\* grant_role, delegate_role, execute_proposal: check_permission looks only at
\* the known roles, so every role that anyone holds, by record or by
\* delegation, is one of them.
HeldRolesAreKnown == \A k \in DOMAIN members \cup DOMAIN delegations : k[1] \in knownRoles

\* create_proposal, approve_proposal, execute_proposal: the count that is
\* compared with the threshold is that of distinct signers, however often the
\* signers change, and what was executed had waited.
ApprovalsCounted ==
  \A id \in DOMAIN proposals :
    /\ proposals[id].approval_count = Cardinality(approvals[id])
    /\ proposals[id].proposer \in approvals[id]
    /\ proposals[id].executed => now >= proposals[id].execution_time
=============================================================================
