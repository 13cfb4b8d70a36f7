---------------------------- MODULE Membership ----------------------------
(***************************************************************************)
(* The members of one project, their roles, the invitations that make new  *)
(* members, and the audit log: app/workspace_service.py, the invitations   *)
(* of app/auth_service.py and app/audit_service.py.                        *)
(*                                                                         *)
(* Every operation is one IMMEDIATE transaction; a refused change of the   *)
(* members is put in the audit log by a second transaction of its own.     *)
(***************************************************************************)
EXTENDS Naturals, Sequences, FiniteSets, Permissions

CONSTANTS
    User,               \* people, who may sign up; each has an e-mail address
    WorkspaceOwner,     \* the owner of the project's workspace
    GrantedRole,        \* roles that requests name
    MaxAudit,           \* bound on the audit log
    MaxInvitations,     \* bound on the invitations
    MaxRefusing         \* bound on the audit log while requests are refused

ASSUME MembershipAssumption ==
    /\ WorkspaceOwner \in User
    /\ GrantedRole \subseteq Role
    /\ MaxAudit \in Nat /\ MaxInvitations \in Nat /\ MaxRefusing \in Nat

VARIABLES
    accounts,       \* users
    roles,          \* project_members: the role of each member; no member, no project
    invitations,    \* project_invitations, by number
    audit,          \* audit_log of the project
    refused         \* refusals that are still to be recorded

memberVars == <<accounts, roles, invitations, audit, refused>>

MemberInit ==
    /\ accounts = {WorkspaceOwner}
    /\ roles = << >>
    /\ invitations = << >>
    /\ audit = << >>
    /\ refused = {}

Members == DOMAIN roles

Owners(members) == { u \in DOMAIN members : members[u] = "owner" }

\* require_project_permission
MayDo(actor, permission) ==
    actor \in Members /\ HasPermission(roles[actor], permission)

-----------------------------------------------------------------------------
(* What an entry of the audit log says, and its effect on the members      *)

Entry(action, actor, target, role, outcome) ==
    [ action |-> action, actor |-> actor, target |-> target, role |-> role,
      invitation |-> 0, outcome |-> outcome ]

AcceptEntry(actor, i) ==
    [ Entry("accept", actor, actor, invitations[i].role, "success") EXCEPT !.invitation = i ]

WithRole(members, user, role) ==
    [ u \in DOMAIN members \cup {user} |-> IF u = user THEN role ELSE members[u] ]

Without(members, user) == [ u \in DOMAIN members \ {user} |-> members[u] ]

AfterEntry(members, entry) ==
    CASE entry.outcome = "failure" \/ entry.action = "invite" -> members
      [] entry.outcome = "success" /\ entry.action = "remove" -> Without(members, entry.target)
      [] OTHER -> WithRole(members, entry.target, entry.role)

\* The change is made and recorded in one transaction.
Commit(entry) ==
    /\ Len(audit) < MaxAudit
    /\ roles' = AfterEntry(roles, entry)
    /\ audit' = Append(audit, entry)

-----------------------------------------------------------------------------
(* Operations                                                              *)

\* create_user; a second account with the same address is refused.
CreateUser(user) ==
    /\ user \notin accounts
    /\ accounts' = accounts \cup {user}
    /\ UNCHANGED <<roles, invitations, audit, refused>>

\* create_project, by the owner of the workspace.
CreateProject ==
    /\ Members = {}
    /\ roles' = WithRole(roles, WorkspaceOwner, "owner")
    /\ UNCHANGED <<accounts, invitations, audit, refused>>

\* A mutant: an owner can be demoted when any other member is left.
KeepsAMember(user, role) == roles[user] # "owner" \/ role = "owner" \/ Cardinality(Members) > 1

\* _ensure_not_last_owner_change, and the triggers trg_project_members_keep_owner_*.
NotLastOwnerChange(user, role) ==
    roles[user] # "owner" \/ role = "owner" \/ Cardinality(Owners(roles)) > 1

\* What the handlers of the three changes check.
CanAdd(actor, user) ==
    MayDo(actor, "member:manage") /\ user \in accounts \ Members

CanChange(actor, user, role) ==
    MayDo(actor, "member:manage") /\ user \in Members /\ NotLastOwnerChange(user, role)

\* add_project_member
AddProjectMember(actor, user, role) ==
    /\ CanAdd(actor, user)
    /\ Commit(Entry("add", actor, user, role, "success"))
    /\ UNCHANGED <<accounts, invitations, refused>>

\* update_project_member
UpdateProjectMember(actor, user, role) ==
    /\ CanChange(actor, user, role)
    /\ Commit(Entry("update", actor, user, role, "success"))
    /\ UNCHANGED <<accounts, invitations, refused>>

\* remove_project_member; members may remove themselves if they manage members.
RemoveProjectMember(actor, user) ==
    /\ CanChange(actor, user, "none")
    /\ Commit(Entry("remove", actor, user, "none", "success"))
    /\ UNCHANGED <<accounts, invitations, refused>>

\* The transaction of one of the three is rolled back; the refusal is still to be
\* recorded.
RefuseMemberChange(actor, user) ==
    /\ Members # {}
    /\ Len(audit) + Cardinality(refused) < MaxRefusing
    /\ \/ /\ ~CanAdd(actor, user)
          /\ \E role \in GrantedRole :
                refused' = refused \cup {Entry("add", actor, user, role, "failure")}
       \/ \E role \in GrantedRole :
            /\ ~CanChange(actor, user, role)
            /\ refused' = refused \cup {Entry("update", actor, user, role, "failure")}
       \/ /\ ~CanChange(actor, user, "none")
          /\ refused' = refused \cup {Entry("remove", actor, user, "none", "failure")}
    /\ UNCHANGED <<accounts, roles, invitations, audit>>

\* _record_project_member_audit_failure
RecordFailure ==
    /\ \E entry \in refused : Commit(entry) /\ refused' = refused \ {entry}
    /\ UNCHANGED <<accounts, invitations>>

\* create_project_invitation, to the address of somebody who may have no account.
CreateInvitation(actor, user, role) ==
    /\ MayDo(actor, "member:manage")
    /\ Len(invitations) < MaxInvitations
    /\ invitations' = Append(invitations, [email |-> user, role |-> role, status |-> "pending"])
    /\ Commit([Entry("invite", actor, user, role, "success")
                 EXCEPT !.invitation = Len(invitations) + 1])
    /\ UNCHANGED <<accounts, refused>>

\* A mutant: an invitation is not consumed.
AcceptInvitationAgain(user, i) ==
    /\ user \in accounts
    /\ invitations[i].email = user /\ invitations[i].status = "pending"
    /\ IF user \in Members THEN UNCHANGED <<roles, audit>> ELSE Commit(AcceptEntry(user, i))
    /\ UNCHANGED <<accounts, invitations, refused>>

\* accept_project_invitation: a member keeps the role; the invitation is consumed.
AcceptInvitation(user, i) ==
    /\ user \in accounts
    /\ invitations[i].email = user /\ invitations[i].status = "pending"
    /\ IF user \in Members THEN UNCHANGED <<roles, audit>> ELSE Commit(AcceptEntry(user, i))
    /\ invitations' = [invitations EXCEPT ![i].status = "accepted"]
    /\ UNCHANGED <<accounts, refused>>

\* expires_at passes.
ExpireInvitation(i) ==
    /\ invitations[i].status = "pending"
    /\ invitations' = [invitations EXCEPT ![i].status = "expired"]
    /\ UNCHANGED <<accounts, roles, audit, refused>>

MemberNext ==
    \/ CreateProject
    \/ RecordFailure
    \/ \E user \in User :
        \/ CreateUser(user)
        \/ \E i \in DOMAIN invitations : AcceptInvitation(user, i)
    \/ \E i \in DOMAIN invitations : ExpireInvitation(i)
    \/ \E actor \in accounts, user \in User :
        \/ RemoveProjectMember(actor, user)
        \/ RefuseMemberChange(actor, user)
        \/ \E role \in GrantedRole :
            \/ AddProjectMember(actor, user, role)
            \/ UpdateProjectMember(actor, user, role)
            \/ CreateInvitation(actor, user, role)

MemberSpec == MemberInit /\ [][MemberNext]_memberVars

-----------------------------------------------------------------------------
(* Properties                                                              *)

MemberTypeOK ==
    /\ accounts \subseteq User
    /\ Members \subseteq accounts
    /\ \A u \in Members : roles[u] \in Role
    /\ WorkspaceOwner \in accounts
    /\ DOMAIN invitations = 1..Len(invitations)
    /\ \A i \in DOMAIN invitations : invitations[i].email \in User /\ invitations[i].role \in Role

\* A project always has an owner: whatever its owners and admins do to each other, and
\* whoever leaves.
KeepsAnOwner == Members # {} => Owners(roles) # {}

\* The members and their roles after the first n entries of the audit log.
RolesAfter(n) ==
    LET after[i \in 0..n] ==
            IF i = 0 THEN WithRole(<< >>, WorkspaceOwner, "owner")
            ELSE AfterEntry(after[i - 1], audit[i])
    IN  after[n]

\* The audit log tells who has which role: nobody gets, loses or changes one without an
\* entry, and no refusal does.
AuditTellsRoles == Members # {} => RolesAfter(Len(audit)) = roles

\* Every change in the audit log was made by somebody who, by the log, managed the
\* members at the time; or it is an invitation's, made by such a person, and its first use.
AuditIsAuthorised ==
    \A n \in { i \in DOMAIN audit : audit[i].outcome = "success" } :
        LET entry == audit[n]
            before == RolesAfter(n - 1)
            accepting == { i \in 1..(n - 1) : audit[i].action = "accept"
                                              /\ audit[i].invitation = entry.invitation }
        IN  IF entry.action = "accept"
            THEN /\ accepting = {}
                 /\ \E i \in 1..(n - 1) : audit[i] = [audit[i] EXCEPT
                        !.action = "invite", !.target = entry.actor, !.role = entry.role,
                        !.invitation = entry.invitation, !.outcome = "success"]
            ELSE /\ entry.actor \in DOMAIN before
                 /\ HasPermission(before[entry.actor], "member:manage")

\* The audit log is true, and shows nobody making a change that was not theirs to make.
AuditIsTrue == AuditTellsRoles /\ AuditIsAuthorised
=============================================================================
