------------------------------- MODULE Access -------------------------------
(***************************************************************************)
(* Who may do what in one organization, and who may change it: access.go,  *)
(* teams.go, identity_policy.go and SetInstallationUser of                 *)
(* installation_directory.go.                                              *)
(*                                                                         *)
(* A transaction takes its locks, checks what is committed, and commits    *)
(* later; transactions of several people overlap as far as the row locks   *)
(* let them.  A request that carries an old revision is refused and leaves *)
(* no trace here; so does one the check in front of the handler refuses,   *)
(* as the handler checks again.                                            *)
(***************************************************************************)
EXTENDS Integers, Sequences, FiniteSets

CONSTANTS
  Users,
  Perms,            \* permissions; "members", "roles" and "identity" are needed below
  CustomRoles,
  RolePermissions,  \* sets of permissions a custom role may be given
  TeamMembers,      \* sets of users a team may have
  Organizations,    \* what the model starts from
  MaxInvitations, MaxRevision,  \* bounds on invitations and role edits
  MaxEdits,         \* bound on committed transactions
  NoMember, NoTeam, NoTx

ASSUME AccessAssumption ==
  /\ {"members", "roles", "identity"} \subseteq Perms
  /\ "administrator" \notin CustomRoles
  /\ RolePermissions \subseteq SUBSET Perms /\ TeamMembers \subseteq SUBSET Users
  /\ MaxRevision \in Nat

Roles == {"administrator"} \cup CustomRoles

\* Rows of the tables.
UserRow == [known : BOOLEAN, active : BOOLEAN, global : BOOLEAN]
Membership == [role : Roles, active : BOOLEAN]
RoleRow == [perms : SUBSET Perms, revision : 1..MaxRevision]
TeamRow == [role : Roles, active : BOOLEAN, members : SUBSET Users]

ASSUME NoMemberAssumption == NoMember \notin Membership

\* Setup leaves somebody who administers the installation and the organization;
\* accounts, memberships and a team may have come since.
ASSUME OrganizationsAssumption ==
  \A o \in Organizations :
    /\ o.users \in [Users -> UserRow] /\ o.roles \in [Roles -> RoleRow]
    /\ o.members \in [Users -> Membership \cup {NoMember}]
    /\ o.team \in TeamRow \cup {NoTeam}
    /\ \A u \in Users : o.users[u].active \/ o.users[u].global \/ o.members[u] # NoMember
                          => o.users[u].known
    /\ o.team # NoTeam => \A u \in o.team.members : o.members[u] # NoMember
    /\ \E u \in Users : o.users[u].active /\ o.users[u].global
    /\ \E u \in Users : o.members[u] = [role |-> "administrator", active |-> TRUE]

VARIABLES
  users,        \* accounts: whether they exist, are active, administer the installation
  members,      \* memberships: role, and whether active
  roles,        \* permissions and revision of each role
  team,
  invitations,
  policy,       \* identity policy: enabled, and its local recovery administrators
  tx,           \* transactions that have done their checks, by the user who asked
  edits         \* transactions committed

organization == <<members, roles, team, invitations, policy>>
accessVars == <<users, members, roles, team, invitations, policy, tx, edits>>

AccessInit ==
  /\ \E o \in Organizations :
       users = o.users /\ members = o.members /\ roles = o.roles /\ team = o.team
  /\ invitations = <<>>
  /\ policy = [enabled |-> FALSE, recovery |-> {}]
  /\ tx = [u \in Users |-> NoTx]
  /\ edits = 0

-----------------------------------------------------------------------------
(* What the queries see.                                                   *)

\* The permissions somebody has through the team.
TeamGrants(u) ==
  IF team # NoTeam /\ team.active /\ u \in team.members THEN roles[team.role].perms
                                                        ELSE {}

\* The view effective_memberships.
Permissions(u) ==
  IF ~users[u].active THEN {}
  ELSE IF users[u].global THEN roles["administrator"].perms
  ELSE IF members[u] # NoMember /\ members[u].active
    THEN roles[members[u].role].perms \cup TeamGrants(u)
  ELSE {}

AdministratorIn(m, u) ==
  m[u] # NoMember /\ m[u].active /\ m[u].role = "administrator"

\* AdministratorCount, and CountEligibleRecoveryUsers.
ActiveAdministrators(m) == {u \in Users : AdministratorIn(m, u) /\ users[u].active}

Pending(u) == tx[u] # NoTx

\* Fault: the row of the organization is read without a lock.
Unlocked == TRUE

\* LockAccess: one transaction at a time changes the organization.
AccessFree == \A u \in Users : Pending(u) => tx[u].asks.op = "user"

\* accessLock.  The organization is taken to be active.
MayChange(u, permission) ==
  ~Pending(u) /\ AccessFree /\ permission \in Permissions(u)

\* The transaction has done its checks and its writes, and has yet to commit.
Prepare(u, request, held) ==
  /\ edits < MaxEdits
  /\ tx' = [tx EXCEPT ![u] =
       [asks |-> request, held |-> held, seen |-> users]]
  /\ UNCHANGED <<users, organization, edits>>

-----------------------------------------------------------------------------
(* Checks of the handlers.                                                 *)

SaveRole(u, role, perms) ==
  /\ MayChange(u, "roles") /\ role # "administrator"
  /\ perms \cup roles[role].perms \subseteq Permissions(u)
  /\ roles[role].revision < MaxRevision
  /\ Prepare(u, [op |-> "role", role |-> role, perms |-> perms], Permissions(u))

WithMember(v, role, active) == [members EXCEPT ![v] = [role |-> role, active |-> active]]

\* AdministratorCount and IdentityRecoveryMissing.
LeavesAdministrators(m) ==
  /\ ActiveAdministrators(m) # {}
  /\ policy.enabled => policy.recovery \cap ActiveAdministrators(m) # {}

\* Fault: what the member may do already is not looked at.
CoversRole(u, v, role) == roles[role].perms \subseteq Permissions(u)

Covers(u, v, role) == roles[role].perms \cup Permissions(v) \subseteq Permissions(u)

UpdateMember(u, v, role, active) ==
  /\ MayChange(u, "members") /\ members[v] # NoMember /\ Covers(u, v, role)
  /\ LeavesAdministrators(WithMember(v, role, active))
  /\ Prepare(u, [op |-> "member", target |-> v, role |-> role, active |-> active],
             Permissions(u))

MembersOnly(ids) == \A v \in ids : members[v] # NoMember

SaveTeam(u, role, active, ids) ==
  /\ MayChange(u, "members")
  /\ roles[role].perms \subseteq Permissions(u)
  /\ team # NoTeam => roles[team.role].perms \subseteq Permissions(u)
  /\ MembersOnly(ids)
  /\ Prepare(u, [op |-> "team",
                 team |-> [role |-> role, active |-> active, members |-> ids]],
             Permissions(u))

DeleteTeam(u) ==
  /\ MayChange(u, "members") /\ team # NoTeam
  /\ roles[team.role].perms \subseteq Permissions(u)
  /\ Prepare(u, [op |-> "team", team |-> NoTeam], Permissions(u))

CreateInvitation(u, v, role) ==
  /\ MayChange(u, "members")
  /\ roles[role].perms \subseteq Permissions(u)
  /\ Cardinality(DOMAIN invitations) < MaxInvitations
  /\ Prepare(u, [op |-> "invite", user |-> v, role |-> role], Permissions(u))

RevokeInvitation(u, i) ==
  /\ MayChange(u, "members") /\ invitations[i].status \in {"open", "expired"}
  /\ Prepare(u, [op |-> "settle", invitation |-> i, status |-> "revoked"], Permissions(u))

\* Fault: the role may have been edited since.
RoleExists(i) == invitations[i].role \in Roles

RoleUnchanged(i) == roles[invitations[i].role].revision = invitations[i].revision

\* invitation(): still open, of the role it was made for, by somebody who may.
Valid(i) ==
  LET own == Permissions(invitations[i].inviter) IN
  /\ invitations[i].status = "open" /\ RoleUnchanged(i)
  /\ "members" \in own /\ roles[invitations[i].role].perms \subseteq own

\* By somebody who has no account yet, or is signed in to it.
AcceptInvitation(u, i) ==
  /\ ~Pending(u) /\ AccessFree
  /\ invitations[i].user = u /\ Valid(i)
  /\ users[u].known => users[u].active
  /\ members[u] = NoMember
  /\ Prepare(u, [op |-> "settle", invitation |-> i, status |-> "accepted"],
             Permissions(invitations[i].inviter))

SaveIdentityPolicy(u, enabled, recovery) ==
  /\ MayChange(u, "identity")
  /\ IF enabled THEN recovery # {} /\ recovery \subseteq ActiveAdministrators(members)
                ELSE recovery = {}
  /\ Prepare(u, [op |-> "policy", policy |-> [enabled |-> enabled, recovery |-> recovery]],
             Permissions(u))

-----------------------------------------------------------------------------
(* SetInstallationUser: the row of the caller is locked, then the target's. *)

Holds(w, v) ==
  Pending(w) /\ tx[w].asks.op = "user" /\ (w = v \/ (tx[w].asks.updated /\ tx[w].asks.target = v))

RowFree(v, u) == \A w \in Users \ {u} : ~Holds(w, v)

CallerLocked(u) == RowFree(u, u)

LockCaller(u, v, active, global) ==
  /\ ~Pending(u) /\ u # v /\ users[v].known
  /\ CallerLocked(u) /\ users[u].active /\ users[u].global
  /\ Prepare(u, [op |-> "user", target |-> v, active |-> active, global |-> global,
                 updated |-> FALSE], Permissions(u))

UpdateTarget(u) ==
  /\ Pending(u) /\ tx[u].asks.op = "user" /\ ~tx[u].asks.updated
  /\ RowFree(tx[u].asks.target, u)
  /\ tx' = [tx EXCEPT ![u].asks.updated = TRUE]
  /\ UNCHANGED <<users, organization, edits>>

-----------------------------------------------------------------------------
(* Ends of transactions.                                                   *)

Ends(u) == tx' = [tx EXCEPT ![u] = NoTx] /\ edits' = edits + 1

Prepared(u, op) == Pending(u) /\ tx[u].asks.op = op

CommitRole(u) ==
  /\ Prepared(u, "role") /\ Ends(u)
  /\ roles' = [roles EXCEPT ![tx[u].asks.role] =
       [perms |-> tx[u].asks.perms, revision |-> @.revision + 1]]
  /\ UNCHANGED <<users, members, team, invitations, policy>>

CommitMember(u) ==
  /\ Prepared(u, "member") /\ Ends(u)
  /\ members' = WithMember(tx[u].asks.target, tx[u].asks.role, tx[u].asks.active)
  /\ UNCHANGED <<users, roles, team, invitations, policy>>

CommitTeam(u) ==
  /\ Prepared(u, "team") /\ Ends(u)
  /\ team' = tx[u].asks.team
  /\ UNCHANGED <<users, members, roles, invitations, policy>>

\* The inviter and what the role grants are kept with the invitation; the
\* latter only for the properties.
CommitInvitation(u) ==
  LET role == tx[u].asks.role IN
  /\ Prepared(u, "invite") /\ Ends(u)
  /\ invitations' = Append(invitations,
       [user |-> tx[u].asks.user, role |-> role, revision |-> roles[role].revision,
        inviter |-> u, perms |-> roles[role].perms, status |-> "open"])
  /\ UNCHANGED <<users, members, roles, team, policy>>

CommitSettled(u) ==
  LET i == tx[u].asks.invitation
      accepted == tx[u].asks.status = "accepted"
  IN
  /\ Prepared(u, "settle") /\ Ends(u)
  /\ invitations' = [invitations EXCEPT ![i].status = tx[u].asks.status]
  /\ members' = IF accepted THEN WithMember(u, invitations[i].role, TRUE) ELSE members
  /\ users' = IF accepted /\ ~users[u].known
       THEN [users EXCEPT ![u].known = TRUE, ![u].active = TRUE] ELSE users
  /\ UNCHANGED <<roles, team, policy>>

CommitPolicy(u) ==
  /\ Prepared(u, "policy") /\ Ends(u)
  /\ policy' = tx[u].asks.policy
  /\ UNCHANGED <<users, members, roles, team, invitations>>

CommitUser(u) ==
  /\ Prepared(u, "user") /\ tx[u].asks.updated /\ Ends(u)
  /\ users' = [users EXCEPT ![tx[u].asks.target].active = tx[u].asks.active,
                            ![tx[u].asks.target].global = tx[u].asks.global]
  /\ UNCHANGED organization

\* An error, a lost connection, or the database breaks a deadlock.
Rollback(u) ==
  /\ Pending(u)
  /\ tx' = [tx EXCEPT ![u] = NoTx]
  /\ UNCHANGED <<users, organization, edits>>

InvitationExpires(i) ==
  /\ invitations[i].status = "open"
  /\ \A u \in Users : ~(Prepared(u, "settle") /\ tx[u].asks.invitation = i)
  /\ invitations' = [invitations EXCEPT ![i].status = "expired"]
  /\ UNCHANGED <<users, members, roles, team, policy, tx, edits>>

Request(u) ==
  \/ \E role \in CustomRoles, perms \in RolePermissions : SaveRole(u, role, perms)
  \/ \E v \in Users, role \in Roles, b \in BOOLEAN : UpdateMember(u, v, role, b)
  \/ \E role \in Roles, b \in BOOLEAN, ids \in TeamMembers : SaveTeam(u, role, b, ids)
  \/ DeleteTeam(u)
  \/ \E v \in Users, role \in Roles : CreateInvitation(u, v, role)
  \/ \E i \in DOMAIN invitations : RevokeInvitation(u, i) \/ AcceptInvitation(u, i)
  \/ \E b \in BOOLEAN, ids \in SUBSET Users : SaveIdentityPolicy(u, b, ids)
  \/ \E v \in Users, b, c \in BOOLEAN : LockCaller(u, v, b, c)
  \/ UpdateTarget(u)

CommitAny(u) ==
  \/ CommitRole(u) \/ CommitMember(u) \/ CommitTeam(u) \/ CommitInvitation(u)
  \/ CommitSettled(u) \/ CommitPolicy(u) \/ CommitUser(u)

AccessNext ==
  \/ \E u \in Users : Request(u) \/ CommitAny(u) \/ Rollback(u)
  \/ \E i \in DOMAIN invitations : InvitationExpires(i)

AccessSpec == AccessInit /\ [][AccessNext]_accessVars

-----------------------------------------------------------------------------
(***************************************************************************)
(* Properties.                                                             *)
(***************************************************************************)

\* Type invariant of the tables.
AccessTypeOK ==
  /\ users \in [Users -> UserRow]
  /\ \A u \in Users : users[u].active \/ users[u].global => users[u].known
  /\ members \in [Users -> Membership \cup {NoMember}]
  /\ \A u \in Users : members[u] # NoMember => users[u].known
  /\ roles \in [Roles -> RoleRow]
  /\ team \in TeamRow \cup {NoTeam}
  /\ team # NoTeam => \A u \in team.members : members[u] # NoMember
  /\ \A i \in DOMAIN invitations :
       invitations[i].status \in {"open", "accepted", "revoked", "expired"}
  /\ policy \in [enabled : BOOLEAN, recovery : SUBSET Users]

\* However the changes of several people overlap, somebody active administers the
\* installation: two administrators cannot disable each other.
InstallationAdministered == \E u \in Users : users[u].active /\ users[u].global

\* The organization keeps an active administrator's membership, and one that is
\* named for local recovery while its identity policy is enforced.
AdministratorStays ==
  /\ \E u \in Users : AdministratorIn(members, u)
  /\ policy.enabled => \E u \in policy.recovery : AdministratorIn(members, u)

\* Types, and neither installation administrators who change each other leave the
\* installation without one, nor members, roles and the identity policy the
\* organization without an active membership that administers it.  Its account
\* may still be disabled: SetInstallationUser does not ask what organizations need.
AccessInv == AccessTypeOK /\ InstallationAdministered /\ AdministratorStays

\* Nobody grants or takes away a permission beyond their own, whoever holds it and
\* through whatever role or team; an accepted invitation grants none beyond its
\* inviter's.  Left out: accounts an installation administrator changes meanwhile,
\* and the team a member belonged to all along when the membership is made active.
NoGrantBeyondOwn ==
  [][\A u, v \in Users :
       (Pending(u) /\ tx[u].asks.op # "user" /\ edits' > edits /\ tx'[u] = NoTx
          /\ (tx[u].seen[v] = users[v] \/ ~users[v].known))
       => LET gained == Permissions(v)' \ Permissions(v)
              taken == Permissions(v) \ Permissions(v)'
              kept == IF tx[u].asks.op = "member" THEN TeamGrants(v) ELSE {}
          IN (gained \ kept) \cup taken \subseteq tx[u].held]_accessVars

\* An invitation is accepted or revoked once, accepted only in time, and who accepts
\* it gets exactly what its role granted when it was made.
InvitationsKeepTheirTerms ==
  [][\A i \in DOMAIN invitations :
       invitations'[i].status # invitations[i].status =>
         /\ invitations[i].status \in {"open", "expired"}
         /\ invitations'[i].status = "accepted" =>
              LET v == invitations[i].user IN
              /\ invitations[i].status = "open"
              /\ members[v] = NoMember /\ members'[v] # NoMember
              /\ roles[members'[v].role].perms = invitations[i].perms]_accessVars
=============================================================================
