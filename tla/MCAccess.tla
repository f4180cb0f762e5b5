------------------------------ MODULE MCAccess ------------------------------
(* Three people: two administrators, of the organization and the installation; *)
(* or an administrator, a manager with little authority, and somebody else.    *)
EXTENDS Access
CONSTANTS a, b, c

MCPerms == {"members", "roles", "identity", "work"}
MCRolePermissions == {{"members"}, {"work"}, {"members", "work"}}
MCTeamMembers == {{}, {c}, {b, c}}

MCRoles ==
  [administrator |-> [perms |-> MCPerms, revision |-> 1],
   manager |-> [perms |-> {"members"}, revision |-> 1],
   worker |-> [perms |-> {"work"}, revision |-> 1]]

Account(global) == [known |-> TRUE, active |-> TRUE, global |-> global]
Nobody == [known |-> FALSE, active |-> FALSE, global |-> FALSE]
As(role) == [role |-> role, active |-> TRUE]

\* Two administrators, and somebody to be invited.
Peers ==
  [users |-> [u \in Users |-> IF u = c THEN Nobody ELSE Account(TRUE)],
   members |-> [u \in Users |-> IF u = c THEN NoMember ELSE As("administrator")],
   roles |-> MCRoles, team |-> NoTeam]

\* An administrator, a manager, and a worker in a team.
Delegated ==
  [users |-> [u \in Users |-> Account(u = a)],
   members |-> [u \in Users |-> IF u = a THEN As("administrator")
                                ELSE IF u = b THEN As("manager") ELSE As("worker")],
   roles |-> MCRoles,
   team |-> [role |-> "worker", active |-> TRUE, members |-> {c}]]

MCOrganizations == {Peers, Delegated}

Doing(ops) == \A u \in Users : Pending(u) => tx[u].asks.op \in ops
Overlap == Cardinality({u \in Users : Pending(u)})

\* One person at a time: an invitation, and the roles and members it depends on.
Inviting ==
  /\ Overlap <= 1 /\ Doing({"role", "member", "invite", "settle"})
  /\ team = NoTeam /\ policy.recovery = {} /\ Len(invitations) = 1

\* Two at a time: members and accounts, under an identity policy or none.
Enforcing ==
  /\ Overlap <= 2 /\ Doing({"member", "policy", "user"})
  /\ invitations = <<>> /\ team = NoTeam
  /\ \A role \in Roles : roles[role].revision = 1

\* Everything with two edits; three in these two kinds of stories.
Within ==
  \/ edits <= 1 /\ Overlap <= 2
  \/ edits = 2 /\ Overlap = 0
  \/ Inviting \/ Enforcing
=============================================================================
