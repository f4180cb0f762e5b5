CONSTANTS
  a = a
  b = b
  c = c
  Users = {a, b, c}
  Perms <- MCPerms
  CustomRoles = {"manager", "worker"}
  RolePermissions <- MCRolePermissions
  TeamMembers <- MCTeamMembers
  Organizations <- MCOrganizations
  MaxInvitations = 2
  MaxRevision = 2
  MaxEdits = 3
  NoMember = NoMember
  NoTeam = NoTeam
  NoTx = NoTx
CONSTRAINT Within
SPECIFICATION AccessSpec
INVARIANTS
  AccessInv
PROPERTIES
  NoGrantBeyondOwn
  InvitationsKeepTheirTerms
CHECK_DEADLOCK FALSE
