SPECIFICATION Spec
CONSTANTS
  Users = {u1, u2}
  GroupIds = {g1, g2}
  Codes = {c1, c2}
  Names = {n1, n2}
  Requests = {r1, r2}
  Ops = {"create", "rename", "rotate", "removeMember", "join"}
  InitialAccounts = {"guest", "user", "admin"}
  AccountChanges = {"grant", "delete"}
  GroupInviteCollisionTries = 2
  MaxVersion = 1
  None = None
SYMMETRY Symmetry
INVARIANT TypeOK
PROPERTY OneFieldPerEdit
PROPERTY SiteAdminWritesAudited
