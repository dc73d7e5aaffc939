SPECIFICATION Spec
CONSTANTS
  Users = {u1, u2}
  GroupIds = {g1}
  Codes = {c1}
  Names = {n1}
  Requests = {r1, r2}
  Ops = {"create", "join", "changeRole", "removeMember", "leave"}
  InitialAccounts = {"user", "admin"}
  AccountChanges = {"delete"}
  GroupInviteCollisionTries = 1
  MaxVersion = 1
  None = None
SYMMETRY Symmetry
INVARIANT GroupKeepsAdmin
