SPECIFICATION FairSpec
CONSTANTS
  Users = {u1, u2}
  GroupIds = {g1}
  Codes = {c1}
  Names = {n1}
  Requests = {r1, r2}
  Ops = {"create", "join", "changeRole", "removeMember", "leave"}
  InitialAccounts = {"user"}
  AccountChanges = {}
  GroupInviteCollisionTries = 1
  MaxVersion = 2
  None = None
INVARIANT GroupKeepsAdmin
PROPERTY ImplementsRoster
PROPERTY EveryRequestAnswered
