SPECIFICATION FairSpec
CONSTANTS
  Sessions = {s1, s2}
  Links = {l1}
  Requests = {r1, r2}
  Ops = {"signIn", "signOut", "sso", "changePassword", "adminRevoke", "adminDelete"}
  ConfirmationRequired = FALSE
  MaxVersion = 1
  None = None
PROPERTY EveryRequestAnswered
