SPECIFICATION Spec
CONSTANTS
  Sessions = {s1, s2}
  Links = {l1, l2}
  Requests = {r1, r2}
  Ops = {"signIn", "external", "sso", "changePassword", "forgot", "redeem", "resend", "confirm", "adminReset", "adminRevoke", "adminConfirm", "adminSend"}
  ConfirmationRequired = TRUE
  MaxVersion = 2
  None = None
SYMMETRY Symmetry
INVARIANT TypeOK
INVARIANT LinkUsedOnce
PROPERTY RevokeReachesAll
PROPERTY ReplacedPasswordVerified
PROPERTY ConfirmationKept
