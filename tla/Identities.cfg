SPECIFICATION Spec
CONSTANTS
  Users = {u1, u2}
  Emails = {a, b}
  Subjects = {p, q}
  States = {s1}
  Browsers = {b1}
  Requests = {r1, r2}
  Modes = {"local", "client"}
  None = None
SYMMETRY Interchangeable
INVARIANT TypeOK
INVARIANT VerifiedMeansVouched
PROPERTY KeepsWayIn
PROPERTY LinkedByOwner
