SPECIFICATION Spec
CONSTANTS
  Users = {u1, u2}
  Profiles = {p1, p2}
  Requests = {r1, r2}
  MaxVersion = 3
  None = None
SYMMETRY Symmetry
INVARIANT TypeOK
INVARIANT AtLeastOneAdministrator
PROPERTY EditsKeepOtherFields
PROPERTY AuditMatchesChange
