SPECIFICATION Spec
CONSTANTS
  Sids = {s1, s2}
  Flows = {f1, f2}
  Revokers = {v1}
  None = None
SYMMETRY Interchangeable
INVARIANT TypeOK
INVARIANT GrantedIsRecorded
INVARIANT RevokeReachesGranted
