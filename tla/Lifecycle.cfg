SPECIFICATION FairSpec
CONSTANTS
  Instances = {i1, i2}
  Known <- MCKnown
  Jobs = 3
  MaxFaults = 2
  None = None
INVARIANT TypeOK
INVARIANT ServesWhenFit
PROPERTY StartsUnlessOutdated
PROPERTY JobsComeRound
