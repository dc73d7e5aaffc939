SPECIFICATION FairSpec
CONSTANTS
  Sessions = {s1, s2}
  Codes = {c1, c2}
  Requests = {r1, r2}
  Modes = {"local", "client"}
  MaxVersion = 2
  None = None
INVARIANT TypeOK
INVARIANT OldCodeOpensNothing
PROPERTY OwnersKeepTheirs
PROPERTY AbandonedGuestsGo
