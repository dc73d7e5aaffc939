SPECIFICATION Spec
CONSTANTS
  Names = {mail}
  Email = mail
  Origins = {o1}
  Budgets <- MCBudgets
  Requests = {r1, r2}
  Stores = {"memory", "postgres"}
  Limit <- MCLimit
  Window = 2
  StoreTimeout = 1
  MaxKeys = 1
  MaxHits = 3
  MaxCount <- MCMaxCount
  None = None
SYMMETRY Symmetry
INVARIANT TypeOK
INVARIANT TwoWindowBound
INVARIANT LockedMeansRefused
PROPERTY SpentBudgetHolds
PROPERTY RefusedOnlyWhenSpent
