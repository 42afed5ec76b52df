CONSTANTS
  k1 = k1
  k2 = k2
  s1 = s1
  s2 = s2
  none = none
  list = list
  None = None
  Keys = {k1, k2}
  Servers = {s1, s2}
  ServerOf <- MCServerOf
  Lists <- MCLists
  NoExclusions = none
  TestExcluded = {list}
  Requests = {}
  Tests = {}
  Commands <- SaveOnly
  Contested <- ProxyInIncognito
  IncognitoAllowed = TRUE
  Connected = k1
  Budget <- RollbackBudget
SPECIFICATION Spec
INVARIANTS
  IncognitoConflictCleared
CHECK_DEADLOCK FALSE
