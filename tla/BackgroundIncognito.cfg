CONSTANTS
  k1 = k1
  k2 = k2
  s1 = s1
  s2 = s2
  none = none
  list = list
  None = None
  Keys = {k1, k2}
  Servers = {s1, s2}
  ServerOf <- MCServerOf
  Lists <- MCLists
  NoExclusions = none
  TestExcluded = {list}
  Requests = {}
  Tests = {}
  Commands <- NoCommands
  Contested <- ProxyInIncognito
  IncognitoAllowed = TRUE
  Connected = k1
  Budget <- IncognitoBudget
SPECIFICATION FairSpec
PROPERTIES
  Heals
CHECK_DEADLOCK FALSE
