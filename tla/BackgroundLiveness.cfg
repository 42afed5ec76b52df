CONSTANTS
  k1 = k1
  k2 = k2
  s1 = s1
  s2 = s2
  none = none
  list = list
  None = None
  Keys = {k1, k2}
  Servers = {s1, s2}
  ServerOf <- MCServerOf
  Lists <- MCLists
  NoExclusions = none
  TestExcluded <- MCTestExcluded
  Requests = {}
  Tests = {t1}
  Commands <- AllCommands
  Contested <- Rtc
  IncognitoAllowed = TRUE
  Connected = k1
  Budget <- PopupBudget
  Letters = {"a", "b"}
  Upper = {"B"}
  ToLower <- MCToLower
  Dot = "."
  Hyphen = "-"
  Star = "*"
  MAX_EXCLUSIONS = 2
SPECIFICATION MCSpec
INVARIANTS
  PopupTypeOK
  ViewIsStored
  IpOfShownServer
PROPERTIES
  Settles
  Heals
  PopupUnlocks
CHECK_DEADLOCK FALSE
