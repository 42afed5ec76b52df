CONSTANTS
  k1 = k1
  k2 = k2
  Certs = {1, 2, 3}
  PrivateKeys = {k1, k2}
  KeyOf <- MCKeyOf
  Handshakes = {check, client}
  HealthCheck = check
  None = None
  Main = Main
  Unreadable = Unreadable
  MaxConfig = 2
  MaxFaults = 1
SPECIFICATION FairSpec
INVARIANTS
  TypeOK
  NeverBehindVerified
  VerifiedUnlessCutOff
PROPERTIES
  VerifiedMeansServed
  LineageIsServed
CHECK_DEADLOCK FALSE
