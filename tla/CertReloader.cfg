CONSTANTS
  k1 = k1
  k2 = k2
  Certs = {1, 2, 3}
  PrivateKeys = {k1, k2}
  KeyOf <- MCKeyOf
  Handshakes = {h1, h2}
  None = None
  Main = Main
  Unreadable = Unreadable
  MaxWrites = 4
SPECIFICATION FairSpec
INVARIANT TypeOK
PROPERTIES
  PairsAreCompleteAndInOrder
  CatchesUp
CHECK_DEADLOCK FALSE
