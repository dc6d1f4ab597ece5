\* The chain grows between the check and the swap of another thread.
CONSTANTS
  n1 = n1  n2 = n2  n3 = n3
  t1 = t1  t2 = t2  t3 = t3
  Nobody = Nobody
  Node = {n1, n2}
  Tx = {t1, t2, t3}
  Client = {t1, t2, t3}
  ClientOf <- OwnClient
  Target <- Split
  Asked = {}
  Peer <- NoPeer
  Mesh = {n1, n2}
  InitialTable <- FullTables
  MayStop = {}
  Reliable = TRUE
  Slots = 3
  Threshold = 1
  LoyalAt = 5
  InvalidLimit = 2
  Time <- OneSecond
SPECIFICATION Safety
PROPERTIES NeverShrinks
