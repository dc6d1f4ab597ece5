\* A chain received replaces what is pending.
CONSTANTS
  n1 = n1  n2 = n2  n3 = n3
  t1 = t1  t2 = t2  t3 = t3
  Nobody = Nobody
  Node = {n1, n2}
  Tx = {t1}
  Client = {t1}
  ClientOf <- OwnClient
  Target <- AllToSecond
  Asked = {}
  Peer <- JoinFirst
  Mesh = {n1}
  InitialTable <- FullTables
  MayStop = {}
  Reliable = TRUE
  Slots = 1
  Threshold = 2
  LoyalAt = 5
  InvalidLimit = 2
  Time <- OneSecond
SPECIFICATION Safety
INVARIANTS PaymentsKept
