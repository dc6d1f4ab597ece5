\* Three connected nodes; the first one takes every payment, of one client that becomes loyal.
CONSTANTS
  n1 = n1  n2 = n2  n3 = n3
  t1 = t1  t2 = t2  t3 = t3
  Nobody = Nobody
  Node = {n1, n2, n3}
  Tx = {t1, t2, t3}
  Client = {"c"}
  ClientOf <- OneClient
  Target <- AllToFirst
  Asked = {n1, n2, n3}
  Peer <- NoPeer
  Mesh = {n1, n2, n3}
  InitialTable <- FullTables
  MayStop = {}
  Reliable = TRUE
  Slots = 3
  Threshold = 2
  LoyalAt = 1
  InvalidLimit = 2
  Time <- OneSecond
  Miner = n1
  Account = {"c", "m1", "m2"}
  NoAccount = ""
  PayeeOf <- ToMiner
  MinerAccount <- MinesFor
  AmountOf <- TenPoints
SPECIFICATION Spec
INVARIANTS PaymentsOnce BlocksFull PendingMined FollowersTrail SharesOwnBlock Agreement BalanceRight
PROPERTIES ImplementsLog
