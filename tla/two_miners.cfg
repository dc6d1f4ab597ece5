\* A node joins another; both mine: blocks and chains cross, chains fork, handlers throw.
CONSTANTS
  n1 = n1  n2 = n2  n3 = n3
  t1 = t1  t2 = t2  t3 = t3
  Nobody = Nobody
  Node = {n1, n2}
  Tx = {t1, t2}
  Client = {t1, t2}
  ClientOf <- OwnClient
  Target <- Shared
  Asked = {n1, n2}
  Peer <- JoinFirst
  Mesh = {n1}
  InitialTable <- FullTables
  MayStop = {}
  Reliable = TRUE
  Slots = 2
  Threshold = 1
  LoyalAt = 5
  InvalidLimit = 2
  Time <- OneSecond
SPECIFICATION Spec
INVARIANTS MutualExclusion ChainsValid
PROPERTIES ThreadsEnd CallsReturn BalanceAnswered
\* Both processes may end.
CHECK_DEADLOCK FALSE
