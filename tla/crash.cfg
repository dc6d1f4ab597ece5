\* Two nodes that mine, of which the first never heard of the second, and a third that joins;
\* datagrams are lost, and the second may stop at any time, with calls to it under way.
CONSTANTS
  n1 = n1  n2 = n2  n3 = n3
  t1 = t1  t2 = t2  t3 = t3
  Nobody = Nobody
  Node = {n1, n2, n3}
  Tx = {t1, t3}
  Client = {t1, t3}
  ClientOf <- OwnClient
  Target <- Split
  Asked = {n1}
  Peer <- JoinSecond
  Mesh = {n1, n2}
  InitialTable <- ConnectLost
  MayStop = {n2}
  Reliable = FALSE
  Slots = 2
  Threshold = 1
  LoyalAt = 5
  InvalidLimit = 1
  Time <- OneSecond
SPECIFICATION Safety
INVARIANTS TypeOK ChainsValid PeersDistinct FollowersServe
PROPERTIES FollowersGrow FollowersRequeue
\* Every process may end.
CHECK_DEADLOCK FALSE
