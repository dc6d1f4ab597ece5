\* Nodes come up one after the other and connect; one stops, and is started again later.
CONSTANTS
  n1 = n1  n2 = n2  n3 = n3
  Nobody = Nobody
  Node = {n1, n2, n3}
  Participant = {}
  Peer <- JoinInChain
  Mesh = {n1}
  MayStop = {n3}
  MayRestart = {n3}
  Downtime <- UntilForgotten
  Ticks = 1
  Limit = 2
  MaxPeriod = 2
  MaxDelay = 0
  MaxHold = 0
SPECIFICATION Spec
PROPERTIES LivingStay FullMesh DeadLeave
