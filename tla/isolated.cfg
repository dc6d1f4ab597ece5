\* A participant asks a node for a balance while it mines for three seconds.
CONSTANTS
  n1 = n1  n2 = n2  n3 = n3
  Nobody = Nobody
  Node = {n1, n2}
  Participant = {"p"}
  Peer <- NoPeer
  Mesh = {n1, n2}
  MayStop = {}
  MayRestart = {}
  Downtime = 0
  Ticks = 1
  Limit = 2
  MaxPeriod = 1
  MaxDelay = 0
  MaxHold = 3
SPECIFICATION Spec
PROPERTIES FullMesh
