\* Two connected nodes, one of which may stop; a participant asks while a block is mined.
CONSTANTS
  n1 = n1  n2 = n2  n3 = n3
  Nobody = Nobody
  Node = {n1, n2}
  Participant = {"p"}
  Peer <- NoPeer
  Mesh = {n1, n2}
  MayStop = {n2}
  MayRestart = {}
  Downtime = 0
  Ticks = 4
  Limit = 2
  MaxPeriod = 5
  MaxDelay = 1
  MaxHold = 1
SPECIFICATION Safety
INVARIANTS TypeOK DeadForgotten QuestionsAnswered
PROPERTIES LivingStay
