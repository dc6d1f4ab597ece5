\* A table its owner and two others come into and go from.
CONSTANTS
  n1 = n1  n2 = n2  n3 = n3
  Node = {n1, n2, n3}
  Self = n1
  Ticks = 2
  Limit = 2
SPECIFICATION Spec
PROPERTIES ImplementsMap
INVARIANTS TypeOK
