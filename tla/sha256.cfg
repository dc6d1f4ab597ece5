\* A message given at once, as sha256() does, or in pieces of any length.
CONSTANTS
  BLOCK_SIZE = 64
  Pieces <- EveryLength
  Longest = 260
SPECIFICATION Spec
INVARIANTS TypeOK NothingLost HashesPadded
CHECK_DEADLOCK FALSE
