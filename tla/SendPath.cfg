\* A buffer of six bytes before a socket of two; nine bytes are asked for.
SPECIFICATION FairSpec
CONSTANTS
  BufSize = 6
  Room = 2
  Sizes = {0, 1, 2, 3}
  MaxAsked = 9
INVARIANTS
  InOrder
  Armed
PROPERTIES
  Flushed
CHECK_DEADLOCK FALSE
