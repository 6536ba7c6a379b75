\* Two connections; each malloc() may fail. A block takes one buffer and its
\* header; send_buf2 fits in a block or is a large object.
SPECIFICATION Spec
CONSTANTS
  Conns = {c1, c2}
  Pieces = {p1, p2, p3}
  PieceSizes = {2}
  MaxBytes = 4
  Header = 1
  Extra = 2
  BufHeader = 1
  LargeRecord = 1
  BlockSizes = {2, 1}
  SendBuf2 = 2
  Blocks = 2
  AddrSize = 1
  UserSizes = {2, 3}
  MaxObjects = 4
  MaxTaken = 11
INVARIANTS
  Apart
  HeapOwned
  PiecesKept
  ChainInOrder
SYMMETRY Symmetry
CHECK_DEADLOCK FALSE
