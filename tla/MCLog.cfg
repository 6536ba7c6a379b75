\* Two threads on two logs; a file is full with its second entry, and the
\* numbers of the files come back after two.
SPECIFICATION Spec
CONSTANTS
  Threads = {app, loop}
  Order <- MCOrder
  LimitSize = 1
  LimitNo = 1
  Modes = {"cycle", "time"}
  NumFds = 4
  EntrySizes = {1}
  MaxCalls = 3
  MaxStamp = 1
  Widths <- MCWidths
SYMMETRY Alike
INVARIANTS
  Kept
  DescriptorsOwned
  OverIsTurned
  NumbersReadBack
CHECK_DEADLOCK FALSE
