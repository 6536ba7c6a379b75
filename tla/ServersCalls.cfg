\* The adapter calls its handler as the code is compiled.
SPECIFICATION Spec
CONSTANTS
  NumSlots = 2
  NumFds = 4
  MaxServers = 2
  MaxRequests = 2
  QueueMax = 2
  Dispatches = {"compiled"}
INVARIANT RequestsSurvive
CHECK_DEADLOCK FALSE
