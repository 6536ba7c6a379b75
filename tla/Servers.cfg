\* Two slots and four descriptors for two servers and their streams; the adapter
\* calls its handler either way.
SPECIFICATION FairSpec
CONSTANTS
  NumSlots = 2
  NumFds = 4
  MaxServers = 2
  MaxRequests = 2
  QueueMax = 2
  Dispatches = {"compiled", "declared"}
INVARIANTS
  ServersOwn
  SendFindsServer
PROPERTIES
  AddServed
CHECK_DEADLOCK FALSE
