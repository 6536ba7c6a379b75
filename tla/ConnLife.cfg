\* A listener and three connection slots, but two descriptors for five clients:
\* accept4 runs out of descriptors, the pool runs out of slots behind leaked ones,
\* every allocation may fail, and requests to send reach the loop between the
\* events of a batch. The loop may crash, and then it stops.
SPECIFICATION FairSpec
CONSTANTS
  NumSlots = 4
  ListenFd = 3
  Fds = {4, 5}
  MaxClients = 5
  Faults = {"pool", "send_buf2", "sockaddr"}
INVARIANTS
  PoolConserved
  FdOwned
  TimersBelong
  AppView
  NoStaleEvent
PROPERTIES
  ClosePaired
  ListenerKept
  BacklogServed
CHECK_DEADLOCK FALSE
