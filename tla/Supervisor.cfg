\* Two workers; fork() fails in some behaviours and never in others.
CONSTANTS
  N = 2
  Signals = {"SIGQUIT", "SIGTERM", "SIGWINCH"}
  ForkFails = {TRUE, FALSE}
SPECIFICATION FairSpec
INVARIANTS OneProcessPerSlot ToldWorkersKnow KillsOnlyItsOwn
PROPERTY DeadAreReplaced
