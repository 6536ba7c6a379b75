\* fork() always succeeds.
CONSTANTS
  N = 2
  Signals = {"SIGQUIT", "SIGTERM", "SIGWINCH"}
  ForkFails = {FALSE}
SPECIFICATION FairSpec
PROPERTY QuittersEnd
