\* A short message, then one whose length word is larger than any message may be,
\* its first bytes at the end of the first window.
SPECIFICATION Spec
CONSTANTS
  Peek = 2
  Hdr = 3
  MinItf = 4
  ReadBuf = 11
  MaxMsg = 6
  MaxWord = 100
  Headers = {6, 13}
  MaxSent = 2
INVARIANT NoOverrun
CHECK_DEADLOCK FALSE
