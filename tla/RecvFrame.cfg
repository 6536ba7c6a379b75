\* Three messages against a buffer whose first window holds six bytes, so that
\* messages end at, before and beyond the end of a window.
SPECIFICATION FairSpec
CONSTANTS
  Peek = 2
  Hdr = 3
  MinItf = 4
  ReadBuf = 10
  MaxMsg = 5
  MaxWord = 15
  Headers = {1, 5, 11}
  MaxSent = 3
INVARIANTS
  OverrunByWord
  Aligned
  NothingHeldBack
  StallsAtTheEnd
PROPERTIES
  StreamSpec
  FramedThenClosed
  MessageServed
  EndNoticed
CHECK_DEADLOCK FALSE
