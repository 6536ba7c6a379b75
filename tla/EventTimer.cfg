CONSTANTS
  Conns = {c1, c2}
  K = 2
  Lazy = 3
  Life = 2
  Half = 3
  MaxTimes = 3
  MaxClock = 5
SPECIFICATION Spec
INVARIANT InTime
PROPERTY NotEarly
