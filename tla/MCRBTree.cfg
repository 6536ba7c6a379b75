\* Six nodes, two pairs of equal keys among them; without symmetry, which the
\* liveness property does not allow.
CONSTANTS
  a1 = a1
  a2 = a2
  b1 = b1
  b2 = b2
  c = c
  d = d
  Nodes = {a1, a2, b1, b2, c, d}
  KeyOf <- MCKeyOf
  Nil = nil
  Null = null
SPECIFICATION TreeSpec
INVARIANTS KeepsOrder Balanced LinksBack
PROPERTY OperationsEnd
