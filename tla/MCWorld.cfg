CONSTANTS
  r = r
  n1 = n1
  n2 = n2
  n3 = n3
  a = a
  b = b
  p = p
  h = h
  Root = r
  Node <- MCNode
  Item <- MCItem
  Body <- MCBody
  Drill <- MCDrill
SPECIFICATION Spec
INVARIANTS NothingStale
PROPERTY RefinesWorldCopies
SYMMETRY Symmetry
CHECK_DEADLOCK FALSE
