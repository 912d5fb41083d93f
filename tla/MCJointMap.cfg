CONSTANTS
  v = v w = w t0 = t0 t1 = t1 t2 = t2 r = r m = m n = n
  Item = {v, t0, t1}
  Through = {v}
  Layers <- LayersOf
  Node = {r, m, n}
  Root = r
  MaxLayer = 2
  MaxJoints = 2
SPECIFICATION Spec
INVARIANTS LayersDisjoint JointsHoldItems
PROPERTY SplitsPerLayer
SYMMETRY Branches
