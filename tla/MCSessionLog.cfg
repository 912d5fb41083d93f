CONSTANTS
  p = p
  q = q
  s = s
  h = h
  k = k
  NoPlace = NoPlace
  NoHost = NoHost
  Place <- MCPlace
  Host = {h, k}
  Layer = {0, 1}
  Knob = {1, 2}
  Refused = {s}
  Step <- MCStep
  Target = {s}
  Anchor <- MCAnchor
  Reach <- MCReach
  Shows <- MCShows
  StartAt <- MCStartAt
  MaxCalls = 5
  MaxBlock = 1
SPECIFICATION Spec
INVARIANTS ReplayFollows ReplayReproduces TextRoundTrip
CHECK_DEADLOCK FALSE
