SPECIFICATION Spec
CONSTANTS
  Points <- MCPoints
  Starts <- MCStarts
  Corners <- MCCorners
  Targets <- MCTargets
  Pads <- MCPads
  Hull <- MCHull
  MaxMoves = 3
  MaxFixes = 1
  PassLimit = 64
INVARIANTS
  OneLine CursorReached
PROPERTY PassesShrink
CHECK_DEADLOCK FALSE
