CONSTANTS
  track = track
  other = other
  wide = wide
  narrow = narrow
  Piece = {track, other}
  Place = {wide, narrow}
  Tight = {narrow}
  Setting <- MCSetting
  MidDrag <- MCMidDrag
  MaxNode = 11
  MaxFrames = 3
  MaxDrags = 3
  MaxLegs = 2
SPECIFICATION Spec
INVARIANTS PiecesWhole CommitLegal CommitsLastGood HandlesLive AbortRestores LegsStand
SYMMETRY Symmetry
CHECK_DEADLOCK FALSE
