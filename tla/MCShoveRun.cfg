CONSTANTS
  NHeads = 2
  NTracks = 5
  NVias = 3
  End <- MCEnd
  Net <- MCNet
  HeadVias = {6}
  DragVias = {7}
  Locked = {5}
  ViaLines = FALSE
  HeadRank = 20
  Promotion = 10
  MaxIter = 5
SPECIFICATION Spec
INVARIANTS StackStands NothingLost HeadsReported
CHECK_DEADLOCK FALSE
