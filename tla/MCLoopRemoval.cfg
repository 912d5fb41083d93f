SPECIFICATION Spec
CONSTANTS
  Points <- MCPoints
  Pads <- MCPads
  Starts <- MCStarts
  Boards <- MCBoards
  MaxLegs = 1
  MaxMoves = 1
INVARIANTS
  StaysConnected LoopsGo LockedStay
CHECK_DEADLOCK FALSE
