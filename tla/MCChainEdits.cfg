SPECIFICATION Spec
CONSTANTS
  Turn <- MCTurn
  Straight <- MCStraight
  Lines <- MCLines
  Fillets <- MCFillets
  Points <- MCPoints
  AnyCut = FALSE
  MaxEdits = 2
  MaxPoints = 10
INVARIANTS
  Sound ShapesAreItems BoardKeepsLine SlicesKeepItems
CHECK_DEADLOCK FALSE
