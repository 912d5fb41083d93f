CONSTANTS
  v1 = v1
  v2 = v2
  NoValue = NoValue
  Value <- MCValue
  GenCount = 3
  MaxSlots = 3
  MaxRecycles = 2
SPECIFICATION Spec
PROPERTY RefinesHandleStore
CHECK_DEADLOCK FALSE
