CONSTANTS
  MaxItem = 6
  Host = {h1, h2, h3}
  NoHost = NoHost
  Prompt = TRUE
SPECIFICATION Spec
INVARIANTS HostAgrees
PROPERTY IdentityKept
SYMMETRY Ids
CHECK_DEADLOCK FALSE
