CONSTANTS
  Plans <- MCPlans
SPECIFICATION Spec
INVARIANTS NoStaleHandle FixesStand CommitKeepsFixes HostMatches AbortRestores
PROPERTIES RoutingKeepsFixes LeafWrites
CHECK_DEADLOCK FALSE
