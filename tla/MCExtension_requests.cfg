SPECIFICATION Spec
CONSTANTS
  Doc = {"d1", "d2", "d3"}
  OriginOf <- TwoSites
  Plan <- MixedPlan
  MaxActive = 2
  MaxPairings = 1
  MaxEvents = 1
\* Users and pages may stop.
CHECK_DEADLOCK FALSE
INVARIANT HeldIsLive
PROPERTY ImplementsCapability
