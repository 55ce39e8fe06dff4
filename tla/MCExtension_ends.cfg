SPECIFICATION FairSpec
CONSTANTS
  Doc = {"d1"}
  OriginOf <- TwoSites
  Plan <- FillPlan
  MaxActive = 1
  MaxPairings = 2
  MaxEvents = 1
\* Users and pages may stop.
CHECK_DEADLOCK FALSE
PROPERTIES RequestsEnd SessionsEndTogether ImplementsCapability
