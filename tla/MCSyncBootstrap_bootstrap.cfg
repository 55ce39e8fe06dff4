SPECIFICATION BootSpec
CONSTANTS
  d1 = d1  d2 = d2  r1 = r1  r2 = r2
  Device = {d1, d2}
  RecordId = {r1, r2}
  NoVault = NoVault
  PageLimit = 1
  MaxEdits = 4
  MaxMutations = 3
  Faults = {}
  BootFaults = {"network", "storage", "crash"}
SYMMETRY Symmetry
\* Users may stop at the bounds.
CHECK_DEADLOCK FALSE
INVARIANTS EnabledIsServed MetadataComplete
PROPERTY BootNoOverwrite
