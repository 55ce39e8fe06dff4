SPECIFICATION Spec
CONSTANTS
  d1 = d1  d2 = d2  r1 = r1  r2 = r2
  Device = {d1, d2}
  RecordId = {r1}
  PageLimit = 1
  MaxEdits = 3
  MaxMutations = 2
  Faults = {"network", "storage", "crash"}
SYMMETRY Symmetry
INVARIANTS MetadataComplete
PROPERTIES NoSilentOverwrite PendingKept
