SPECIFICATION FairSpec
CONSTANTS
  Edits = 4
  MaxEdits = 4
  MaxSessions = 2
  MaxEntries = 3
  MaxSequence = 3
  Envelope <- MCEnvelope
\* The app may be closed at any time.
CHECK_DEADLOCK FALSE
INVARIANTS MobileTypeOK SavesDurable UnlockedIsNewest OneVault ForeignKept KeysGoAtOnce
PROPERTIES RemovalIsCurrent BusyEnds
