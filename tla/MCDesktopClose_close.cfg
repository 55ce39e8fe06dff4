SPECIFICATION FairDesktopSpec
CONSTANTS
  Desktop = TRUE
  MaxSessions = 2
  MaxEdits = 1
  MaxLocks = 2
  MaxCloses = 1
  MaxCopies = 2
\* The page may stop at its bounds, and goes with its window.
CHECK_DEADLOCK FALSE
INVARIANTS ClosedSafely ClipboardRevoked LockedHasNoKey
PROPERTIES LockKeepsSave CloseAnswered
