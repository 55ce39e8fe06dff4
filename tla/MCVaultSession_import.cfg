SPECIFICATION Spec
CONSTANTS
  Desktop = FALSE
  MaxSessions = 2
  MaxEdits = 1
  MaxLocks = 1
\* The page may stop at its bounds, and goes with its window.
CHECK_DEADLOCK FALSE
INVARIANT ImportKept
