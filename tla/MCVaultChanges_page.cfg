SPECIFICATION ChangesSpec
CONSTANTS
  Desktop = FALSE
  MaxSessions = 2
  MaxEdits = 2
  MaxLocks = 1
  Login = {"ann"}
  NoLogin = "none"
  CsvFiles <- OneFile
  MaxViews = 2
\* The page may stop at its bounds, and goes with its window.
CHECK_DEADLOCK FALSE
INVARIANTS ChangesTypeOK SealsHaveKey ShownIsStored ViewsAreGoodOnce
PROPERTIES UpdatesWhatWasSeen NoChangeReverted
