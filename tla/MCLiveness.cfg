SPECIFICATION AllSpec
CONSTANTS
  w1 = w1
  w2 = w2
  e1 = e1
  e2 = e2
  Writers = {w1, w2}
  Entries = {e1, e2}
  MaxRows = 3
  EditorActive = TRUE
INVARIANTS AllTypeOK ChainIntact NoAppendLostToRace EditReported ReportIsWhole
PROPERTIES AppendsEnd SilenceIsTold  OrphansAreReaped  StaleIsRepaired
CHECK_DEADLOCK FALSE
