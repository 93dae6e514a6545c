SPECIFICATION Spec
CONSTANTS
  m1 = m1
  m2 = m2
  m3 = m3
  o1 = o1
  o2 = o2
  price = price
  Messages = {m1}
  Question <- OneQuestion
  Operators = {o1, o2}
  Commands = {"send", "edit", "dismiss", "regenerate"}
  Faults = {"db", "rate", "deliver", "audit"}
  Levels = {3}
  Deliverer = TRUE
  Concurrency = 1
  MaxAttempts = 1
  MaxVersion = 2
  MaxRequests = 2
INVARIANTS AutoSentOnRecord ComposeRaceIsCaught
SYMMETRY Symmetry
CHECK_DEADLOCK FALSE
