SPECIFICATION Spec
CONSTANTS
  m1 = m1
  m2 = m2
  m3 = m3
  o1 = o1
  o2 = o2
  price = price
  Messages = {m1}
  Question <- OneQuestion
  Operators = {o1, o2}
  Commands = {"send"}
  Faults = {}
  Levels = {2}
  Deliverer = FALSE
  Concurrency = 1
  MaxAttempts = 1
  MaxVersion = 2
  MaxRequests = 2
INVARIANT OneReplySent
CHECK_DEADLOCK FALSE
