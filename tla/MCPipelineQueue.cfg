SPECIFICATION FairSpec
CONSTANTS
  m1 = m1
  m2 = m2
  m3 = m3
  o1 = o1
  o2 = o2
  price = price
  Messages = {m1, m2, m3}
  Question <- OneQuestion
  Operators = {}
  Commands = {"stop"}
  Faults = {"db", "rate", "deliver", "audit"}
  Levels = {3}
  Deliverer = TRUE
  Concurrency = 2
  MaxAttempts = 1
  MaxVersion = 1
  MaxRequests = 0
INVARIANTS TypeOK SlotsHeld StopDrains
PROPERTY QueueDrains
CHECK_DEADLOCK FALSE
