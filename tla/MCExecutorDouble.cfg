CONSTANTS
  l1 = l1
  l2 = l2
  q1 = q1
  q2 = q2
  Listings <- MCListings
  Floor <- MCFloor
  Cost <- MCCost
  MaxDiscountPct = 40
  InitialCatalog <- MCInitialCatalog
  Requests = {q1, q2}
  Intents <- OneMarkdown
  Operations = {"propose", "approve"}
  Faults = {}
  ActionBudget = 3
  RatePerMinute = 6
  ReadOnlyShow = FALSE
  MaxVersion = 2
  MaxRequests = 3
SPECIFICATION Spec
INVARIANT SidesAgree
CHECK_DEADLOCK FALSE
