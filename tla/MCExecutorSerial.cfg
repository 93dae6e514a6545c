CONSTANTS
  l1 = l1
  l2 = l2
  q1 = q1
  q2 = q2
  Listings <- MCListings
  Floor <- MCFloor
  Cost <- MCCost
  MaxDiscountPct = 40
  InitialCatalog <- MCInitialCatalog
  Requests = {q1}
  Intents <- OneLotIntents
  Operations = {"propose", "approve", "reject", "rollback"}
  Faults = {"apply", "tx", "compensate", "audit"}
  ActionBudget = 2
  RatePerMinute = 2
  ReadOnlyShow = FALSE
  MaxVersion = 2
  MaxRequests = 4
SPECIFICATION FairSpec
INVARIANTS TypeOK SidesAgree
PROPERTIES LandsOnPlannedVersion CommittingEnds
CHECK_DEADLOCK FALSE
