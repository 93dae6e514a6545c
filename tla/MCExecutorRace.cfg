CONSTANTS
  l1 = l1
  l2 = l2
  q1 = q1
  q2 = q2
  Listings <- MCListings
  Floor <- MCFloor
  Cost <- MCCost
  MaxDiscountPct = 40
  InitialCatalog <- MCInitialCatalog
  Requests = {q1, q2}
  Intents <- ContendingIntents
  Operations = {"propose", "approve", "reject", "rollback"}
  Faults = {"apply", "tx", "db", "crash"}
  ActionBudget = 2
  RatePerMinute = 2
  ReadOnlyShow = FALSE
  MaxVersion = 2
  MaxRequests = 5
SPECIFICATION Spec
INVARIANTS StatusIsBacked AuditIsBacked ReservationsReleased
PROPERTIES ImplementsCommitLedger
CHECK_DEADLOCK FALSE
SYMMETRY Symmetry
