SPECIFICATION FairSpec
CONSTANTS
  Attachers = {c1, c2, sw}
  Sweep = sw
  Enders = {d1, d2}
  Owners = {o1, o2}
  Rooms = {r1, r2}
  Scraped = {r1}
  MaxWatchedShows = 2
  MaxScrapedRooms = 1
  MaxSession = 3
  Faults = {"start", "crash"}
  QuickLookups = TRUE
INVARIANTS    StrandedIsReconciled
PROPERTY AttachEnds
CHECK_DEADLOCK FALSE
