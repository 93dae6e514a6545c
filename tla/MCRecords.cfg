SPECIFICATION AllSpec
CONSTANTS
  w1 = w1
  w2 = w2
  d1 = d1
  d2 = d2
  Writers = {w1, w2}
  Refreshing = {w1}
  Drafts = {d1}
  Faults = {"tx", "db"}
  MaxWrites = 2
INVARIANTS AllTypeOK HandedOverOnce  TakenAwayStays WithinBudget NothingIsDropped  QuietIndexIsExact WhatPassedHolds
PROPERTIES NothingGoesBack
CHECK_DEADLOCK FALSE
