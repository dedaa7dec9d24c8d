SPECIFICATION FairSpec
CONSTANTS
  e0 = e0
  e1 = e1
  e2 = e2
  e3 = e3
  bad = bad
  i0 = i0
  i1 = i1
  i2 = i2
  g = g
  q = q
  h1 = h1
  h2 = h2
  s1 = s1
  NoEvent = NoEvent
  Ids = {i0, i1, i2}
  Events <- ApplyEvents
  Malformed = {}
  LineId <- ApplyLineId
  EventKey <- ApplyKey
  EventCost <- ApplyCost
  Days <- ApplyDays
  Groups <- ApplyGroups
  Handlers <- TwoHandlers
  Scanners <- NoScanners
  Grid <- NoGrid
  MaxETagRetries = 2
  BaselineDays = 0
  PctNum = 3
  PctDen = 2
  MinBaselineUSD = 1
  MaxCopies = 1
  MaxScans = 0
  MaxFaults = 1
INVARIANTS TypeOK NoDoubleCount ContentionBound
PROPERTIES ImplementsLedger PublishedIsCounted Drains
CHECK_DEADLOCK FALSE
