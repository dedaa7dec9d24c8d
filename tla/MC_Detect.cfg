SPECIFICATION Spec
CONSTANTS
  e0 = e0
  e1 = e1
  e2 = e2
  e3 = e3
  bad = bad
  i0 = i0
  i1 = i1
  i2 = i2
  g = g
  q = q
  h1 = h1
  h2 = h2
  s1 = s1
  NoEvent = NoEvent
  Ids = {i0, i1, i2}
  Events <- PoisonEvents
  Malformed <- OnlyBad
  LineId <- PoisonLineId
  EventKey <- PoisonKey
  EventCost <- PoisonCost
  Days <- DetectDays
  Groups <- DetectGroups
  Handlers <- TwoHandlers
  Scanners <- OneScanner
  Grid <- DetectGrid
  MaxETagRetries = 2
  BaselineDays = 1
  PctNum = 3
  PctDen = 2
  MinBaselineUSD = 1
  MaxCopies = 1
  MaxScans = 1
  MaxFaults = 1
SYMMETRY Alike
INVARIANTS AnnouncedOnce OverThresholdIsAnnounced
CHECK_DEADLOCK FALSE
