SPECIFICATION PipelineSpec
CONSTANTS
  l1 = l1
  l2 = l2
  fixed = fixed
  blank = blank
  garbled = garbled
  untagged = untagged
  unknown = unknown
  long = long
  i1 = i1
  i2 = i2
  b1 = b1
  b2 = b2
  cc1 = cc1
  cc2 = cc2
  cc3 = cc3
  t1 = t1
  t2 = t2
  ec2 = ec2
  h1 = h1
  h2 = h2
  r1 = r1
  r2 = r2
  NoTag = NoTag
  NoBody = NoBody
  NoLine = NoLine
  Lines <- AllLines
  Blank = {blank}
  Garbled = {garbled}
  TooLong = {long}
  Ids = {i1, i2}
  ItemId <- ItemIds
  CenterOf <- Tags
  SeedFile <- SeedOrder
  Batch <- MixedBatches
  Handlers = {h1, h2}
  MaxPosts = 1
  MaxFaults = 1
  DayOf <- OneDay
  ServiceOf <- OneService
  CostUSD <- Cents
  TeamOf <- Teams
  Subscribers = {r1, r2}
  MaxETagRetries = 1
  MaxRollupFaults = 0
CHECK_DEADLOCK FALSE
INVARIANT TypeOK
INVARIANT EveryLineIsAccountedFor
INVARIANT UnmappedIsUnowned
INVARIANT CountedIsBacked
PROPERTY RequestsEnd
INVARIANT CleanBatchIsCounted
