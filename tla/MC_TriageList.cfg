SPECIFICATION FairSpec
CONSTANTS
  a = a
  b = b
  p = p
  o = o
  bad = bad
  ia = ia
  ib = ib
  io = io
  h1 = h1
  h2 = h2
  v1 = v1
  NoRequest = NoRequest
  Requests <- FewRequests
  Malformed <- None
  FromBroker = {a}
  InstanceOf <- InstancesOfFew
  Instances <- FewInstances
  Optimisations <- TheOptimisation
  Handlers <- TwoHandlers
  Readers <- OneReader
  MaxIndexRetries = 2
  ReusesFinished = TRUE
  MaxCopies = 1
  MaxLists = 1
  MaxFaults = 1
CHECK_DEADLOCK FALSE
INVARIANT ListIsFaithful
PROPERTY AnomalyIsScheduled
