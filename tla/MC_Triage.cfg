SPECIFICATION Spec
CONSTANTS
  a = a
  b = b
  p = p
  o = o
  bad = bad
  ia = ia
  ib = ib
  io = io
  h1 = h1
  h2 = h2
  v1 = v1
  NoRequest = NoRequest
  Requests <- AllRequests
  Malformed <- OnlyBad
  FromBroker = {a, b, bad}
  InstanceOf <- InstancesOfAll
  Instances <- AllInstances
  Optimisations <- TheOptimisation
  Handlers <- TwoHandlers
  Readers <- None
  MaxIndexRetries = 2
  ReusesFinished = TRUE
  MaxCopies = 1
  MaxLists = 0
  MaxFaults = 1
SYMMETRY HandlerSymmetry
CHECK_DEADLOCK FALSE
INVARIANT TypeOK
INVARIANT StatsAddUp
INVARIANT IndexInv
PROPERTY ImplementsCatalog
