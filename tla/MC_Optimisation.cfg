SPECIFICATION FairSpec
CONSTANTS
  downsize = downsize
  delete = delete
  vol = vol
  db = db
  NoRecord = NoRecord
  Instances = {downsize, delete}
  Resources = {vol, db}
  ResourceOf <- OneResource
  MaxEvents = 2
  MaxFaults = 1
CHECK_DEADLOCK FALSE
INVARIANT TypeOK
INVARIANT DecidedByRequest
INVARIANT RecordIsADecision
PROPERTY DecisionIsFinal
PROPERTY Terminates
