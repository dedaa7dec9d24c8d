SPECIFICATION Spec
CONSTANTS
  downsize = downsize
  delete = delete
  vol = vol
  db = db
  NoRecord = NoRecord
  Instances = {downsize, delete}
  Resources = {vol, db}
  ResourceOf <- OneResource
  MaxEvents = 1
  MaxFaults = 0
CHECK_DEADLOCK FALSE
INVARIANT ShowsOwnDecision
