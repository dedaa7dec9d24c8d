SPECIFICATION FairSpec
CONSTANTS
  w1 = w1
  Instances = {w1}
  Limits = {0, 1, 2}
  MaxAcks = 2
  MaxFaults = 2
  MaxRedeploys = 2
CHECK_DEADLOCK FALSE
INVARIANT TypeOK
INVARIANT OutcomeIsExact
INVARIANT WorkflowInv
INVARIANT NaggingIsBounded
PROPERTY InTimeAckWins
PROPERTY Terminates
