SPECIFICATION FairSpec
CONSTANTS
  t1 = t1
  t2 = t2
  r1 = r1
  odd = odd
  None = None
  Threads = {t1, t2}
  Requests = {r1, odd}
  Unrenderable = {odd}
  InboxMax = 3
  PageSize = 2
  MaxRequests = 6
  MaxFaults = 1
CHECK_DEADLOCK FALSE
INVARIANT TypeOK
INVARIANT StatsMatchEntries
INVARIANT InboxIsNewest
PROPERTY ListingIsCurrent
PROPERTY CallsEnd
