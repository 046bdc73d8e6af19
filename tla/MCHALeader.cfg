SPECIFICATION FairSpec
CONSTANTS
  Instance = {p1, p2, p3}
  TTL = 3
  Interval = 1
  MaxFault = 2
  MaxDown = 2
CHECK_DEADLOCK FALSE
INVARIANTS TypeOK LeaderHoldsKey JobRunsOnce
PROPERTIES OneLeaderInTheEnd
