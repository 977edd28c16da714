SPECIFICATION Spec
CONSTANTS
  k1 = k1
  k2 = k2
  expired = expired
  executed = executed
  Calls = {k1, k2}
  Stats = {expired, executed}
  NoStat = NoStat
  NoCard = NoCard
  Nobody = Nobody
  Number <- NumberOf
  Statuses <- TwoStatuses
  Ids = {1, 2, 3}
  Numbers <- TwoNumbers
  MaxStart = 2
  Badge <- BadgeOf
  Views <- TwoViews
  NavMaxRetries = 2
  MaxFaults = 2
INVARIANT FailureIsError
CHECK_DEADLOCK FALSE
