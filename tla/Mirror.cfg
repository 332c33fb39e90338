SPECIFICATION FairSpec
CONSTANTS
  PoolCap = 2
  dnsTimeout = 2
  MaxLines = 4
  MaxGap = 5
INVARIANTS TypeOK PoolHoldsQueries ReportsAddUp BlockedBounded
PROPERTIES RateReported
CHECK_DEADLOCK FALSE
