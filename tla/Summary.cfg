SPECIFICATION FairSpec
CONSTANTS
  None = None
  o1 = o1
  o2 = o2
  s1 = s1
  Observer = {o1, o2}
  Scraper = {s1}
  flusher = flusher
  BufCap = 2
  AgeBuckets = 2
  streamDuration = 1
  MaxTime = 4
  MaxObs = 3
INVARIANTS TypeOK ColdBufNeverTwice HotBufHasRoom BusySummaryRelevant
PROPERTIES CountsLikeAtomic EveryCallReturns
CHECK_DEADLOCK FALSE
