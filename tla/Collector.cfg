SPECIFICATION FairSpec
CONSTANTS
  None = None
  s1 = s1
  s2 = s2
  d1 = d1
  d2 = d2
  Stat = {"a", "b", "bad"}
  Outputs = {{}, {"a"}, {"a", "b"}, {"b", "bad"}}
  Rejected = {"bad"}
  Scrape = {s1, s2}
  Describer = {d1, d2}
  MaxTime = 1
  capDescChan = 1
  capMetricChan = 1
INVARIANTS TypeOK ScrapeComplete RegisteredWhole
PROPERTIES PageAvailable RegisteredInTheEnd
CHECK_DEADLOCK FALSE
