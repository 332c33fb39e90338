SPECIFICATION Spec
CONSTANTS
  None = None
  s1 = s1
  s2 = s2
  d1 = d1
  d2 = d2
  Stat = {"a", "b"}
  Outputs = {{}, {"a"}, {"a", "b"}}
  Rejected = {}
  Scrape = {s1, s2}
  Describer = {d1}
  MaxTime = 1
  capDescChan = 1
  capMetricChan = 2
INVARIANTS ConcurrencySafe
CHECK_DEADLOCK FALSE
