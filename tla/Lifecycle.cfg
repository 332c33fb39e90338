SPECIFICATION FairSpec
CONSTANTS
  cap = 1
PROPERTIES FailureEndsProcess SignalsHeard
CHECK_DEADLOCK FALSE
