SPECIFICATION FairSpec
CONSTANTS
  None = None
  c1 = c1
  c2 = c2
  Conn = {c1, c2}
  Sends <- MCSends
  MaxQueries = 1
  MaxMsgs <- MCMaxMsgs
  SendBuf = 1
INVARIANTS TypeOK AnswersInOrder
PROPERTIES FirstAnswered ConnectionsReleased
CHECK_DEADLOCK FALSE
