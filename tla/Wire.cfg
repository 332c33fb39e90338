SPECIFICATION FairSpec
CONSTANTS
  B = 16
  dot = 7
  Header = 56
  PtrLimit = 10
  Replies <- AgentReplies
  Messages <- AllMessages
INVARIANTS TypeOK RoundTrip BufferSuffices
PROPERTIES UnpackEnds
CHECK_DEADLOCK FALSE
