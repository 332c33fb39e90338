SPECIFICATION Spec
CONSTANTS
  Label <- MCLabel
  Field <- MCField
  ZoneLabel = {"zz", "io"}
  NSLabel = {"ns1"}
  NSNumber <- MCNSNumber
  Domain <- MCDomain
  Glued = {"xsrv"}
  MaxInt = 3
  None = None
  Line <- MCLine
  ParseInt <- MCParseInt
  NoNumber = NoNumber
  MaxLabels = 6
  MaxLines = 4
INVARIANTS ZoneNamesTrimmed QuestionsParsed StatsParsed
CHECK_DEADLOCK FALSE
