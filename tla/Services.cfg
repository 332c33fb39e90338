SPECIFICATION Spec
CONSTANTS
  None = None
  r1 = r1
  r2 = r2
  Label <- MCLabel
  Field <- MCField
  ZoneLabel <- MCZone
  NSLabel <- MCNSLabel
  NSNumber <- MCNSNumber
  Domain <- MCDomain
  Glued = {"xsrv"}
  MaxInt = 3
  IP <- MCIP
  RemoteZone = {"aa"}
  Entry = {"e1", "e2", "e3"}
  EntryAttr <- MCEntryAttr
  Member = {}
  MemberAttr <- MCMemberAttr
  Request = {r1}
  Query <- ServiceQueries
  MaxAnswers = 1
INVARIANTS TypeOK FreshAnswers SteadyInstancesFound TruncatedOnlyWhenFull
