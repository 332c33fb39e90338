SPECIFICATION FairSpec
CONSTANTS
  None = None
  r1 = r1
  r2 = r2
  Label <- MCLabel
  Field <- MCField
  ZoneLabel <- MCZone
  NSLabel <- MCNSLabel
  NSNumber <- MCNSNumber
  Domain <- MCDomain
  Glued = {"xsrv"}
  MaxInt = 3
  IP <- MCIP
  RemoteZone = {}
  Entry = {}
  EntryAttr <- MCEntryAttr
  Member = {"m1","m2"}
  MemberAttr <- MCMemberAttr
  Request = {r1, r2}
  Query <- RequestQueries
  MaxAnswers = 1
PROPERTIES OnlyConsulWaits
INVARIANTS NameserverCoherence NoPanic ErrorsAccounted FailuresLogged
