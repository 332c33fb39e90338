SPECIFICATION FairSpec
CONSTANTS
  MaxQueries = 4
INVARIANTS CountersAgree
PROPERTIES AllPrinted
