SPECIFICATION FairSpec
CONSTANTS
  Routes = {empty, topic}
  EmptyRoute = empty
  Matches <- MCMatches
  N = 2
  Cap = 1
  MaxRequests = 4
  MaxTotal = 5
  MaxTimeouts = 1
INVARIANTS
  TypeOK
  MutualWaitTakesMessages
PROPERTIES
  EveryTimeoutSetsTwoBack
  ReadersFreeTheServer
CHECK_DEADLOCK FALSE
