SPECIFICATION Spec
CONSTANTS
  empty = empty
  r1 = r1
  r2 = r2
  r3 = r3
  r4 = r4
  m1 = m1
  m2 = m2
  Routes <- MCRoutes
  EmptyRoute = empty
  Msgs <- MCMsgs
  NoMsg = NoMsg
  FullMsg = FullMsg
  MaxChannels = 3
INVARIANT LastPublishedIsAvailable
