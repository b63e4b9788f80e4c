SPECIFICATION FairSpec
CONSTANTS
  p1 = p1
  p2 = p2
  d1 = d1
  d2 = d2
  empty = empty
  all = all
  log = log
  m1 = m1
  NSlots = 4
  NULL = NULL
  Ducqs <- MCDucqs2
  Peers <- MCPeers2
  NoPeer = NoPeer
  Routes <- MCRoutes1
  EmptyRoute = empty
  LogRoute = empty
  AllowLogRoute = FALSE
  Matches <- MCMatches
  Msgs = {m1}
  NoMsg = NoMsg
  FullMsg = FullMsg
  MaxChannels = 1
  NListeners = 1
  MaxPending = 1
INVARIANT
  WaitsOnlyInsideAFrame
PROPERTIES
  RequestsAreRead
  HangUpsAreNoticed
