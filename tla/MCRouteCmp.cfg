SPECIFICATION Spec
CONSTANTS
  Char <- MCChar
  Star = "*"
  Subs <- MCSubs
  Pubs <- MCPubs
CHECK_DEADLOCK FALSE
INVARIANTS
  TypeOK
  MatchesAreGlobMatches
  ExactWhenUnambiguous
PROPERTY
  Returns
