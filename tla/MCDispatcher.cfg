SPECIFICATION Spec
CONSTANTS
  f1 = f1
  f2 = f2
  a = a
  b = b
  c1 = c1
  c2 = c2
  NoWd = NoWd
  Lscmd = Lscmd
  Missing = Missing
  Scripts <- MCScripts
  Installed <- MCInstalled
  Becomes <- MCBecomes
  CommandOf <- MCCommandOf
  Objects <- MCObjects
  MAX_EXTENSIONS = 2
  LUA_MINSTACK = 9
  QueueMax = 2
  MaxSteps = 3
INVARIANTS
  TypeOK
  FreshOrPending
  RunsWhatWasAsked
PROPERTY
  OnlyLuaLookupsLeak
CHECK_DEADLOCK FALSE
