CONSTANTS
  map = map
  clone = clone
  exchange = exchange
  NRows = 2
  Maps <- MCMaps
  Own <- MCOwn
  FULL <- MCFull
SPECIFICATION Spec
INVARIANTS TypeOK RepOK
PROPERTIES OnlyFullOverruns ImplementsRowSet
CHECK_DEADLOCK FALSE
